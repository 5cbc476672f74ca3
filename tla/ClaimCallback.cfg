SPECIFICATION Spec
CONSTANTS
  Download = {d1, d2}
  Fd = {5}
  NoDownload = NoDownload
  NoEvent = NoEvent
  MaxWaits = 2
PROPERTIES
  NoCallbackOnDestruction
