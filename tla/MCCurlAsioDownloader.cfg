SPECIFICATION FairSpec
CONSTANTS
  Download = {d1, d2}
  Fd = {5}
  NoDownload = NoDownload
  NoEvent = NoEvent
  MaxWaits = 2
INVARIANTS
  TypeOK
  WatchKept
  TransferTimed
  MessagesRead
  TimerStaysDestroyed
  NoHandlerThrows
PROPERTIES
  ImplementsDownloader
  EveryDownloadEnds
