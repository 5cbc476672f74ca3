------------------------------ MODULE Transfer ------------------------------
(***************************************************************************)
(* DownloadManager::Pimpl and HeaderHandler: one manager, the transfers it *)
(* is used for one after the other, and what it reports of each.           *)
(*                                                                         *)
(* libcurl passes the header to headerCb a line at a time, ended by CRLF   *)
(* or by LF alone, and the body in chunks to writeCb; lines that follow    *)
(* the body are trailers.  An answer of HTTP/0.9 has a body only.  A       *)
(* callback that does not accept all its bytes ends the transfer with an   *)
(* error.  Any transfer may also end with an error of libcurl's own.       *)
(*                                                                         *)
(* For HeaderHandler only CRLF ends a line: what comes before it is one    *)
(* line, however many LF are in it and however many calls brought it.      *)
(* Header text is a sequence of such lines, of which the last may not have *)
(* ended yet.  A line is reduced to what process makes of its beginning,   *)
(* where the matches are anchored.  From the second line of a buffer on,   *)
(* substr is given the end for a length, so that the line is followed by   *)
(* text of the next ones; only the charset, which is left out, could tell. *)
(***************************************************************************)
EXTENDS Sequences, Integers, SequencesExt

CONSTANTS
  MaxContentLength,  \* m_maxContentLength
  ChunkSize,         \* the sizes of the chunks a body comes in
  MaxHeader,         \* bound: the lines of a header
  MaxBody,           \* bound: the bytes of a body
  Uses               \* bound: how many transfers are begun

ASSUME TransferAssumption ==
  /\ MaxContentLength \in Nat
  /\ ChunkSize \subseteq Nat
  /\ MaxHeader \in Nat /\ MaxBody \in Nat /\ Uses \in Nat

StatusLine == {"2xx", "otherStatus", "notHttp11"}
TypeLine == {"accepted", "rejected"}  \* what m_mediaTypeValidator says of it
Line == StatusLine \cup TypeLine \cup {"otherField"}
Text == [line : Line, ended : BOOLEAN]  \* ended: by CRLF

Reason == {"status", "statusLine", "mediaType", "length"}

VARIABLES
  header,        \* the header handler: its m_buffer, m_state and m_mediaType
  m_content,     \* the length of the content
  m_errorStream, \* the reasons written to it
  result,        \* the last DownloadResult, or none
  transfer,      \* libcurl: where it is in the transfer; "released" when
                 \* the handle has been taken out, "gone" without a manager
  used,          \* how many transfers have been begun
  lines,         \* history: the header text of this transfer
  body,          \* history: the bytes of body that came
  failure        \* history: libcurl has met an error of its own

manager == <<header, m_content, m_errorStream>>
history == <<used, lines, body, failure>>
vars == <<manager, result, transfer, history>>

NewHeader ==
  [m_buffer |-> <<>>, m_state |-> "READING_STATUS_LINE", m_mediaType |-> "none"]

Init ==
  /\ header = NewHeader
  /\ m_content = 0 /\ m_errorStream = {}
  /\ result = {}
  /\ transfer = "gone"
  /\ used = 0 /\ lines = <<>> /\ body = 0 /\ failure = FALSE

-----------------------------------------------------------------------------
(* HeaderHandler *)

(* What follows the last CRLF of the text: nothing, or a line not ended.   *)
Rest(string) ==
  IF string = <<>> \/ Last(string).ended THEN <<>> ELSE <<Last(string)>>

(* append: text that comes after a line not ended goes on with that line.  *)
Appended(string, text) ==
  IF Rest(string) = <<>> THEN Append(string, text)
  ELSE [string EXCEPT ![Len(string)].ended = text.ended]

(* What process makes of a line: the state and media type after it, and    *)
(* the reason not to go on, if any.                                        *)
Processed(state, mediaType, reasons) ==
  [m_state |-> state, m_mediaType |-> mediaType, reasons |-> reasons]

Process(h, line) ==
  CASE h.m_state = "READING_STATUS_LINE" ->
         IF line = "2xx"
         THEN Processed("READING_HEADER_FIELDS", h.m_mediaType, {})
         ELSE Processed("FINISHED", h.m_mediaType,
                {IF line = "otherStatus" THEN "status" ELSE "statusLine"})
    [] h.m_state = "READING_HEADER_FIELDS" ->
         IF line \in TypeLine
         THEN Processed("FINISHED", line,
                        IF line = "accepted" THEN {} ELSE {"mediaType"})
         ELSE Processed("READING_HEADER_FIELDS", "none", {})
    [] OTHER -> Processed("FINISHED", h.m_mediaType, {})

(* The loop of operator(): every line that has ended, until one says not   *)
(* to go on.                                                               *)
HandleLines(h) ==
  LET step(sofar, text) ==
        IF sofar.reasons # {} \/ ~text.ended
        THEN sofar ELSE Process(sofar, text.line)
  IN  FoldLeft(step, Processed(h.m_state, h.m_mediaType, {}), h.m_buffer)

-----------------------------------------------------------------------------
(* The callbacks of libcurl *)

Running == transfer \in {"header", "body", "trailer"}

(* operator() erases the lines it has handled only when it goes on.  A     *)
(* header begins with a status line; what follows it may be anything.      *)
HeaderCb(text) ==
  /\ Running /\ Len(lines) < MaxHeader
  /\ lines = <<>> => transfer = "header" /\ text.line \in StatusLine
  /\ lines' = Appended(lines, text)
  /\ LET buffer == Appended(header.m_buffer, text)
         h == HandleLines([header EXCEPT !.m_buffer = buffer])
     IN /\ header' = [m_buffer |-> IF h.reasons = {} THEN Rest(buffer)
                                   ELSE buffer,
                      m_state |-> h.m_state, m_mediaType |-> h.m_mediaType]
        /\ m_errorStream' = m_errorStream \cup h.reasons
        /\ transfer' = IF h.reasons # {} THEN "aborted"
                       ELSE IF transfer = "body" THEN "trailer" ELSE transfer
  /\ UNCHANGED <<m_content, result, used, body, failure>>

(* Mutant: the length is tested before the chunk only. *)
FitsBefore(size) == m_content < MaxContentLength
Fits(size) == m_content + size <= MaxContentLength

WriteCb(size) ==
  /\ transfer \in {"header", "body"}
  /\ body + size <= MaxBody
  /\ body' = body + size
  /\ IF Fits(size)
     THEN /\ m_content' = m_content + size
          /\ transfer' = "body"
          /\ UNCHANGED m_errorStream
     ELSE /\ m_errorStream' = m_errorStream \cup {"length"}
          /\ transfer' = "aborted"
          /\ UNCHANGED m_content
  /\ UNCHANGED <<header, result, used, lines, failure>>

(* libcurl gives the transfer up: a time-out, a lost connection. *)
CurlFails ==
  /\ Running
  /\ transfer' = "aborted" /\ failure' = TRUE
  /\ UNCHANGED <<manager, result, used, lines, body>>

-----------------------------------------------------------------------------
(* DownloadManager *)

(* finish: libcurl has ended the transfer, which is a success when no      *)
(* error ended it, whether or not a header came; the content is moved into *)
(* the result.                                                             *)
Finish ==
  /\ Running \/ transfer = "aborted"
  /\ result' = {[content |-> m_content, mediaType |-> header.m_mediaType,
                 success |-> transfer # "aborted", reasons |-> m_errorStream]}
  /\ m_content' = 0
  /\ transfer' = "done"
  /\ UNCHANGED <<header, m_errorStream, history>>

(* A transfer begins: nothing is kept of the last one. *)
Begin(newHeader) ==
  /\ used < Uses
  /\ header' = newHeader
  /\ m_content' = 0 /\ m_errorStream' = {}
  /\ transfer' = "header"
  /\ used' = used + 1
  /\ lines' = <<>> /\ body' = 0 /\ failure' = FALSE

Construct == transfer = "gone" /\ Begin(NewHeader) /\ result' = {}

(* Mutant: HeaderHandler::reuse keeps the buffer. *)
ReusedWithBuffer == [NewHeader EXCEPT !.m_buffer = header.m_buffer]
ReusedHeader == NewHeader

(* reuse: the handle is taken out of the multi handle, whatever became of  *)
(* the last transfer, given the next URL and put back.                     *)
Reuse ==
  /\ transfer \notin {"gone", "released"}
  /\ Begin(ReusedHeader)
  /\ UNCHANGED result

(* The handle is out when the next URL or the multi handle is refused; the *)
(* exception leaves it so, and every later call throws at once.            *)
ReuseFails ==
  /\ transfer \notin {"gone", "released"}
  /\ transfer' = "released"
  /\ UNCHANGED <<manager, result, history>>

Destroy ==
  /\ transfer # "gone"
  /\ transfer' = "gone"
  /\ UNCHANGED <<manager, result, history>>

(* What libcurl may do with the transfer at any time. *)
LibcurlStep ==
  \/ \E text \in Text : HeaderCb(text)
  \/ \E size \in ChunkSize : WriteCb(size)
  \/ CurlFails
  \/ Finish

Next == LibcurlStep \/ Construct \/ Reuse \/ ReuseFails \/ Destroy

Spec == Init /\ [][Next]_vars

-----------------------------------------------------------------------------
State == {"READING_STATUS_LINE", "READING_HEADER_FIELDS", "FINISHED"}
MediaType == TypeLine \cup {"none"}
Result == [content : 0..MaxContentLength, mediaType : MediaType,
           success : BOOLEAN, reasons : SUBSET Reason]

TypeOK ==
  /\ header \in [m_buffer : Seq(Text), m_state : State, m_mediaType : MediaType]
  /\ m_content \in 0..MaxContentLength
  /\ m_errorStream \subseteq Reason
  /\ result = {} \/ \E r \in Result : result = {r}
  /\ transfer \in {"header", "body", "trailer", "aborted", "done",
                  "released", "gone"}
  /\ used \in 0..Uses
  /\ lines \in Seq(Text) /\ body \in 0..MaxBody /\ failure \in BOOLEAN

(* What the response says in the lines that CRLF ends, however they came.  *)
StatusRead == lines # <<>> /\ Head(lines).ended
TypesAt == {i \in DOMAIN lines : lines[i].ended /\ lines[i].line \in TypeLine}
SentType ==
  IF StatusRead /\ Head(lines).line = "2xx" /\ TypesAt # {}
  THEN lines[Min(TypesAt)].line ELSE "none"
Wanted == StatusRead => Head(lines).line = "2xx" /\ SentType # "rejected"

(***************************************************************************)
(* The result of a transfer follows from its own response alone, also when *)
(* the manager was used before and that transfer was cut short, in a line  *)
(* of its header too: a success exactly when the status and the first      *)
(* media type of the lines ended by CRLF were wanted, the body fits and    *)
(* libcurl met no error, and then whole and without a reason.  A response  *)
(* whose status line does not end in CRLF, or that has no header, is       *)
(* wanted whatever it is: the code checks nothing of it.                   *)
(***************************************************************************)
ResultTellsResponse ==
  transfer = "done" =>
    \A r \in result :
      /\ r.success <=> Wanted /\ body <= MaxContentLength /\ ~failure
      /\ r.success => r.content = body /\ r.reasons = {}
      /\ r.content <= body
      /\ r.mediaType = SentType
=============================================================================
