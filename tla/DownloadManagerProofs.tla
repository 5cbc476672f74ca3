------------------------ MODULE DownloadManagerProofs ------------------------
(***************************************************************************)
(* Proofs about DownloadManager and Transfer, for any objects, addresses,  *)
(* sizes and any number of reuses: a Pimpl is deleted once, libcurl holds  *)
(* handles of the living only, and a result tells its own response.        *)
(***************************************************************************)
EXTENDS DownloadManager, FiniteSetTheorems, WellFoundedInduction, TLAPS

-----------------------------------------------------------------------------
(* The inductive invariant of a transfer *)

(* The lines are those the header handler has been given. *)
Following == transfer \in {"header", "body", "trailer", "aborted", "done"}

(* Only the last line may not have ended, and the first tells the status.  *)
CutByCrlf ==
  /\ \A i \in DOMAIN lines : i < Len(lines) => lines[i].ended
  /\ lines # <<>> => Head(lines).line \in StatusLine

(* Where the header handler is follows from the lines, however they came.  *)
HeaderFollows ==
  Following =>
    /\ header.m_mediaType = SentType
    /\ header.m_state =
         IF ~StatusRead THEN "READING_STATUS_LINE"
         ELSE IF Head(lines).line = "2xx" /\ TypesAt = {}
              THEN "READING_HEADER_FIELDS" ELSE "FINISHED"

(* A transfer goes on only while nothing is wrong with it, and then the    *)
(* buffer carries over what follows the last CRLF.                         *)
RunsWell ==
  Running =>
    /\ header.m_buffer = Rest(lines) /\ m_errorStream = {} /\ ~failure
    /\ m_content = body
    /\ Wanted

(* It is ended for a reason the response shows. *)
EndedForReason ==
  transfer = "aborted" =>
    /\ m_content <= body
    /\ failure \/ body > MaxContentLength \/ ~Wanted

TransferInv ==
  /\ TypeOK /\ CutByCrlf /\ HeaderFollows /\ RunsWell /\ EndedForReason
  /\ ResultTellsResponse

-----------------------------------------------------------------------------
(* The inductive invariant of the objects *)

(* No two objects point to the same Pimpl, each points to a living one, or *)
(* to none, and a living one is pointed to.                                *)
PointersUnique ==
  /\ pimpls \subseteq Address
  /\ m_pimpl \in [Object -> pimpls \cup {NullPtr, NoObject}]
  /\ \A p \in pimpls : \E o \in Object : m_pimpl[o] = p
  /\ \A o, u \in Object : m_pimpl[o] = m_pimpl[u] /\ m_pimpl[o] \in pimpls => o = u

IInv == TransferInv /\ PointersUnique /\ HandlesLive

-----------------------------------------------------------------------------
(* Lemmas about the lines of a header *)

(* When the buffer holds one line the fold over it is one call of process, *)
(* or none when the line has not ended.                                    *)
LEMMA HandleOneLine ==
  ASSUME NEW h, NEW text \in Text, h.m_buffer = <<text>>
  PROVE  HandleLines(h) =
           LET start == Processed(h.m_state, h.m_mediaType, {})
           IN  IF text.ended THEN Process(start, text.line) ELSE start
<1> DEFINE start == Processed(h.m_state, h.m_mediaType, {})
           Step(sofar, t) == IF sofar.reasons # {} \/ ~t.ended
                             THEN sofar ELSE Process(sofar, t.line)
           After(f, s) == IF s = {} THEN start
                          ELSE Step(f[s \ {Max(s)}], h.m_buffer[Max(s)])
           Follows(f, S) == f = [s \in SUBSET S |-> After(f, s)]
           both == [s \in SUBSET {1} |-> IF s = {} THEN start ELSE Step(start, text)]
           iter == CHOOSE f : Follows(f, {1})
<1>1. DOMAIN h.m_buffer = {1}
  OBVIOUS
<1>2. HandleLines(h) = (CHOOSE f : Follows(f, DOMAIN h.m_buffer))[DOMAIN h.m_buffer]
  BY DEF HandleLines, FoldLeft, MapThenFoldSet
<1>3. Max({1}) = 1
  BY DEF Max
<1>4. Follows(both, {1})
  <2> SUFFICES ASSUME NEW s \in SUBSET {1} PROVE both[s] = After(both, s)
    OBVIOUS
  <2>1. CASE s = {}
    BY <2>1
  <2>2. CASE s = {1}
    <3>1. s \ {Max(s)} = {} /\ h.m_buffer[Max(s)] = text
      BY <2>2, <1>3
    <3> HIDE DEF Step
    <3> QED
      BY <3>1, <2>2
  <2> QED
    BY <2>1, <2>2
<1>5. Follows(iter, {1})
  <2> HIDE DEF Follows, both
  <2> QED
    BY <1>4
<1>6. iter[{}] = start
  BY <1>5
<1>7. iter[{1}] = Step(start, text)
  <2>1. iter[{1}] = After(iter, {1})
    <3> HIDE DEF After, iter
    <3> QED
      BY <1>5
  <2>2. {1} \ {Max({1})} = {} /\ h.m_buffer[Max({1})] = text
    BY <1>3
  <2> HIDE DEF Step, iter
  <2> QED
    BY <2>1, <2>2, <1>6
<1>8. start.reasons = {}
  BY DEF Processed
<1> QED
  BY <1>1, <1>2, <1>7, <1>8

(* The least of the indices of a sequence is what Min says. *)
LEMMA MinIsLeast ==
  ASSUME NEW S \in SUBSET Nat, S # {}
  PROVE  Min(S) \in S /\ \A i \in S : Min(S) <= i
<1>1. PICK x \in S : \A y \in S : ~(<<y, x>> \in OpToRel(<, Nat))
  BY NatLessThanWellFounded, WFMin
<1>2. ASSUME NEW y \in S PROVE x <= y
  <2>1. <<y, x>> \in Nat \X Nat /\ <<y, x>>[1] = y /\ <<y, x>>[2] = x
    OBVIOUS
  <2>2. ~(y < x)
    BY <1>1, <2>1 DEF OpToRel
  <2> QED
    BY <2>2
<1> QED
  BY <1>2 DEF Min

(* The line that text belongs to: a new one, or the last when that has not *)
(* ended.                                                                  *)
Joined(text) ==
  IF Rest(lines) = <<>> THEN text ELSE [Last(lines) EXCEPT !.ended = text.ended]

At == IF Rest(lines) = <<>> THEN Len(lines) + 1 ELSE Len(lines)

(* Text that comes changes or adds the last line only, and the buffer that *)
(* carries over what follows the last CRLF then holds that line alone.     *)
LEMMA TextComes ==
  ASSUME TypeOK, CutByCrlf, NEW text \in Text, lines' = Appended(lines, text)
  PROVE  /\ lines' \in Seq(Text) /\ lines' # <<>>
         /\ At \in 1..(Len(lines) + 1) /\ Len(lines') = At
         /\ Joined(text) \in Text /\ Joined(text).ended = text.ended
         /\ lines'[At] = Joined(text)
         /\ \A i \in 1..(At - 1) : lines'[i] = lines[i] /\ lines[i].ended
         /\ \A i \in 1..Len(lines) : lines[i].ended => i < At
         /\ lines = <<>> <=> (At = 1 /\ Rest(lines) = <<>>)
         /\ Appended(Rest(lines), text) = <<Joined(text)>>
         /\ Rest(<<Joined(text)>>) = Rest(lines')
<1>1. lines \in Seq(Text) /\ Len(lines) \in Nat /\ DOMAIN lines = 1..Len(lines)
  BY DEF TypeOK
<1>2. CASE Rest(lines) = <<>>
  <2>1. lines = <<>> \/ Last(lines).ended
    BY <1>2 DEF Rest
  <2>2. \A i \in 1..Len(lines) : lines[i].ended
    BY <1>1, <2>1 DEF CutByCrlf, Last
  <2>3. /\ Joined(text) = text /\ At = Len(lines) + 1
        /\ lines' = Append(lines, text)
    BY <1>2 DEF Joined, At, Appended
  <2>4. Appended(Rest(lines), text) = <<text>>
    <3>1. Rest(<<>>) = <<>>
      BY DEF Rest
    <3> QED
      BY <1>2, <3>1 DEF Appended
  <2>5. Last(lines') = text /\ Last(<<text>>) = text /\ lines' # <<>>
    BY <1>1, <2>3 DEF Last
  <2>6. Rest(<<text>>) = Rest(lines')
    BY <2>5 DEF Rest
  <2>7. text.ended \in BOOLEAN
    BY DEF Text
  <2> QED
    BY <1>1, <1>2, <2>2, <2>3, <2>4, <2>5, <2>6
<1>3. CASE Rest(lines) # <<>>
  <2> DEFINE n == Len(lines)
  <2>1. lines # <<>> /\ ~Last(lines).ended /\ Rest(lines) = <<Last(lines)>>
    BY <1>3 DEF Rest
  <2>2. n \in 1..n /\ Last(lines) = lines[n] /\ lines[n] \in Text
    BY <1>1, <2>1 DEF Last
  <2>3. /\ Joined(text) = [lines[n] EXCEPT !.ended = text.ended] /\ At = n
        /\ lines' = [lines EXCEPT ![n].ended = text.ended]
    BY <1>3, <2>2 DEF Joined, At, Appended
  <2>4. Joined(text) \in Text /\ Joined(text).ended = text.ended
    BY <2>2, <2>3 DEF Text
  <2>5. /\ lines' \in Seq(Text) /\ Len(lines') = n /\ lines'[n] = Joined(text)
        /\ \A i \in 1..(n - 1) : lines'[i] = lines[i]
    <3>1. lines' = [lines EXCEPT ![n] = Joined(text)]
      BY <2>3
    <3> QED
      BY <1>1, <2>2, <2>4, <3>1
  <2>6. \A i \in 1..(n - 1) : lines[i].ended
    BY <1>1 DEF CutByCrlf
  <2>7. \A i \in 1..n : lines[i].ended => i < n
    BY <1>1, <2>1, <2>2
  <2>8. Appended(Rest(lines), text) = <<Joined(text)>>
    <3> DEFINE one == <<Last(lines)>>
    <3>1. Last(one) = Last(lines) /\ one # <<>> /\ Len(one) = 1
      BY DEF Last
    <3>2. Rest(one) # <<>>
      BY <2>1, <3>1 DEF Rest
    <3>3. Appended(one, text) = [one EXCEPT ![1].ended = text.ended]
      BY <3>1, <3>2 DEF Appended
    <3> QED
      BY <2>1, <2>2, <2>3, <3>3
  <2>9. Rest(<<Joined(text)>>) = Rest(lines')
    <3>1. Last(lines') = Joined(text) /\ Last(<<Joined(text)>>) = Joined(text)
      BY <2>2, <2>5 DEF Last
    <3>2. lines' # <<>>
      BY <2>2, <2>5
    <3> QED
      BY <3>1, <3>2 DEF Rest
  <2> HIDE DEF n
  <2>10. lines' # <<>>
    BY <2>2, <2>5
  <2> QED
    BY <1>1, <1>3, <2>1, <2>2, <2>3, <2>4, <2>5, <2>6, <2>7, <2>8, <2>9, <2>10
       DEF n
<1> QED
  BY <1>2, <1>3

(* Text that ends no line says nothing yet. *)
LEMMA LineGoesOn ==
  ASSUME TypeOK, CutByCrlf, NEW text \in Text, lines' = Appended(lines, text),
         ~text.ended
  PROVE  /\ StatusRead' = StatusRead /\ TypesAt' = TypesAt
         /\ StatusRead => Head(lines') = Head(lines)
         /\ SentType' = SentType /\ Wanted' = Wanted
<1>1. /\ lines \in Seq(Text) /\ Len(lines) \in Nat /\ DOMAIN lines = 1..Len(lines)
      /\ DOMAIN lines' = 1..At /\ At \in 1..(Len(lines) + 1) /\ lines' # <<>>
      /\ ~lines'[At].ended
      /\ \A i \in 1..(At - 1) : lines'[i] = lines[i] /\ lines[i].ended
      /\ \A i \in 1..Len(lines) : lines[i].ended => i < At
  <2>1. lines \in Seq(Text)
    BY DEF TypeOK
  <2>2. /\ lines' \in Seq(Text) /\ lines' # <<>> /\ Len(lines') = At
        /\ At \in 1..(Len(lines) + 1)
        /\ lines'[At] = Joined(text) /\ Joined(text).ended = text.ended
        /\ \A i \in 1..(At - 1) : lines'[i] = lines[i] /\ lines[i].ended
        /\ \A i \in 1..Len(lines) : lines[i].ended => i < At
    BY TextComes
  <2> QED
    BY <2>1, <2>2
<1>2. Head(lines') = lines'[1] /\ (lines # <<>> => Head(lines) = lines[1])
  BY <1>1
<1>3. CASE At = 1
  <2>1. ~StatusRead /\ ~StatusRead' /\ TypesAt = {} /\ TypesAt' = {}
    BY <1>1, <1>2, <1>3 DEF StatusRead, TypesAt
  <2>2. SentType = "none" /\ SentType' = "none"
    BY <2>1 DEF SentType
  <2>3. Wanted' = Wanted
    BY <2>1 DEF Wanted
  <2>4. StatusRead' = StatusRead
    BY <2>1 DEF StatusRead
  <2> QED
    BY <2>1, <2>2, <2>3, <2>4
<1>4. CASE At # 1
  <2>1. /\ StatusRead /\ StatusRead' /\ Head(lines') = Head(lines)
        /\ TypesAt' = TypesAt /\ \A i \in TypesAt : lines'[i] = lines[i]
    <3>1. 1 \in 1..(At - 1) /\ lines # <<>> /\ lines'[1] = lines[1] /\ lines[1].ended
      BY <1>1, <1>4
    <3>2. StatusRead /\ StatusRead' /\ Head(lines') = Head(lines)
      BY <1>1, <1>2, <3>1 DEF StatusRead
    <3>3. TypesAt = {i \in 1..(At - 1) : lines[i].line \in TypeLine}
      BY <1>1 DEF TypesAt
    <3>4. TypesAt' = {i \in 1..(At - 1) : lines[i].line \in TypeLine}
      BY <1>1 DEF TypesAt
    <3> QED
      BY <1>1, <3>2, <3>3, <3>4
  <2>2. TypesAt # {} => lines'[Min(TypesAt)] = lines[Min(TypesAt)]
    BY <1>1, <2>1, MinIsLeast DEF TypesAt
  <2> QED
    BY <2>1, <2>2 DEF SentType, Wanted
<1> QED
  BY <1>3, <1>4

(* The first line that ends is a status line: no media type has been sent. *)
LEMMA FirstLine ==
  ASSUME TypeOK, CutByCrlf, NEW text \in Text, lines' = Appended(lines, text),
         text.ended, ~StatusRead, lines = <<>> => text.line \in StatusLine
  PROVE  /\ StatusRead' /\ Head(lines') = Joined(text)
         /\ Joined(text).line \in StatusLine
         /\ TypesAt' = {} /\ SentType' = "none" /\ SentType = "none"
<1>1. /\ lines \in Seq(Text) /\ Len(lines) \in Nat /\ DOMAIN lines = 1..Len(lines)
      /\ lines' \in Seq(Text) /\ Len(lines') = At
      /\ At \in 1..(Len(lines) + 1) /\ lines' # <<>>
      /\ lines'[At] = Joined(text) /\ Joined(text).ended
      /\ \A i \in 1..(At - 1) : lines'[i] = lines[i] /\ lines[i].ended
  <2>1. lines \in Seq(Text)
    BY DEF TypeOK
  <2>2. /\ lines' \in Seq(Text) /\ lines' # <<>> /\ Len(lines') = At
        /\ At \in 1..(Len(lines) + 1)
        /\ lines'[At] = Joined(text) /\ Joined(text).ended = text.ended
        /\ \A i \in 1..(At - 1) : lines'[i] = lines[i] /\ lines[i].ended
    BY TextComes
  <2> QED
    BY <2>1, <2>2
<1>2. At = 1
  BY <1>1 DEF StatusRead
<1>3. StatusRead' /\ Head(lines') = Joined(text)
  BY <1>1, <1>2 DEF StatusRead
<1>4. Joined(text).line \in StatusLine
  <2>1. CASE Rest(lines) = <<>>
    <3>1. lines = <<>>
      BY <1>1, <1>2, <2>1 DEF At
    <3> QED
      BY <2>1, <3>1 DEF Joined
  <2>2. CASE Rest(lines) # <<>>
    <3>1. lines # <<>> /\ Len(lines) = 1 /\ Last(lines) = Head(lines)
      BY <1>1, <1>2, <2>2 DEF At, Rest, Last
    <3>2. Last(lines) \in Text
      BY <1>1, <3>1
    <3>3. Joined(text).line = Last(lines).line
      BY <2>2, <3>2 DEF Joined, Text
    <3> QED
      BY <3>1, <3>3 DEF CutByCrlf
  <2> QED
    BY <2>1, <2>2
<1>5. TypesAt' = {}
  <2>1. DOMAIN lines' = {1} /\ lines'[1].line \in StatusLine
    BY <1>1, <1>2, <1>4
  <2> QED
    BY <2>1 DEF TypesAt, StatusLine, TypeLine
<1> QED
  BY <1>3, <1>4, <1>5 DEF SentType

(* A later one changes the media type only when it is the first to tell it.*)
LEMMA LaterLine ==
  ASSUME TypeOK, CutByCrlf, NEW text \in Text, lines' = Appended(lines, text),
         text.ended, StatusRead
  PROVE  LET line == Joined(text).line
         IN  /\ StatusRead' /\ Head(lines') = Head(lines)
             /\ TypesAt' = {} <=> TypesAt = {} /\ line \notin TypeLine
             /\ SentType' =
                  IF /\ Head(lines).line = "2xx" /\ TypesAt = {}
                     /\ line \in TypeLine
                  THEN line ELSE SentType
<1> DEFINE n == At
           line == Joined(text).line
<1>1. /\ lines \in Seq(Text) /\ Len(lines) \in Nat /\ DOMAIN lines = 1..Len(lines)
      /\ lines' \in Seq(Text) /\ n \in Nat /\ DOMAIN lines' = 1..n
      /\ n \in 1..(Len(lines) + 1) /\ lines' # <<>>
      /\ lines'[n] = Joined(text) /\ Joined(text).ended
      /\ \A i \in 1..(n - 1) : lines'[i] = lines[i] /\ lines[i].ended
      /\ \A i \in 1..Len(lines) : lines[i].ended => i < n
  <2>1. lines \in Seq(Text)
    BY DEF TypeOK
  <2>2. /\ lines' \in Seq(Text) /\ lines' # <<>> /\ Len(lines') = At
        /\ At \in 1..(Len(lines) + 1)
        /\ lines'[At] = Joined(text) /\ Joined(text).ended = text.ended
        /\ \A i \in 1..(At - 1) : lines'[i] = lines[i] /\ lines[i].ended
        /\ \A i \in 1..Len(lines) : lines[i].ended => i < At
    BY TextComes
  <2> QED
    BY <2>1, <2>2
<1> HIDE DEF n, line
<1>2. 1 \in 1..(n - 1) /\ lines # <<>> /\ Head(lines) = lines[1] /\ Head(lines') = lines'[1]
  BY <1>1 DEF StatusRead
<1>3. StatusRead' /\ Head(lines') = Head(lines)
  BY <1>1, <1>2 DEF StatusRead
<1>4. TypesAt = {i \in 1..(n - 1) : lines[i].line \in TypeLine}
  BY <1>1 DEF TypesAt
<1>5. TypesAt' = TypesAt \cup (IF line \in TypeLine THEN {n} ELSE {})
  <2>1. lines'[n].line = line
    BY <1>1 DEF line
  <2> QED
    BY <1>1, <1>4, <2>1 DEF TypesAt
<1>6. SentType' = IF Head(lines).line = "2xx" /\ TypesAt' # {}
                  THEN lines'[Min(TypesAt')].line ELSE "none"
  BY <1>3 DEF SentType
<1>7. CASE TypesAt = {}
  <2>1. CASE line \in TypeLine
    <3>1. Min({n}) = n
      <4>1. {n} \in SUBSET Nat /\ {n} # {}
        BY <1>1
      <4> QED
        BY <4>1, MinIsLeast
    <3>2. lines'[n].line = line
      BY <1>1 DEF line
    <3> QED
      BY <1>3, <1>5, <1>6, <1>7, <2>1, <3>1, <3>2 DEF SentType, line
  <2>2. CASE line \notin TypeLine
    BY <1>3, <1>5, <1>6, <1>7, <2>2 DEF SentType, line
  <2> QED
    BY <2>1, <2>2
<1>8. CASE TypesAt # {}
  <2>1. /\ Min(TypesAt) \in TypesAt /\ \A i \in TypesAt : Min(TypesAt) <= i
        /\ Min(TypesAt') \in TypesAt' /\ \A i \in TypesAt' : Min(TypesAt') <= i
    <3>1. TypesAt \in SUBSET Nat /\ TypesAt' \in SUBSET Nat /\ TypesAt' # {}
      BY <1>1, <1>4, <1>5, <1>8
    <3> QED
      BY <1>8, <3>1, MinIsLeast
  <2>2. Min(TypesAt') = Min(TypesAt)
    <3> DEFINE now == Min(TypesAt)
               then == Min(TypesAt')
    <3>1. now \in 1..(n - 1) /\ now \in TypesAt' /\ then <= now
      BY <1>4, <1>5, <2>1
    <3>2. then = n \/ then \in TypesAt
      BY <1>5, <2>1
    <3>3. then # n
      BY <1>1, <3>1
    <3>4. then \in TypesAt
      BY <3>2, <3>3
    <3>5. now <= then
      BY <2>1, <3>4
    <3>6. then \in 1..(n - 1)
      BY <1>4, <3>4
    <3> QED
      BY <1>1, <3>1, <3>5, <3>6
  <2>3. lines'[Min(TypesAt)] = lines[Min(TypesAt)]
    BY <1>1, <1>4, <2>1
  <2> QED
    BY <1>3, <1>5, <1>6, <1>8, <2>2, <2>3 DEF SentType, line
<1> QED
  BY <1>3, <1>5, <1>7, <1>8 DEF line
-----------------------------------------------------------------------------
(* TransferInv is inductive *)

(* No manager exists yet.                                                  *)
LEMMA TransferInit == Init => TransferInv
<1> SUFFICES ASSUME Init PROVE TransferInv
  OBVIOUS
<1> USE DEF Init, NewHeader
<1>1. TypeOK
  <2>1. header \in [m_buffer : Seq(Text), m_state : State, m_mediaType : MediaType]
    BY DEF State, MediaType
  <2>2. m_content \in 0..MaxContentLength /\ body \in 0..MaxBody /\ used \in 0..Uses
    BY TransferAssumption
  <2>3. lines = <<>> /\ failure = FALSE
    OBVIOUS
  <2>4. m_errorStream \subseteq Reason /\ result = {} /\ transfer = "gone"
    OBVIOUS
  <2> HIDE DEF Init
  <2> QED
    BY <2>1, <2>2, <2>3, <2>4, <<>> \in Seq(Text) DEF TypeOK
<1>2. HeaderFollows /\ CutByCrlf
  BY DEF HeaderFollows, Following, CutByCrlf
<1>3. RunsWell /\ EndedForReason /\ ResultTellsResponse
  BY DEF RunsWell, Running, EndedForReason, ResultTellsResponse
<1> QED
  BY <1>1, <1>2, <1>3 DEF TransferInv

(* What process makes of a line, in the three states. *)
LEMMA ProcessLine ==
  ASSUME NEW h, NEW line \in Line
  PROVE  /\ h.m_state = "READING_STATUS_LINE" =>
              Process(h, line) =
                IF line = "2xx"
                THEN Processed("READING_HEADER_FIELDS", h.m_mediaType, {})
                ELSE Processed("FINISHED", h.m_mediaType,
                       {IF line = "otherStatus" THEN "status" ELSE "statusLine"})
         /\ h.m_state = "READING_HEADER_FIELDS" =>
              Process(h, line) =
                IF line \in TypeLine
                THEN Processed("FINISHED", line,
                               IF line = "accepted" THEN {} ELSE {"mediaType"})
                ELSE Processed("READING_HEADER_FIELDS", "none", {})
         /\ h.m_state = "FINISHED" =>
              Process(h, line) = Processed("FINISHED", h.m_mediaType, {})
  BY DEF Process

(* A line: the handler's state follows the lines, and a reason not to go   *)
(* on is given exactly when the response is not wanted.                    *)
LEMMA HeaderCbInv ==
  ASSUME TransferInv, NEW text \in Text, HeaderCb(text)
  PROVE  TransferInv'
<1> USE DEF HeaderCb
<1> DEFINE now == Processed(header.m_state, header.m_mediaType, {})
           joined == Joined(text)
           h == IF joined.ended THEN Process(now, joined.line) ELSE now
<1>1. /\ TypeOK /\ CutByCrlf /\ Following /\ Running
      /\ header.m_buffer = Rest(lines) /\ m_errorStream = {} /\ ~failure
      /\ m_content = body /\ Wanted
      /\ header.m_mediaType = SentType
      /\ header.m_state =
           IF ~StatusRead THEN "READING_STATUS_LINE"
           ELSE IF Head(lines).line = "2xx" /\ TypesAt = {}
                THEN "READING_HEADER_FIELDS" ELSE "FINISHED"
      /\ lines = <<>> => text.line \in StatusLine
      /\ lines' = Appended(lines, text)
  BY DEF TransferInv, HeaderFollows, RunsWell, Following, Running
<1>2. /\ joined \in Text /\ joined.line \in Line /\ joined.ended = text.ended
      /\ Appended(header.m_buffer, text) = <<joined>>
      /\ Rest(<<joined>>) = Rest(lines')
      /\ lines' \in Seq(Text) /\ lines' # <<>>
  BY <1>1, TextComes DEF Text
<1>3. HandleLines([header EXCEPT !.m_buffer = Appended(header.m_buffer, text)]) = h
  <2> DEFINE g == [header EXCEPT !.m_buffer = Appended(header.m_buffer, text)]
  <2> HIDE DEF joined
  <2>1. /\ g.m_buffer = <<joined>> /\ g.m_state = header.m_state
        /\ g.m_mediaType = header.m_mediaType
    BY <1>1, <1>2 DEF TypeOK
  <2> HIDE DEF g
  <2>2. HandleLines(g) =
          LET start == Processed(g.m_state, g.m_mediaType, {})
          IN  IF joined.ended THEN Process(start, joined.line) ELSE start
    BY <1>2, <2>1, HandleOneLine
  <2> QED
    BY <2>1, <2>2 DEF g
<1> HIDE DEF joined
<1>4. /\ header' = [m_buffer |-> IF h.reasons = {} THEN Rest(lines') ELSE <<joined>>,
                    m_state |-> h.m_state, m_mediaType |-> h.m_mediaType]
      /\ m_errorStream' = h.reasons
      /\ transfer' = IF h.reasons # {} THEN "aborted"
                     ELSE IF transfer = "body" THEN "trailer" ELSE transfer
  BY <1>1, <1>2, <1>3
<1>5. CutByCrlf'
  <2>1. /\ \A i \in 1..(At - 1) : lines'[i] = lines[i] /\ lines[i].ended
        /\ Len(lines') = At /\ At \in 1..(Len(lines) + 1)
        /\ lines'[At] = joined
    BY <1>1, TextComes DEF joined
  <2>2. \A i \in DOMAIN lines' : i < Len(lines') => lines'[i].ended
    <3>1. DOMAIN lines' = 1..At /\ At \in Nat
      BY <1>1, <1>2, <2>1 DEF TypeOK
    <3> QED
      BY <2>1, <3>1
  <2>3. Head(lines').line \in StatusLine
    <3>1. CASE At = 1
      <4>1. Head(lines') = joined
        BY <1>2, <2>1, <3>1
      <4>2. CASE Rest(lines) = <<>>
        BY <1>1, <3>1, <4>1, <4>2 DEF At, Joined, joined, TypeOK
      <4>3. CASE Rest(lines) # <<>>
        <5>1. /\ lines # <<>> /\ Last(lines) = Head(lines) /\ Last(lines) \in Text
          BY <1>1, <3>1, <4>3 DEF At, Rest, Last, TypeOK
        <5>2. joined.line = Last(lines).line
          BY <4>3, <5>1 DEF Joined, joined, Text
        <5> QED
          BY <1>1, <4>1, <5>1, <5>2 DEF CutByCrlf
      <4> QED
        BY <4>2, <4>3
    <3>2. CASE At # 1
      <4>1. lines \in Seq(Text) /\ Len(lines) \in Nat
        BY <1>1 DEF TypeOK
      <4>2. At \in Nat /\ At > 1 /\ Len(lines) # 0
        BY <2>1, <3>2, <4>1
      <4>3. 1 \in 1..(At - 1) /\ lines # <<>>
        BY <4>1, <4>2
      <4>4. lines'[1] = lines[1]
        BY <2>1, <4>3
      <4>5. Head(lines') = lines'[1] /\ Head(lines) = lines[1]
        BY <1>2, <4>1, <4>3
      <4> QED
        BY <1>1, <4>3, <4>4, <4>5 DEF CutByCrlf
    <3> QED
      BY <3>1, <3>2
  <2> QED
    BY <2>2, <2>3 DEF CutByCrlf
<1>6. /\ h.m_mediaType = SentType'
      /\ h.m_state = IF ~StatusRead' THEN "READING_STATUS_LINE"
                     ELSE IF Head(lines').line = "2xx" /\ TypesAt' = {}
                          THEN "READING_HEADER_FIELDS" ELSE "FINISHED"
      /\ h.reasons = {} <=> Wanted'
      /\ h.reasons \subseteq Reason /\ h.m_mediaType \in MediaType
  <2>1. /\ now.m_state = header.m_state /\ now.m_mediaType = SentType
        /\ now.reasons = {} /\ SentType \in MediaType
    BY <1>1 DEF Processed, TypeOK
  <2>2. CASE ~text.ended
    <3>1. /\ StatusRead' = StatusRead /\ TypesAt' = TypesAt
          /\ StatusRead => Head(lines') = Head(lines)
          /\ SentType' = SentType /\ Wanted' = Wanted
      BY <1>1, <2>2, LineGoesOn
    <3>2. h = now
      BY <1>2, <2>2
    <3> HIDE DEF h, now
    <3> QED
      BY <1>1, <2>1, <3>1, <3>2
  <2>3. CASE text.ended /\ ~StatusRead
    <3>1. /\ StatusRead' /\ Head(lines') = joined /\ joined.line \in StatusLine
          /\ TypesAt' = {} /\ SentType' = "none" /\ SentType = "none"
      BY <1>1, <2>3, FirstLine DEF joined
    <3>2. h = IF joined.line = "2xx"
              THEN Processed("READING_HEADER_FIELDS", "none", {})
              ELSE Processed("FINISHED", "none",
                     {IF joined.line = "otherStatus" THEN "status" ELSE "statusLine"})
      <4>1. h = Process(now, joined.line)
        BY <1>2, <2>3
      <4> HIDE DEF now, h
      <4> QED
        <5>1. now.m_state = "READING_STATUS_LINE" /\ now.m_mediaType = "none"
          BY <1>1, <2>1, <2>3, <3>1
        <5>2. Process(now, joined.line) =
                IF joined.line = "2xx"
                THEN Processed("READING_HEADER_FIELDS", now.m_mediaType, {})
                ELSE Processed("FINISHED", now.m_mediaType,
                       {IF joined.line = "otherStatus" THEN "status" ELSE "statusLine"})
          BY <1>2, <5>1, ProcessLine
        <5> QED
          BY <4>1, <5>1, <5>2
    <3> HIDE DEF h
    <3>3. CASE joined.line = "2xx"
      BY <3>1, <3>2, <3>3 DEF Processed, Wanted, Reason, MediaType
    <3>4. CASE joined.line # "2xx"
      BY <3>1, <3>2, <3>4 DEF Processed, Wanted, Reason, MediaType
    <3> QED
      BY <3>3, <3>4
  <2>4. CASE text.ended /\ StatusRead
    <3>1. /\ StatusRead' /\ Head(lines') = Head(lines) /\ Head(lines).line = "2xx"
          /\ SentType # "rejected"
          /\ TypesAt' = {} <=> TypesAt = {} /\ joined.line \notin TypeLine
          /\ SentType' = IF TypesAt = {} /\ joined.line \in TypeLine
                         THEN joined.line ELSE SentType
      BY <1>1, <2>4, LaterLine DEF Wanted, joined
    <3>2. h = Process(now, joined.line)
      BY <1>2, <2>4
    <3> HIDE DEF h, now
    <3>3. CASE TypesAt = {}
      <4>1. SentType = "none"
        BY <3>3 DEF SentType
      <4>2. h = IF joined.line \in TypeLine
                THEN Processed("FINISHED", joined.line,
                       IF joined.line = "accepted" THEN {} ELSE {"mediaType"})
                ELSE Processed("READING_HEADER_FIELDS", "none", {})
        BY <1>1, <1>2, <2>1, <2>4, <3>1, <3>2, <3>3, ProcessLine
      <4> QED
        BY <3>1, <3>3, <4>1, <4>2
           DEF Processed, Wanted, Reason, MediaType, TypeLine
    <3>4. CASE TypesAt # {}
      <4>1. h = Processed("FINISHED", SentType, {})
        <5>1. now.m_state = "FINISHED" /\ now.m_mediaType = SentType
          BY <1>1, <2>1, <2>4, <3>1, <3>4
        <5>2. Process(now, joined.line) = Processed("FINISHED", now.m_mediaType, {})
          BY <1>2, <5>1, ProcessLine
        <5> QED
          BY <3>2, <5>1, <5>2
      <4> QED
        BY <2>1, <3>1, <3>4, <4>1 DEF Processed, Wanted
    <3> QED
      BY <3>3, <3>4
  <2> QED
    BY <2>2, <2>3, <2>4
<1> HIDE DEF h
<1>7. TypeOK'
  <2>1. header' \in [m_buffer : Seq(Text), m_state : State, m_mediaType : MediaType]
    <3>1. (IF h.reasons = {} THEN Rest(lines') ELSE <<joined>>) \in Seq(Text)
      <4>1. <<joined>> \in Seq(Text)
        BY <1>2
      <4>2. Rest(lines') \in Seq(Text)
        BY <1>2 DEF Rest, Last
      <4> QED
        BY <4>1, <4>2
    <3>2. h.m_state \in State /\ h.m_mediaType \in MediaType
      BY <1>6 DEF State
    <3>3. PICK b \in Seq(Text), s \in State, m \in MediaType :
            header' = [m_buffer |-> b, m_state |-> s, m_mediaType |-> m]
      BY <1>4, <3>1, <3>2
    <3> HIDE DEF HeaderCb
    <3> QED
      BY <3>3
  <2> QED
    BY <1>1, <1>2, <1>4, <1>6, <2>1 DEF TypeOK, history, vars, Running
<1>8. HeaderFollows'
  BY <1>4, <1>6 DEF HeaderFollows
<1>9. RunsWell' /\ EndedForReason'
  <2>1. /\ m_content' = m_content /\ body' = body /\ failure' = failure
        /\ m_content <= body
    BY <1>1 DEF TypeOK
  <2>2. CASE h.reasons = {}
    BY <1>1, <1>4, <1>6, <2>1, <2>2 DEF RunsWell, EndedForReason, Running
  <2>3. CASE h.reasons # {}
    BY <1>1, <1>4, <1>6, <2>1, <2>3 DEF RunsWell, EndedForReason, Running
  <2> QED
    BY <2>2, <2>3
<1>10. ResultTellsResponse'
  BY <1>1, <1>4 DEF ResultTellsResponse, Running
<1> QED
  BY <1>5, <1>7, <1>8, <1>9, <1>10 DEF TransferInv

(* What the lines say does not change with anything else. *)
LEMMA LinesSay ==
  ASSUME lines' = lines
  PROVE  /\ SentType' = SentType /\ TypesAt' = TypesAt /\ Wanted' = Wanted
         /\ StatusRead' = StatusRead /\ Rest(lines') = Rest(lines)
         /\ CutByCrlf => CutByCrlf'
  BY DEF SentType, TypesAt, Wanted, StatusRead, CutByCrlf

(* A chunk of the body is counted, or is one too many. *)
LEMMA WriteCbInv ==
  ASSUME TransferInv, NEW size \in ChunkSize, WriteCb(size)
  PROVE  TransferInv'
<1> USE DEF WriteCb
<1>1. /\ TypeOK /\ CutByCrlf /\ Running /\ Following /\ lines' = lines
      /\ header.m_buffer = Rest(lines) /\ m_errorStream = {} /\ ~failure
      /\ m_content = body /\ Wanted
      /\ header' = header /\ failure' = failure /\ result' = result
      /\ body' = body + size /\ used' = used
  BY DEF TransferInv, RunsWell, Running, Following
<1>2. /\ size \in Nat /\ body \in Nat /\ m_content \in Nat /\ MaxContentLength \in Nat
      /\ MaxBody \in Nat /\ body' \in 0..MaxBody
  BY <1>1, TransferAssumption DEF TypeOK
<1>3. /\ transfer' \in {"body", "aborted"}
      /\ transfer' = "body" => m_errorStream' = {} /\ m_content' = body'
      /\ transfer' = "aborted" => /\ m_content' <= body' /\ body' > MaxContentLength
      /\ m_content' \in 0..MaxContentLength /\ m_errorStream' \subseteq Reason
  <2>1. CASE Fits(size)
    <3>1. m_content + size \in 0..MaxContentLength
      BY <1>2, <2>1 DEF Fits
    <3> QED
      BY <1>1, <1>2, <2>1, <3>1
  <2>2. CASE ~Fits(size)
    <3>1. /\ transfer' = "aborted" /\ m_content' = m_content
          /\ m_errorStream' = {"length"} /\ m_content <= MaxContentLength
      BY <1>1, <1>2, <2>2 DEF TypeOK
    <3>2. body' > MaxContentLength /\ m_content <= body'
      BY <1>1, <1>2, <2>2 DEF Fits
    <3> QED
      BY <1>2, <3>1, <3>2 DEF Reason
  <2> QED
    BY <2>1, <2>2
<1> HIDE DEF WriteCb
<1>4. TypeOK'
  BY <1>1, <1>2, <1>3 DEF TypeOK
<1>5. HeaderFollows' /\ CutByCrlf'
  BY <1>1, <1>3, LinesSay DEF TransferInv, HeaderFollows, Following
<1>6. RunsWell' /\ EndedForReason'
  BY <1>1, <1>3, LinesSay DEF RunsWell, Running, EndedForReason
<1>7. ResultTellsResponse'
  BY <1>3 DEF ResultTellsResponse
<1> QED
  BY <1>4, <1>5, <1>6, <1>7 DEF TransferInv

(* An error of libcurl's own ends the transfer. *)
LEMMA CurlFailsInv ==
  ASSUME TransferInv, CurlFails
  PROVE  TransferInv'
<1> USE DEF CurlFails, manager
<1>1. /\ transfer' = "aborted" /\ failure' = TRUE /\ lines' = lines /\ body' = body
      /\ header' = header /\ m_content' = m_content /\ m_content = body /\ Following
  BY DEF TransferInv, RunsWell, Running, Following
<1>2. TypeOK'
  BY <1>1 DEF TransferInv, TypeOK
<1>3. HeaderFollows' /\ CutByCrlf'
  BY <1>1, LinesSay DEF TransferInv, HeaderFollows
<1>4. RunsWell' /\ EndedForReason' /\ ResultTellsResponse'
  BY <1>1 DEF TransferInv, RunsWell, Running, EndedForReason, ResultTellsResponse, TypeOK
<1> QED
  BY <1>2, <1>3, <1>4 DEF TransferInv

(* The result is that of the response, whichever way the transfer ended. *)
LEMMA FinishInv ==
  ASSUME TransferInv, Finish
  PROVE  TransferInv'
<1> USE DEF Finish, history
<1> DEFINE r == [content |-> m_content, mediaType |-> header.m_mediaType,
                 success |-> transfer # "aborted", reasons |-> m_errorStream]
<1>1. /\ TypeOK /\ Following /\ header.m_mediaType = SentType
      /\ result' = {r} /\ transfer' = "done" /\ m_content' = 0
      /\ lines' = lines /\ body' = body /\ failure' = failure /\ used' = used
      /\ header' = header /\ m_errorStream' = m_errorStream
  BY DEF TransferInv, HeaderFollows, Following, Running
<1>2. r \in Result
  <2>1. (transfer # "aborted") \in BOOLEAN
    OBVIOUS
  <2>2. /\ m_content \in 0..MaxContentLength /\ header.m_mediaType \in MediaType
        /\ m_errorStream \in SUBSET Reason
    BY <1>1 DEF TypeOK
  <2> QED
    BY <2>1, <2>2 DEF Result
<1>3. TypeOK'
  <2>1. result' = {} \/ \E x \in Result' : result' = {x}
    BY <1>1, <1>2 DEF Result
  <2>2. m_content' \in 0..MaxContentLength
    BY <1>1, TransferAssumption
  <2> QED
    BY <1>1, <2>1, <2>2 DEF TypeOK
<1>4. HeaderFollows' /\ CutByCrlf'
  BY <1>1, LinesSay DEF TransferInv, HeaderFollows
<1>5. RunsWell' /\ EndedForReason'
  BY <1>1 DEF RunsWell, Running, EndedForReason
<1>6. /\ r.success <=> Wanted /\ body <= MaxContentLength /\ ~failure
      /\ r.success => r.content = body /\ r.reasons = {}
      /\ r.content <= body
      /\ r.mediaType = SentType
  <2>1. /\ body \in Nat /\ MaxContentLength \in Nat
        /\ m_content \in 0..MaxContentLength
    BY <1>1, TransferAssumption DEF TypeOK
  <2>0. r.content = m_content /\ r.mediaType = SentType /\ r.reasons = m_errorStream
    BY <1>1
  <2>2. CASE transfer = "aborted"
    <3>1. ~r.success
      BY <2>2
    <3>2. m_content <= body /\ (failure \/ ~(body <= MaxContentLength) \/ ~Wanted)
      BY <2>1, <2>2 DEF TransferInv, EndedForReason
    <3> HIDE DEF r
    <3> QED
      BY <2>0, <3>1, <3>2
  <2>3. CASE transfer # "aborted"
    <3>1. Running
      BY <2>3
    <3>2. r.success
      BY <2>3
    <3>3. /\ m_content = body /\ m_errorStream = {} /\ ~failure /\ Wanted
          /\ body <= MaxContentLength
      BY <2>1, <3>1 DEF TransferInv, RunsWell
    <3> HIDE DEF r
    <3> QED
      BY <2>1, <2>0, <3>2, <3>3
  <2> QED
    BY <2>2, <2>3
<1>7. ResultTellsResponse'
  <2> HIDE DEF r
  <2> QED
    BY <1>1, <1>6, LinesSay DEF ResultTellsResponse
<1> QED
  BY <1>3, <1>4, <1>5, <1>7 DEF TransferInv

(* A transfer that begins is as if the manager were new. *)
LEMMA BeginInv ==
  ASSUME TransferInv, Begin(NewHeader), result' \in {result, {}}
  PROVE  TransferInv'
<1> USE DEF Begin
<1>1. TypeOK /\ used \in Nat /\ used' = used + 1 /\ used < Uses
  BY DEF TransferInv, TypeOK
<1>2. TypeOK'
  <2>1. header' \in [m_buffer : Seq(Text), m_state : State, m_mediaType : MediaType]
    BY DEF NewHeader, State, MediaType
  <2>2. m_content' \in 0..MaxContentLength /\ body' \in 0..MaxBody /\ used' \in 0..Uses
    BY <1>1, TransferAssumption
  <2>3. result' = {} \/ \E r \in Result : result' = {r}
    BY <1>1 DEF TypeOK
  <2>4. /\ transfer' = "header" /\ m_errorStream' = {} /\ lines' = <<>>
        /\ failure' = FALSE
    OBVIOUS
  <2> HIDE DEF Begin
  <2> QED
    BY <2>1, <2>2, <2>3, <2>4, <<>> \in Seq(Text) DEF TypeOK
<1>3. HeaderFollows' /\ CutByCrlf'
  BY DEF HeaderFollows, Following, CutByCrlf, NewHeader, SentType, StatusRead
<1>4. RunsWell' /\ EndedForReason' /\ ResultTellsResponse'
  BY DEF RunsWell, Running, EndedForReason, ResultTellsResponse, NewHeader,
         Rest, Wanted, StatusRead
<1> QED
  BY <1>2, <1>3, <1>4 DEF TransferInv

(* Nothing is said of a handle that is out, or of one that is gone. *)
LEMMA OutInv ==
  ASSUME TransferInv, ReuseFails \/ Destroy
  PROVE  TransferInv'
<1> USE DEF ReuseFails, Destroy, manager, history
<1>1. TypeOK'
  BY DEF TransferInv, TypeOK
<1>2. HeaderFollows' /\ RunsWell' /\ CutByCrlf'
  BY LinesSay DEF TransferInv, HeaderFollows, Following, RunsWell, Running
<1>3. EndedForReason' /\ ResultTellsResponse'
  BY DEF EndedForReason, ResultTellsResponse
<1> QED
  BY <1>1, <1>2, <1>3 DEF TransferInv

(* Every step of a transfer keeps the invariant. *)
LEMMA TransferNext == TransferInv /\ [Next]_vars => TransferInv'
<1> SUFFICES ASSUME TransferInv, [Next]_vars PROVE TransferInv'
  OBVIOUS
<1>1. ASSUME NEW text \in Text, HeaderCb(text) PROVE TransferInv'
  BY <1>1, HeaderCbInv
<1>2. ASSUME NEW size \in ChunkSize, WriteCb(size) PROVE TransferInv'
  BY <1>2, WriteCbInv
<1>3. CASE CurlFails
  BY <1>3, CurlFailsInv
<1>4. CASE Finish
  BY <1>4, FinishInv
<1>5. CASE Construct \/ Reuse
  BY <1>5, BeginInv DEF Construct, Reuse, ReusedHeader
<1>6. CASE ReuseFails \/ Destroy
  BY <1>6, OutInv
<1>7. CASE UNCHANGED vars
  <2> USE <1>7 DEF vars, manager, history
  <2>1. TypeOK'
    BY DEF TransferInv, TypeOK
  <2>2. HeaderFollows' /\ RunsWell' /\ CutByCrlf'
    BY LinesSay DEF TransferInv, HeaderFollows, Following, RunsWell, Running
  <2>3. EndedForReason' /\ ResultTellsResponse'
    BY LinesSay DEF TransferInv, EndedForReason, ResultTellsResponse
  <2> QED
    BY <2>1, <2>2, <2>3 DEF TransferInv
<1> QED
  BY <1>1, <1>2, <1>3, <1>4, <1>5, <1>6, <1>7 DEF Next, LibcurlStep

-----------------------------------------------------------------------------
(* Every step of the objects is one of the followed transfer, or none of it*)

(* The transfer of the Pimpl at Followed.                                  *)
LEMMA StepOfTransfer == ManagerNext => [Next]_vars
<1> SUFFICES ASSUME ManagerNext PROVE [Next]_vars
  OBVIOUS
<1> USE DEF OnTransfer
<1>1. ASSUME NEW p, Delete(p) PROVE [Next]_vars
  BY <1>1 DEF Delete, Next
<1>2. ASSUME NEW o \in Object, NEW p \in Address, NewManager(o, p)
      PROVE  [Next]_vars
  BY <1>2 DEF NewManager, Next
<1>3. ASSUME NEW o \in Object, NEW other \in Object,
             MoveConstruct(o, other) \/ MoveAssign(o, other) \/ Swap(o, other)
      PROVE  [Next]_vars
  BY <1>1, <1>3 DEF MoveConstruct, MoveAssign, Swap
<1>4. ASSUME NEW o \in Object, DestroyManager(o) \/ ReuseManager(o)
      PROVE  [Next]_vars
  BY <1>1, <1>4 DEF DestroyManager, ReuseManager, Reuses, ReuseThrows, Next
<1>5. CASE Transfers
  BY <1>5 DEF Transfers, Next
<1> QED
  BY <1>2, <1>3, <1>4, <1>5 DEF ManagerNext

-----------------------------------------------------------------------------
(* PointersUnique and HandlesLive are inductive *)

Owners == PointersUnique /\ HandlesLive

(* A new Pimpl has one owner, and its handle is in.                        *)
LEMMA NewManagerInv ==
  ASSUME Owners, NEW o \in Object, NEW p \in Address, NewManager(o, p)
  PROVE  Owners'
<1> USE DEF Owners, NewManager, AddHandle, Constructed
<1>1. /\ m_pimpl' = [m_pimpl EXCEPT ![o] = p] /\ m_pimpl[o] = NoObject
      /\ pimpls' = pimpls \cup {p} /\ p \notin pimpls
      /\ p \notin {NullPtr, NoObject} /\ NoObject \notin pimpls
  BY ManagerAssumption DEF PointersUnique
<1>2. PointersUnique'
  BY <1>1 DEF PointersUnique
<1>3. HandlesLive'
  BY DEF HandlesLive
<1> QED
  BY <1>2, <1>3

(* A pointer that moves to another object leaves the first one.            *)
LEMMA PointersMoveInv ==
  ASSUME Owners, NEW o \in Object, NEW other \in Object,
         MoveConstruct(o, other) \/ Swap(o, other)
  PROVE  Owners'
<1> USE DEF Owners, Constructed
<1>1. pimpls' = pimpls /\ multiHandle' = multiHandle /\ m_released' = m_released
  BY DEF MoveConstruct, Swap
<1>2. /\ pimpls \subseteq Address /\ NullPtr \notin pimpls /\ NoObject \notin pimpls
      /\ m_pimpl \in [Object -> pimpls \cup {NullPtr, NoObject}]
  BY ManagerAssumption DEF PointersUnique
<1>3. PointersUnique'
  <2>1. CASE MoveConstruct(o, other)
    <3>1. /\ m_pimpl' = [m_pimpl EXCEPT ![o] = m_pimpl[other], ![other] = NullPtr]
          /\ o # other /\ m_pimpl[o] = NoObject
      BY <2>1 DEF MoveConstruct
    <3>2. \A u \in Object : m_pimpl'[u] = IF u = other THEN NullPtr
                                         ELSE IF u = o THEN m_pimpl[other]
                                         ELSE m_pimpl[u]
      BY <1>2, <3>1
    <3> QED
      BY <1>1, <1>2, <3>1, <3>2 DEF PointersUnique
  <2>2. CASE Swap(o, other)
    <3>1. m_pimpl' = [m_pimpl EXCEPT ![o] = m_pimpl[other], ![other] = m_pimpl[o]]
      BY <2>2 DEF Swap
    <3>2. \A u \in Object : m_pimpl'[u] = IF u = other THEN m_pimpl[o]
                                         ELSE IF u = o THEN m_pimpl[other]
                                         ELSE m_pimpl[u]
      BY <1>2, <3>1
    <3> QED
      BY <1>1, <1>2, <3>1, <3>2 DEF PointersUnique
  <2> QED
    BY <2>1, <2>2
<1>4. HandlesLive'
  BY <1>1 DEF HandlesLive
<1> QED
  BY <1>3, <1>4

(* The Pimpl of an object is deleted, and the object points elsewhere.     *)
LEMMA DeleteInv ==
  ASSUME Owners, NEW o \in Object, Constructed(o), Delete(m_pimpl[o])
  PROVE  /\ pimpls' = pimpls \ {m_pimpl[o]} /\ HandlesLive'
         /\ \A u \in Object : m_pimpl[u] \in pimpls' => u # o
         /\ \A u \in Object : m_pimpl[u] \in pimpls' \/ m_pimpl[u] \in {NullPtr, NoObject}
                             \/ u = o
<1> USE DEF Owners, Constructed
<1>1. /\ pimpls \subseteq Address /\ NullPtr \notin pimpls /\ NoObject \notin pimpls
      /\ m_pimpl \in [Object -> pimpls \cup {NullPtr, NoObject}]
  BY ManagerAssumption DEF PointersUnique
<1>2. pimpls' = pimpls \ {m_pimpl[o]}
  BY <1>1 DEF Delete
<1>3. HandlesLive'
  BY <1>1 DEF HandlesLive, Delete, RemoveHandle
<1>4. \A u \in Object : m_pimpl[u] \in pimpls \ {m_pimpl[o]} => u # o
  OBVIOUS
<1>5. \A u \in Object : \/ m_pimpl[u] \in pimpls \ {m_pimpl[o]}
                       \/ m_pimpl[u] \in {NullPtr, NoObject} \/ u = o
  BY <1>1 DEF PointersUnique
<1> QED
  BY <1>2, <1>3, <1>4, <1>5

(* The Pimpl that was there goes, the other's changes its owner.           *)
LEMMA MoveAssignInv ==
  ASSUME Owners, NEW o \in Object, NEW other \in Object, MoveAssign(o, other)
  PROVE  Owners'
<1> USE DEF Owners
<1>1. /\ pimpls' = pimpls \ {m_pimpl[o]} /\ HandlesLive'
      /\ m_pimpl' = [m_pimpl EXCEPT ![o] = m_pimpl[other], ![other] = NullPtr]
  BY DeleteInv DEF MoveAssign
<1>2. /\ pimpls \subseteq Address /\ NullPtr \notin pimpls /\ NoObject \notin pimpls
      /\ m_pimpl \in [Object -> pimpls \cup {NullPtr, NoObject}]
  BY ManagerAssumption DEF PointersUnique
<1>3. \A u \in Object : m_pimpl'[u] = IF u = other THEN NullPtr
                                     ELSE IF u = o THEN m_pimpl[other]
                                     ELSE m_pimpl[u]
  BY <1>1, <1>2
<1>4. \A u \in Object : m_pimpl'[u] \in pimpls' \cup {NullPtr, NoObject}
  BY <1>1, <1>2, <1>3 DEF PointersUnique
<1>5. ASSUME NEW p \in pimpls' PROVE \E u \in Object : m_pimpl'[u] = p
  <2>1. PICK u \in Object : m_pimpl[u] = p
    BY <1>1 DEF PointersUnique
  <2>2. u # o /\ (u = other => m_pimpl'[o] = p \/ o = other)
    BY <1>1, <1>3, <2>1
  <2> QED
    BY <1>3, <2>1, <2>2
<1>6. \A u, v \in Object : m_pimpl'[u] = m_pimpl'[v] /\ m_pimpl'[u] \in pimpls' => u = v
  BY <1>1, <1>2, <1>3 DEF PointersUnique
<1>7. m_pimpl' \in [Object -> pimpls' \cup {NullPtr, NoObject}]
  BY <1>1, <1>2, <1>4
<1> QED
  BY <1>1, <1>2, <1>5, <1>6, <1>7 DEF PointersUnique

(* The Pimpl of a destroyed object goes, if it still has one.              *)
LEMMA DestroyManagerInv ==
  ASSUME Owners, NEW o \in Object, DestroyManager(o)
  PROVE  Owners'
<1> USE DEF Owners
<1>1. /\ pimpls' = pimpls \ {m_pimpl[o]} /\ HandlesLive'
      /\ m_pimpl' = [m_pimpl EXCEPT ![o] = NoObject]
  BY DeleteInv DEF DestroyManager
<1>2. /\ pimpls \subseteq Address /\ NullPtr \notin pimpls /\ NoObject \notin pimpls
      /\ m_pimpl \in [Object -> pimpls \cup {NullPtr, NoObject}]
  BY ManagerAssumption DEF PointersUnique
<1>3. \A u \in Object : m_pimpl'[u] = IF u = o THEN NoObject ELSE m_pimpl[u]
  BY <1>1, <1>2
<1>4. \A u \in Object : m_pimpl'[u] \in pimpls' \cup {NullPtr, NoObject}
  BY <1>1, <1>2, <1>3 DEF PointersUnique
<1>5. ASSUME NEW p \in pimpls' PROVE \E u \in Object : m_pimpl'[u] = p
  <2>1. PICK u \in Object : m_pimpl[u] = p
    BY <1>1 DEF PointersUnique
  <2>2. u # o
    BY <1>1, <2>1
  <2> QED
    BY <1>3, <2>1, <2>2
<1>6. \A u, v \in Object : m_pimpl'[u] = m_pimpl'[v] /\ m_pimpl'[u] \in pimpls' => u = v
  BY <1>1, <1>2, <1>3 DEF PointersUnique
<1>7. m_pimpl' \in [Object -> pimpls' \cup {NullPtr, NoObject}]
  BY <1>1, <1>2, <1>4
<1> QED
  BY <1>1, <1>2, <1>5, <1>6, <1>7 DEF PointersUnique

(* The handle comes back, or else nobody will take it out a second time.   *)
LEMMA ReuseManagerInv ==
  ASSUME Owners, NEW o \in Object, ReuseManager(o)
  PROVE  Owners'
<1> USE DEF Owners, ReuseManager
<1>1. m_pimpl[o] \in pimpls
  BY ManagerAssumption DEF PointersUnique
<1>2. PointersUnique'
  BY DEF PointersUnique
<1>3. HandlesLive'
  BY <1>1 DEF HandlesLive, Reuses, ReuseThrows, AddHandle, RemoveHandle
<1> QED
  BY <1>2, <1>3

(* Every step of the objects keeps both.                                   *)
LEMMA OwnersNext == Owners /\ [ManagerNext]_allVars => Owners'
<1> SUFFICES ASSUME Owners, [ManagerNext]_allVars PROVE Owners'
  OBVIOUS
<1>1. CASE UNCHANGED objects
  BY <1>1 DEF objects, Owners, PointersUnique, HandlesLive
<1>2. CASE ManagerNext
  BY <1>1, <1>2, NewManagerInv, PointersMoveInv, MoveAssignInv, DestroyManagerInv,
     ReuseManagerInv DEF ManagerNext, Transfers
<1> QED
  BY <1>1, <1>2 DEF allVars

-----------------------------------------------------------------------------
(* Theorems *)

(***************************************************************************)
(* The invariant the others follow from: while a transfer runs the header  *)
(* handler is where the lines ended by CRLF have brought it, and its       *)
(* buffer carries over what follows the last CRLF.                         *)
(***************************************************************************)
THEOREM Invariance == ManagerSpec => []IInv
<1>1. ManagerInit => IInv
  BY TransferInit
     DEF ManagerInit, IInv, PointersUnique, HandlesLive
<1>2. IInv /\ [ManagerNext]_allVars => IInv'
  <2> SUFFICES ASSUME IInv, [ManagerNext]_allVars PROVE IInv'
    OBVIOUS
  <2>1. [Next]_vars
    BY StepOfTransfer DEF allVars
  <2> QED
    BY <2>1, TransferNext, OwnersNext DEF IInv, Owners
<1> QED
  BY <1>1, <1>2, PTL DEF ManagerSpec

(* Every variable of a transfer has its type, whatever becomes of objects. *)
THEOREM TypeCorrectness == ManagerSpec => []TypeOK
<1>1. IInv => TypeOK
  BY DEF IInv, TransferInv
<1> QED
  BY <1>1, Invariance, PTL

(***************************************************************************)
(* The result of a transfer follows from its own response alone, for any   *)
(* header, in whatever pieces it comes and with whatever ends of line, or  *)
(* none at all, for any body and size of chunks, and any number of reuses  *)
(* of the manager before, failed ones included.                            *)
(***************************************************************************)
THEOREM ResultsTell == ManagerSpec => []ResultTellsResponse
<1>1. IInv => ResultTellsResponse
  BY DEF IInv, TransferInv
<1> QED
  BY <1>1, Invariance, PTL

(* A Pimpl is deleted once, however many objects it is moved between.      *)
THEOREM DeletedOnce == ManagerSpec => []PimplsOwned
<1>1. IInv => PimplsOwned
  <2> SUFFICES ASSUME IInv PROVE PimplsOwned
    OBVIOUS
  <2> USE DEF IInv, PointersUnique
  <2>1. ASSUME NEW p \in pimpls
        PROVE  Cardinality({o \in Object : m_pimpl[o] = p}) = 1
    <3>1. PICK o \in Object : m_pimpl[o] = p
      OBVIOUS
    <3>2. {u \in Object : m_pimpl[u] = p} = {o}
      BY <3>1
    <3> QED
      BY <3>2, FS_Singleton
  <2> QED
    BY <2>1 DEF PimplsOwned
<1> QED
  BY <1>1, Invariance, PTL

(* libcurl holds the handles of the living only, however reuses failed.    *)
THEOREM NobodyGoneIsCalled == ManagerSpec => []HandlesLive
<1>1. IInv => HandlesLive
  BY DEF IInv
<1> QED
  BY <1>1, Invariance, PTL

(* What is said of a manager in Transfer holds of the one in an object:    *)
(* seen at one address, the objects take the steps of one transfer.        *)
THEOREM OneTransfer == ManagerSpec => Spec
<1>1. ManagerInit => Init
  BY DEF ManagerInit
<1>2. [ManagerNext]_allVars => [Next]_vars
  BY StepOfTransfer DEF allVars
<1> QED
  BY <1>1, <1>2, PTL DEF ManagerSpec, Spec
=============================================================================
