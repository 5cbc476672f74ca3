---------------------- MODULE CurlAsioDownloaderProofs ----------------------
(***************************************************************************)
(* Proofs about CurlAsioDownloader, for any number of downloads, sockets   *)
(* and waits: what libcurl waits for stays watched, a running transfer     *)
(* stays timed, no message of libcurl is left unread, the destructor leaves*)
(* the timer alone and no handler throws; and the class does what the      *)
(* interface Downloader promises.                                          *)
(***************************************************************************)
EXTENDS CurlAsioDownloader, Vectors, FiniteSetTheorems

-----------------------------------------------------------------------------
(* The inductive invariant *)

InHandler == pc \in {"newDownload", "curl", "finish", "callback"}

(* The io thread is in a handler exactly when it has taken one, and only   *)
(* the one that download() posted goes to newDownload.                     *)
HandlerTaken ==
  /\ InHandler => event \in Event /\ (pc = "newDownload" <=> event.kind = "new")
  /\ ~InHandler => event = NoEvent

(* The destructor's steps come in order, and leave no handler to run. *)
OwnerState ==
  /\ stopped <=> mpc # "use"
  /\ stopped => handlers = <<>>
  /\ pc = "joined" <=> mpc \in {"downloads", "gone"}

(* What download() posted is taken once. *)
NewOnce(s) ==
  \A i, j \in DOMAIN s : s[i] = s[j] /\ s[i].kind = "new" => i = j

PostedOnce ==
  /\ NewOnce(handlers)
  /\ \A d \in Download :
       /\ NewEvent(d) \in Range(handlers) => stage[d] = "posted"
       /\ pc = "newDownload" /\ event = NewEvent(d) =>
            stage[d] = "posted" /\ NewEvent(d) \notin Range(handlers)

(* While the io_context runs, libcurl's sockets are those of m_sockets. *)
SocketsKnown == ~stopped => DOMAIN conn \subseteq DOMAIN m_sockets

(* A callback is called in its handler and one at a time. *)
OneCallback ==
  /\ pc # "callback" => At("callback") = {}
  /\ \A d, e \in At("callback") : d = e
  /\ pc \in {"run", "newDownload", "joined"} => At("done") = {}

(* The io thread knows whether a transfer is left when it cancels m_timer. *)
Counted ==
  /\ IsFiniteSet(Active)
  /\ pc \in {"finish", "callback"} => activeDownloads = Cardinality(Active)

(* TransferTimed, where the event of the timer counts until libcurl returns.*)
Timed ==
  ~stopped /\ Active # {} =>
    \/ m_timer = "armed" \/ TimerEvent \in Range(handlers)
    \/ pc = "curl" /\ event = TimerEvent

(* WatchKept, where the event counts while its handler runs. *)
Watched ==
  ~stopped =>
    \A fd \in DOMAIN m_sockets : \A dir \in Directions(m_sockets[fd]) :
      \/ waits[fd][dir] > 0
      \/ SocketEvent(fd, dir, FALSE) \in Range(handlers)
      \/ InHandler /\ event = SocketEvent(fd, dir, FALSE)

IInv ==
  /\ TypeOK
  /\ HandlerTaken
  /\ OwnerState
  /\ PostedOnce
  /\ SocketsKnown
  /\ OneCallback
  /\ Counted
  /\ Timed
  /\ Watched
  /\ TimerStaysDestroyed
  /\ NoHandlerThrows

-----------------------------------------------------------------------------
(* Events and the queue of the handlers *)

(* The three kinds of events, and what tells two of a kind apart. *)
LEMMA EventKinds ==
  /\ \A d \in Download : NewEvent(d) \in Event
  /\ \A d : NewEvent(d).kind = "new" /\ NewEvent(d).download = d
  /\ \A d, e : NewEvent(d) = NewEvent(e) => d = e
  /\ \A fd \in Fd, dir \in Dir, error \in BOOLEAN :
       SocketEvent(fd, dir, error) \in Event
  /\ \A fd, dir, error :
       /\ SocketEvent(fd, dir, error).kind = "socket"
       /\ SocketEvent(fd, dir, error).fd = fd
       /\ SocketEvent(fd, dir, error).dir = dir
       /\ SocketEvent(fd, dir, error).error = error
  /\ TimerEvent \in Event /\ TimerEvent.kind = "timer"
  /\ \A e \in Event :
       \/ \E d \in Download : e = NewEvent(d)
       \/ \E fd \in Fd, dir \in Dir, error \in BOOLEAN :
            e = SocketEvent(fd, dir, error)
       \/ e = TimerEvent
<1>1. /\ \A d \in Download : NewEvent(d) \in Event
      /\ \A fd \in Fd, dir \in Dir, error \in BOOLEAN :
           SocketEvent(fd, dir, error) \in Event
      /\ TimerEvent \in Event
  BY DEF Event
<1>2. /\ \A d : NewEvent(d).kind = "new" /\ NewEvent(d).download = d
      /\ TimerEvent.kind = "timer"
  BY DEF NewEvent, TimerEvent
<1>3. \A fd, dir, error :
        /\ SocketEvent(fd, dir, error).kind = "socket"
        /\ SocketEvent(fd, dir, error).fd = fd
        /\ SocketEvent(fd, dir, error).dir = dir
        /\ SocketEvent(fd, dir, error).error = error
  BY DEF SocketEvent
<1>4. \A e \in Event :
        \/ \E d \in Download : e = NewEvent(d)
        \/ \E fd \in Fd, dir \in Dir, error \in BOOLEAN :
             e = SocketEvent(fd, dir, error)
        \/ e = TimerEvent
  BY DEF Event
<1> QED
  BY <1>1, <1>2, <1>3, <1>4

(* Taking the first handler. *)
LEMMA NewOnceTail ==
  ASSUME NEW s \in Seq(Event), s # <<>>, NewOnce(s)
  PROVE  /\ NewOnce(Tail(s))
         /\ Head(s).kind = "new" => Head(s) \notin Range(Tail(s))
<1>1. /\ DOMAIN Tail(s) = 1..Len(s) - 1 /\ DOMAIN s = 1..Len(s)
      /\ Len(s) \in Nat \ {0}
      /\ \A i \in 1..Len(s) - 1 : Tail(s)[i] = s[i + 1]
      /\ Head(s) = s[1]
  OBVIOUS
<1>2. NewOnce(Tail(s))
  BY <1>1 DEF NewOnce
<1>3. ASSUME Head(s).kind = "new", NEW i \in 1..Len(s) - 1, Tail(s)[i] = Head(s)
      PROVE  FALSE
  BY <1>1, <1>3 DEF NewOnce
<1> QED
  BY <1>1, <1>2, <1>3 DEF Range

(* Adding a handler at the end. *)
LEMMA NewOnceAppend ==
  ASSUME NEW s \in Seq(Event), NewOnce(s), NEW e \in Event,
         e.kind = "new" => e \notin Range(s)
  PROVE  NewOnce(Append(s, e))
<1> DEFINE t == Append(s, e)
<1>1. /\ DOMAIN t = 1..Len(s) + 1 /\ DOMAIN s = 1..Len(s)
      /\ Len(s) \in Nat
      /\ \A i \in 1..Len(s) : t[i] = s[i]
      /\ t[Len(s) + 1] = e
  OBVIOUS
<1> HIDE DEF t
<1> SUFFICES ASSUME NEW i \in DOMAIN t, NEW j \in DOMAIN t,
                    t[i] = t[j], t[i].kind = "new"
             PROVE  i = j
  BY DEF NewOnce, t
<1>2. CASE i \in 1..Len(s) /\ j \in 1..Len(s)
  BY <1>1, <1>2 DEF NewOnce
<1>3. CASE i = Len(s) + 1 /\ j \in 1..Len(s)
  BY <1>1, <1>3 DEF Range
<1>4. CASE j = Len(s) + 1 /\ i \in 1..Len(s)
  BY <1>1, <1>4 DEF Range
<1> QED
  BY <1>1, <1>2, <1>3, <1>4

(* Adding handlers none of which was posted. *)
LEMMA NewOnceConcat ==
  ASSUME NEW s \in Seq(Event), NewOnce(s), NEW t \in Seq(Event),
         \A e \in Range(t) : e.kind # "new"
  PROVE  NewOnce(s \o t)
<1> DEFINE u == s \o t
<1>1. /\ DOMAIN u = 1..Len(s) + Len(t)
      /\ DOMAIN s = 1..Len(s) /\ DOMAIN t = 1..Len(t)
      /\ Len(s) \in Nat /\ Len(t) \in Nat
      /\ \A i \in 1..Len(s) : u[i] = s[i]
      /\ \A i \in 1..Len(t) : u[Len(s) + i] = t[i]
  OBVIOUS
<1> HIDE DEF u
<1>2. ASSUME NEW i \in DOMAIN u, u[i].kind = "new"
      PROVE  i \in 1..Len(s)
  <2> SUFFICES ASSUME i > Len(s) PROVE FALSE
    BY <1>1
  <2>1. i - Len(s) \in 1..Len(t) /\ Len(s) + (i - Len(s)) = i
    BY <1>1
  <2>2. u[i] = t[i - Len(s)]
    BY <1>1, <2>1
  <2> QED
    BY <1>1, <1>2, <2>1, <2>2 DEF Range
<1>3. ASSUME NEW i \in DOMAIN u, NEW j \in DOMAIN u,
             u[i] = u[j], u[i].kind = "new"
      PROVE  i = j
  BY <1>1, <1>2, <1>3 DEF NewOnce
<1> QED
  BY <1>3 DEF NewOnce, u

(* The handlers of a closed socket's waits are events of that socket. *)
LEMMA AbortedTypes ==
  ASSUME TypeOK, NEW fd \in DOMAIN m_sockets
  PROVE  /\ AbortedEvents(fd) \in Seq(Event)
         /\ \A e \in Range(AbortedEvents(fd)) : e.kind # "new"
<1> DEFINE In == [i \in 1 .. waits[fd]["IN"] |-> SocketEvent(fd, "IN", TRUE)]
           Out == [i \in 1 .. waits[fd]["OUT"] |-> SocketEvent(fd, "OUT", TRUE)]
<1>1. /\ waits[fd]["IN"] \in Nat /\ waits[fd]["OUT"] \in Nat
      /\ fd \in Fd
  BY DEF TypeOK, Dir
<1>2. /\ SocketEvent(fd, "IN", TRUE) \in Event
      /\ SocketEvent(fd, "OUT", TRUE) \in Event
      /\ SocketEvent(fd, "IN", TRUE).kind = "socket"
      /\ SocketEvent(fd, "OUT", TRUE).kind = "socket"
  <2>1. "IN" \in Dir /\ "OUT" \in Dir /\ TRUE \in BOOLEAN
    BY DEF Dir
  <2>2. /\ SocketEvent(fd, "IN", TRUE).kind = "socket"
        /\ SocketEvent(fd, "OUT", TRUE).kind = "socket"
    BY DEF SocketEvent
  <2>3. \A f \in Fd, dir \in Dir, error \in BOOLEAN :
          SocketEvent(f, dir, error) \in Event
    BY EventKinds
  <2>4. SocketEvent(fd, "IN", TRUE) \in Event /\ SocketEvent(fd, "OUT", TRUE) \in Event
    BY <1>1, <2>1, <2>3, Zenon
  <2> QED
    BY <2>2, <2>4
<1>3. In \in Seq(Event) /\ Range(In) \subseteq {SocketEvent(fd, "IN", TRUE)}
  BY <1>1, <1>2, RepeatRange
<1>4. Out \in Seq(Event) /\ Range(Out) \subseteq {SocketEvent(fd, "OUT", TRUE)}
  BY <1>1, <1>2, RepeatRange
<1> HIDE DEF In, Out
<1>5. In \o Out \in Seq(Event) /\ Range(In \o Out) = Range(In) \cup Range(Out)
  BY <1>3, <1>4, ConcatRange
<1>6. AbortedEvents(fd) = In \o Out
  BY DEF AbortedEvents, In, Out
<1> QED
  BY <1>2, <1>3, <1>4, <1>5, <1>6

LEMMA InitInv == Init => IInv
<1> SUFFICES ASSUME Init PROVE IInv
  OBVIOUS
<1> USE DEF Init
<1>1. \A what \in {"active", "done", "callback"} : At(what) = {}
  BY DEF At
<1>2. Active = {} /\ IsFiniteSet(Active)
  BY <1>1, FS_EmptySet DEF Active
<1>3. TypeOK
  <2>1. DOMAIN m_sockets = {} /\ \A S : <<>> \in [{} -> S]
    OBVIOUS
  <2>2. /\ m_sockets \in [DOMAIN m_sockets -> Watch]
        /\ waits \in [DOMAIN m_sockets -> [Dir -> Nat]]
        /\ conn \in [DOMAIN conn -> Download \cup {NoDownload}]
        /\ DOMAIN conn = {}
    BY <2>1
  <2>3. handlers \in Seq(Event) /\ stage \in [Download -> {"new"}]
    OBVIOUS
  <2> QED
    BY <2>1, <2>2, <2>3 DEF TypeOK
<1>4. HandlerTaken /\ OwnerState /\ SocketsKnown /\ TimerStaysDestroyed
      /\ NoHandlerThrows
  BY DEF HandlerTaken, InHandler, OwnerState, SocketsKnown, TimerStaysDestroyed,
         NoHandlerThrows
<1>5. PostedOnce
  BY EmptyRange DEF PostedOnce, NewOnce
<1>6. OneCallback /\ Counted /\ Timed /\ Watched
  BY <1>1, <1>2 DEF OneCallback, Counted, Timed, Watched
<1> QED
  BY <1>3, <1>4, <1>5, <1>6 DEF IInv

-----------------------------------------------------------------------------
(* What the callbacks of libcurl do *)

LEMMA DirectionTypes ==
  ASSUME NEW action
  PROVE  /\ Directions(action) \subseteq Dir
         /\ action \in {"NONE", "REMOVE"} => Directions(action) = {}
         /\ \A dir : dir \in Directions(action) <=>
              dir \in Dir /\ action \in {dir, "INOUT"}
  BY DEF Directions, Dir

(* Adding waits adds to what is watched. *)
LEMMA WaitsAdded ==
  ASSUME TypeOK, NEW fd, NEW dirs, AddWaits(fd, dirs)
  PROVE  /\ waits' \in [DOMAIN m_sockets -> [Dir -> Nat]]
         /\ \A f \in DOMAIN m_sockets : \A dir \in Dir :
              /\ waits[f][dir] > 0 => waits'[f][dir] > 0
              /\ f = fd /\ dir \in dirs => waits'[f][dir] > 0
<1>1. /\ waits \in [DOMAIN m_sockets -> [Dir -> Nat]]
      /\ \A f \in DOMAIN m_sockets : \A dir \in Dir : waits[f][dir] \in Nat
  BY DEF TypeOK
<1>2. CASE fd \notin DOMAIN m_sockets
  <2>1. waits' = waits
    BY <1>1, <1>2 DEF AddWaits
  <2> QED
    BY <1>1, <1>2, <2>1
<1>3. CASE fd \in DOMAIN m_sockets
  <2> DEFINE row == [dir \in Dir |-> IF dir \in dirs THEN waits[fd][dir] + 1
                                     ELSE waits[fd][dir]]
  <2>1. /\ row \in [Dir -> Nat]
        /\ \A dir \in Dir : /\ waits[fd][dir] > 0 => row[dir] > 0
                            /\ dir \in dirs => row[dir] > 0
    BY <1>1, <1>3
  <2>2. waits' = [waits EXCEPT ![fd] = row]
    BY DEF AddWaits
  <2> HIDE DEF row
  <2> QED
    BY <1>1, <1>3, <2>1, <2>2
<1> QED
  BY <1>2, <1>3

(* A step that changes sockets and waits only. *)
LEMMA SocketStep ==
  ASSUME IInv, UNCHANGED <<stage, m_timer, io, owner, asked>>,
         TypeOK', SocketsKnown', Watched'
  PROVE  IInv'
<1> USE DEF io, owner
<1>1. HandlerTaken' /\ OwnerState'
  BY DEF IInv, HandlerTaken, InHandler, OwnerState
<1>2. PostedOnce' /\ OneCallback' /\ Counted'
  BY DEF IInv, PostedOnce, OneCallback, Counted, Active, At
<1>3. Timed' /\ TimerStaysDestroyed' /\ NoHandlerThrows'
  BY DEF IInv, Timed, Active, At, TimerStaysDestroyed, NoHandlerThrows
<1> QED
  BY <1>1, <1>2, <1>3 DEF IInv

LEMMA AddSocketActionsInv ==
  ASSUME IInv, NEW fd \in DOMAIN m_sockets, NEW action \in Watch \ {"NONE"},
         AddSocketActions(fd, action)
  PROVE  IInv'
<1> USE DEF AddSocketActions, io, owner
<1>1. PICK added : /\ added = Directions(action) \ Directions(m_sockets[fd])
                   /\ AddWaits(fd, added)
  OBVIOUS
<1>2. /\ waits' \in [DOMAIN m_sockets -> [Dir -> Nat]]
      /\ \A f \in DOMAIN m_sockets : \A dir \in Dir :
           /\ waits[f][dir] > 0 => waits'[f][dir] > 0
           /\ f = fd /\ dir \in added => waits'[f][dir] > 0
  BY <1>1, WaitsAdded DEF IInv
<1>3. /\ DOMAIN m_sockets' = DOMAIN m_sockets
      /\ m_sockets' \in [DOMAIN m_sockets -> Watch]
      /\ m_sockets'[fd] = action
      /\ \A f \in DOMAIN m_sockets \ {fd} : m_sockets'[f] = m_sockets[f]
  BY DEF IInv, TypeOK
<1>4. TypeOK'
  BY <1>2, <1>3 DEF IInv, TypeOK, curl
<1>5. SocketsKnown'
  BY <1>3 DEF IInv, SocketsKnown, curl
<1>6. Watched'
  <2> SUFFICES ASSUME NEW f \in DOMAIN m_sockets,
                      NEW dir \in Directions(m_sockets'[f])
               PROVE  \/ waits'[f][dir] > 0
                      \/ SocketEvent(f, dir, FALSE) \in Range(handlers)
                      \/ InHandler /\ event = SocketEvent(f, dir, FALSE)
    BY <1>3 DEF Watched, InHandler
  <2>1. dir \in Dir
    BY DirectionTypes
  <2>2. CASE dir \in Directions(m_sockets[f])
    BY <1>2, <2>1, <2>2 DEF IInv, Watched
  <2>3. CASE dir \notin Directions(m_sockets[f])
    BY <1>1, <1>2, <1>3, <2>1, <2>3
  <2> QED
    BY <2>2, <2>3
<1> QED
  BY <1>4, <1>5, <1>6, SocketStep DEF curl

LEMMA OpenSocketInv ==
  ASSUME IInv, NEW d \in Download, NEW fd \in Fd, OpenSocket(d, fd)
  PROVE  IInv'
<1> USE DEF OpenSocket, io, owner
<1>1. /\ m_sockets \in [DOMAIN m_sockets -> Watch]
      /\ waits \in [DOMAIN m_sockets -> [Dir -> Nat]]
      /\ conn \in [DOMAIN conn -> Download \cup {NoDownload}]
      /\ DOMAIN waits = DOMAIN m_sockets
  BY DEF IInv, TypeOK
<1>2. /\ DOMAIN m_sockets' = DOMAIN m_sockets \cup {fd}
      /\ DOMAIN conn' = DOMAIN conn \cup {fd}
      /\ m_sockets'[fd] = "NONE"
      /\ \A f \in DOMAIN m_sockets :
           m_sockets'[f] = m_sockets[f] /\ waits'[f] = waits[f]
  BY <1>1
<1>3. m_sockets' \in [DOMAIN m_sockets' -> Watch]
  BY <1>1, <1>2 DEF Watch
<1>4. waits' \in [DOMAIN m_sockets' -> [Dir -> Nat]]
  BY <1>1, <1>2
<1>5. conn' \in [DOMAIN conn' -> Download \cup {NoDownload}]
  BY <1>1, <1>2
<1>6. TypeOK'
  BY <1>2, <1>3, <1>4, <1>5 DEF IInv, TypeOK
<1>7. SocketsKnown'
  BY <1>2 DEF IInv, SocketsKnown
<1>8. Watched'
  <2>1. Directions(m_sockets'[fd]) = {}
    BY <1>2, DirectionTypes
  <2> QED
    BY <1>2, <2>1 DEF IInv, Watched, InHandler
<1> QED
  BY <1>6, <1>7, <1>8, SocketStep

LEMMA ConnectionInv ==
  ASSUME IInv, NEW d \in Download,
         OpenSocketStopped(d) \/ \E fd \in Fd : ReuseConnection(d, fd)
  PROVE  IInv'
<1> USE DEF OpenSocketStopped, ReuseConnection, asio, io, owner
<1>1. UNCHANGED <<stage, asio, io, owner, asked>>
  OBVIOUS
<1>2. /\ conn' \in [DOMAIN conn' -> Download \cup {NoDownload}]
      /\ DOMAIN conn' = DOMAIN conn \/ (stopped /\ DOMAIN conn' = DOMAIN conn \cup {Stdin})
  <2>1. conn \in [DOMAIN conn -> Download \cup {NoDownload}]
    BY DEF IInv, TypeOK
  <2>2. CASE OpenSocketStopped(d)
    BY <2>1, <2>2
  <2>3. CASE \E fd \in Fd : ReuseConnection(d, fd)
    BY <2>1, <2>3
  <2> QED
    BY <2>2, <2>3
<1>3. TypeOK'
  BY <1>1, <1>2 DEF IInv, TypeOK
<1>4. SocketsKnown'
  BY <1>1, <1>2 DEF IInv, SocketsKnown
<1>5. Watched'
  BY <1>1 DEF IInv, Watched, InHandler
<1> QED
  BY <1>1, <1>3, <1>4, <1>5, SocketStep

(* closeSocket: libcurl closes only sockets that the class knows. *)
LEMMA CloseSocketInv ==
  ASSUME IInv, NEW fd, CloseSocket(fd)
  PROVE  IInv'
<1> USE DEF CloseSocket, Closes, owner
<1>1. /\ conn' \in [DOMAIN conn' -> Download \cup {NoDownload}]
      /\ DOMAIN conn' = DOMAIN conn \ {fd}
  <2>1. conn \in [DOMAIN conn -> Download \cup {NoDownload}]
    BY DEF IInv, TypeOK
  <2> QED
    BY <2>1 DEF Without
<1>2. CASE stopped
  <2>1. UNCHANGED <<stage, asio, io, owner, asked>>
    BY <1>2 DEF asio, io
  <2>2. TypeOK'
    BY <1>1, <2>1 DEF IInv, TypeOK, asio, io
  <2>3. SocketsKnown' /\ Watched'
    BY <1>2, <2>1 DEF SocketsKnown, Watched
  <2> QED
    BY <2>1, <2>2, <2>3, SocketStep DEF asio, io
<1>3. CASE ~stopped
  <2>1. fd \in DOMAIN m_sockets
    BY <1>3 DEF IInv, SocketsKnown
  <2>2. PICK aborted \in Seq(Event) :
          /\ aborted = AbortedEvents(fd)
          /\ \A e \in Range(aborted) : e.kind # "new"
    BY <2>1, AbortedTypes DEF IInv
  <2>3. /\ m_sockets' = Without(m_sockets, fd)
        /\ waits' = Without(waits, fd)
        /\ handlers' = handlers \o aborted
        /\ pc' = pc
    BY <1>3, <2>1, <2>2 DEF EraseSocket
  <2>4. handlers \in Seq(Event) /\ NewOnce(handlers)
    BY DEF IInv, TypeOK, PostedOnce
  <2>5. /\ handlers' \in Seq(Event)
        /\ Range(handlers') = Range(handlers) \cup Range(aborted)
        /\ NewOnce(handlers')
    BY <2>2, <2>3, <2>4, ConcatRange, NewOnceConcat
  <2>6. /\ DOMAIN m_sockets' = DOMAIN m_sockets \ {fd}
        /\ m_sockets' \in [DOMAIN m_sockets' -> Watch]
        /\ waits' \in [DOMAIN m_sockets' -> [Dir -> Nat]]
        /\ \A f \in DOMAIN m_sockets' :
             m_sockets'[f] = m_sockets[f] /\ waits'[f] = waits[f]
    BY <2>3 DEF Without, IInv, TypeOK
  <2>7. TypeOK'
    <3>1. DOMAIN conn' \subseteq DOMAIN m_sockets' \cup {Stdin}
      BY <1>1, <2>6 DEF IInv, TypeOK
    <3> QED
      BY <1>1, <2>3, <2>5, <2>6, <3>1 DEF IInv, TypeOK
  <2>8. HandlerTaken' /\ OwnerState' /\ OneCallback' /\ Counted'
        /\ TimerStaysDestroyed' /\ NoHandlerThrows'
    BY <1>3, <2>3 DEF IInv, HandlerTaken, InHandler, OwnerState, OneCallback, Counted,
                Active, At, TimerStaysDestroyed, NoHandlerThrows
  <2>9. PostedOnce'
    <3>1. \A d \in Download :
            NewEvent(d) \in Range(handlers') => NewEvent(d) \in Range(handlers)
      BY <2>2, <2>5, EventKinds
    <3> QED
      BY <2>3, <2>5, <3>1 DEF IInv, PostedOnce
  <2>10. SocketsKnown'
    BY <1>1, <2>6 DEF IInv, SocketsKnown
  <2>11. Timed'
    BY <2>3, <2>5 DEF IInv, Timed, Active, At
  <2>12. Watched'
    BY <1>3, <2>3, <2>5, <2>6 DEF IInv, Watched, InHandler
  <2> QED
    BY <2>7, <2>8, <2>9, <2>10, <2>11, <2>12 DEF IInv
<1> QED
  BY <1>2, <1>3

LEMMA TransferDoneInv ==
  ASSUME IInv, NEW d \in Download, TransferDone(d)
  PROVE  IInv'
<1> USE DEF TransferDone, io, owner
<1>1. /\ stage' \in [Download -> {"new", "posted", "active", "done", "callback",
                                  "ended", "aborted"}]
      /\ stage[d] = "active" /\ stage'[d] = "done"
      /\ \A x \in Download \ {d} : stage'[x] = stage[x]
  BY DEF IInv, TypeOK, Active, At
<1>2. /\ DOMAIN m_sockets' = DOMAIN m_sockets
      /\ m_sockets' \in [DOMAIN m_sockets -> Watch]
      /\ \A fd \in DOMAIN m_sockets : m_sockets'[fd] \in {m_sockets[fd], "REMOVE"}
  <2>1. m_sockets \in [DOMAIN m_sockets -> Watch] /\ "REMOVE" \in Watch
    BY DEF IInv, TypeOK, Watch
  <2> QED
    BY <2>1
<1>3. /\ DOMAIN conn' = DOMAIN conn
      /\ conn' \in [DOMAIN conn' -> Download \cup {NoDownload}]
  BY DEF IInv, TypeOK
<1>4. TypeOK'
  BY <1>1, <1>2, <1>3 DEF IInv, TypeOK
<1>5. HandlerTaken' /\ OwnerState' /\ TimerStaysDestroyed' /\ NoHandlerThrows'
  BY DEF IInv, HandlerTaken, InHandler, OwnerState, TimerStaysDestroyed,
         NoHandlerThrows
<1>6. PostedOnce'
  BY <1>1 DEF IInv, PostedOnce
<1>7. SocketsKnown'
  BY <1>2, <1>3 DEF IInv, SocketsKnown
<1>8. Active' = Active \ {d} /\ At("callback")' = At("callback")
  BY <1>1 DEF Active, At
<1>9. OneCallback'
  BY <1>8 DEF IInv, OneCallback
<1>10. Counted'
  BY <1>8, FS_RemoveElement DEF IInv, Counted
<1>11. Timed'
  BY <1>8 DEF IInv, Timed
<1>12. Watched'
  <2>1. \A fd \in DOMAIN m_sockets :
          Directions(m_sockets'[fd]) \subseteq Directions(m_sockets[fd])
    BY <1>2, DirectionTypes
  <2> QED
    BY <1>2, <2>1 DEF IInv, Watched, InHandler
<1> QED
  BY <1>4, <1>5, <1>6, <1>7, <1>9, <1>10, <1>11, <1>12 DEF IInv

-----------------------------------------------------------------------------
(* The handlers of the io thread *)

(* What timerCurl leaves of the timer. *)
LEMMA TimerCurlFacts ==
  ASSUME IInv, NEW asking \in BOOLEAN, TimerCurl(asking)
  PROVE  /\ asked' \in BOOLEAN /\ m_timer' \in {"off", "armed", "destroyed"}
         /\ ~stopped /\ asking => m_timer' = "armed"
         /\ stopped => m_timer' = m_timer
  BY DEF TimerCurl, IInv, TypeOK

LEMMA LeaveCurlInv ==
  ASSUME IInv, LeaveCurl
  PROVE  IInv'
<1> USE DEF LeaveCurl, owner
<1>1. /\ asked' \in BOOLEAN /\ m_timer' \in {"off", "armed", "destroyed"}
      /\ ~stopped /\ Active # {} =>
           \/ m_timer' = "armed"
           \/ /\ m_timer' = m_timer
              /\ ~(event = TimerEvent /\ m_timer # "armed")
      /\ stopped => m_timer' = m_timer
  <2>1. CASE TimerCurl(Active # {})
    BY <2>1, TimerCurlFacts
  <2>2. CASE UNCHANGED <<asked, m_timer>>
            /\ ((asked /\ ~(event = TimerEvent /\ m_timer # "armed")) \/ Active = {})
    BY <2>2 DEF IInv, TypeOK
  <2> QED
    BY <2>1, <2>2
<1>2. Cardinality(Active) \in Nat
  BY FS_CardinalityType DEF IInv, Counted
<1>3. TypeOK'
  BY <1>1, <1>2 DEF IInv, TypeOK
<1>4. HandlerTaken' /\ OwnerState' /\ NoHandlerThrows'
  BY DEF IInv, HandlerTaken, InHandler, OwnerState, NoHandlerThrows
<1>5. PostedOnce' /\ SocketsKnown' /\ OneCallback' /\ Counted'
  BY DEF IInv, PostedOnce, SocketsKnown, OneCallback, Counted, Active, At
<1>6. Timed'
  BY <1>1 DEF IInv, Timed, Active, At
<1>7. Watched'
  BY DEF IInv, Watched, InHandler
<1>8. TimerStaysDestroyed'
  BY DEF IInv, OwnerState, TimerStaysDestroyed
<1> QED
  BY <1>3, <1>4, <1>5, <1>6, <1>7, <1>8 DEF IInv

LEMMA PostDownloadInv ==
  ASSUME IInv, PostDownload
  PROVE  IInv' /\ \E d \in At("new") : stage' = [stage EXCEPT ![d] = "posted"]
<1> USE DEF PostDownload, asio, owner, curl
<1>1. PICK d \in At("new") : /\ stage' = [stage EXCEPT ![d] = "posted"]
                             /\ handlers' = Append(handlers, NewEvent(d))
  OBVIOUS
<1>2. /\ d \in Download /\ stage[d] = "new" /\ stage'[d] = "posted"
      /\ \A x \in Download \ {d} : stage'[x] = stage[x]
      /\ stage' \in [Download -> {"new", "posted", "active", "done", "callback",
                                  "ended", "aborted"}]
  BY <1>1 DEF IInv, TypeOK, At
<1>3. /\ NewEvent(d) \in Event /\ NewEvent(d) \notin Range(handlers)
      /\ handlers \in Seq(Event) /\ NewOnce(handlers)
  BY <1>2, EventKinds DEF IInv, PostedOnce, TypeOK
<1>4. /\ handlers' \in Seq(Event)
      /\ Range(handlers') = Range(handlers) \cup {NewEvent(d)}
      /\ NewOnce(handlers')
  <2>1. PICK e \in Event : e = NewEvent(d)
    BY <1>3
  <2>2. NewOnce(Append(handlers, e))
    BY <1>3, <2>1, NewOnceAppend
  <2>3. Append(handlers, e) \in Seq(Event)
        /\ Range(Append(handlers, e)) = Range(handlers) \cup {e}
    BY <1>3, AppendRange
  <2> QED
    BY <1>1, <2>1, <2>2, <2>3
<1>5. TypeOK'
  BY <1>2, <1>4 DEF IInv, TypeOK
<1>6. HandlerTaken' /\ OwnerState' /\ TimerStaysDestroyed' /\ NoHandlerThrows'
      /\ SocketsKnown'
  BY DEF IInv, HandlerTaken, InHandler, OwnerState, TimerStaysDestroyed,
         NoHandlerThrows, SocketsKnown
<1>7. PostedOnce'
  <2>1. ASSUME NEW x \in Download, NewEvent(x) \in Range(handlers')
        PROVE  stage'[x] = "posted"
    BY <1>2, <1>4, <2>1, EventKinds DEF IInv, PostedOnce
  <2>2. ASSUME NEW x \in Download, pc = "newDownload", event = NewEvent(x)
        PROVE  stage'[x] = "posted" /\ NewEvent(x) \notin Range(handlers')
    <3>1. stage[x] = "posted" /\ NewEvent(x) \notin Range(handlers)
      BY <2>2 DEF IInv, PostedOnce
    <3>2. x # d /\ NewEvent(x) # NewEvent(d)
      BY <1>2, <3>1, EventKinds
    <3> QED
      BY <1>2, <1>4, <3>1, <3>2
  <2> QED
    BY <1>4, <2>1, <2>2 DEF PostedOnce
<1>8. \A what \in {"active", "done", "callback"} : At(what)' = At(what)
  BY <1>2 DEF At
<1>9. OneCallback' /\ Counted'
  BY <1>8 DEF IInv, OneCallback, Counted, Active
<1>10. Timed' /\ Watched'
  BY <1>4, <1>8 DEF IInv, Timed, Active, Watched, InHandler
<1>11. IInv'
  BY <1>4, <1>5, <1>6, <1>7, <1>9, <1>10 DEF IInv
<1> QED
  BY <1>1, <1>11

(* The handler taken, and those that stay. *)
LEMMA TakeFacts ==
  ASSUME IInv, NEW kind, Take(kind)
  PROVE  /\ Head(handlers) \in Event /\ Head(handlers).kind = kind
         /\ handlers' \in Seq(Event)
         /\ Range(handlers) = Range(handlers') \cup {Head(handlers)}
         /\ NewOnce(handlers')
         /\ kind = "new" => Head(handlers) \notin Range(handlers')
<1> USE DEF Take
<1>1. handlers \in Seq(Event) /\ NewOnce(handlers)
  BY DEF IInv, TypeOK, PostedOnce
<1> QED
  BY <1>1, HeadTailRange, NewOnceTail

(* What a taken handler leaves as it is. *)
LEMMA TakeStays ==
  ASSUME IInv, NEW kind, Take(kind), pc' \in {"run", "newDownload", "curl"},
         event' \in Event \cup {NoEvent}
  PROVE  /\ TypeOK' /\ SocketsKnown' /\ Counted'
         /\ OwnerState' /\ TimerStaysDestroyed' /\ NoHandlerThrows' /\ OneCallback'
<1> USE DEF Take, asio, owner, curl
<1>1. TypeOK'
  BY TakeFacts DEF IInv, TypeOK
<1>2. SocketsKnown' /\ Counted' /\ OneCallback'
  BY DEF IInv, SocketsKnown, Counted, OneCallback, Active, At
<1>3. OwnerState' /\ TimerStaysDestroyed' /\ NoHandlerThrows'
  BY DEF IInv, OwnerState, TimerStaysDestroyed, NoHandlerThrows
<1> QED
  BY <1>1, <1>2, <1>3

LEMMA TakeNewInv ==
  ASSUME IInv, TakeNew
  PROVE  IInv'
<1> USE DEF TakeNew
<1>1. PICK e \in Event :
        /\ e = Head(handlers) /\ e.kind = "new"
        /\ NewOnce(handlers')
        /\ Range(handlers) = Range(handlers') \cup {e}
        /\ e \notin Range(handlers')
  BY TakeFacts
<1>2. /\ stage' = stage /\ stopped' = stopped /\ m_sockets' = m_sockets
      /\ waits' = waits /\ m_timer' = m_timer
      /\ pc = "run" /\ pc' = "newDownload" /\ event' = e
  BY <1>1 DEF Take, asio, owner
<1>3. /\ TypeOK' /\ SocketsKnown' /\ Counted'
      /\ OwnerState' /\ TimerStaysDestroyed' /\ NoHandlerThrows' /\ OneCallback'
  BY <1>2, TakeStays
<1>4. HandlerTaken'
  BY <1>1, <1>2 DEF HandlerTaken, InHandler
<1>5. PostedOnce'
  BY <1>1, <1>2 DEF IInv, PostedOnce
<1>6. Timed'
  <2>1. e # TimerEvent
    BY <1>1, EventKinds
  <2> QED
    BY <1>1, <1>2, <2>1 DEF IInv, Timed, Active, At
<1>7. Watched'
  <2>1. \A fd, dir : e # SocketEvent(fd, dir, FALSE)
    BY <1>1 DEF SocketEvent
  <2> QED
    BY <1>1, <1>2, <2>1 DEF IInv, Watched, InHandler
<1> QED
  BY <1>3, <1>4, <1>5, <1>6, <1>7 DEF IInv

LEMMA NewDownloadInv ==
  ASSUME IInv, NewDownload
  PROVE  /\ IInv'
         /\ \E d \in Download : /\ stage[d] = "posted"
                                /\ stage' = [stage EXCEPT ![d] = "active"]
<1> USE DEF NewDownload, owner
<1>1. PICK d \in Download : event = NewEvent(d)
  BY EventKinds DEF IInv, HandlerTaken, InHandler
<1>2. /\ event.download = d
      /\ stage[d] = "posted" /\ NewEvent(d) \notin Range(handlers)
  BY <1>1, EventKinds DEF IInv, PostedOnce
<1>3. /\ stage' = [stage EXCEPT ![d] = "active"]
      /\ stage' \in [Download -> {"new", "posted", "active", "done", "callback",
                                  "ended", "aborted"}]
      /\ stage'[d] = "active"
      /\ \A x \in Download \ {d} : stage'[x] = stage[x]
  BY <1>2 DEF IInv, TypeOK
<1>4. /\ asked' \in BOOLEAN /\ m_timer' \in {"off", "armed", "destroyed"}
      /\ ~stopped => m_timer' = "armed"
      /\ stopped => m_timer' = m_timer
  BY TimerCurlFacts
<1>5. TypeOK'
  BY <1>3, <1>4 DEF IInv, TypeOK
<1>6. HandlerTaken' /\ OwnerState' /\ NoHandlerThrows' /\ SocketsKnown'
  BY DEF IInv, HandlerTaken, InHandler, OwnerState, NoHandlerThrows, SocketsKnown
<1>7. PostedOnce'
  BY <1>2, <1>3 DEF IInv, PostedOnce
<1>8. /\ Active' = Active \cup {d}
      /\ At("done")' = At("done") /\ At("callback")' = At("callback")
  BY <1>2, <1>3 DEF Active, At
<1>9. OneCallback'
  BY <1>8 DEF IInv, OneCallback
<1>10. Counted'
  BY <1>8, FS_AddElement DEF IInv, Counted
<1>11. Timed' /\ TimerStaysDestroyed'
  BY <1>4 DEF Timed, IInv, TimerStaysDestroyed, OwnerState
<1>12. Watched'
  <2>1. \A fd, dir : event # SocketEvent(fd, dir, FALSE)
    BY <1>1 DEF SocketEvent, NewEvent
  <2> QED
    BY <2>1 DEF IInv, Watched, InHandler
<1>13. IInv'
  BY <1>5, <1>6, <1>7, <1>9, <1>10, <1>11, <1>12 DEF IInv
<1> QED
  BY <1>2, <1>3, <1>13

LEMMA TakeTimerInv ==
  ASSUME IInv, TakeTimer
  PROVE  IInv'
<1> USE DEF TakeTimer
<1>1. PICK e \in Event :
        /\ e = Head(handlers) /\ e.kind = "timer"
        /\ NewOnce(handlers')
        /\ Range(handlers) = Range(handlers') \cup {e}
  BY TakeFacts
<1>2. /\ stage' = stage /\ stopped' = stopped /\ m_sockets' = m_sockets
      /\ waits' = waits /\ m_timer' = m_timer
      /\ pc = "run" /\ pc' = "curl" /\ event' = TimerEvent
  BY DEF Take, asio, owner
<1>3. /\ TypeOK' /\ SocketsKnown' /\ Counted'
      /\ OwnerState' /\ TimerStaysDestroyed' /\ NoHandlerThrows' /\ OneCallback'
  BY <1>2, TakeStays, EventKinds
<1>4. HandlerTaken'
  BY <1>2, EventKinds DEF HandlerTaken, InHandler
<1>5. PostedOnce'
  BY <1>1, <1>2 DEF IInv, PostedOnce
<1>6. Timed'
  BY <1>2 DEF Timed
<1>7. Watched'
  <2>1. \A fd, dir : e # SocketEvent(fd, dir, FALSE)
    BY <1>1 DEF SocketEvent
  <2> QED
    BY <1>1, <1>2, <2>1 DEF IInv, Watched, InHandler
<1> QED
  BY <1>3, <1>4, <1>5, <1>6, <1>7 DEF IInv

(* An event that is dropped is for a direction that libcurl does not wait  *)
(* for.                                                                    *)
LEMMA TakeSocketInv ==
  ASSUME IInv, TakeSocket
  PROVE  IInv'
<1> USE DEF TakeSocket
<1>1. PICK e \in Event :
        /\ e = Head(handlers) /\ e.kind = "socket"
        /\ NewOnce(handlers')
        /\ Range(handlers) = Range(handlers') \cup {e}
  BY TakeFacts
<1>2. /\ stage' = stage /\ stopped' = stopped /\ m_sockets' = m_sockets
      /\ waits' = waits /\ m_timer' = m_timer
      /\ pc = "run" /\ event = NoEvent
      /\ IF EventWanted(e) THEN pc' = "curl" /\ event' = e
                           ELSE pc' = "run" /\ event' = NoEvent
  BY <1>1 DEF Take, asio, owner, IInv, HandlerTaken, InHandler
<1>3. /\ TypeOK' /\ SocketsKnown' /\ Counted'
      /\ OwnerState' /\ TimerStaysDestroyed' /\ NoHandlerThrows' /\ OneCallback'
  BY <1>2, TakeStays
<1>4. HandlerTaken'
  BY <1>1, <1>2 DEF HandlerTaken, InHandler
<1>5. PostedOnce'
  BY <1>1, <1>2 DEF IInv, PostedOnce
<1>6. Timed'
  <2>1. e # TimerEvent
    BY <1>1, EventKinds
  <2> QED
    BY <1>1, <1>2, <2>1 DEF IInv, Timed, Active, At
<1>7. Watched'
  <2> SUFFICES ASSUME ~stopped, NEW fd \in DOMAIN m_sockets,
                      NEW dir \in Directions(m_sockets[fd])
               PROVE  \/ waits[fd][dir] > 0
                      \/ SocketEvent(fd, dir, FALSE) \in Range(handlers')
                      \/ InHandler' /\ event' = SocketEvent(fd, dir, FALSE)
    BY <1>2 DEF Watched
  <2>1. CASE e = SocketEvent(fd, dir, FALSE)
    <3>1. e.fd = fd /\ e.dir = dir
      BY <2>1 DEF SocketEvent
    <3>2. EventWanted(e)
      BY <3>1, DirectionTypes DEF EventWanted
    <3> QED
      BY <1>2, <2>1, <3>2 DEF InHandler
  <2>2. CASE e # SocketEvent(fd, dir, FALSE)
    BY <1>1, <1>2, <2>2 DEF IInv, Watched, InHandler
  <2> QED
    BY <2>1, <2>2
<1> QED
  BY <1>3, <1>4, <1>5, <1>6, <1>7 DEF IInv

LEMMA FinishDownloadInv ==
  ASSUME IInv, NEW d \in Download, FinishDownload(d)
  PROVE  IInv'
<1> USE DEF FinishDownload, asio, owner, curl
<1>1. /\ stage' \in [Download -> {"new", "posted", "active", "done", "callback",
                                  "ended", "aborted"}]
      /\ stage[d] = "done" /\ stage'[d] = "callback"
      /\ \A x \in Download \ {d} : stage'[x] = stage[x]
  BY DEF IInv, TypeOK
<1>2. Active' = Active /\ At("callback")' = At("callback") \cup {d}
  BY <1>1 DEF Active, At
<1>3. TypeOK'
  BY <1>1 DEF IInv, TypeOK
<1>4. HandlerTaken' /\ OwnerState' /\ SocketsKnown' /\ TimerStaysDestroyed'
      /\ NoHandlerThrows'
  BY DEF IInv, HandlerTaken, InHandler, OwnerState, SocketsKnown,
         TimerStaysDestroyed, NoHandlerThrows
<1>5. PostedOnce'
  BY <1>1 DEF IInv, PostedOnce
<1>6. OneCallback' /\ Counted'
  BY <1>2 DEF IInv, OneCallback, Counted
<1>7. Timed' /\ Watched'
  BY <1>2 DEF IInv, Timed, Watched, InHandler
<1> QED
  BY <1>3, <1>4, <1>5, <1>6, <1>7 DEF IInv

LEMMA EraseDownloadInv ==
  ASSUME IInv, NEW d \in Download, EraseDownload(d)
  PROVE  IInv'
<1> USE DEF EraseDownload, owner
<1>1. /\ stage' \in [Download -> {"new", "posted", "active", "done", "callback",
                                  "ended", "aborted"}]
      /\ stage[d] = "callback" /\ stage'[d] = "ended"
      /\ \A x \in Download \ {d} : stage'[x] = stage[x]
  BY DEF IInv, TypeOK
<1>2. Active' = Active /\ At("callback")' = {}
  BY <1>1 DEF Active, At, IInv, OneCallback
<1>3. /\ asked' \in BOOLEAN /\ m_timer' \in {"off", "armed", "destroyed"}
      /\ ~stopped /\ Active # {} => m_timer' \in {"armed", m_timer}
      /\ stopped => m_timer' = m_timer
  <2>1. CASE TimerCurl(Active # {})
    BY <2>1, TimerCurlFacts
  <2>2. CASE UNCHANGED <<asked, m_timer>>
    BY <2>2 DEF IInv, TypeOK
  <2> QED
    BY <2>1, <2>2
<1>4. TypeOK'
  BY <1>1, <1>3 DEF IInv, TypeOK
<1>5. HandlerTaken' /\ OwnerState' /\ SocketsKnown' /\ NoHandlerThrows'
  BY DEF IInv, HandlerTaken, InHandler, OwnerState, SocketsKnown, NoHandlerThrows
<1>6. PostedOnce'
  BY <1>1 DEF IInv, PostedOnce
<1>7. OneCallback' /\ Counted'
  BY <1>2 DEF IInv, OneCallback, Counted
<1>8. Timed' /\ Watched'
  BY <1>2, <1>3 DEF IInv, Timed, Watched, InHandler
<1>9. TimerStaysDestroyed'
  BY <1>3 DEF IInv, TimerStaysDestroyed, OwnerState
<1> QED
  BY <1>4, <1>5, <1>6, <1>7, <1>8, <1>9 DEF IInv

(* The end of doSocketAction adds the wait that its event was. *)
LEMMA KeepOnWatchingFacts ==
  ASSUME IInv, KeepOnWatching
  PROVE  /\ waits' \in [DOMAIN m_sockets -> [Dir -> Nat]]
         /\ \A fd \in DOMAIN m_sockets : \A dir \in Directions(m_sockets[fd]) :
              \/ waits[fd][dir] > 0
              \/ event = SocketEvent(fd, dir, FALSE)
              => waits'[fd][dir] > 0
<1>1. CASE EventWanted(event) /\ ~event.error
  <2>1. AddWaits(event.fd, {event.dir})
    BY <1>1 DEF KeepOnWatching
  <2>2. /\ waits' \in [DOMAIN m_sockets -> [Dir -> Nat]]
        /\ \A f \in DOMAIN m_sockets : \A dir \in Dir :
             /\ waits[f][dir] > 0 => waits'[f][dir] > 0
             /\ f = event.fd /\ dir \in {event.dir} => waits'[f][dir] > 0
    BY <2>1, WaitsAdded DEF IInv
  <2>3. \A fd, dir : event = SocketEvent(fd, dir, FALSE) =>
          event.fd = fd /\ event.dir = dir
    BY DEF SocketEvent
  <2> QED
    BY <2>2, <2>3, DirectionTypes
<1>2. CASE ~(EventWanted(event) /\ ~event.error)
  <2>1. waits' = waits
    BY <1>2 DEF KeepOnWatching
  <2>2. ASSUME NEW fd \in DOMAIN m_sockets, NEW dir \in Directions(m_sockets[fd]),
               event = SocketEvent(fd, dir, FALSE)
        PROVE  FALSE
    <3>1. event.fd = fd /\ event.dir = dir /\ event.error = FALSE
      BY <2>2 DEF SocketEvent
    <3>2. EventWanted(event)
      BY <3>1, DirectionTypes DEF EventWanted
    <3> QED
      BY <1>2, <3>1, <3>2
  <2> QED
    BY <2>1, <2>2 DEF IInv, TypeOK
<1> QED
  BY <1>1, <1>2

LEMMA LeaveHandlerInv ==
  ASSUME IInv, LeaveHandler
  PROVE  IInv'
<1> USE DEF LeaveHandler, owner, curl
<1>1. /\ waits' \in [DOMAIN m_sockets -> [Dir -> Nat]]
      /\ \A fd \in DOMAIN m_sockets : \A dir \in Directions(m_sockets[fd]) :
           \/ waits[fd][dir] > 0
           \/ event = SocketEvent(fd, dir, FALSE)
           => waits'[fd][dir] > 0
  <2>1. CASE event.kind = "timer"
    <3>1. \A fd, dir : event # SocketEvent(fd, dir, FALSE)
      BY <2>1 DEF SocketEvent
    <3> QED
      BY <2>1, <3>1 DEF IInv, TypeOK
  <2>2. CASE event.kind # "timer"
    BY <2>2, KeepOnWatchingFacts
  <2> QED
    BY <2>1, <2>2
<1>2. /\ m_timer' \in {"off", "armed", "destroyed"}
      /\ Active # {} => m_timer' = m_timer
  <2>1. activeDownloads <= 0 => Active = {}
    BY FS_EmptySet, FS_CardinalityType DEF IInv, Counted
  <2> QED
    BY <2>1 DEF LastTransferDone, IInv, TypeOK
<1>3. TypeOK'
  BY <1>1, <1>2 DEF IInv, TypeOK
<1>4. HandlerTaken' /\ OwnerState' /\ SocketsKnown' /\ NoHandlerThrows'
  BY DEF IInv, HandlerTaken, InHandler, OwnerState, SocketsKnown, NoHandlerThrows
<1>5. PostedOnce' /\ Counted'
  BY DEF IInv, PostedOnce, Counted, Active, At
<1>6. OneCallback'
  BY DEF IInv, OneCallback, At, NoMessageLeft
<1>7. Timed'
  BY <1>2 DEF IInv, Timed, Active, At
<1>8. Watched'
  BY <1>1 DEF IInv, Watched, InHandler
<1>9. TimerStaysDestroyed'
  BY DEF IInv, TimerStaysDestroyed, OwnerState
<1> QED
  BY <1>3, <1>4, <1>5, <1>6, <1>7, <1>8, <1>9 DEF IInv

-----------------------------------------------------------------------------
(* The reactor *)

LEMMA WaitReadyInv ==
  ASSUME IInv, NEW fd \in Fd, NEW dir \in Dir, WaitReady(fd, dir)
  PROVE  IInv'
<1> USE DEF WaitReady, owner, curl
<1>1. PICK e \in Event : e = SocketEvent(fd, dir, FALSE)
  <2>1. \A f \in Fd, r \in Dir, error \in BOOLEAN : SocketEvent(f, r, error) \in Event
    BY EventKinds
  <2>2. FALSE \in BOOLEAN
    OBVIOUS
  <2>3. SocketEvent(fd, dir, FALSE) \in Event
    BY <2>1, <2>2, Zenon
  <2> QED
    BY <2>3
<1>2. e.kind = "socket"
  BY <1>1 DEF SocketEvent
<1>3. handlers \in Seq(Event) /\ NewOnce(handlers) /\ handlers' = Append(handlers, e)
  BY <1>1 DEF IInv, PostedOnce, TypeOK
<1>4. /\ handlers' \in Seq(Event)
      /\ Range(handlers') = Range(handlers) \cup {e}
  <2>1. /\ Append(handlers, e) \in Seq(Event)
        /\ Range(Append(handlers, e)) = Range(handlers) \cup {e}
    BY <1>3, AppendRange
  <2> QED
    BY <1>3, <2>1
<1>5. NewOnce(handlers')
  BY <1>2, <1>3, NewOnceAppend
<1>6. /\ fd \in DOMAIN m_sockets
      /\ waits' \in [DOMAIN m_sockets -> [Dir -> Nat]]
      /\ \A f \in DOMAIN m_sockets : \A r \in Dir :
           waits[f][r] > 0 => waits'[f][r] > 0 \/ (f = fd /\ r = dir)
  BY DEF IInv, TypeOK
<1>7. TypeOK'
  BY <1>4, <1>6 DEF IInv, TypeOK
<1>8. HandlerTaken' /\ OwnerState' /\ SocketsKnown' /\ NoHandlerThrows'
      /\ TimerStaysDestroyed'
  BY DEF IInv, HandlerTaken, InHandler, OwnerState, SocketsKnown, NoHandlerThrows,
         TimerStaysDestroyed
<1>9. OneCallback' /\ Counted'
  BY DEF IInv, OneCallback, Counted, Active, At
<1>10. PostedOnce'
  <2>1. \A d \in Download :
          NewEvent(d) \in Range(handlers') => NewEvent(d) \in Range(handlers)
    BY <1>2, <1>4, EventKinds
  <2> QED
    BY <1>5, <2>1 DEF IInv, PostedOnce
<1>11. Timed'
  BY <1>4 DEF IInv, Timed, Active, At
<1>12. Watched'
  <2> SUFFICES ASSUME ~stopped, NEW f \in DOMAIN m_sockets,
                      NEW r \in Directions(m_sockets[f])
               PROVE  \/ waits'[f][r] > 0
                      \/ SocketEvent(f, r, FALSE) \in Range(handlers')
    BY DEF Watched
  <2>1. r \in Dir
    BY DirectionTypes
  <2>2. CASE f = fd /\ r = dir
    BY <1>1, <1>4, <2>2
  <2>3. CASE ~(f = fd /\ r = dir)
    BY <1>4, <1>6, <2>1, <2>3 DEF IInv, Watched, InHandler
  <2> QED
    BY <2>2, <2>3
<1> QED
  BY <1>4, <1>7, <1>8, <1>9, <1>10, <1>11, <1>12 DEF IInv

LEMMA TimerExpiresInv ==
  ASSUME IInv, TimerExpires
  PROVE  IInv'
<1> USE DEF TimerExpires, owner, curl
<1>1. PICK e \in Event : e = TimerEvent /\ e.kind = "timer"
  BY EventKinds
<1>2. handlers \in Seq(Event) /\ NewOnce(handlers) /\ handlers' = Append(handlers, e)
  BY <1>1 DEF IInv, PostedOnce, TypeOK
<1>3. /\ handlers' \in Seq(Event)
      /\ Range(handlers') = Range(handlers) \cup {e}
  BY <1>2, AppendRange
<1>4. NewOnce(handlers')
  BY <1>1, <1>2, NewOnceAppend
<1>5. TypeOK'
  BY <1>3 DEF IInv, TypeOK
<1>6. HandlerTaken' /\ OwnerState' /\ SocketsKnown' /\ NoHandlerThrows'
      /\ TimerStaysDestroyed'
  BY DEF IInv, HandlerTaken, InHandler, OwnerState, SocketsKnown, NoHandlerThrows,
         TimerStaysDestroyed
<1>7. OneCallback' /\ Counted'
  BY DEF IInv, OneCallback, Counted, Active, At
<1>8. PostedOnce'
  <2>1. \A d \in Download :
          NewEvent(d) \in Range(handlers') => NewEvent(d) \in Range(handlers)
    BY <1>1, <1>3, EventKinds
  <2> QED
    BY <1>4, <2>1 DEF IInv, PostedOnce
<1>9. Timed' /\ Watched'
  BY <1>1, <1>3 DEF IInv, Timed, Watched, InHandler
<1> QED
  BY <1>5, <1>6, <1>7, <1>8, <1>9 DEF IInv

-----------------------------------------------------------------------------
(* The destructor *)

LEMMA NoWaitsType == ASSUME TypeOK PROVE NoWaits \in [DOMAIN m_sockets -> [Dir -> Nat]]
  BY DEF NoWaits

LEMMA StopInv ==
  ASSUME IInv, Stop
  PROVE  IInv'
<1> USE DEF Stop, curl
<1>1. TypeOK'
  BY NoWaitsType DEF IInv, TypeOK
<1>2. HandlerTaken' /\ OwnerState' /\ NoHandlerThrows' /\ TimerStaysDestroyed'
  BY DEF IInv, HandlerTaken, InHandler, OwnerState, NoHandlerThrows,
         TimerStaysDestroyed
<1>3. OneCallback' /\ Counted'
  BY DEF IInv, OneCallback, Counted, Active, At
<1>4. PostedOnce'
  BY EmptyRange DEF IInv, PostedOnce, NewOnce
<1>5. SocketsKnown' /\ Timed' /\ Watched'
  BY DEF SocketsKnown, Timed, Watched
<1> QED
  BY <1>1, <1>2, <1>3, <1>4, <1>5 DEF IInv

LEMMA JoinInv ==
  ASSUME IInv, Join
  PROVE  IInv'
<1> USE DEF Join, curl
<1>1. stopped
  BY DEF IInv, OwnerState
<1>2. TypeOK'
  BY NoWaitsType DEF IInv, TypeOK
<1>3. HandlerTaken' /\ OwnerState' /\ NoHandlerThrows' /\ TimerStaysDestroyed'
  BY DEF IInv, HandlerTaken, InHandler, OwnerState, NoHandlerThrows,
         TimerStaysDestroyed
<1>4. OneCallback' /\ Counted' /\ PostedOnce'
  BY DEF IInv, OneCallback, Counted, PostedOnce, Active, At
<1>5. SocketsKnown' /\ Timed' /\ Watched'
  BY <1>1 DEF SocketsKnown, Timed, Watched
<1> QED
  BY <1>2, <1>3, <1>4, <1>5 DEF IInv

LEMMA DestroyDownloadInv ==
  ASSUME IInv, NEW d \in Download, DestroyDownload(d)
  PROVE  IInv'
<1> USE DEF DestroyDownload, io, owner
<1>1. stopped /\ pc = "joined" /\ handlers = <<>>
  BY DEF IInv, OwnerState
<1>2. /\ stage' \in [Download -> {"new", "posted", "active", "done", "callback",
                                  "ended", "aborted"}]
      /\ stage'[d] = "aborted"
      /\ \A x \in Download \ {d} : stage'[x] = stage[x]
  BY DEF IInv, TypeOK
<1>3. /\ Active' \subseteq Active
      /\ At("done")' \subseteq At("done")
      /\ At("callback")' \subseteq At("callback")
  BY <1>2 DEF Active, At
<1>4. asked' \in BOOLEAN /\ m_timer' = m_timer
  <2>1. CASE TimerCurl(Active \ {d} # {})
    BY <1>1, <2>1, TimerCurlFacts
  <2>2. CASE UNCHANGED <<asked, m_timer>>
    BY <2>2 DEF IInv, TypeOK
  <2> QED
    BY <2>1, <2>2
<1>5. /\ DOMAIN conn' \subseteq DOMAIN conn
      /\ conn' \in [DOMAIN conn' -> Download \cup {NoDownload}]
  BY DEF IInv, TypeOK
<1>6. TypeOK'
  BY <1>2, <1>4, <1>5 DEF IInv, TypeOK
<1>7. HandlerTaken' /\ OwnerState' /\ NoHandlerThrows' /\ TimerStaysDestroyed'
  BY <1>4 DEF IInv, HandlerTaken, InHandler, OwnerState, NoHandlerThrows,
         TimerStaysDestroyed
<1>8. OneCallback'
  BY <1>1, <1>3 DEF IInv, OneCallback
<1>9. Counted'
  BY <1>1, <1>3, FS_Subset DEF IInv, Counted
<1>10. PostedOnce'
  BY <1>1, EmptyRange DEF IInv, PostedOnce
<1>11. SocketsKnown' /\ Timed' /\ Watched'
  BY <1>1 DEF SocketsKnown, Timed, Watched
<1> QED
  BY <1>6, <1>7, <1>8, <1>9, <1>10, <1>11 DEF IInv

LEMMA DestroyRestInv ==
  ASSUME IInv, DestroyRest
  PROVE  IInv'
<1> USE DEF DestroyRest, io
<1>1. stopped /\ pc = "joined" /\ handlers = <<>>
  BY DEF IInv, OwnerState
<1>2. /\ stage' \in [Download -> {"new", "posted", "active", "done", "callback",
                                  "ended", "aborted"}]
      /\ \A what \in {"active", "done", "callback"} : At(what)' = At(what)
  BY DEF IInv, TypeOK, At
<1>3. TypeOK'
  <2>1. DOMAIN <<>> = {} /\ \A S : <<>> \in [{} -> S]
    OBVIOUS
  <2>2. /\ m_sockets' \in [DOMAIN m_sockets' -> Watch]
        /\ waits' \in [DOMAIN m_sockets' -> [Dir -> Nat]]
        /\ conn' \in [DOMAIN conn' -> Download \cup {NoDownload}]
        /\ DOMAIN conn' = {} /\ DOMAIN m_sockets' = {}
    BY <2>1
  <2> QED
    BY <1>2, <2>2 DEF IInv, TypeOK
<1>4. HandlerTaken' /\ OwnerState' /\ NoHandlerThrows' /\ TimerStaysDestroyed'
  BY DEF IInv, HandlerTaken, InHandler, OwnerState, NoHandlerThrows,
         TimerStaysDestroyed
<1>5. OneCallback' /\ Counted'
  BY <1>2 DEF IInv, OneCallback, Counted, Active
<1>6. PostedOnce'
  BY <1>1, EmptyRange DEF IInv, PostedOnce
<1>7. SocketsKnown' /\ Timed' /\ Watched'
  BY <1>1 DEF SocketsKnown, Timed, Watched
<1> QED
  BY <1>3, <1>4, <1>5, <1>6, <1>7 DEF IInv

-----------------------------------------------------------------------------
LEMMA UnchangedInv ==
  ASSUME IInv, UNCHANGED vars
  PROVE  IInv'
<1> USE DEF vars, asio, io, owner, curl
<1>1. TypeOK' /\ HandlerTaken' /\ OwnerState' /\ PostedOnce' /\ SocketsKnown'
  BY DEF IInv, TypeOK, HandlerTaken, InHandler, OwnerState, PostedOnce, SocketsKnown
<1>2. OneCallback' /\ Counted' /\ Timed' /\ Watched' /\ TimerStaysDestroyed'
      /\ NoHandlerThrows'
  BY DEF IInv, OneCallback, Counted, Timed, Watched, TimerStaysDestroyed,
         NoHandlerThrows, Active, At, InHandler
<1> QED
  BY <1>1, <1>2 DEF IInv

LEMMA NextInv == IInv /\ [Next]_vars => IInv'
<1> SUFFICES ASSUME IInv, [Next]_vars PROVE IInv'
  OBVIOUS
<1>1. CASE CurlStep
  BY <1>1, AddSocketActionsInv, CloseSocketInv, OpenSocketInv, ConnectionInv,
     TransferDoneInv DEF CurlStep
<1>2. CASE Handler
  BY <1>2, TakeNewInv, TakeTimerInv, TakeSocketInv, NewDownloadInv, LeaveCurlInv,
     FinishDownloadInv, EraseDownloadInv, LeaveHandlerInv DEF Handler
<1>3. CASE Reactor
  BY <1>3, WaitReadyInv, TimerExpiresInv DEF Reactor
<1>4. CASE Destructor
  BY <1>4, JoinInv, DestroyDownloadInv, DestroyRestInv DEF Destructor
<1>5. CASE PostDownload \/ Stop
  BY <1>5, PostDownloadInv, StopInv
<1>6. CASE UNCHANGED vars
  BY <1>6, UnchangedInv
<1> QED
  BY <1>1, <1>2, <1>3, <1>4, <1>5, <1>6 DEF Next

-----------------------------------------------------------------------------
(* The theorems *)

(* The inductive invariant holds in every reachable state. *)
THEOREM Invariance == Spec => []IInv
  BY InitInv, NextInv, PTL DEF Spec

(* Every variable of CurlAsioDownloader keeps its type. *)
THEOREM TypeCorrectness == Spec => []TypeOK
<1>1. IInv => TypeOK
  BY DEF IInv
<1> QED
  BY <1>1, Invariance, PTL

(* Whatever number of sockets and of waits there is, and whenever a        *)
(* descriptor is used again: a direction that libcurl waits for has a wait *)
(* or an event on its way.                                                 *)
THEOREM WatchIsKept == Spec => []WatchKept
<1>1. IInv => WatchKept
  BY DEF IInv, Watched, WatchKept, Pending
<1> QED
  BY <1>1, Invariance, PTL

(* A transfer in progress never loses the timer that ends it at last. *)
THEOREM TransfersTimed == Spec => []TransferTimed
<1>1. IInv => TransferTimed
  BY DEF IInv, Timed, TransferTimed, Pending
<1> QED
  BY <1>1, Invariance, PTL

(* No handler leaves a finished transfer without its callback. *)
THEOREM AllMessagesRead == Spec => []MessagesRead
<1>1. IInv => MessagesRead
  BY DEF IInv, OneCallback, MessagesRead
<1> QED
  BY <1>1, Invariance, PTL

(* No callback that libcurl makes out of the destructor of the downloader *)
(* touches m_timer after the member was destroyed.                        *)
THEOREM TimerLeftAlone == Spec => []TimerStaysDestroyed
<1>1. IInv => TimerStaysDestroyed
  BY DEF IInv
<1> QED
  BY <1>1, Invariance, PTL

(* Whatever sockets libcurl opens and closes, before and after the          *)
(* destructor was called, closeSocket does not throw: no exception leaves a *)
(* handler of the io thread.                                                *)
THEOREM CloseSocketFinds == Spec => []NoHandlerThrows
<1>1. IInv => NoHandlerThrows
  BY DEF IInv
<1> QED
  BY <1>1, Invariance, PTL

-----------------------------------------------------------------------------
(* CurlAsioDownloader implements Downloader. *)

progressBar == [d \in Download |->
                  CASE stage[d] \in {"posted", "active", "done"} -> "asked"
                    [] OTHER -> stage[d]]

(* A step that moves no download as the user sees it. *)
LEMMA ProgressStays ==
  ASSUME \A d \in Download :
           \/ stage'[d] = stage[d]
           \/ {stage[d], stage'[d]} \subseteq {"posted", "active", "done"}
  PROVE  UNCHANGED progressBar
  BY DEF progressBar

(* A step that moves one download on. *)
LEMMA ProgressMoves ==
  ASSUME TypeOK, NEW d \in Download, NEW to, stage' = [stage EXCEPT ![d] = to],
         to \in {"posted", "callback", "ended", "aborted"}
  PROVE  progressBar' = [progressBar EXCEPT ![d] = IF to = "posted" THEN "asked"
                                                    ELSE to]
<1>1. /\ stage'[d] = to
      /\ \A x \in Download \ {d} : stage'[x] = stage[x]
  BY DEF TypeOK
<1> QED
  BY <1>1 DEF progressBar

(* No callback runs unless the io thread is in it. *)
LEMMA NoneInCallback ==
  ASSUME IInv, pc # "callback"
  PROVE  Interface!Doing("callback") = {}
  BY DEF IInv, OneCallback, Interface!Doing, At

LEMMA InterfaceInit == Init => Interface!Init
  BY DEF Init, Interface!Init

LEMMA InterfaceStep == IInv /\ [Next]_vars => [Interface!Next]_(Interface!vars)
<1> SUFFICES ASSUME IInv, [Next]_vars PROVE [Interface!Next]_(Interface!vars)
  OBVIOUS
<1>t. TypeOK
  BY DEF IInv
<1>1. CASE /\ mpc' = mpc \/ {mpc, mpc'} \subseteq {"use", "join", "downloads"}
           /\ \A d \in Download :
                \/ stage'[d] = stage[d]
                \/ {stage[d], stage'[d]} \subseteq {"posted", "active", "done"}
  <2>1. UNCHANGED progressBar
    BY <1>1, ProgressStays
  <2> QED
    BY <1>1, <2>1 DEF Interface!vars, progressBar
<1>2. CASE CurlStep
  <2>1. mpc' = mpc /\ (stage' = stage \/ \E d \in Download : TransferDone(d))
    BY <1>2 DEF CurlStep, AddSocketActions, CloseSocket, Closes, OpenSocket,
                ReuseConnection, OpenSocketStopped, TransferDone, owner
  <2>2. ASSUME NEW d \in Download, TransferDone(d)
        PROVE  \A x \in Download : stage'[x] = stage[x] \/
                 {stage[x], stage'[x]} \subseteq {"posted", "active", "done"}
    BY <1>t, <2>2 DEF TransferDone, Active, At, TypeOK
  <2> QED
    BY <1>1, <2>1, <2>2
<1>3. CASE TakeNew \/ TakeTimer \/ TakeSocket \/ LeaveCurl \/ LeaveHandler
           \/ Reactor \/ Stop \/ Join \/ UNCHANGED vars
  <2>1. stage' = stage
    BY <1>3 DEF TakeNew, TakeTimer, TakeSocket, Take, LeaveCurl, LeaveHandler,
                Reactor, WaitReady, TimerExpires, Stop, Join, vars
  <2>2. mpc' = mpc \/ {mpc, mpc'} \subseteq {"use", "join", "downloads"}
    BY <1>3 DEF TakeNew, TakeTimer, TakeSocket, Take, LeaveCurl, LeaveHandler,
                Reactor, WaitReady, TimerExpires, Stop, Join, vars, owner
  <2> QED
    BY <1>1, <2>1, <2>2
<1>4. CASE NewDownload
  <2>1. PICK d \in Download : /\ stage[d] = "posted"
                              /\ stage' = [stage EXCEPT ![d] = "active"]
    BY <1>4, NewDownloadInv
  <2>2. mpc' = mpc
    BY <1>4 DEF NewDownload, owner
  <2> QED
    BY <1>t, <1>1, <2>1, <2>2 DEF TypeOK
<1>5. ASSUME NEW d \in Download, FinishDownload(d)
      PROVE  Interface!Call(d)
  <2>1. /\ stage' = [stage EXCEPT ![d] = "callback"] /\ stage[d] = "done"
        /\ pc = "finish" /\ mpc' = mpc
    BY <1>5 DEF FinishDownload, owner
  <2>2. progressBar' = [progressBar EXCEPT ![d] = "callback"]
        /\ progressBar[d] = "asked"
    BY <1>t, <2>1, ProgressMoves DEF progressBar
  <2>3. mpc # "gone"
    BY <2>1 DEF IInv, OwnerState
  <2> QED
    BY <2>1, <2>2, <2>3, NoneInCallback DEF Interface!Call, progressBar
<1>6. ASSUME NEW d \in Download, EraseDownload(d)
      PROVE  Interface!Return(d)
  <2>1. /\ stage' = [stage EXCEPT ![d] = "ended"] /\ stage[d] = "callback"
        /\ mpc' = mpc
    BY <1>6 DEF EraseDownload, owner
  <2>2. progressBar' = [progressBar EXCEPT ![d] = "ended"]
        /\ progressBar[d] = "callback"
    BY <1>t, <2>1, ProgressMoves DEF progressBar
  <2> QED
    BY <2>1, <2>2 DEF Interface!Return, progressBar
<1>7. ASSUME NEW d \in Download, DestroyDownload(d)
      PROVE  Interface!Abort(d)
  <2>1. /\ stage' = [stage EXCEPT ![d] = "aborted"] /\ mpc' = mpc
        /\ mpc = "downloads" /\ pc = "joined"
        /\ stage[d] \in {"active", "done", "callback"}
    BY <1>7 DEF DestroyDownload, owner, m_downloads, At, IInv, OwnerState
  <2>2. stage[d] # "callback"
    BY <2>1 DEF IInv, OneCallback, At
  <2>3. progressBar' = [progressBar EXCEPT ![d] = "aborted"]
        /\ progressBar[d] = "asked"
    BY <1>t, <2>1, <2>2, ProgressMoves DEF progressBar
  <2> QED
    BY <2>1, <2>3 DEF Interface!Abort, progressBar
<1>8. CASE PostDownload
  <2>1. PICK d \in At("new") : stage' = [stage EXCEPT ![d] = "posted"]
    BY <1>8, PostDownloadInv
  <2>2. d \in Download /\ stage[d] = "new" /\ mpc = "use" /\ mpc' = mpc
    BY <1>8 DEF At, PostDownload, owner
  <2>3. progressBar' = [progressBar EXCEPT ![d] = "asked"]
        /\ progressBar[d] = "new"
    BY <1>t, <2>1, <2>2, ProgressMoves DEF progressBar
  <2> QED
    BY <2>2, <2>3 DEF Interface!Ask, Interface!Next, progressBar
<1>9. CASE DestroyRest
  <2>1. /\ mpc = "downloads" /\ mpc' = "gone" /\ pc = "joined"
        /\ \A d \in Download : stage[d] \notin {"active", "done"}
    BY <1>9 DEF DestroyRest, m_downloads, At, IInv, OwnerState
  <2>2. progressBar' = [d \in Download |->
                          IF progressBar[d] = "asked" THEN "aborted"
                          ELSE progressBar[d]]
    BY <1>9, <1>t, <2>1 DEF DestroyRest, progressBar, TypeOK
  <2>3. Interface!Doing("callback") = {}
    BY <2>1, NoneInCallback
  <2> QED
    BY <2>1, <2>2, <2>3 DEF Interface!Destroy, Interface!Next, progressBar
<1> QED
  BY <1>2, <1>3, <1>4, <1>5, <1>6, <1>7, <1>8, <1>9
     DEF Next, Handler, Destructor, Interface!Next

(***************************************************************************)
(* The class keeps the promise of the interface Downloader, for any number *)
(* of downloads: at most one callback for each, one at a time, and none    *)
(* once the destructor has returned.                                       *)
(***************************************************************************)
THEOREM DownloaderRefinement == Spec => ImplementsDownloader
  BY InterfaceInit, InterfaceStep, Invariance, PTL
     DEF Spec, ImplementsDownloader, Interface!Spec
=============================================================================
