------------------------- MODULE CurlAsioDownloader -------------------------
(***************************************************************************)
(* Class CurlAsioDownloader: libcurl's multi-socket interface driven by    *)
(* one thread that runs a Boost.Asio io_context, and the destructor, which *)
(* another thread runs.                                                    *)
(*                                                                         *)
(* The io thread takes one handler at a time; `event` is the handler it    *)
(* runs.  Where a handler calls curl_multi_socket_action, libcurl may do   *)
(* any number of things to any transfer before it returns, each of them a  *)
(* callback of this class: open or close a socket, watch it differently,   *)
(* finish a transfer.  Before returning it asks for its next time-out.     *)
(*                                                                         *)
(* A wait and the event it ends in hold the number of a descriptor, not    *)
(* the socket.  Closing a socket ends its waits with an error, and its     *)
(* number may be used again before their handlers run.                     *)
(*                                                                         *)
(* The completion of a cancelled timer finds an error and does nothing; it *)
(* is left out.  An exception in a handler ends the process.               *)
(***************************************************************************)
EXTENDS Sequences, Integers, FiniteSets, Functions

CONSTANTS
  Download,   \* the elements given to download()
  Fd,         \* the descriptor numbers the system may give to a socket
  NoDownload, \* not a download: the user of a connection kept for later
  NoEvent,    \* not an event: the io thread runs no handler
  MaxWaits    \* bound: waits and their events that libcurl lets come up

ASSUME DownloaderAssumption ==
  /\ NoDownload \notin Download
  /\ MaxWaits \in Nat \ {0}
  /\ 0 \notin Fd

(* The descriptor openSocket gives away when it may not open one. *)
Stdin == 0

Dir == {"IN", "OUT"}
Watch == {"NONE", "IN", "OUT", "INOUT", "REMOVE"}

(* isReadCompatible and isWriteCompatible: the directions of an action. *)
Directions(action) ==
  CASE action = "IN" -> {"IN"}
    [] action = "OUT" -> {"OUT"}
    [] action = "INOUT" -> Dir
    [] OTHER -> {}

NewEvent(d) == [kind |-> "new", download |-> d]
SocketEvent(fd, dir, error) ==
  [kind |-> "socket", fd |-> fd, dir |-> dir, error |-> error]
TimerEvent == [kind |-> "timer"]

Event ==
  {NewEvent(d) : d \in Download}
    \cup {SocketEvent(fd, dir, error) :
            fd \in Fd, dir \in Dir, error \in BOOLEAN}
    \cup {TimerEvent}

VARIABLES
  stage,      \* what has become of each download
  m_sockets,  \* the open sockets: the action last asked for each number
  waits,      \* the waits pending on each of them, per direction
  m_timer,    \* "off", "armed" or "destroyed"
  handlers,   \* the handlers ready to run, first one first
  pc,         \* where the io thread is
  event,      \* the handler it runs
  activeDownloads,  \* its local variable of that name
  stopped,    \* whether the io_context has been stopped
  mpc,        \* where the owner of the downloader is
  conn,       \* libcurl: its open sockets and the transfer using each
  asked       \* libcurl: it waits for the time-out it has asked for

asio == <<m_sockets, waits, m_timer>>
io == <<handlers, pc, event, activeDownloads>>
owner == <<stopped, mpc>>
curl == <<conn, asked>>
vars == <<stage, asio, io, owner, curl>>

At(what) == {d \in Download : stage[d] = what}
Active == At("active")

(* m_downloads: from newDownload to the finished callback. *)
m_downloads == At("active") \cup At("done") \cup At("callback")

Init ==
  /\ stage = [d \in Download |-> "new"]
  /\ m_sockets = <<>> /\ waits = <<>> /\ conn = <<>>
  /\ m_timer = "off" /\ asked = FALSE
  /\ handlers = <<>> /\ pc = "run"
  /\ event = NoEvent /\ activeDownloads = 0
  /\ stopped = FALSE /\ mpc = "use"

-----------------------------------------------------------------------------
(* What the callbacks of libcurl do *)

(* Mutant: the timer is set whether the io_context is stopped or not. *)
TimerCurlAnyway(asking) ==
  asked' = asking /\ m_timer' = IF asking THEN "armed" ELSE "off"

(* timerCurl(timeoutMs): asking says whether timeoutMs >= 0. *)
TimerCurl(asking) ==
  /\ asked' = asking
  /\ m_timer' = IF stopped THEN m_timer ELSE IF asking THEN "armed" ELSE "off"

(* addRead and addWrite. *)
AddWaits(fd, dirs) ==
  waits' = [waits EXCEPT ![fd] =
              [dir \in Dir |-> IF dir \in dirs THEN @[dir] + 1 ELSE @[dir]]]

(* Bound: libcurl starts no wait when this many are under way. *)
Outstanding ==
  SumFunction([fd \in DOMAIN waits |-> waits[fd]["IN"] + waits[fd]["OUT"]])
    + Len(handlers)

(* addSocketActions, called for a change of what a transfer waits for. *)
AddSocketActions(fd, action) ==
  /\ pc = "curl" /\ ~stopped
  /\ conn[fd] # NoDownload
  /\ action # m_sockets[fd]
  /\ action = "REMOVE" => m_sockets[fd] # "NONE"
  /\ LET added == Directions(action) \ Directions(m_sockets[fd]) IN
     /\ added # {} => Outstanding < MaxWaits
     /\ AddWaits(fd, added)
  /\ m_sockets' = [m_sockets EXCEPT ![fd] = action]
  /\ UNCHANGED <<stage, m_timer, io, owner, curl>>

(* Mutant: the new socket is not kept in m_sockets. *)
OpenSocketUnkept(d, fd) ==
  /\ pc = "curl" /\ ~stopped /\ d \in Active /\ fd \notin DOMAIN m_sockets
  /\ conn' = [f \in DOMAIN conn \cup {fd} |-> IF f = fd THEN d ELSE conn[f]]
  /\ UNCHANGED <<stage, asio, io, owner, asked>>

OpenSocket(d, fd) ==
  /\ pc = "curl" /\ ~stopped
  /\ d \in Active /\ fd \notin DOMAIN m_sockets
  /\ m_sockets' = [f \in DOMAIN m_sockets \cup {fd} |->
                     IF f = fd THEN "NONE" ELSE m_sockets[f]]
  /\ waits' = [f \in DOMAIN waits \cup {fd} |->
                 IF f = fd THEN [dir \in Dir |-> 0] ELSE waits[f]]
  /\ conn' = [f \in DOMAIN conn \cup {fd} |-> IF f = fd THEN d ELSE conn[f]]
  /\ UNCHANGED <<stage, m_timer, io, owner, asked>>

(* openSocket, once stopped, returns curl_socket_t{}, which libcurl takes  *)
(* for a socket of its own.  Bound: it holds it once at a time.            *)
OpenSocketStopped(d) ==
  /\ pc = "curl" /\ stopped
  /\ d \in Active /\ Stdin \notin DOMAIN conn
  /\ conn' = [f \in DOMAIN conn \cup {Stdin} |->
                IF f = Stdin THEN d ELSE conn[f]]
  /\ UNCHANGED <<stage, asio, io, owner, asked>>

Without(f, x) == [y \in DOMAIN f \ {x} |-> f[y]]

(* The handlers of the waits on fd, in the order the reactor has them. *)
AbortedEvents(fd) ==
  [i \in 1 .. waits[fd]["IN"] |-> SocketEvent(fd, "IN", TRUE)]
    \o [i \in 1 .. waits[fd]["OUT"] |-> SocketEvent(fd, "OUT", TRUE)]

(* Erasing a socket closes it; one that is not in m_sockets is an error,   *)
(* which leaves the handler.                                               *)
EraseSocket(fd) ==
  IF fd \in DOMAIN m_sockets
  THEN /\ m_sockets' = Without(m_sockets, fd)
       /\ waits' = Without(waits, fd)
       /\ handlers' = handlers \o AbortedEvents(fd)
       /\ UNCHANGED pc
  ELSE pc' = "threw" /\ UNCHANGED <<m_sockets, waits, handlers>>

(* libcurl closes a socket: while it works on transfers, or a kept one,    *)
(* when a finished transfer is removed.                                    *)
Closes(fd) ==
  /\ fd \in DOMAIN conn
  /\ pc = "curl" \/ (pc = "callback" /\ conn[fd] = NoDownload)
  /\ conn' = Without(conn, fd)
  /\ UNCHANGED <<stage, m_timer, event, activeDownloads, owner, asked>>

(* Mutant: closeSocket does not ask whether the io_context is stopped. *)
CloseSocketAnyway(fd) == Closes(fd) /\ EraseSocket(fd)

(* closeSocket *)
CloseSocket(fd) ==
  /\ Closes(fd)
  /\ IF stopped THEN UNCHANGED <<m_sockets, waits, handlers, pc>>
     ELSE EraseSocket(fd)

-----------------------------------------------------------------------------
(* libcurl, inside curl_multi_socket_action *)

(* A transfer takes over a connection that another left open. *)
ReuseConnection(d, fd) ==
  /\ pc = "curl"
  /\ d \in Active /\ fd \in DOMAIN conn /\ conn[fd] = NoDownload
  /\ conn' = [conn EXCEPT ![fd] = d]
  /\ UNCHANGED <<stage, asio, io, owner, asked>>

(* A transfer ends, well or not: libcurl keeps its sockets for later and   *)
(* tells of each it watched that it watches it no more.                    *)
TransferDone(d) ==
  /\ pc = "curl"
  /\ d \in Active
  /\ stage' = [stage EXCEPT ![d] = "done"]
  /\ conn' = [fd \in DOMAIN conn |-> IF conn[fd] = d THEN NoDownload ELSE conn[fd]]
  /\ m_sockets' = [fd \in DOMAIN m_sockets |->
                     IF /\ ~stopped /\ conn[fd] = d
                        /\ Directions(m_sockets[fd]) # {}
                     THEN "REMOVE" ELSE m_sockets[fd]]
  /\ UNCHANGED <<waits, m_timer, io, owner, asked>>

(* Before it returns libcurl may ask for another time-out, and must when   *)
(* it has active transfers and none is due: each has its CURLOPT_TIMEOUT.  *)
(* A timer event that comes while the timer is armed again finds nothing   *)
(* due yet.                                                                *)
LeaveCurl ==
  /\ pc = "curl"
  /\ LET due == asked /\ ~(event = TimerEvent /\ m_timer # "armed") IN
     \/ TimerCurl(Active # {})
     \/ (due \/ Active = {}) /\ UNCHANGED <<asked, m_timer>>
  /\ activeDownloads' = Cardinality(Active)
  /\ pc' = "finish"
  /\ UNCHANGED <<stage, m_sockets, waits, handlers, event, owner, conn>>

-----------------------------------------------------------------------------
(* The handlers of the io thread *)

(* download(): boost::asio::post.  Downloads are told apart by when they   *)
(* are posted, so any new one will do.  Bound: as for libcurl's waits.     *)
PostDownload ==
  /\ mpc = "use" /\ At("new") # {}
  /\ Outstanding < MaxWaits
  /\ LET d == CHOOSE d \in At("new") : TRUE IN
     /\ stage' = [stage EXCEPT ![d] = "posted"]
     /\ handlers' = Append(handlers, NewEvent(d))
  /\ UNCHANGED <<asio, pc, event, activeDownloads, owner, curl>>

(* run() takes the next handler. *)
Take(kind) ==
  /\ pc = "run" /\ ~stopped
  /\ handlers # <<>> /\ Head(handlers).kind = kind
  /\ handlers' = Tail(handlers)
  /\ UNCHANGED <<stage, asio, activeDownloads, owner, curl>>

TakeNew ==
  /\ Take("new")
  /\ event' = Head(handlers)
  /\ pc' = "newDownload"

(* newDownload: the DownloadManager adds the handle, and libcurl asks for  *)
(* a time-out at once.                                                     *)
NewDownload ==
  /\ pc = "newDownload"
  /\ stage' = [stage EXCEPT ![event.download] = "active"]
  /\ TimerCurl(TRUE)
  /\ pc' = "run" /\ event' = NoEvent
  /\ UNCHANGED <<m_sockets, waits, handlers, activeDownloads, owner, conn>>

(* timerAsioCb without an error. *)
TakeTimer ==
  /\ Take("timer")
  /\ event' = TimerEvent
  /\ pc' = "curl"

(* doSocketAction, up to the call of libcurl: the socket must be open and  *)
(* the direction one that libcurl waits for.                               *)
EventWanted(e) ==
  /\ e.fd \in DOMAIN m_sockets
  /\ m_sockets[e.fd] \in {e.dir, "INOUT"}

TakeSocket ==
  /\ Take("socket")
  /\ IF EventWanted(Head(handlers))
     THEN event' = Head(handlers) /\ pc' = "curl"
     ELSE UNCHANGED <<event, pc>>

(* processFinishedDownloads: a message of libcurl, and the callback of its *)
(* download.                                                               *)
FinishDownload(d) ==
  /\ pc = "finish" /\ stage[d] = "done"
  /\ stage' = [stage EXCEPT ![d] = "callback"]
  /\ pc' = "callback"
  /\ UNCHANGED <<asio, handlers, event, activeDownloads, owner, curl>>

(* The callback returns and the finished callback erases the manager,      *)
(* which removes the handle; libcurl may then ask for another time-out.    *)
EraseDownload(d) ==
  /\ pc = "callback" /\ stage[d] = "callback"
  /\ stage' = [stage EXCEPT ![d] = "ended"]
  /\ \/ TimerCurl(Active # {})
     \/ UNCHANGED <<asked, m_timer>>
  /\ pc' = "finish"
  /\ UNCHANGED <<m_sockets, waits, handlers, event, activeDownloads, owner, conn>>

(* Mutant: CURL_POLL_INOUT is not thought of. *)
KeepOnWatchingOneWay ==
  IF EventWanted(event) /\ ~event.error /\ m_sockets[event.fd] = event.dir
  THEN AddWaits(event.fd, {event.dir})
  ELSE UNCHANGED waits

(* The end of doSocketAction.  After an error the action it compares is    *)
(* CURL_CSELECT_ERR, and no wait is added.                                 *)
KeepOnWatching ==
  IF EventWanted(event) /\ ~event.error
  THEN AddWaits(event.fd, {event.dir})
  ELSE UNCHANGED waits

(* Mutants: off by one. *)
OneMessageLeft == Cardinality(At("done")) <= 1
FewTransfersLeft == activeDownloads <= 1

NoMessageLeft == At("done") = {}
LastTransferDone == activeDownloads <= 0

(* The rest of a handler once no message is left: timerAsioCb has nothing  *)
(* more to do; doSocketAction cancels the timer after the last transfer    *)
(* and keeps on watching.                                                  *)
LeaveHandler ==
  /\ pc = "finish" /\ NoMessageLeft
  /\ IF event.kind = "timer"
     THEN UNCHANGED <<waits, m_timer>>
     ELSE /\ m_timer' = IF LastTransferDone THEN "off" ELSE m_timer
          /\ KeepOnWatching
  /\ pc' = "run" /\ event' = NoEvent /\ activeDownloads' = 0
  /\ UNCHANGED <<stage, m_sockets, handlers, owner, curl>>

-----------------------------------------------------------------------------
(* The reactor, which the io thread runs between handlers *)

WaitReady(fd, dir) ==
  /\ pc = "run" /\ ~stopped
  /\ fd \in DOMAIN waits /\ waits[fd][dir] > 0
  /\ waits' = [waits EXCEPT ![fd][dir] = @ - 1]
  /\ handlers' = Append(handlers, SocketEvent(fd, dir, FALSE))
  /\ UNCHANGED <<stage, m_sockets, m_timer, pc, event, activeDownloads, owner, curl>>

(* Bound: the timer expires again once its last event has been taken. *)
TimerExpires ==
  /\ pc = "run" /\ ~stopped
  /\ m_timer = "armed" /\ TimerEvent \notin Range(handlers)
  /\ m_timer' = "off"
  /\ handlers' = Append(handlers, TimerEvent)
  /\ UNCHANGED <<stage, m_sockets, waits, pc, event, activeDownloads, owner, curl>>

-----------------------------------------------------------------------------
(* The destructor: the members in reverse order of declaration *)

NoWaits == [fd \in DOMAIN m_sockets |-> [dir \in Dir |-> 0]]

(* m_ioServiceStopper.  The handlers and waits that are left live on until *)
(* m_io_context and m_sockets go, but run() takes no other handler and     *)
(* nothing can tell: they are dropped here.                                *)
Stop ==
  /\ mpc = "use"
  /\ stopped' = TRUE
  /\ handlers' = <<>> /\ waits' = NoWaits
  /\ mpc' = "join"
  /\ UNCHANGED <<stage, m_sockets, m_timer, pc, event, activeDownloads, curl>>

(* Mutant: the destructor does not wait for the handler under way. *)
JoinNobody ==
  /\ mpc = "join" /\ pc \in {"run", "curl", "finish", "callback"}
  /\ pc' = "joined" /\ mpc' = "downloads" /\ m_timer' = "destroyed"
  /\ UNCHANGED <<stage, m_sockets, waits, handlers, event, activeDownloads,
                 stopped, curl>>

(* run() returns after the handler it is in, for the work guard leaves it  *)
(* no other reason; m_thread is joined and m_timer goes.  A wait the last  *)
(* handler added is dropped too.                                           *)
Join ==
  /\ mpc = "join" /\ pc = "run"
  /\ pc' = "joined"
  /\ m_timer' = "destroyed"
  /\ waits' = NoWaits
  /\ mpc' = "downloads"
  /\ UNCHANGED <<stage, m_sockets, handlers, event, activeDownloads, stopped, curl>>

(* m_downloads: each manager removes its handle from libcurl, which may    *)
(* ask for another time-out and forgets the sockets of the transfer;       *)
(* closeSocket returns at once.                                            *)
DestroyDownload(d) ==
  /\ mpc = "downloads" /\ d \in m_downloads
  /\ stage' = [stage EXCEPT ![d] = "aborted"]
  /\ conn' = [fd \in {f \in DOMAIN conn : conn[f] # d} |-> conn[fd]]
  /\ \/ TimerCurl(Active \ {d} # {})
     \/ UNCHANGED <<asked, m_timer>>
  /\ UNCHANGED <<m_sockets, waits, io, owner>>

(* m_multi, m_sockets and m_io_context: libcurl forgets its connections,   *)
(* the sockets are closed; a download that was only posted is dropped.     *)
DestroyRest ==
  /\ mpc = "downloads" /\ m_downloads = {}
  /\ mpc' = "gone"
  /\ stage' = [d \in Download |->
                 IF stage[d] = "posted" THEN "aborted" ELSE stage[d]]
  /\ conn' = <<>> /\ m_sockets' = <<>> /\ waits' = <<>>
  /\ UNCHANGED <<m_timer, io, stopped, asked>>

-----------------------------------------------------------------------------
CurlStep ==
  \/ \E fd \in DOMAIN m_sockets, action \in Watch \ {"NONE"} :
       fd \in DOMAIN conn /\ AddSocketActions(fd, action)
  \/ \E fd \in Fd \cup {Stdin} : CloseSocket(fd)
  \/ \E d \in Download, fd \in Fd : OpenSocket(d, fd) \/ ReuseConnection(d, fd)
  \/ \E d \in Download : OpenSocketStopped(d) \/ TransferDone(d)

Handler ==
  \/ TakeNew \/ TakeTimer \/ TakeSocket
  \/ NewDownload
  \/ LeaveCurl
  \/ \E d \in Download : FinishDownload(d) \/ EraseDownload(d)
  \/ LeaveHandler

Reactor ==
  \/ \E fd \in Fd, dir \in Dir : WaitReady(fd, dir)
  \/ TimerExpires

Destructor ==
  \/ Join
  \/ \E d \in Download : DestroyDownload(d)
  \/ DestroyRest

Next ==
  \/ CurlStep \/ Handler \/ Reactor \/ Destructor
  \/ PostDownload
  \/ Stop
  \/ mpc = "gone" /\ UNCHANGED vars

Spec == Init /\ [][Next]_vars

(***************************************************************************)
(* The io thread and a destructor that was called go on; libcurl returns.  *)
(* An armed timer comes to its end, although libcurl may set it anew for   *)
(* the same moment.  CURLOPT_TIMEOUT ends a transfer in a timer event.     *)
(***************************************************************************)
Fairness ==
  /\ WF_vars(Handler) /\ WF_vars(Destructor)
  /\ SF_vars(TimerExpires)
  /\ \A d \in Download : SF_vars(event = TimerEvent /\ TransferDone(d))

FairSpec == Spec /\ Fairness

-----------------------------------------------------------------------------
TypeOK ==
  /\ stage \in [Download -> {"new", "posted", "active", "done", "callback",
                             "ended", "aborted"}]
  /\ DOMAIN m_sockets \subseteq Fd
  /\ m_sockets \in [DOMAIN m_sockets -> Watch]
  /\ waits \in [DOMAIN m_sockets -> [Dir -> Nat]]
  /\ m_timer \in {"off", "armed", "destroyed"}
  /\ handlers \in Seq(Event)
  /\ pc \in {"run", "newDownload", "curl", "finish", "callback", "joined",
           "threw"}
  /\ event \in Event \cup {NoEvent}
  /\ activeDownloads \in Nat
  /\ stopped \in BOOLEAN /\ asked \in BOOLEAN
  /\ mpc \in {"use", "join", "downloads", "gone"}
  /\ DOMAIN conn \subseteq DOMAIN m_sockets \cup {Stdin}
  /\ conn \in [DOMAIN conn -> Download \cup {NoDownload}]

Pending == Range(handlers) \cup {event}

(***************************************************************************)
(* doSocketAction adds a wait again only for the direction of its event,   *)
(* and addSocketActions only for directions that were not watched.  Still, *)
(* whatever order events, changes of the watch and reuses of a number come *)
(* in, a direction libcurl waits for has a wait or an event on its way.    *)
(***************************************************************************)
WatchKept ==
  ~stopped =>
    \A fd \in DOMAIN m_sockets : \A dir \in Directions(m_sockets[fd]) :
      \/ waits[fd][dir] > 0
      \/ SocketEvent(fd, dir, FALSE) \in Pending

(***************************************************************************)
(* The only certain end of a transfer is its time-out.  timerCurl cancels  *)
(* the timer before it sets it, a socket event cancels it after the last   *)
(* transfer, and the event of an expired timer may be overtaken: while     *)
(* libcurl waits for a time-out of an active transfer, the timer is armed  *)
(* or its event on its way.                                                *)
(***************************************************************************)
TransferTimed ==
  ~stopped /\ Active # {} => m_timer = "armed" \/ TimerEvent \in Pending

(***************************************************************************)
(* libcurl tells of a finished transfer once; processFinishedDownloads     *)
(* must read all messages, as nothing brings the io thread back to them.   *)
(***************************************************************************)
MessagesRead == pc \in {"run", "joined"} => At("done") \cup At("callback") = {}

(***************************************************************************)
(* The destructors of m_downloads and m_multi call back into the class:    *)
(* the timer, destroyed before them, must not be used again.               *)
(***************************************************************************)
TimerStaysDestroyed == mpc \in {"downloads", "gone"} => m_timer = "destroyed"

(***************************************************************************)
(* closeSocket throws when it does not know the socket, and that would end *)
(* the process: whatever libcurl opened before and after the destructor    *)
(* was called, descriptor 0 included, it never gets there.                 *)
(***************************************************************************)
NoHandlerThrows == pc # "threw"

(***************************************************************************)
(* The class implements the interface Downloader: one callback at a time   *)
(* and at most one for a download, none during or after the return of the  *)
(* destructor.                                                             *)
(***************************************************************************)
Interface ==
  INSTANCE Downloader WITH
    progress <- [d \in Download |->
                   CASE stage[d] \in {"posted", "active", "done"} -> "asked"
                     [] OTHER -> stage[d]],
    open <- mpc # "gone"

ImplementsDownloader == Interface!Spec

(***************************************************************************)
(* Whatever was posted ends, in its callback or because the downloader is  *)
(* destroyed: no time-out is lost, no message is left unread, and a        *)
(* destructor that was called gets past the io thread.                     *)
(***************************************************************************)
EveryDownloadEnds == []<>(At("posted") \cup m_downloads = {})

(***************************************************************************)
(* crawler.h, "On destruction abort all ongoing downloads ASAP. Do not     *)
(* call any non-started callbacks": no callback starts after the           *)
(* destructor was called.  The handler that runs then is not interrupted.  *)
(***************************************************************************)
NoCallbackOnDestruction ==
  [][\A d \in Download :
       stage'[d] = "callback" /\ stage[d] # "callback" => ~stopped]_vars
=============================================================================
