-------------------------------- MODULE Main --------------------------------
(***************************************************************************)
(* main: handleExceptions around ProgramLogic, which reads the command     *)
(* line, configures the logger, and runs driverLoadLogic unless the user   *)
(* only asked for help.  The driver's three threads log: the main thread   *)
(* and the io thread during the crawl, the worker when a task has thrown.  *)
(*                                                                         *)
(* Whichever options are given is chosen where they are looked at.  The    *)
(* build is one with debug messages.                                       *)
(***************************************************************************)
EXTENDS Driver, Logger

CONSTANTS
  MaxLogs  \* bound: the messages of the crawl, of the tasks, and of messages

VARIABLES
  mainAt,    \* where main is
  exitCode,  \* what it returned
  asked,     \* history: the names given with --debug, the empty one for all
  logged     \* how many of these there have been

main == <<mainAt, exitCode, asked, logged>>
mainVars == <<dvars, logger, main>>

ASSUME MainAssumption ==
  /\ LogThread = {"main", "io", "worker"}
  /\ MaxLogs \in Nat

MainInit ==
  /\ DriverInit /\ LoggerInit
  /\ mainAt = "readOptions"
  /\ exitCode = {}
  /\ asked = {}
  /\ logged = 0

Names == {Registered[c] : c \in Component}

-----------------------------------------------------------------------------
(* handleExceptions(ProgramLogic) *)

Proceeds(from, to) ==
  /\ mainAt = from /\ Quiet("main")
  /\ mainAt' = to
  /\ UNCHANGED <<dvars, exitCode, logged>>

(* An exception: its message is logged, and main returns 1. *)
Throws(from) ==
  /\ Proceeds(from, "caught")
  /\ Log("main")
  /\ UNCHANGED asked

Exit(from, code) ==
  /\ mainAt = from /\ Quiet("main")
  /\ mainAt' = "exited" /\ exitCode' = {code}
  /\ UNCHANGED <<dvars, logger, asked, logged>>

(* The parser throws for what it does not know. *)
ReadOptions ==
  \/ Throws("readOptions")
  \/ Exit("readOptions", 0)   \* --help, or --listLoggedComponents
  \/ Proceeds("readOptions", "debug") /\ UNCHANGED <<logger, asked>>

(* processLogging: --debugAll, which leaves the name at its default, ...   *)
DebugAll ==
  /\ Proceeds("debug", "logOutput")
  /\ asked = {}
  /\ Enable("")
  /\ asked' = {""}

(* ... or --debug for any number of names, each of which must be known or  *)
(* empty, ...                                                              *)
DebugOne(name) ==
  /\ Proceeds("debug", "debug")
  /\ Enable(name)
  /\ asked' = asked \cup {name}

DebugUnknown == Throws("debug")

DebugDone ==
  /\ Proceeds("debug", "logOutput")
  /\ UNCHANGED <<logger, asked>>

(* ... and --logOutput, with a message before the file is opened and, when *)
(* it cannot be, one after.                                                *)
LogOutput ==
  /\ Proceeds("logOutput", "openOutput")
  /\ Log("main")
  /\ UNCHANGED asked

OpenOutput ==
  /\ Proceeds("openOutput", "urlOptions")
  /\ SwapOutput \/ Log("main")
  /\ UNCHANGED asked

NoLogOutput ==
  /\ Proceeds("logOutput", "urlOptions")
  /\ UNCHANGED <<logger, asked>>

(* Without a list and without a URL it throws. *)
UrlOptions ==
  \/ Throws("urlOptions")
  \/ Proceeds("urlOptions", "drive") /\ UNCHANGED <<logger, asked>>

(* The destructor of the downloader joins the io thread. *)
Drive ==
  /\ mainAt = "drive" /\ Quiet("main")
  /\ dpc = "return" => Quiet("io")
  /\ MainStep
  /\ UNCHANGED <<logger, main>>

(* driverLoadLogic has returned or thrown; so has handleExceptions. *)
DriveEnds ==
  /\ dpc = "end"
  /\ IF thrown THEN Throws("drive") ELSE Exit("drive", 0)

Handled == Exit("caught", 1)

MainThread ==
  \/ ReadOptions
  \/ DebugAll \/ (\E name \in Names \cup {""} : DebugOne(name))
  \/ DebugUnknown \/ DebugDone
  \/ LogOutput \/ OpenOutput \/ NoLogOutput
  \/ UrlOptions
  \/ Drive \/ DriveEnds
  \/ Handled

-----------------------------------------------------------------------------
(* The other threads, and what all of them log *)

IoThread ==
  /\ Quiet("io")
  /\ \E io \in Poster : IoStep(io)
  /\ UNCHANGED <<logger, main>>

Worker(w) ==
  /\ Quiet("worker")
  /\ (WorkerSearch(w) /\ UNCHANGED driver) \/ WriteResult(w)
  /\ UNCHANGED <<logger, main>>

WorkerWakes ==
  /\ \E w \in Thread : WakeSpuriously(w)
  /\ UNCHANGED <<driver, logger, main>>

(* A task throws after what it did. *)
TaskThrew == \E w \in Thread : worker[w].at = "try" /\ m_seq > 0

LogsNow(t) ==
  CASE t = "main" -> dpc = "crawl"
    [] t = "io" -> m_hasCrawled /\ dpc \in {"crawl", "keepCrawling", "return"}
    [] t = "worker" -> TaskThrew

(* A message of the crawl or of a task, or one within another message. *)
CallLog(t) ==
  /\ Quiet(t) => LogsNow(t)
  /\ logged < MaxLogs
  /\ Log(t)
  /\ logged' = logged + 1
  /\ UNCHANGED <<dvars, mainAt, exitCode, asked>>

Logs(t) == (Lock(t) \/ Write(t)) /\ UNCHANGED <<dvars, main>>

Exited == mainAt = "exited" /\ UNCHANGED mainVars

MainNext ==
  \/ MainThread \/ IoThread
  \/ (\E w \in Thread : Worker(w)) \/ WorkerWakes
  \/ \E t \in LogThread : CallLog(t) \/ Logs(t)
  \/ Exited

(* The threads are scheduled, and a mutex that is freed again and again is *)
(* not always given to another.                                            *)
MainFairness ==
  /\ WF_mainVars(MainThread)
  /\ WF_mainVars(IoThread)
  /\ \A w \in Thread : WF_mainVars(Worker(w))
  /\ \A t \in LogThread : SF_mainVars(Logs(t))

MainSpec == MainInit /\ [][MainNext]_mainVars /\ MainFairness

-----------------------------------------------------------------------------
(* Every variable of the driver has its type; a file holds one result.     *)
DriverTypeOK ==
  /\ dpc \in {"readUrls", "taskSystem", "keepCrawling", "crawl", "return",
              "destroyTaskSystem", "end"}
  /\ thrown \in BOOLEAN /\ m_hasCrawled \in BOOLEAN /\ processorAlive \in BOOLEAN
  /\ nrUrls \in 0..Posts /\ nrValid \in 0..nrUrls
  /\ m_seq \in 0..nrValid /\ unsaved \in 0..nrValid
  /\ DOMAIN files \subseteq 0..Posts
  /\ files \in [DOMAIN files -> {{j} : j \in Job}]

(* Every variable has its type, those of TaskSystem, Driver and Logger     *)
(* included.                                                               *)
MainTypeOK ==
  /\ TypeOK /\ DriverTypeOK /\ LoggerTypeOK
  /\ mainAt \in {"readOptions", "debug", "logOutput", "openOutput", "urlOptions",
                 "drive", "caught", "exited"}
  /\ exitCode \subseteq 0..1 /\ Cardinality(exitCode) <= 1
  /\ asked \subseteq Names \cup {""}
  /\ logged \in 0..MaxLogs

(***************************************************************************)
(* "on runtime only show specificly configured debug logs": once the       *)
(* options are read, the debug messages of a component are shown if and    *)
(* only if somebody asked for it, whatever else was asked for.  "Empty     *)
(* component name means debug all components".                             *)
(***************************************************************************)
DebugAsAsked ==
  mainAt \in {"logOutput", "openOutput", "urlOptions", "drive"} =>
    \A c \in Component :
      Stream("debug", c) # "nullSink"
        <=> Registered[c] \in asked \/ "" \in asked

(***************************************************************************)
(* The logger is configured without its mutex, and destroyed after main:   *)
(* outside the driver, however that ended, no thread is left that could    *)
(* log.  Main returns 0 only when all the URLs that were to be crawled     *)
(* were handed to the task system and their tasks have run.                *)
(***************************************************************************)
ExitMeansDone ==
  /\ mainAt # "drive" =>
       /\ Quiet("io") /\ Quiet("worker")
       /\ \A w \in Thread : worker[w].at \in {"none", "exited"}
  /\ exitCode = {0} =>
       \A io \in Poster : \A n \in 1..nrValid : ran[<<io, n>>] = 1

(* Whatever the options, the list and the failures, the program ends; "to  *)
(* avoid any deadlocks" messages are evaluated outside the logger's mutex. *)
ProgramEnds == <>(mainAt = "exited")
=============================================================================
