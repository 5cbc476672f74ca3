------------------------------- MODULE Logger -------------------------------
(***************************************************************************)
(* The Logger singleton and the macros that log.  LOG_INIT registers a     *)
(* component for each source file; a LOG_ macro evaluates its message,     *)
(* takes the one mutex, asks the logger for a stream and writes to it.     *)
(* The evaluation may call what logs in turn.                              *)
(*                                                                         *)
(* enable and setOutput change what the streams depend on without taking   *)
(* the mutex.  What a message says is left out: a write tries every level  *)
(* and component.                                                          *)
(***************************************************************************)
EXTENDS Sequences, Integers

CONSTANTS
  Registered,  \* the names of the components, in the order of registration
  LogThread,   \* the threads that log
  NoThread,    \* none of them
  MaxDepth     \* bound: how deep the log calls of a thread are nested

ASSUME LoggerAssumption ==
  /\ Registered \in Seq(STRING)
  /\ NoThread \notin LogThread
  /\ MaxDepth \in Nat \ {0}

Component == DOMAIN Registered
Level == {"info", "error", "debug"}

VARIABLES
  m_enabled,  \* the components whose debug messages are shown
  m_fout,     \* the log file: "closed", "good" or "bad"
  m_mutex,    \* who holds it
  logging     \* the log calls each thread is in, the innermost last

logger == <<m_enabled, m_fout, m_mutex, logging>>

LoggerInit ==
  /\ m_enabled = {}
  /\ m_fout = "closed"
  /\ m_mutex = NoThread
  /\ logging = [t \in LogThread |-> <<>>]

Quiet(t) == logging[t] = <<>>

-----------------------------------------------------------------------------
(* Class Logger *)

(* getInfoStream, getErrorStream and getDebugStream *)
Stream(level, c) ==
  IF level = "debug" /\ c \notin m_enabled THEN "nullSink"
  ELSE IF m_fout = "good" THEN "file" ELSE "cout"

Named(name) == {c \in Component : Registered[c] = name}

(* Mutant: every component from the first of that name on. *)
EnableFrom(name) ==
  /\ Named(name) # {}
  /\ m_enabled' = m_enabled \cup
                    {c \in Component : \E first \in Named(name) : first <= c}
  /\ UNCHANGED <<m_fout, m_mutex, logging>>

(* enable: of the components of one name, which throws when there is none, *)
EnableNamed(name) ==
  /\ Named(name) # {}
  /\ m_enabled' = m_enabled \cup Named(name)
  /\ UNCHANGED <<m_fout, m_mutex, logging>>

(* ... or, when the name is empty, of all.                                 *)
EnableAll ==
  /\ m_enabled' = Component
  /\ UNCHANGED <<m_fout, m_mutex, logging>>

Enable(name) == IF name = "" THEN EnableAll ELSE EnableNamed(name)

(* setOutput: a file that can be written to takes the place of m_fout. *)
SwapOutput ==
  /\ m_fout' = "good"
  /\ UNCHANGED <<m_enabled, m_mutex, logging>>

-----------------------------------------------------------------------------
(* The macros *)

Innermost(t) == logging[t][Len(logging[t])]

(* Mutant: the message is evaluated under the mutex. *)
EvaluatedLocked == "write"
EvaluatedAt == "evaluate"

(* A call of a macro, on its own or by the message of another. *)
Log(t) ==
  /\ Len(logging[t]) < MaxDepth
  /\ ~Quiet(t) => Innermost(t) = EvaluatedAt
  /\ logging' = [logging EXCEPT ![t] = Append(@, "evaluate")]
  /\ UNCHANGED <<m_enabled, m_fout, m_mutex>>

Lock(t) ==
  /\ ~Quiet(t) /\ Innermost(t) = "evaluate"
  /\ m_mutex = NoThread
  /\ m_mutex' = t
  /\ logging' = [logging EXCEPT ![t][Len(logging[t])] = "write"]
  /\ UNCHANGED <<m_enabled, m_fout>>

(* The write, which may spoil the file, and the end of the call. *)
Write(t) ==
  /\ ~Quiet(t) /\ Innermost(t) = "write"
  /\ \E level \in Level, c \in Component :
       m_fout' \in IF Stream(level, c) = "file" THEN {"good", "bad"} ELSE {m_fout}
  /\ m_mutex' = NoThread
  /\ logging' = [logging EXCEPT ![t] = SubSeq(@, 1, Len(@) - 1)]
  /\ UNCHANGED m_enabled

-----------------------------------------------------------------------------
(* Every variable has its type. *)
LoggerTypeOK ==
  /\ m_enabled \subseteq Component
  /\ m_fout \in {"closed", "good", "bad"}
  /\ m_mutex \in LogThread \cup {NoThread}
  /\ logging \in [LogThread -> Seq({"evaluate", "write"})]
=============================================================================
