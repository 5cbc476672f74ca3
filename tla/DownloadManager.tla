--------------------------- MODULE DownloadManager ---------------------------
(***************************************************************************)
(* DownloadManager objects, the Pimpl each owns through a raw pointer, and *)
(* the CurlEasyMultiManager in it, which puts the Pimpl's easy handle into *)
(* the multi handle and takes it out.  libcurl keeps the Pimpl's address   *)
(* for its callbacks, so that objects may move but a Pimpl may not.        *)
(*                                                                         *)
(* An easy handle is named by the Pimpl it belongs to.  The transfer of    *)
(* the Pimpl at one address, Followed, is that of Transfer; those at the   *)
(* other addresses are not followed.  The moves of CurlEasyMultiManager    *)
(* are not used by a Pimpl, which cannot be moved.                         *)
(***************************************************************************)
EXTENDS Transfer, FiniteSets

CONSTANTS
  Object,    \* variables that may hold a DownloadManager
  Address,   \* where a Pimpl may be
  Followed,  \* the address whose transfers are followed
  NoObject,  \* what a variable is before and after the object's life
  NullPtr

ASSUME ManagerAssumption ==
  /\ Followed \in Address
  /\ NoObject \notin Address /\ NullPtr \notin Address /\ NoObject # NullPtr

VARIABLES
  m_pimpl,      \* the pointer in each object
  pimpls,       \* the addresses where a Pimpl lives
  m_released,   \* those whose CurlEasyMultiManager is released
  multiHandle   \* libcurl: the easy handles in the multi handle

objects == <<m_pimpl, pimpls, m_released, multiHandle>>
allVars == <<vars, objects>>

ManagerInit ==
  /\ Init
  /\ m_pimpl = [o \in Object |-> NoObject]
  /\ pimpls = {} /\ m_released = {} /\ multiHandle = {}

Constructed(o) == m_pimpl[o] # NoObject

(* What an operation on the Pimpl at p does to its transfer. *)
OnTransfer(p, Action) == IF p = Followed THEN Action ELSE UNCHANGED vars

-----------------------------------------------------------------------------
(* CurlEasyMultiManager of the Pimpl at p *)

AddHandle(p) ==
  /\ multiHandle' = multiHandle \cup {p}
  /\ m_released' = m_released \ {p}

RemoveHandle(p) == multiHandle' = multiHandle \ {p}

(* reuse: release() throws at once when released already, which changes    *)
(* nothing; otherwise the handle goes out and comes back, ...              *)
Reuses(p) ==
  /\ p \notin m_released
  /\ AddHandle(p)
  /\ OnTransfer(p, Reuse)

(* Mutant: m_released is reset before the handle is added. *)
ReuseThrowsReset(p) ==
  /\ p \notin m_released
  /\ RemoveHandle(p)
  /\ UNCHANGED m_released
  /\ OnTransfer(p, ReuseFails)

(* ... unless setting the URL or adding the handle throws in between. *)
ReuseThrows(p) ==
  /\ p \notin m_released
  /\ RemoveHandle(p)
  /\ m_released' = m_released \cup {p}
  /\ OnTransfer(p, ReuseFails)

-----------------------------------------------------------------------------
(* DownloadManager *)

(* A constructor that throws leaves nothing behind. *)
NewManager(o, p) ==
  /\ ~Constructed(o) /\ p \notin pimpls
  /\ m_pimpl' = [m_pimpl EXCEPT ![o] = p]
  /\ pimpls' = pimpls \cup {p}
  /\ AddHandle(p)
  /\ OnTransfer(p, Construct)

MoveConstruct(o, other) ==
  /\ ~Constructed(o) /\ Constructed(other)
  /\ m_pimpl' = [m_pimpl EXCEPT ![o] = m_pimpl[other], ![other] = NullPtr]
  /\ UNCHANGED <<vars, pimpls, m_released, multiHandle>>

(* delete of a pointer: ~CurlEasyMultiManager comes before the end of the  *)
(* easy handle.                                                            *)
Delete(p) ==
  IF p = NullPtr
  THEN UNCHANGED <<vars, pimpls, m_released, multiHandle>>
  ELSE /\ IF p \in m_released THEN UNCHANGED multiHandle ELSE RemoveHandle(p)
       /\ pimpls' = pimpls \ {p}
       /\ m_released' = m_released \ {p}
       /\ OnTransfer(p, Destroy)

(* Mutant: the pointer is not taken from the other object. *)
MoveAssignCopies(o, other) ==
  /\ Constructed(o) /\ Constructed(other)
  /\ Delete(m_pimpl[o])
  /\ m_pimpl' = [m_pimpl EXCEPT ![o] = m_pimpl[other]]

(* An object that is moved to itself is left empty. *)
MoveAssign(o, other) ==
  /\ Constructed(o) /\ Constructed(other)
  /\ Delete(m_pimpl[o])
  /\ m_pimpl' = [m_pimpl EXCEPT ![o] = m_pimpl[other], ![other] = NullPtr]

Swap(o, other) ==
  /\ Constructed(o) /\ Constructed(other)
  /\ m_pimpl' = [m_pimpl EXCEPT ![o] = m_pimpl[other], ![other] = m_pimpl[o]]
  /\ UNCHANGED <<vars, pimpls, m_released, multiHandle>>

DestroyManager(o) ==
  /\ Constructed(o)
  /\ Delete(m_pimpl[o])
  /\ m_pimpl' = [m_pimpl EXCEPT ![o] = NoObject]

(* It is not defined on an object that was moved from. *)
ReuseManager(o) ==
  /\ m_pimpl[o] \in Address
  /\ Reuses(m_pimpl[o]) \/ ReuseThrows(m_pimpl[o])
  /\ UNCHANGED <<m_pimpl, pimpls>>

(* libcurl calls back for a handle it holds. *)
Transfers ==
  /\ Followed \in multiHandle
  /\ LibcurlStep
  /\ UNCHANGED objects

ManagerNext ==
  \/ \E o \in Object :
       \/ \E p \in Address : NewManager(o, p)
       \/ \E other \in Object :
            MoveConstruct(o, other) \/ MoveAssign(o, other) \/ Swap(o, other)
       \/ DestroyManager(o) \/ ReuseManager(o)
  \/ Transfers

ManagerSpec == ManagerInit /\ [][ManagerNext]_allVars

-----------------------------------------------------------------------------
(***************************************************************************)
(* However objects are moved, assigned and swapped, a Pimpl is deleted     *)
(* once: each that lives is owned by one object, and no object points to   *)
(* one that does not.                                                      *)
(***************************************************************************)
PimplsOwned ==
  /\ \A p \in pimpls : Cardinality({o \in Object : m_pimpl[o] = p}) = 1
  /\ \A o \in Object : m_pimpl[o] \in pimpls \cup {NullPtr, NoObject}

(***************************************************************************)
(* libcurl calls nobody who is gone: the handles in the multi handle are   *)
(* those of the living whose CurlEasyMultiManager will take them out, also *)
(* when a reuse failed half way.                                           *)
(***************************************************************************)
HandlesLive == multiHandle = pimpls \ m_released
=============================================================================
