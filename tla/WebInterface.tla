---------------------------- MODULE WebInterface ----------------------------
(***************************************************************************)
(* MyFileHandler of src/WebInterface.cpp: the requests select-process,     *)
(* search, list, get and set, each on a thread of its own, and what they   *)
(* share: the global pointer g_TheProcess and the CProcess it points to,   *)
(* the process handle kept in that object, g_AddressList, and a critical   *)
(* section that only search takes.  Every use of g_TheProcess loads it     *)
(* again, and Open, Close and the destructor access the fields of their    *)
(* object one by one, without a lock.                                      *)
(***************************************************************************)
EXTENDS FiniteSets

CONSTANTS Req,      \* handler threads; the code has one per connection
          Obj,      \* addresses a CProcess can be allocated at
          Hnd,      \* bound: process handles open at once, leaked ones included
          NoObj, NoHnd, NoReq

ASSUME NullAssumption == NoObj \notin Obj /\ NoHnd \notin Hnd /\ NoReq \notin Req

Kind == {"select", "search", "list", "get", "set"}

VARIABLES
  pc, kind,               \* per request: where it is and what was asked
  this,                   \* per request: the object a method runs on
  isInitialized, lock,    \* MyFileHandler's statics; lock is its holder
  g_TheProcess,
  alive,                  \* objects constructed and not deleted
  m_IsOpened, m_ProcessHandle,   \* fields
  running,                \* the process selected last is running
  handles,                \* per handle: "closed" or the access it was opened for
  reinitialized,          \* the critical section was initialised again while held
  overlapped,             \* ghost: running requests that another one ran along with
  everOverlapped,         \* ghost: some two requests ran at the same time
  broken                  \* ghost: a request that no other one overlapped used a
                          \* deleted object, a handle without the access it
                          \* needs, or a list that was changing

lockVars == <<isInitialized, lock, reinitialized>>
objVars  == <<g_TheProcess, alive, m_IsOpened, m_ProcessHandle, running, handles>>
reqVars  == <<pc, kind, overlapped>>
vars == <<reqVars, this, lockVars, objVars, everOverlapped, broken>>

PC == {"idle", "init", "initLock", "check", "enter", "stuck", "open", "opened", "failed", "use",
       "scan", "close", "closing", "clearing", "leave", "iterate", "delete", "free", "new"}

Active == {r \in Req : pc[r] # "idle"}
Go(r, l) ==
  /\ pc' = [pc EXCEPT ![r] = l]
  /\ kind' = IF l = "idle" THEN [kind EXCEPT ![r] = "list"] ELSE kind
  /\ overlapped' = IF l = "idle" THEN overlapped \ {r} ELSE overlapped

Init ==
  /\ pc = [r \in Req |-> "idle"] /\ kind = [r \in Req |-> "list"]
  /\ this = [r \in Req |-> NoObj]
  /\ isInitialized = FALSE /\ lock = NoReq /\ reinitialized = FALSE
  /\ g_TheProcess = NoObj /\ alive = {} /\ m_IsOpened = [o \in Obj |-> FALSE]
  /\ m_ProcessHandle = [o \in Obj |-> NoHnd] /\ running = FALSE
  /\ handles = [h \in Hnd |-> "closed"]
  /\ overlapped = {} /\ everOverlapped = FALSE /\ broken = FALSE
-----------------------------------------------------------------------------
\* A request arrives.
Begin(r) ==
  /\ pc[r] = "idle" /\ pc' = [pc EXCEPT ![r] = "init"]
  /\ \E k \in Kind : kind' = [kind EXCEPT ![r] = k]
  /\ overlapped' = IF Active = {} THEN overlapped ELSE Active \cup {r}
  /\ everOverlapped' = (everOverlapped \/ Active # {})
  /\ UNCHANGED <<this, lockVars, objVars, broken>>

\* "if( !isInitialized )", and the initialisation as a step of its own: a
\* critical section that is held forgets its holder and those who wait.
Routed(r) == IF kind[r] = "select" THEN "delete" ELSE "check"
TestInit(r) ==
  /\ pc[r] = "init" /\ Go(r, IF isInitialized THEN Routed(r) ELSE "initLock")
  /\ UNCHANGED <<this, lockVars, objVars, everOverlapped, broken>>

InitLock(r) ==
  /\ pc[r] = "initLock" /\ Go(r, Routed(r))
  /\ lock' = NoReq /\ isInitialized' = TRUE
  /\ reinitialized' = (reinitialized \/ lock # NoReq)
  /\ UNCHANGED <<this, objVars, everOverlapped, broken>>

\* "if( g_TheProcess )": without one the request is not found.
Check(r) ==
  /\ pc[r] = "check"
  /\ Go(r, IF g_TheProcess = NoObj THEN "idle"
           ELSE CASE kind[r] = "search" -> "enter"
                  [] kind[r] = "list" -> "iterate"
                  [] OTHER -> "open")
  /\ UNCHANGED <<this, lockVars, objVars, everOverlapped, broken>>

\* Faulty variant: a search does not wait for the critical section.
EnterAnyway(r) ==
  /\ pc[r] = "enter" /\ Go(r, "open")
  /\ lock' = r
  /\ UNCHANGED <<this, isInitialized, reinitialized, objVars, everOverlapped, broken>>

Enter(r) ==
  /\ pc[r] = "enter" /\ lock = NoReq /\ Go(r, "open")
  /\ lock' = r
  /\ UNCHANGED <<this, isInitialized, reinitialized, objVars, everOverlapped, broken>>

\* Where that has happened EnterCriticalSection may wait for ever: for those
\* who waited then, and after LeaveCriticalSection without ownership.
Starve(r) ==
  /\ pc[r] = "enter" /\ reinitialized /\ Go(r, "stuck")
  /\ UNCHANGED <<this, lockVars, objVars, everOverlapped, broken>>

\* A call through g_TheProcess misuses it when the object is deleted.
Deleted(o) == o \notin alive
Blame(S) == broken' = (broken \/ S \ overlapped # {})

\* CProcess::Open stores the handle, NULL on failure,
Opens(r, access) ==
  /\ pc[r] = "open" /\ this' = [this EXCEPT ![r] = g_TheProcess]
  /\ IF running /\ \E h \in Hnd : handles[h] = "closed"
     THEN \E h \in Hnd :
            /\ handles[h] = "closed" /\ handles' = [handles EXCEPT ![h] = access]
            /\ m_ProcessHandle' = [m_ProcessHandle EXCEPT ![g_TheProcess] = h]
            /\ Go(r, "opened")
     ELSE /\ m_ProcessHandle' = [m_ProcessHandle EXCEPT ![g_TheProcess] = NoHnd]
          /\ Go(r, "failed") /\ UNCHANGED handles
  /\ Blame(IF Deleted(g_TheProcess) THEN {r} ELSE {})
  /\ UNCHANGED <<lockVars, g_TheProcess, alive, m_IsOpened, running, everOverlapped>>
\* Faulty variant: one access for all.
OpenAllAccess(r) == Opens(r, "all")
Open(r) == Opens(r, IF kind[r] = "set" THEN "write" ELSE "read")

\* and then looks at it, whether it reads the field again or not.  It leaves
\* m_IsOpened alone on failure; a search that cannot open leaves the lock.
Looked(r, label) ==
  /\ pc[r] \in {"opened", "failed"} /\ this' = [this EXCEPT ![r] = NoObj]
  /\ \E ok \in {pc[r] = "opened", m_ProcessHandle[this[r]] # NoHnd} :
       IF ok THEN Go(r, "use") /\ m_IsOpened' = [m_IsOpened EXCEPT ![this[r]] = TRUE]
             ELSE Go(r, label) /\ UNCHANGED m_IsOpened
  /\ Blame(IF Deleted(this[r]) THEN {r} ELSE {})
  /\ UNCHANGED <<lockVars, g_TheProcess, alive, m_ProcessHandle, running, handles, everOverlapped>>
\* Faulty variant: a failed search keeps the lock.
OpenKeepsLock(r) == Looked(r, "idle")
Opened(r) == Looked(r, IF kind[r] = "search" THEN "leave" ELSE "idle")

\* The access a handle has and the ones a request can do its work with:
\* RescanRegions queries, ReadProcessMemory reads, WriteProcessMemory writes.
Access(o) == IF m_ProcessHandle[o] = NoHnd THEN "closed" ELSE handles[m_ProcessHandle[o]]
Needs(r) == CASE kind[r] = "search" -> {"read"}
              [] kind[r] = "set" -> {"write"}
              [] OTHER -> {"read", "write"}
Misuses(r, o) == Deleted(o) \/ Access(o) \notin Needs(r)

\* GetValue and SetValue; for search, clear g_AddressList and start Search on
\* the object g_TheProcess points to now.
Use(r) ==
  /\ pc[r] = "use"
  /\ Go(r, IF kind[r] = "search" THEN "scan" ELSE "close")
  /\ this' = IF kind[r] = "search" THEN [this EXCEPT ![r] = g_TheProcess] ELSE this
  /\ Blame((IF Misuses(r, g_TheProcess) THEN {r} ELSE {})
           \cup (IF kind[r] = "search" THEN {q \in Req : pc[q] = "iterate"} ELSE {}))
  /\ UNCHANGED <<lockVars, objVars, everOverlapped>>

\* The rest of Search reads through its own object and pushes results.
Scan(r) ==
  /\ pc[r] = "scan" /\ Go(r, "close")
  /\ this' = [this EXCEPT ![r] = NoObj]
  /\ Blame((IF Misuses(r, this[r]) THEN {r} ELSE {}) \cup {q \in Req : pc[q] = "iterate"})
  /\ UNCHANGED <<lockVars, objVars, everOverlapped>>

\* CProcess::Close looks whether the object is open, closes the handle that is
\* there by then,
After(r) == CASE kind[r] = "search" -> "leave"
              [] kind[r] = "select" -> "free"
              [] OTHER -> "idle"
Close(r) ==
  /\ pc[r] = "close"
  /\ IF m_IsOpened[g_TheProcess] THEN Go(r, "closing") /\ this' = [this EXCEPT ![r] = g_TheProcess]
                                 ELSE Go(r, After(r)) /\ UNCHANGED this
  /\ Blame(IF Deleted(g_TheProcess) THEN {r} ELSE {})
  /\ UNCHANGED <<lockVars, objVars, everOverlapped>>

\* Faulty variant: set returns before it closes the handle.
CloseNotAfterSet(r) ==
  /\ pc[r] = "closing" /\ Go(r, "clearing")
  /\ handles' = IF m_ProcessHandle[this[r]] # NoHnd /\ kind[r] # "set"
                THEN [handles EXCEPT ![m_ProcessHandle[this[r]]] = "closed"] ELSE handles
  /\ Blame(IF Deleted(this[r]) THEN {r} ELSE {})
  /\ UNCHANGED <<this, lockVars, g_TheProcess, alive, m_IsOpened, m_ProcessHandle, running, everOverlapped>>
CloseTheHandle(r) ==
  /\ pc[r] = "closing" /\ Go(r, "clearing")
  /\ handles' = IF m_ProcessHandle[this[r]] # NoHnd
                THEN [handles EXCEPT ![m_ProcessHandle[this[r]]] = "closed"] ELSE handles
  /\ Blame(IF Deleted(this[r]) THEN {r} ELSE {})
  /\ UNCHANGED <<this, lockVars, g_TheProcess, alive, m_IsOpened, m_ProcessHandle, running, everOverlapped>>

\* and clears the flag.
Clear(r) ==
  /\ pc[r] = "clearing" /\ Go(r, After(r))
  /\ m_IsOpened' = [m_IsOpened EXCEPT ![this[r]] = FALSE]
  /\ this' = IF kind[r] = "select" THEN this ELSE [this EXCEPT ![r] = NoObj]
  /\ Blame(IF Deleted(this[r]) THEN {r} ELSE {})
  /\ UNCHANGED <<lockVars, g_TheProcess, alive, m_ProcessHandle, running, handles, everOverlapped>>

\* Leaving without ownership may or may not free the holder's critical section.
Leave(r) ==
  /\ pc[r] = "leave" /\ Go(r, "idle")
  /\ lock' \in (IF lock = r THEN {NoReq} ELSE {NoReq, lock})
  /\ UNCHANGED <<this, isInitialized, reinitialized, objVars, everOverlapped, broken>>

\* list walks g_AddressList; a search that writes it meanwhile spoils it.
Iterate(r) ==
  /\ pc[r] = "iterate" /\ Go(r, "idle")
  /\ Blame(IF \E q \in Req : pc[q] = "scan" THEN {r} ELSE {})
  /\ UNCHANGED <<this, lockVars, objVars, everOverlapped>>

\* select-process: delete the object, if any; the destructor closes it first.
Delete(r) ==
  /\ pc[r] = "delete"
  /\ IF g_TheProcess = NoObj
     THEN Go(r, "new") /\ UNCHANGED <<this, broken>>
     ELSE /\ Go(r, IF m_IsOpened[g_TheProcess] THEN "closing" ELSE "free")
          /\ this' = [this EXCEPT ![r] = g_TheProcess]
          /\ Blame(IF Deleted(g_TheProcess) THEN {r} ELSE {})
  /\ UNCHANGED <<lockVars, objVars, everOverlapped>>

Free(r) ==
  /\ pc[r] = "free" /\ Go(r, "new")
  /\ alive' = alive \ {this[r]} /\ m_ProcessHandle' = [m_ProcessHandle EXCEPT ![this[r]] = NoHnd]
  /\ this' = [this EXCEPT ![r] = NoObj]
  /\ Blame(IF Deleted(this[r]) THEN {r} ELSE {})
  /\ UNCHANGED <<lockVars, g_TheProcess, m_IsOpened, running, handles, everOverlapped>>

\* Objects nothing refers to any more stand for fresh ones.
Fresh == {o \in Obj : o \notin alive \/ (o # g_TheProcess /\ \A r \in Req : this[r] # o)}
\* Faulty variant: g_TheProcess keeps pointing to the deleted object.
NewUnpublished(r) ==
  /\ pc[r] = "new" /\ Go(r, "idle")
  /\ \E o \in Fresh :
       /\ g_TheProcess' = (IF g_TheProcess = NoObj THEN o ELSE g_TheProcess)
       /\ alive' = alive \cup {o}
       /\ m_IsOpened' = [m_IsOpened EXCEPT ![o] = FALSE]
       /\ running' \in BOOLEAN
  /\ UNCHANGED <<this, lockVars, m_ProcessHandle, handles, everOverlapped, broken>>

New(r) ==
  /\ pc[r] = "new" /\ Go(r, "idle")
  /\ \E o \in Fresh :
       /\ g_TheProcess' = o /\ alive' = alive \cup {o}
       /\ m_IsOpened' = [m_IsOpened EXCEPT ![o] = FALSE]
       /\ running' \in BOOLEAN
  /\ UNCHANGED <<this, lockVars, m_ProcessHandle, handles, everOverlapped, broken>>

\* The target of the selected process ends.
TargetExits ==
  /\ running /\ running' = FALSE
  /\ UNCHANGED <<this, lockVars, g_TheProcess, alive, m_IsOpened, m_ProcessHandle, handles>>
  /\ UNCHANGED <<reqVars, everOverlapped, broken>>
-----------------------------------------------------------------------------
Handles(r) ==
  \/ TestInit(r) \/ InitLock(r) \/ Check(r) \/ Open(r) \/ Opened(r) \/ Use(r) \/ Scan(r)
  \/ Close(r) \/ CloseTheHandle(r) \/ Clear(r) \/ Leave(r) \/ Iterate(r)
  \/ Delete(r) \/ Free(r) \/ New(r)

\* Every thread waits for ever.
Hangs == (\A r \in Req : pc[r] = "stuck") /\ UNCHANGED vars

Next == TargetExits \/ Hangs \/ \E r \in Req : Begin(r) \/ Enter(r) \/ Starve(r) \/ Handles(r)

Safety == Init /\ [][Next]_vars

\* Threads are scheduled, and the system is fair to the threads that wait for
\* a critical section.  Requests need not come.
Spec == Safety /\ \A r \in Req : WF_vars(Handles(r)) /\ SF_vars(Enter(r))
-----------------------------------------------------------------------------
TypeOK ==
  /\ pc \in [Req -> PC] /\ kind \in [Req -> Kind] /\ this \in [Req -> Obj \cup {NoObj}]
  /\ isInitialized \in BOOLEAN /\ lock \in Req \cup {NoReq} /\ reinitialized \in BOOLEAN
  /\ g_TheProcess \in Obj \cup {NoObj} /\ alive \subseteq Obj /\ running \in BOOLEAN
  /\ m_IsOpened \in [Obj -> BOOLEAN] /\ m_ProcessHandle \in [Obj -> Hnd \cup {NoHnd}]
  /\ handles \in [Hnd -> {"closed", "read", "write"}]
  /\ overlapped \subseteq Req /\ everOverlapped \in BOOLEAN /\ broken \in BOOLEAN

\* A request that no other one overlapped finds everything in order, whatever
\* happened before it: the object g_TheProcess points to exists, the handle
\* has the access it needs, the list stands still.
IsolatedRequestsWork == ~broken

\* Two searches are never between EnterCriticalSection and
\* LeaveCriticalSection, unless the first requests raced to initialise it and
\* the second did so while one was inside.
SearchesExclusive ==
  \A r, q \in Req :
    (r # q /\ {pc[r], pc[q]} \subseteq {"open", "opened", "failed", "use", "scan", "close", "closing", "clearing", "leave"}
           /\ kind[r] = "search" /\ kind[q] = "search") => reinitialized

\* As long as requests come one at a time, none leaves a process handle open,
\* failures included.
NoHandleLeak ==
  ~everOverlapped /\ Active = {} => \A h \in Hnd : handles[h] = "closed"

\* Every request is answered, the lock being left on every path through search,
\* but for those that wait for a critical section that was initialised again
\* while it was held.
RequestsFinish ==
  \A r \in Req : (pc[r] # "idle") ~> (pc[r] = "idle" \/ (reinitialized /\ pc[r] = "stuck"))

\* A locked value is written as long as the process is running: when the
\* selected process is running and opened, and nobody is selecting another,
\* set finds a handle it can write with.  Refuted: a get or a refresh of the
\* same page replaces m_ProcessHandle between set's Open and its SetValue, or
\* closes the one that set has opened.
LockedValuesAreSet ==
  [][\A r \in Req :
       /\ Use(r) /\ kind[r] = "set" /\ running /\ m_IsOpened[g_TheProcess]
       /\ \A q \in Req : kind[q] # "select"
       => Access(g_TheProcess) = "write"]_vars
=============================================================================
