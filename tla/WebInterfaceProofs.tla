------------------------- MODULE WebInterfaceProofs -------------------------
(***************************************************************************)
(* Proofs about WebInterface, for any sets of requests, objects and        *)
(* handles.  TypeOK is inductive alone.  What the safety invariants need   *)
(* besides is who is in the critical section, who ran along with whom, and *)
(* what a request that runs alone has reached.                             *)
(***************************************************************************)
EXTENDS WebInterface, TLAPS

\* Only searches come near the critical section, and whatever uses
\* g_TheProcess has seen that there is one.
Control ==
  \A r \in Req :
    /\ pc[r] = "check" => kind[r] # "select"
    /\ pc[r] \in {"enter", "stuck", "scan", "leave"} => kind[r] = "search"
    /\ pc[r] \in {"open", "opened", "failed", "use", "close"} => kind[r] \in {"search", "get", "set"}
    /\ pc[r] \in {"delete", "free", "new"} => kind[r] = "select"
    /\ pc[r] \in {"enter", "stuck", "open", "opened", "failed", "use", "scan", "close", "closing", "clearing",
                 "leave", "iterate", "free"} => g_TheProcess # NoObj
    /\ pc[r] \in {"opened", "failed", "scan", "closing", "clearing", "free"} => this[r] # NoObj
    /\ ~isInitialized => pc[r] \in {"idle", "init", "initLock"}

\* A search between EnterCriticalSection and LeaveCriticalSection.
InSection(r) ==
  /\ kind[r] = "search"
  /\ pc[r] \in {"open", "opened", "failed", "use", "scan", "close", "closing", "clearing", "leave"}

\* Until the lock is initialised again while held its holder is the one inside.
LockHeld == ~reinitialized => \A r \in Req : InSection(r) => lock = r

\* Requests that are there at the same time are marked, and the marks are
\* theirs only.
Marked ==
  /\ overlapped \subseteq Active
  /\ \A r, q \in Active : r # q => r \in overlapped /\ everOverlapped

\* A deleted object stays selected only until the new one is there.
Selected == (\A r \in Req : pc[r] # "new") => g_TheProcess \in alive \cup {NoObj}

\* A request that ran alone so far has what it is going to use.
Prepared ==
  \A r \in Active \ overlapped :
    /\ pc[r] \in {"opened", "failed", "scan", "closing", "clearing", "free"} => this[r] = g_TheProcess
    /\ pc[r] = "failed" => m_ProcessHandle[g_TheProcess] = NoHnd
    /\ pc[r] \in {"opened", "use", "scan"} => Access(g_TheProcess) \in Needs(r)

\* As long as no two requests met, an open handle is the one of the selected
\* process, and there is a request that will close it.
Owned ==
  ~everOverlapped =>
    \A h \in Hnd : handles[h] # "closed" =>
      /\ m_ProcessHandle[g_TheProcess] = h
      /\ \E r \in Req : \/ pc[r] \in {"opened", "closing"} /\ this[r] = g_TheProcess
                        \/ pc[r] \in {"use", "scan", "close"} /\ m_IsOpened[g_TheProcess]

\* The inductive invariant.
IInv == TypeOK /\ Control /\ LockHeld /\ Marked /\ Selected /\ Prepared /\ Owned /\ ~broken
-----------------------------------------------------------------------------
\* Where Check leads to.
LEMMA Checked ==
  ASSUME NEW r \in Req, Check(r)
  PROVE  /\ pc[r] = "check"
         /\ UNCHANGED <<this, lockVars, objVars, everOverlapped, broken>>
         /\ \/ g_TheProcess = NoObj /\ Go(r, "idle")
            \/ g_TheProcess # NoObj /\ kind[r] = "search" /\ Go(r, "enter")
            \/ g_TheProcess # NoObj /\ kind[r] = "list" /\ Go(r, "iterate")
            \/ g_TheProcess # NoObj /\ kind[r] \notin {"search", "list"} /\ Go(r, "open")
BY Zenon DEF Check

\* Where a request goes that has closed the handle.
LEMMA AfterOf ==
  ASSUME NEW r \in Req
  PROVE  /\ kind[r] = "search" => After(r) = "leave"
         /\ kind[r] = "select" => After(r) = "free"
         /\ kind[r] \notin {"search", "select"} => After(r) = "idle"
         /\ After(r) \in {"leave", "free", "idle"}
<1>1. kind[r] = "search" => After(r) = "leave"
  BY Zenon DEF After
<1>2. kind[r] = "select" => After(r) = "free"
  BY Zenon DEF After
<1>3. kind[r] \notin {"search", "select"} => After(r) = "idle"
  BY Zenon DEF After
<1>4. QED
  BY <1>1, <1>2, <1>3

\* The initial state is well typed.
LEMMA TypeInit == Init => TypeOK
<1> SUFFICES ASSUME Init PROVE TypeOK
  OBVIOUS
<1>1. /\ isInitialized \in BOOLEAN /\ reinitialized \in BOOLEAN /\ running \in BOOLEAN
      /\ everOverlapped \in BOOLEAN /\ broken \in BOOLEAN
  BY Zenon DEF Init
<1>2. QED
  BY <1>1 DEF Init, TypeOK, PC, Kind

\* Every step of every request keeps the types.
LEMMA TypeNext == TypeOK /\ [Next]_vars => TypeOK'
<1> SUFFICES ASSUME TypeOK, [Next]_vars PROVE TypeOK'
  OBVIOUS
<1> USE DEF TypeOK, PC, Kind, Go, reqVars, lockVars, objVars
<1>1. CASE TargetExits
  BY <1>1 DEF TargetExits
<1>2. ASSUME NEW r \in Req, Begin(r) PROVE TypeOK'
  <2>1. everOverlapped' \in BOOLEAN
    BY <1>2, Zenon DEF Begin
  <2>2. overlapped' \subseteq Req
    BY <1>2 DEF Begin, Active
  <2>3. pc' \in [Req -> PC] /\ kind' \in [Req -> Kind]
    BY <1>2 DEF Begin
  <2>4. UNCHANGED <<this, lockVars, objVars, broken>>
    BY <1>2 DEF Begin
  <2>5. QED
    BY <2>1, <2>2, <2>3, <2>4
<1>3. ASSUME NEW r \in Req, Enter(r) PROVE TypeOK'
  BY <1>3 DEF Enter
<1>4. ASSUME NEW r \in Req, TestInit(r) PROVE TypeOK'
  BY <1>4 DEF TestInit, Routed
<1>5. ASSUME NEW r \in Req, InitLock(r) PROVE TypeOK'
  BY <1>5 DEF InitLock, Routed
<1>6. ASSUME NEW r \in Req, Check(r) PROVE TypeOK'
  BY <1>6, Checked
<1>7. ASSUME NEW r \in Req, Open(r) PROVE TypeOK'
  <2>1. /\ pc' \in [Req -> PC] /\ kind' \in [Req -> Kind] /\ overlapped' \subseteq Req
    <3>1. Go(r, "opened") \/ Go(r, "failed")
      BY <1>7 DEF Open, Opens
    <3>2. QED
      BY <3>1
  <2>2. broken' \in BOOLEAN
    BY <1>7, Zenon DEF Open, Opens, Blame
  <2>3. /\ handles' \in [Hnd -> {"closed", "read", "write"}] /\ m_ProcessHandle' \in [Obj -> Hnd \cup {NoHnd}]
    BY <1>7 DEF Open, Opens
  <2>4. this' \in [Req -> Obj \cup {NoObj}]
    BY <1>7 DEF Open, Opens
  <2>5. UNCHANGED <<lockVars, g_TheProcess, alive, m_IsOpened, running, everOverlapped>>
    BY <1>7 DEF Open, Opens
  <2>6. QED
    BY <2>1, <2>2, <2>3, <2>4, <2>5
<1>8. ASSUME NEW r \in Req, Use(r) PROVE TypeOK'
  BY <1>8 DEF Use, Blame
<1>9. ASSUME NEW r \in Req, Scan(r) PROVE TypeOK'
  BY <1>9 DEF Scan, Blame
<1>10. ASSUME NEW r \in Req, Close(r) PROVE TypeOK'
  BY <1>10, AfterOf DEF Close, Blame
<1>11. ASSUME NEW r \in Req, Leave(r) PROVE TypeOK'
  BY <1>11 DEF Leave
<1>12. ASSUME NEW r \in Req, Iterate(r) PROVE TypeOK'
  BY <1>12 DEF Iterate, Blame
<1>13. ASSUME NEW r \in Req, Delete(r) PROVE TypeOK'
  BY <1>13 DEF Delete, Blame
<1>14. ASSUME NEW r \in Req, New(r) PROVE TypeOK'
  BY <1>14 DEF New, Fresh
<1>15. ASSUME NEW r \in Req, Starve(r) PROVE TypeOK'
  BY <1>15 DEF Starve
<1>16. ASSUME NEW r \in Req, Opened(r) PROVE TypeOK'
  BY <1>16 DEF Opened, Looked, Blame
<1>17. ASSUME NEW r \in Req, CloseTheHandle(r) PROVE TypeOK'
  BY <1>17 DEF CloseTheHandle, Blame
<1>18. ASSUME NEW r \in Req, Clear(r) PROVE TypeOK'
  BY <1>18, AfterOf DEF Clear, Blame
<1>19. ASSUME NEW r \in Req, Free(r) PROVE TypeOK'
  BY <1>19 DEF Free, Blame
<1>20. CASE Hangs
  BY <1>20 DEF Hangs, vars
<1>21. CASE UNCHANGED vars
  BY <1>21 DEF vars
<1>22. QED
  BY <1>1, <1>2, <1>3, <1>4, <1>5, <1>6, <1>7, <1>8, <1>9, <1>10, <1>11, <1>12, <1>13, <1>14, <1>15, <1>16,
     <1>17, <1>18, <1>19, <1>20, <1>21
  DEF Next, Handles

\* The accesses a request can work with.
LEMMA NeedsOf ==
  ASSUME NEW r \in Req
  PROVE  /\ kind[r] = "search" => Needs(r) = {"read"}
         /\ kind[r] = "set" => Needs(r) = {"write"}
         /\ kind[r] \notin {"search", "set"} => Needs(r) = {"read", "write"}
         /\ kind'[r] = kind[r] => Needs(r)' = Needs(r)
<1>1. kind[r] = "search" => Needs(r) = {"read"}
  BY Zenon DEF Needs
<1>2. kind[r] = "set" => Needs(r) = {"write"}
  BY Zenon DEF Needs
<1>3. kind[r] \notin {"search", "set"} => Needs(r) = {"read", "write"}
  BY Zenon DEF Needs
<1>4. kind'[r] = kind[r] => Needs(r)' = Needs(r)
  BY Zenon DEF Needs
<1>5. QED
  BY <1>1, <1>2, <1>3, <1>4

\* Every step leads to a place that its request may be at.
LEMMA ControlNext == TypeOK /\ Control /\ [Next]_vars => Control'
<1> SUFFICES ASSUME TypeOK, Control, [Next]_vars PROVE Control'
  OBVIOUS
<1> USE DEF TypeOK, Kind, Control, Go, reqVars, lockVars, objVars
<1>1. CASE TargetExits
  BY <1>1 DEF TargetExits
<1>2. ASSUME NEW r \in Req, Begin(r) PROVE Control'
  BY <1>2 DEF Begin
<1>3. ASSUME NEW r \in Req, Enter(r) PROVE Control'
  BY <1>3, NullAssumption DEF Enter
<1>4. ASSUME NEW r \in Req, TestInit(r) PROVE Control'
  BY <1>4 DEF TestInit, Routed
<1>5. ASSUME NEW r \in Req, InitLock(r) PROVE Control'
  BY <1>5 DEF InitLock, Routed
<1>6. ASSUME NEW r \in Req, Check(r) PROVE Control'
  <2>1. CASE g_TheProcess = NoObj /\ Go(r, "idle")
    BY <2>1, <1>6, Checked
  <2>2. CASE g_TheProcess # NoObj /\ kind[r] = "search" /\ Go(r, "enter")
    BY <2>2, <1>6, Checked
  <2>3. CASE g_TheProcess # NoObj /\ kind[r] = "list" /\ Go(r, "iterate")
    BY <2>3, <1>6, Checked
  <2>4. CASE g_TheProcess # NoObj /\ kind[r] \notin {"search", "list"} /\ Go(r, "open")
    <3>1. /\ pc[r] = "check" /\ kind[r] \in {"get", "set"} /\ isInitialized
          /\ pc' = [pc EXCEPT ![r] = "open"]
          /\ UNCHANGED <<kind, this, g_TheProcess, isInitialized>>
      BY <2>4, <1>6, Checked
    <3>2. pc'[r] = "open" /\ \A q \in Req : q # r => pc'[q] = pc[q]
      BY <3>1
    <3>3. QED
      BY <3>1, <3>2, <2>4
  <2>5. QED
    BY <2>1, <2>2, <2>3, <2>4, <1>6, Checked
<1>7. ASSUME NEW r \in Req, Open(r) PROVE Control'
  BY <1>7 DEF Open, Opens
<1>8. ASSUME NEW r \in Req, Use(r) PROVE Control'
  BY <1>8 DEF Use
<1>9. ASSUME NEW r \in Req, Scan(r) PROVE Control'
  BY <1>9 DEF Scan
<1>10. ASSUME NEW r \in Req, Close(r) PROVE Control'
  BY <1>10, AfterOf DEF Close
<1>11. ASSUME NEW r \in Req, Leave(r) PROVE Control'
  BY <1>11 DEF Leave
<1>12. ASSUME NEW r \in Req, Iterate(r) PROVE Control'
  BY <1>12 DEF Iterate
<1>13. ASSUME NEW r \in Req, Delete(r) PROVE Control'
  BY <1>13 DEF Delete
<1>14. ASSUME NEW r \in Req, New(r) PROVE Control'
  BY <1>14, NullAssumption DEF New, Fresh
<1>15. ASSUME NEW r \in Req, Starve(r) PROVE Control'
  BY <1>15 DEF Starve
<1>16. ASSUME NEW r \in Req, Opened(r) PROVE Control'
  BY <1>16 DEF Opened, Looked
<1>17. ASSUME NEW r \in Req, CloseTheHandle(r) PROVE Control'
  BY <1>17 DEF CloseTheHandle
<1>18. ASSUME NEW r \in Req, Clear(r) PROVE Control'
  BY <1>18, AfterOf DEF Clear
<1>19. ASSUME NEW r \in Req, Free(r) PROVE Control'
  BY <1>19 DEF Free
<1>20. CASE Hangs
  BY <1>20 DEF Hangs, vars
<1>21. CASE UNCHANGED vars
  BY <1>21 DEF vars
<1>22. QED
  BY <1>1, <1>2, <1>3, <1>4, <1>5, <1>6, <1>7, <1>8, <1>9, <1>10, <1>11, <1>12, <1>13, <1>14, <1>15, <1>16,
     <1>17, <1>18, <1>19, <1>20, <1>21
  DEF Next, Handles

\* The lock has one holder.
LEMMA LockNext == TypeOK /\ Control /\ LockHeld /\ [Next]_vars => LockHeld'
<1> SUFFICES ASSUME TypeOK, Control, LockHeld, [Next]_vars PROVE LockHeld'
  OBVIOUS
<1> USE DEF TypeOK, Control, LockHeld, InSection, Go, reqVars, lockVars, objVars
<1>1. CASE TargetExits
  BY <1>1 DEF TargetExits
<1>2. ASSUME NEW r \in Req, Begin(r) PROVE LockHeld'
  BY <1>2 DEF Begin
<1>3. ASSUME NEW r \in Req, Enter(r) PROVE LockHeld'
  BY <1>3, NullAssumption DEF Enter
<1>4. ASSUME NEW r \in Req, TestInit(r) PROVE LockHeld'
  BY <1>4 DEF TestInit, Routed
<1>5. ASSUME NEW r \in Req, InitLock(r) PROVE LockHeld'
  BY <1>5 DEF InitLock, Routed
<1>6. ASSUME NEW r \in Req, Check(r) PROVE LockHeld'
  BY <1>6, Checked
<1>7. ASSUME NEW r \in Req, Open(r) PROVE LockHeld'
  BY <1>7 DEF Open, Opens
<1>8. ASSUME NEW r \in Req, Use(r) PROVE LockHeld'
  BY <1>8 DEF Use
<1>9. ASSUME NEW r \in Req, Scan(r) PROVE LockHeld'
  BY <1>9 DEF Scan
<1>10. ASSUME NEW r \in Req, Close(r) PROVE LockHeld'
  BY <1>10, AfterOf DEF Close
<1>11. ASSUME NEW r \in Req, Leave(r) PROVE LockHeld'
  BY <1>11 DEF Leave
<1>12. ASSUME NEW r \in Req, Iterate(r) PROVE LockHeld'
  BY <1>12 DEF Iterate
<1>13. ASSUME NEW r \in Req, Delete(r) PROVE LockHeld'
  BY <1>13 DEF Delete
<1>14. ASSUME NEW r \in Req, New(r) PROVE LockHeld'
  BY <1>14 DEF New
<1>15. ASSUME NEW r \in Req, Starve(r) PROVE LockHeld'
  BY <1>15 DEF Starve
<1>16. ASSUME NEW r \in Req, Opened(r) PROVE LockHeld'
  BY <1>16 DEF Opened, Looked
<1>17. ASSUME NEW r \in Req, CloseTheHandle(r) PROVE LockHeld'
  BY <1>17 DEF CloseTheHandle
<1>18. ASSUME NEW r \in Req, Clear(r) PROVE LockHeld'
  BY <1>18, AfterOf DEF Clear
<1>19. ASSUME NEW r \in Req, Free(r) PROVE LockHeld'
  BY <1>19 DEF Free
<1>20. CASE Hangs
  BY <1>20 DEF Hangs, vars
<1>21. CASE UNCHANGED vars
  BY <1>21 DEF vars
<1>22. QED
  BY <1>1, <1>2, <1>3, <1>4, <1>5, <1>6, <1>7, <1>8, <1>9, <1>10, <1>11, <1>12, <1>13, <1>14, <1>15, <1>16,
     <1>17, <1>18, <1>19, <1>20, <1>21
  DEF Next, Handles

\* Requests that meet are marked.
LEMMA MarkedNext == TypeOK /\ Marked /\ [Next]_vars => Marked'
<1> SUFFICES ASSUME TypeOK, Marked, [Next]_vars PROVE Marked'
  OBVIOUS
<1> USE DEF TypeOK, Marked, Active, Go, reqVars, lockVars, objVars
<1>1. CASE TargetExits
  BY <1>1 DEF TargetExits
<1>2. ASSUME NEW r \in Req, Begin(r) PROVE Marked'
  <2>1. Active' = Active \cup {r} /\ r \notin Active
    BY <1>2 DEF Begin
  <2>2. /\ overlapped' = IF Active = {} THEN overlapped ELSE Active \cup {r}
        /\ Active # {} => everOverlapped'
    BY <1>2 DEF Begin
  <2> HIDE DEF Active
  <2>3. QED
    BY <2>1, <2>2
<1>3. ASSUME NEW r \in Req, Enter(r) PROVE Marked'
  BY <1>3, NullAssumption DEF Enter
<1>4. ASSUME NEW r \in Req, TestInit(r) PROVE Marked'
  BY <1>4 DEF TestInit, Routed
<1>5. ASSUME NEW r \in Req, InitLock(r) PROVE Marked'
  BY <1>5 DEF InitLock, Routed
<1>6. ASSUME NEW r \in Req, Check(r) PROVE Marked'
  BY <1>6, Checked
<1>7. ASSUME NEW r \in Req, Open(r) PROVE Marked'
  BY <1>7 DEF Open, Opens
<1>8. ASSUME NEW r \in Req, Use(r) PROVE Marked'
  BY <1>8 DEF Use
<1>9. ASSUME NEW r \in Req, Scan(r) PROVE Marked'
  BY <1>9 DEF Scan
<1>10. ASSUME NEW r \in Req, Close(r) PROVE Marked'
  BY <1>10, AfterOf DEF Close
<1>11. ASSUME NEW r \in Req, Leave(r) PROVE Marked'
  BY <1>11 DEF Leave
<1>12. ASSUME NEW r \in Req, Iterate(r) PROVE Marked'
  BY <1>12 DEF Iterate
<1>13. ASSUME NEW r \in Req, Delete(r) PROVE Marked'
  BY <1>13 DEF Delete
<1>14. ASSUME NEW r \in Req, New(r) PROVE Marked'
  BY <1>14 DEF New
<1>15. ASSUME NEW r \in Req, Starve(r) PROVE Marked'
  BY <1>15 DEF Starve
<1>16. ASSUME NEW r \in Req, Opened(r) PROVE Marked'
  BY <1>16 DEF Opened, Looked
<1>17. ASSUME NEW r \in Req, CloseTheHandle(r) PROVE Marked'
  BY <1>17 DEF CloseTheHandle
<1>18. ASSUME NEW r \in Req, Clear(r) PROVE Marked'
  BY <1>18, AfterOf DEF Clear
<1>19. ASSUME NEW r \in Req, Free(r) PROVE Marked'
  BY <1>19 DEF Free
<1>20. CASE Hangs
  BY <1>20 DEF Hangs, vars
<1>21. CASE UNCHANGED vars
  BY <1>21 DEF vars
<1>22. QED
  BY <1>1, <1>2, <1>3, <1>4, <1>5, <1>6, <1>7, <1>8, <1>9, <1>10, <1>11, <1>12, <1>13, <1>14, <1>15, <1>16,
     <1>17, <1>18, <1>19, <1>20, <1>21
  DEF Next, Handles

\* A deletion is followed by the new object.
LEMMA SelectedNext == TypeOK /\ Selected /\ [Next]_vars => Selected'
<1> SUFFICES ASSUME TypeOK, Selected, [Next]_vars PROVE Selected'
  OBVIOUS
<1> USE DEF TypeOK, Selected, Go, reqVars, lockVars, objVars
<1>1. CASE TargetExits
  BY <1>1 DEF TargetExits
<1>2. ASSUME NEW r \in Req, Begin(r) PROVE Selected'
  BY <1>2 DEF Begin
<1>3. ASSUME NEW r \in Req, Enter(r) PROVE Selected'
  BY <1>3, NullAssumption DEF Enter
<1>4. ASSUME NEW r \in Req, TestInit(r) PROVE Selected'
  BY <1>4 DEF TestInit, Routed
<1>5. ASSUME NEW r \in Req, InitLock(r) PROVE Selected'
  BY <1>5 DEF InitLock, Routed
<1>6. ASSUME NEW r \in Req, Check(r) PROVE Selected'
  BY <1>6, Checked
<1>7. ASSUME NEW r \in Req, Open(r) PROVE Selected'
  BY <1>7 DEF Open, Opens
<1>8. ASSUME NEW r \in Req, Use(r) PROVE Selected'
  BY <1>8 DEF Use
<1>9. ASSUME NEW r \in Req, Scan(r) PROVE Selected'
  BY <1>9 DEF Scan
<1>10. ASSUME NEW r \in Req, Close(r) PROVE Selected'
  BY <1>10, AfterOf DEF Close
<1>11. ASSUME NEW r \in Req, Leave(r) PROVE Selected'
  BY <1>11 DEF Leave
<1>12. ASSUME NEW r \in Req, Iterate(r) PROVE Selected'
  BY <1>12 DEF Iterate
<1>13. ASSUME NEW r \in Req, Delete(r) PROVE Selected'
  BY <1>13 DEF Delete
<1>14. ASSUME NEW r \in Req, New(r) PROVE Selected'
  BY <1>14 DEF New
<1>15. ASSUME NEW r \in Req, Starve(r) PROVE Selected'
  BY <1>15 DEF Starve
<1>16. ASSUME NEW r \in Req, Opened(r) PROVE Selected'
  BY <1>16 DEF Opened, Looked
<1>17. ASSUME NEW r \in Req, CloseTheHandle(r) PROVE Selected'
  BY <1>17 DEF CloseTheHandle
<1>18. ASSUME NEW r \in Req, Clear(r) PROVE Selected'
  BY <1>18, AfterOf DEF Clear
<1>19. ASSUME NEW r \in Req, Free(r) PROVE Selected'
  BY <1>19 DEF Free
<1>20. CASE Hangs
  BY <1>20 DEF Hangs, vars
<1>21. CASE UNCHANGED vars
  BY <1>21 DEF vars
<1>22. QED
  BY <1>1, <1>2, <1>3, <1>4, <1>5, <1>6, <1>7, <1>8, <1>9, <1>10, <1>11, <1>12, <1>13, <1>14, <1>15, <1>16,
     <1>17, <1>18, <1>19, <1>20, <1>21
  DEF Next, Handles

\* A request that is not marked after a step took it, and had the program to
\* itself.
Steps(r) == Begin(r) \/ Enter(r) \/ Starve(r) \/ Handles(r)

LEMMA Alone ==
  ASSUME TypeOK, Marked, NEW r \in Req, Steps(r), NEW q \in Active' \ overlapped'
  PROVE  q = r /\ (Begin(r) \/ r \in Active \ overlapped)
<1> USE DEF TypeOK, Marked, Active, Go
<1>1. CASE Begin(r)
  BY <1>1 DEF Begin
<1>2. ASSUME pc[r] # "idle", NEW l \in PC, Go(r, l)
      PROVE  q = r /\ r \in Active \ overlapped
  BY <1>2 DEF PC
<1>3. CASE Enter(r) \/ Starve(r)
  BY <1>2, <1>3 DEF Enter, Starve, PC
<1>4. CASE Check(r)
  BY <1>2, <1>4, Checked DEF PC
<1>5. CASE TestInit(r) \/ InitLock(r)
  BY <1>2, <1>5 DEF TestInit, InitLock, Routed, PC
<1>6. CASE Open(r) \/ Use(r) \/ Scan(r) \/ CloseTheHandle(r)
  BY <1>2, <1>6 DEF Open, Opens, Use, Scan, CloseTheHandle, PC
<1>7. CASE Opened(r)
  BY <1>2, <1>7 DEF Opened, Looked, PC
<1>8. CASE Close(r) \/ Clear(r)
  BY <1>2, <1>8, AfterOf DEF Close, Clear, PC
<1>9. CASE Leave(r) \/ Iterate(r) \/ Delete(r) \/ Free(r) \/ New(r)
  BY <1>2, <1>9 DEF Leave, Iterate, Delete, Free, New, PC
<1>10. QED
  BY <1>1, <1>3, <1>4, <1>5, <1>6, <1>7, <1>8, <1>9 DEF Steps, Handles

\* A request that runs alone opens the handle it needs, and keeps it.
LEMMA PreparedNext == TypeOK /\ Control /\ Marked /\ Prepared /\ [Next]_vars => Prepared'
<1> SUFFICES ASSUME TypeOK, Control, Marked, Prepared, [Next]_vars PROVE Prepared'
  OBVIOUS
<1> USE DEF TypeOK, Control, Prepared, Active, Access
<1>1. CASE TargetExits
  BY <1>1, NeedsOf DEF TargetExits, reqVars
<1>2. CASE UNCHANGED vars
  BY <1>2, NeedsOf DEF vars, reqVars, objVars
<1>3. ASSUME NEW r \in Req, Steps(r) PROVE Prepared'
  <2> DEFINE Ready == /\ pc[r] \in {"opened", "failed", "scan", "closing", "clearing", "free"} => this[r] = g_TheProcess
                      /\ pc[r] = "failed" => m_ProcessHandle[g_TheProcess] = NoHnd
                      /\ pc[r] \in {"opened", "use", "scan"} => Access(g_TheProcess) \in Needs(r)
  <2>0. SUFFICES ASSUME Begin(r) \/ r \in Active \ overlapped PROVE Ready'
    <3>1. ASSUME NEW q \in Active' \ overlapped' PROVE q = r /\ (Begin(r) \/ r \in Active \ overlapped)
      BY <1>3, <3>1, Alone
    <3>2. QED
      BY <2>0, <3>1
  <2>a. ~Begin(r) => Ready
    BY <2>0
  <2>1. CASE Begin(r)
    BY <2>1 DEF Begin
  <2>2. CASE Open(r)
    <3> DEFINE access == IF kind[r] = "set" THEN "write" ELSE "read"
    <3>1. CASE running /\ \E h \in Hnd : handles[h] = "closed"
      <4>1. /\ Access(g_TheProcess)' = access /\ this'[r] = g_TheProcess /\ g_TheProcess' = g_TheProcess
            /\ pc'[r] = "opened" /\ kind'[r] = kind[r]
        BY <2>2, <3>1, NullAssumption DEF Open, Opens, Go
      <4>2. Access(g_TheProcess)' \in Needs(r)'
        BY <2>2, <4>1, NeedsOf DEF Open, Opens
      <4>3. QED
        BY <4>1, <4>2
    <3>2. CASE ~(running /\ \E h \in Hnd : handles[h] = "closed")
      <4>1. /\ pc'[r] = "failed" /\ this'[r] = g_TheProcess /\ g_TheProcess' = g_TheProcess
            /\ m_ProcessHandle' = [m_ProcessHandle EXCEPT ![g_TheProcess] = NoHnd] /\ pc[r] = "open"
        BY <2>2, <3>2 DEF Open, Opens, Go
      <4>2. QED
        BY <4>1
    <3>3. QED
      BY <3>1, <3>2
  <2>3. CASE Opened(r)
    <3>1. /\ UNCHANGED <<g_TheProcess, m_ProcessHandle, handles>> /\ pc[r] \in {"opened", "failed"}
      BY <2>3 DEF Opened, Looked
    <3>2. /\ pc'[r] \in {"use", "leave", "idle"} /\ (pc'[r] = "use" => kind' = kind)
          /\ pc'[r] = "use" => pc[r] = "opened"
      <4>1. Ready
        BY <2>a, <3>1 DEF Begin
      <4>2. pc[r] = "failed" => m_ProcessHandle[this[r]] = NoHnd
        BY <4>1
      <4>3. QED
        BY <2>3, <4>2 DEF Opened, Looked, Go
    <3>3. pc'[r] = "use" => Access(g_TheProcess)' = Access(g_TheProcess) /\ Needs(r)' = Needs(r)
      BY <3>1, <3>2, NeedsOf, Zenon DEF Access
    <3>4. pc'[r] = "use" => Access(g_TheProcess) \in Needs(r)
      BY <2>a, <3>1, <3>2 DEF Begin
    <3>5. QED
      BY <3>2, <3>3, <3>4
  <2>4. CASE Use(r)
    <3>1. UNCHANGED <<g_TheProcess, m_ProcessHandle, handles, kind>> /\ pc[r] = "use"
      BY <2>4 DEF Use, Go, objVars
    <3>2. Access(g_TheProcess)' = Access(g_TheProcess) /\ Needs(r)' = Needs(r)
      BY <3>1, Zenon DEF Needs, Access
    <3>3. pc'[r] \in {"scan", "close"} /\ Ready
      BY <2>4, <2>a, <3>1 DEF Use, Go, Begin
    <3>4. pc'[r] = "scan" => this'[r] = g_TheProcess
      BY <2>4 DEF Use, Go
    <3>5. QED
      BY <3>1, <3>2, <3>3, <3>4
  <2>5. CASE Enter(r) \/ Starve(r)
    BY <2>5 DEF Enter, Starve, Go
  <2>6. CASE TestInit(r) \/ InitLock(r)
    BY <2>6 DEF TestInit, InitLock, Routed, Go
  <2>7. CASE Check(r)
    BY <2>7, Checked DEF Go
  <2>8. CASE Close(r)
    <3>1. /\ (pc'[r] = "closing" /\ this'[r] = g_TheProcess) \/ (pc'[r] = After(r) /\ this' = this /\ kind[r] # "select")
          /\ g_TheProcess' = g_TheProcess
      BY <2>8 DEF Close, Go, objVars
    <3>2. QED
      BY <3>1, AfterOf
  <2>9. CASE CloseTheHandle(r)
    BY <2>a, <2>9 DEF CloseTheHandle, Go, Begin
  <2>10. CASE Clear(r)
    <3>1. pc'[r] = After(r) /\ (kind[r] = "select" => this' = this) /\ g_TheProcess' = g_TheProcess /\ pc[r] = "clearing"
      BY <2>10 DEF Clear, Go
    <3>2. QED
      BY <2>a, <3>1, AfterOf DEF Begin
  <2>11. CASE Delete(r)
    BY <2>11 DEF Delete, Go, objVars
  <2>12. CASE Scan(r) \/ Leave(r) \/ Iterate(r) \/ Free(r) \/ New(r)
    BY <2>12 DEF Scan, Leave, Iterate, Free, New, Go
  <2>13. QED
    BY <1>3, <2>1, <2>2, <2>3, <2>4, <2>5, <2>6, <2>7, <2>8, <2>9, <2>10, <2>11, <2>12 DEF Steps, Handles
<1>4. QED
  BY <1>1, <1>2, <1>3 DEF Next, Hangs, Steps

\* As long as requests come one at a time, each closes what it opened.
LEMMA OwnedNext == TypeOK /\ Control /\ Marked /\ Owned /\ [Next]_vars => Owned'
<1> SUFFICES ASSUME TypeOK, Control, Marked, Owned, [Next]_vars, ~everOverlapped' PROVE Owned'
  BY DEF Owned
<1> USE DEF TypeOK, Control, Owned
<1>1. CASE TargetExits
  BY <1>1 DEF TargetExits, reqVars
<1>2. CASE UNCHANGED vars
  BY <1>2 DEF vars, reqVars, objVars
<1>3. ASSUME NEW r \in Req, Begin(r) PROVE Owned'
  BY <1>3 DEF Begin, objVars
<1>4. ASSUME NEW r \in Req, Enter(r) \/ Starve(r) \/ Handles(r) PROVE Owned'
  <2>1. ~everOverlapped /\ UNCHANGED everOverlapped
    BY <1>4, Checked
    DEF Enter, Starve, Handles, TestInit, InitLock, Open, Opens, Opened, Looked, Use, Scan, Close, CloseTheHandle, Clear,
        Leave, Iterate, Delete, Free, New
  <2>2. pc[r] # "idle"
    BY <1>4, Checked
    DEF Enter, Starve, Handles, TestInit, InitLock, Open, Opens, Opened, Looked, Use, Scan, Close, CloseTheHandle, Clear,
        Leave, Iterate, Delete, Free, New
  <2>3. \A q \in Req : q # r => pc[q] = "idle"
    BY <2>1, <2>2 DEF Marked, Active
  <2>4. CASE Enter(r) \/ Starve(r) \/ TestInit(r) \/ InitLock(r) \/ Leave(r) \/ Iterate(r) \/ Check(r)
    BY <2>1, <2>3, <2>4, Checked DEF Enter, Starve, TestInit, InitLock, Leave, Iterate, Go, Routed, objVars
  <2>5. CASE Open(r)
    <3>1. pc[r] = "open" /\ \A h \in Hnd : handles[h] = "closed"
      BY <2>1, <2>3, <2>5 DEF Open, Opens
    <3>2. /\ g_TheProcess' = g_TheProcess /\ g_TheProcess \in Obj
          /\ \/ \A h \in Hnd : handles'[h] = "closed"
             \/ /\ pc'[r] = "opened" /\ this'[r] = g_TheProcess
                /\ \E h \in Hnd : /\ m_ProcessHandle'[g_TheProcess] = h
                                  /\ \A k \in Hnd : k # h => handles'[k] = "closed"
      BY <2>5, <3>1 DEF Open, Opens, Go
    <3>3. CASE \A h \in Hnd : handles'[h] = "closed"
      BY <3>3
    <3>4. ASSUME pc'[r] = "opened", this'[r] = g_TheProcess,
                 NEW h \in Hnd, m_ProcessHandle'[g_TheProcess] = h,
                 \A k \in Hnd : k # h => handles'[k] = "closed"
          PROVE  Owned'
      <4> HIDE DEF TypeOK, Control
      <4>1. \E q \in Req : \/ pc'[q] \in {"opened", "closing"} /\ this'[q] = g_TheProcess'
                           \/ pc'[q] \in {"use", "scan", "close"} /\ m_IsOpened'[g_TheProcess']
        BY <3>2, <3>4
      <4>2. \A k \in Hnd : handles'[k] # "closed" => m_ProcessHandle'[g_TheProcess'] = k
        BY <3>2, <3>4
      <4>3. QED
        BY <4>1, <4>2
    <3>5. QED
      BY <3>2, <3>3, <3>4
  <2>6. CASE Opened(r)
    <3>1. /\ UNCHANGED <<g_TheProcess, m_ProcessHandle, handles>> /\ pc[r] \in {"opened", "failed"}
          /\ g_TheProcess \in Obj
      BY <2>6 DEF Opened, Looked
    <3>2. SUFFICES ASSUME NEW h \in Hnd, handles[h] # "closed"
                   PROVE  pc'[r] = "use" /\ m_IsOpened'[g_TheProcess] /\ m_ProcessHandle[g_TheProcess] = h
      BY <3>1
    <3>3. pc[r] = "opened" /\ this[r] = g_TheProcess /\ m_ProcessHandle[g_TheProcess] = h
      BY <2>1, <2>3, <3>1, <3>2
    <3>4. QED
      BY <2>6, <3>1, <3>3, NullAssumption DEF Opened, Looked, Go
  <2>7. CASE Use(r) \/ Scan(r)
    BY <2>1, <2>3, <2>7 DEF Use, Scan, Go, objVars
  <2>8. CASE Close(r)
    <3>1. /\ UNCHANGED <<g_TheProcess, m_ProcessHandle, handles, m_IsOpened>> /\ pc[r] = "close"
          /\ m_IsOpened[g_TheProcess] => pc'[r] = "closing" /\ this'[r] = g_TheProcess
      BY <2>8 DEF Close, Go, objVars
    <3>2. QED
      BY <2>1, <2>3, <3>1
  <2>9. CASE CloseTheHandle(r)
    <3>1. pc[r] = "closing" /\ handles' = IF m_ProcessHandle[this[r]] # NoHnd
                THEN [handles EXCEPT ![m_ProcessHandle[this[r]]] = "closed"] ELSE handles
      BY <2>9 DEF CloseTheHandle
    <3>2. \A h \in Hnd : handles'[h] = "closed"
      BY <2>1, <2>3, <3>1, NullAssumption
    <3>3. QED
      BY <3>2
  <2>10. CASE Clear(r) \/ Delete(r) \/ Free(r) \/ New(r)
    <3>1. pc[r] \in {"clearing", "delete", "free", "new"} /\ handles' = handles
      BY <2>10 DEF Clear, Delete, Free, New, objVars
    <3>2. \A h \in Hnd : handles[h] = "closed"
      BY <2>1, <2>3, <3>1
    <3>3. QED
      BY <3>1, <3>2
  <2>11. QED
    BY <1>4, <2>4, <2>5, <2>6, <2>7, <2>8, <2>9, <2>10 DEF Handles
<1>5. QED
  BY <1>1, <1>2, <1>3, <1>4 DEF Next, Hangs

\* A request that runs alone misuses nothing.
LEMMA BrokenNext == TypeOK /\ Control /\ Marked /\ Selected /\ Prepared /\ ~broken /\ [Next]_vars => ~broken'
<1> SUFFICES ASSUME TypeOK, Control, Marked, Selected, Prepared, ~broken, [Next]_vars PROVE ~broken'
  OBVIOUS
<1>1. CASE TargetExits
  BY <1>1 DEF TargetExits
<1>2. CASE UNCHANGED vars
  BY <1>2 DEF vars
<1>3. ASSUME NEW r \in Req, Steps(r) PROVE ~broken'
  \* A request that ran along with r is marked.
  <2>1. ASSUME pc[r] # "idle", NEW q \in Req, q # r, pc[q] # "idle" PROVE r \in overlapped /\ q \in overlapped
    BY <2>1 DEF Marked, Active
  <2>2. ASSUME NEW S \in SUBSET overlapped, Blame(S) PROVE ~broken'
    <3>1. S \ overlapped = {}
      OBVIOUS
    <3>2. QED
      BY <2>2, <3>1, Zenon DEF Blame
  <2>3. ASSUME pc[r] \notin {"idle", "new"}, r \notin overlapped, g_TheProcess # NoObj PROVE ~Deleted(g_TheProcess)
    BY <2>1, <2>3 DEF Selected, Deleted
  <2>4. CASE Open(r) \/ Close(r)
    <3>1. Blame(IF Deleted(g_TheProcess) THEN {r} ELSE {}) /\ pc[r] \in {"open", "close"}
      BY <2>4 DEF Open, Opens, Close
    <3>2. (IF Deleted(g_TheProcess) THEN {r} ELSE {}) \subseteq overlapped
      BY <2>3, <3>1 DEF Control
    <3>3. QED
      BY <2>2, <3>1, <3>2
  <2>a. CASE Opened(r) \/ CloseTheHandle(r) \/ Clear(r) \/ Free(r)
    <3>1. /\ Blame(IF Deleted(this[r]) THEN {r} ELSE {})
          /\ pc[r] \in {"opened", "failed", "closing", "clearing", "free"}
      BY <2>a DEF Opened, Looked, CloseTheHandle, Clear, Free
    <3>2. (IF Deleted(this[r]) THEN {r} ELSE {}) \subseteq overlapped
      BY <2>3, <3>1 DEF Control, Prepared, Active
    <3>3. QED
      BY <2>2, <3>1, <3>2
  <2>5. CASE Use(r)
    <3> DEFINE S == (IF Misuses(r, g_TheProcess) THEN {r} ELSE {})
                    \cup (IF kind[r] = "search" THEN {q \in Req : pc[q] = "iterate"} ELSE {})
    <3>1. Blame(S) /\ pc[r] = "use"
      BY <2>5 DEF Use
    <3>2. r \notin overlapped => ~Misuses(r, g_TheProcess)
      BY <2>3, <3>1 DEF Control, Prepared, Active, Misuses
    <3>3. \A q \in Req : pc[q] = "iterate" => q \in overlapped
      BY <2>1, <3>1
    <3>4. S \subseteq overlapped
      BY <3>2, <3>3
    <3>5. QED
      BY <2>2, <3>1, <3>4
  <2>6. CASE Scan(r)
    <3> DEFINE S == (IF Misuses(r, this[r]) THEN {r} ELSE {}) \cup {q \in Req : pc[q] = "iterate"}
    <3>1. Blame(S) /\ pc[r] = "scan"
      BY <2>6 DEF Scan
    <3>2. r \notin overlapped => ~Misuses(r, this[r])
      BY <2>3, <3>1 DEF Control, Prepared, Active, Misuses
    <3>3. \A q \in Req : pc[q] = "iterate" => q \in overlapped
      BY <2>1, <3>1
    <3>4. S \subseteq overlapped
      BY <3>2, <3>3
    <3>5. QED
      BY <2>2, <3>1, <3>4
  <2>7. CASE Iterate(r)
    <3> DEFINE S == IF \E q \in Req : pc[q] = "scan" THEN {r} ELSE {}
    <3>1. Blame(S) /\ pc[r] = "iterate"
      BY <2>7 DEF Iterate
    <3>2. S \subseteq overlapped
      BY <2>1, <3>1
    <3>3. QED
      BY <2>2, <3>1, <3>2
  <2>8. CASE Delete(r)
    <3>1. CASE g_TheProcess = NoObj
      BY <2>8, <3>1 DEF Delete
    <3>2. CASE g_TheProcess # NoObj
      <4>1. Blame(IF Deleted(g_TheProcess) THEN {r} ELSE {}) /\ pc[r] = "delete"
        BY <2>8, <3>2 DEF Delete
      <4>2. (IF Deleted(g_TheProcess) THEN {r} ELSE {}) \subseteq overlapped
        BY <2>3, <3>2, <4>1
      <4>3. QED
        BY <2>2, <4>1, <4>2
    <3>3. QED
      BY <3>1, <3>2
  <2>9. CASE Begin(r) \/ Enter(r) \/ Starve(r) \/ TestInit(r) \/ InitLock(r) \/ Check(r) \/ Leave(r) \/ New(r)
    BY <2>9, Checked DEF Begin, Enter, Starve, TestInit, InitLock, Leave, New
  <2>10. QED
    BY <1>3, <2>4, <2>a, <2>5, <2>6, <2>7, <2>8, <2>9 DEF Steps, Handles
<1>4. QED
  BY <1>1, <1>2, <1>3 DEF Next, Hangs, Steps
-----------------------------------------------------------------------------
LEMMA IInvInit == Init => IInv
<1> SUFFICES ASSUME Init PROVE IInv
  OBVIOUS
<1>1. TypeOK
  BY TypeInit
<1>2. Control /\ Marked
  BY DEF Init, Control, Marked, Active
<1>3. LockHeld /\ Prepared
  BY DEF Init, LockHeld, InSection, Prepared, Active
<1>4. Selected /\ Owned /\ ~broken
  BY DEF Init, Selected, Owned
<1>5. QED
  BY <1>1, <1>2, <1>3, <1>4 DEF IInv

LEMMA IInvNext == IInv /\ [Next]_vars => IInv'
BY TypeNext, ControlNext, LockNext, MarkedNext, SelectedNext, PreparedNext, OwnedNext, BrokenNext DEF IInv

\* Every variable keeps its type, for any number of requests and objects; in
\* particular a handle has the access of one of the requests, never another.
THEOREM TypeCorrect == Safety => []TypeOK
BY TypeInit, TypeNext, PTL DEF Safety

\* The inductive invariant holds in every reachable state.
THEOREM Invariant == Safety => []IInv
BY IInvInit, IInvNext, PTL DEF Safety

\* Two searches are never in the critical section, for any number of
\* requests, unless the first ones initialised it twice.
THEOREM SearchesExclude == Safety => []SearchesExclusive
<1>1. IInv => SearchesExclusive
  BY DEF IInv, LockHeld, InSection, SearchesExclusive
<1>2. QED
  BY <1>1, Invariant, PTL

\* Whatever requests that ran at the same time did to the object they share,
\* a request that runs alone finds it in order.
THEOREM LoneRequestsWork == Safety => []IsolatedRequestsWork
<1>1. IInv => IsolatedRequestsWork
  BY DEF IInv, IsolatedRequestsWork
<1>2. QED
  BY <1>1, Invariant, PTL

\* Requests that come one at a time leave no process handle open.
THEOREM HandlesAreClosed == Safety => []NoHandleLeak
<1>1. IInv => NoHandleLeak
  BY DEF IInv, Owned, Active, NoHandleLeak
<1>2. QED
  BY <1>1, Invariant, PTL
=============================================================================
