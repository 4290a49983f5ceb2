------------------------ MODULE MiniHttpDaemonProofs ------------------------
(***************************************************************************)
(* Proofs about MiniHttpDaemon, for any sets of slots and handles.  TypeOK *)
(* is inductive alone; the safety invariants follow from IInv, which adds  *)
(* what the owner and the server thread know of each other's progress.     *)
(***************************************************************************)
EXTENDS MiniHttpDaemon, TLAPS

Stopping == {"claim", "clear", "close", "join"}
Starting == {"boot", "reset", "socket", "bind", "listen", "publish"}
Serving  == {"loop", "call", "accept", "spawn", "insert"}
Leaving  == {"kill", "wait", "check", "closing", "clearing", "finish"}

\* The type invariant, with what keeps the retry counter and ar in range.
TInv ==
  /\ TypeOK
  /\ server = "bind" => retries \in 1..BindTries
  /\ server \in {"spawn", "insert"} => ar \in Slot

\* thread_started is TRUE from Boot to Finish, a stopped owner has no server
\* thread, and the server thread only leaves its loop when Stop told it to.
Control ==
  /\ thread_started <=> server \notin {"none", "boot"}
  /\ Stopped => server = "none"
  /\ owner = "destroyed" => ~m_IsRunning
  /\ owner = "starting" => server # "none"
  /\ owner = "idle" /\ m_IsRunning => server \notin {"none", "boot"}
  /\ owner \in Stopping => ~thread_shouldrun
  /\ server # "none" /\ ~thread_shouldrun => owner \in Stopping
  /\ server \in {"bind", "listen", "publish"} => httpd \in Handle
  /\ server \in Serving /\ server_sock = NoSock => owner \in {"close", "join"}
  /\ server \in Leaving => owner \in Stopping

\* A live client is registered or about to be, and there is none outside of
\* the loop and the wait that follows it.
Registered ==
  /\ \A c \in Live : c \in activeClients \/ (server \in {"spawn", "insert"} /\ ar = c)
  /\ server \notin Serving \cup {"kill", "wait"} => Live = {}

\* Until Stop intervenes the listener is open.
ListenerOpen ==
  /\ server \in {"bind", "listen", "publish"} /\ thread_shouldrun => httpd \in open
  /\ server = "loop" /\ thread_shouldrun => server_sock \in open
  /\ server \in Serving \ {"loop"} =>
       /\ server_sock \in open \cup {NoSock}
       /\ owner \in {"close", "join"} => server_sock = NoSock
       /\ owner \in {"clear", "close"} => ssock \in open \cup {NoSock}

\* A handle that somebody is going to close is no client's.
SocketsApart ==
  \A c \in Live :
    /\ sock[c] \in open /\ sock[c] # server_sock
    /\ owner \in {"clear", "close"} => sock[c] # ssock
    /\ \A d \in Live \ {c} : sock[d] # sock[c]

\* A registry entry is deleted before its request is, except in the race.
RaceNoted ==
  /\ \A c \in activeClients : client[c] = "free" => raced
  /\ server = "spawn" => client[ar] = "allocated"
  /\ server = "insert" /\ client[ar] = "free" => raced
  /\ server \in {"spawn", "insert"} /\ ar \in activeClients => raced

\* As long as Stop has overwritten no listener it had not read, every open
\* handle has somebody who is going to close it.
HasCloser(h) ==
  \/ \E c \in Live : sock[c] = h
  \/ server \in {"bind", "listen", "publish"} /\ h = httpd
  \/ server \in Serving \cup {"kill", "wait", "check", "closing"} /\ h = server_sock
  \/ owner \in {"clear", "close"} /\ h = ssock
Accounted == Alive /\ ~lost => \A h \in open : HasCloser(h)

\* The inductive invariant.
IInv == TInv /\ Control /\ Registered /\ ListenerOpen /\ SocketsApart /\ RaceNoted
-----------------------------------------------------------------------------
\* The constructors leave a well-typed state, uninitialised fields included.
LEMMA TypeInit == Init => TInv
<1> SUFFICES ASSUME Init PROVE TInv
  OBVIOUS
<1>1. client \in [Slot -> ClientState] /\ sock \in [Slot -> Handle \cup {NoSock}]
  BY DEF Init, ClientState
<1>2. /\ m_IsRunning \in BOOLEAN /\ lost \in BOOLEAN /\ raced \in BOOLEAN
      /\ thread_started \in BOOLEAN /\ thread_shouldrun \in BOOLEAN
  BY Zenon DEF Init
<1>3. QED
  BY <1>1, <1>2 DEF Init, TInv, TypeOK, OwnerState, ServerState, BindTries

\* Every step of every thread keeps the types and ranges.
LEMMA TypeNext == TInv /\ [Next]_vars => TInv'
<1> SUFFICES ASSUME TInv, [Next]_vars PROVE TInv'
  OBVIOUS
<1> USE DEF TInv, TypeOK, OwnerState, ServerState, ClientState, BindTries, Live, Dangling
<1>1. CASE CallStart
  BY <1>1 DEF CallStart, ownerVars, serverVars, clientVars, flagVars, osVars
<1>2. CASE CallStop
  <2>1. thread_started' \in BOOLEAN /\ thread_shouldrun' \in BOOLEAN /\ m_IsRunning' \in BOOLEAN
    BY <1>2 DEF CallStop, BeginStop
  <2>2. owner' \in {"claim", "idle"}
    BY <1>2 DEF CallStop
  <2>3. UNCHANGED <<ssock, lost, server_sock, port, serverVars, clientVars, osVars>>
    BY <1>2 DEF CallStop, BeginStop
  <2>4. QED
    BY <2>1, <2>2, <2>3 DEF serverVars, clientVars, osVars
<1>3. CASE Destroy
  <2>1. thread_started' \in BOOLEAN /\ thread_shouldrun' \in BOOLEAN /\ m_IsRunning' \in BOOLEAN
    BY <1>3 DEF Destroy, BeginStop
  <2>2. owner' \in {"claim", "destroyed"}
    BY <1>3 DEF Destroy
  <2>3. UNCHANGED <<ssock, lost, server_sock, port, serverVars, clientVars, osVars>>
    BY <1>3 DEF Destroy, BeginStop
  <2>4. QED
    BY <2>1, <2>2, <2>3 DEF serverVars, clientVars, osVars
<1>4. CASE StartReturns
  BY <1>4 DEF StartReturns, ownerVars, serverVars, clientVars, flagVars, osVars
<1>5. CASE ClaimSock
  BY <1>5 DEF ClaimSock, ownerVars, serverVars, clientVars, flagVars, osVars
<1>6. CASE ClearSock
  BY <1>6 DEF ClearSock, ownerVars, serverVars, clientVars, flagVars, osVars
<1>7. CASE CloseSock
  BY <1>7 DEF CloseSock, ownerVars, serverVars, clientVars, flagVars, osVars
<1>8. CASE Join
  BY <1>8 DEF Join, ownerVars, serverVars, clientVars, flagVars, osVars
<1>9. CASE Boot
  BY <1>9 DEF Boot, ownerVars, serverVars, clientVars, flagVars, osVars
<1>10. CASE Reset
  BY <1>10 DEF Reset, ownerVars, serverVars, clientVars, flagVars, osVars
<1>11. CASE OpenListener
  BY <1>11 DEF OpenListener, BindTries, ownerVars, serverVars, clientVars, flagVars, osVars
<1>12. CASE BindOk
  BY <1>12 DEF BindOk, ownerVars, serverVars, clientVars, flagVars, osVars
<1>13. CASE BindFail
  BY <1>13 DEF BindFail, ownerVars, serverVars, clientVars, flagVars, osVars
<1>14. CASE ListenOk
  BY <1>14 DEF ListenOk, ownerVars, serverVars, clientVars, flagVars, osVars
<1>15. CASE Publish
  BY <1>15 DEF Publish, ownerVars, serverVars, clientVars, flagVars, osVars
<1>16. CASE ErrorDie
  BY <1>16 DEF ErrorDie, ownerVars, serverVars, clientVars, flagVars, osVars
<1>17. CASE LoopTest
  BY <1>17 DEF LoopTest, ownerVars, serverVars, clientVars, flagVars, osVars
<1>18. CASE CallAccept
  BY <1>18 DEF CallAccept, ownerVars, serverVars, clientVars, flagVars, osVars
<1>19. CASE SpawnThread
  BY <1>19 DEF SpawnThread, ownerVars, serverVars, clientVars, flagVars, osVars
<1>20. CASE InsertClient
  BY <1>20 DEF InsertClient, ownerVars, serverVars, clientVars, flagVars, osVars
<1>21. CASE KillAll
  BY <1>21 DEF KillAll, ownerVars, serverVars, clientVars, flagVars, osVars
<1>22. CASE WaitClients
  BY <1>22 DEF WaitClients, ownerVars, serverVars, clientVars, flagVars, osVars
<1>23. CASE CheckSock
  BY <1>23 DEF CheckSock, ownerVars, serverVars, clientVars, flagVars, osVars
<1>24. CASE CloseListener
  BY <1>24 DEF CloseListener, ownerVars, serverVars, clientVars, flagVars, osVars
<1>25. CASE ClearListener
  BY <1>25 DEF ClearListener, ownerVars, serverVars, clientVars, flagVars, osVars
<1>26. CASE Finish
  <2>1. thread_started' \in BOOLEAN /\ thread_shouldrun' \in BOOLEAN
    BY <1>26, Zenon DEF Finish
  <2>2. server' = "none" /\ UNCHANGED <<retries, httpd, lsock, ar, server_sock, port, ownerVars, clientVars, osVars>>
    BY <1>26 DEF Finish
  <2>3. QED
    BY <2>1, <2>2 DEF ownerVars, clientVars, osVars
<1>27. CASE AcceptFail
  BY <1>27 DEF AcceptFail, ownerVars, serverVars, clientVars, flagVars, osVars
<1>28. CASE AcceptConn
  BY <1>28 DEF AcceptConn, ownerVars, serverVars, clientVars, flagVars, osVars
<1>29. CASE SpinWait
  BY <1>29 DEF SpinWait, vars, ownerVars, serverVars, clientVars, flagVars, osVars
<1>30. ASSUME NEW c \in Slot, FinishClient(c) PROVE TInv'
  BY <1>30 DEF FinishClient, ownerVars, serverVars, clientVars, flagVars, osVars
<1>31. ASSUME NEW c \in Slot, EnterSpin(c) PROVE TInv'
  BY <1>31 DEF EnterSpin, ownerVars, serverVars, clientVars, flagVars, osVars
<1>32. CASE Done
  BY <1>32 DEF Done, vars, ownerVars, serverVars, clientVars, flagVars, osVars
<1>33. CASE UNCHANGED vars
  BY <1>33 DEF vars, ownerVars, serverVars, clientVars, flagVars, osVars
<1>34. QED
  BY <1>1, <1>2, <1>3, <1>4, <1>5, <1>6, <1>7, <1>8, <1>9, <1>10, <1>11, <1>12, <1>13, <1>14, <1>15, <1>16, <1>17, <1>18, <1>19, <1>20, <1>21, <1>22, <1>23, <1>24, <1>25, <1>26, <1>27, <1>28, <1>29, <1>30, <1>31, <1>32, <1>33 DEF Next, OwnerInCall, ServerRuns

\* Every field keeps its type; in particular startup never retries below 0.
THEOREM TypeCorrect == Safety => []TypeOK
  <1>1. TInv => TypeOK  BY DEF TInv
<1>2. QED  BY TypeInit, TypeNext, <1>1, PTL DEF Safety

\* The owner and the server thread keep agreeing on where they are.
LEMMA ControlNext == TInv /\ Control /\ Registered /\ [Next]_vars => Control'
<1> SUFFICES ASSUME TInv, Control, Registered, [Next]_vars PROVE Control'
  OBVIOUS
<1> USE DEF TInv, TypeOK, OwnerState, ServerState, ClientState, Live, Serving, Leaving, Stopping, Control, Registered, Stopped, Alive
<1>1. CASE CallStart
  BY <1>1 DEF CallStart, ownerVars, serverVars, clientVars, flagVars, osVars
<1>2. CASE CallStop
  BY <1>2 DEF CallStop, BeginStop, ownerVars, serverVars, clientVars, flagVars, osVars
<1>3. CASE Destroy
  BY <1>3 DEF Destroy, BeginStop, ownerVars, serverVars, clientVars, flagVars, osVars
<1>4. CASE StartReturns
  BY <1>4 DEF StartReturns, ownerVars, serverVars, clientVars, flagVars, osVars
<1>5. CASE ClaimSock \/ ClearSock \/ CloseSock
  BY <1>5 DEF ClaimSock, ClearSock, CloseSock, ownerVars, serverVars, clientVars, flagVars, osVars
<1>6. CASE Join
  BY <1>6 DEF Join, ownerVars, serverVars, clientVars, flagVars, osVars
<1>7. CASE Boot
  BY <1>7 DEF Boot, ownerVars, serverVars, clientVars, flagVars, osVars
<1>8. CASE Reset
  BY <1>8 DEF Reset, ownerVars, serverVars, clientVars, flagVars, osVars
<1>9. CASE OpenListener
  BY <1>9 DEF OpenListener, ownerVars, serverVars, clientVars, flagVars, osVars
<1>10. CASE BindOk \/ BindFail \/ ListenOk
  BY <1>10 DEF BindOk, BindFail, ListenOk, ownerVars, serverVars, clientVars, flagVars, osVars
<1>11. CASE Publish
  BY <1>11, NoSockAssumption DEF Publish, ownerVars, serverVars, clientVars, flagVars, osVars
<1>12. CASE ErrorDie
  BY <1>12 DEF ErrorDie, ownerVars, serverVars, clientVars, flagVars, osVars
<1>13. CASE LoopTest
  BY <1>13 DEF LoopTest, ownerVars, serverVars, clientVars, flagVars, osVars
<1>14. CASE CallAccept \/ AcceptFail \/ AcceptConn
  BY <1>14 DEF CallAccept, AcceptFail, AcceptConn, ownerVars, serverVars, clientVars, flagVars, osVars
<1>15. CASE SpawnThread \/ InsertClient
  BY <1>15 DEF SpawnThread, InsertClient, ownerVars, serverVars, clientVars, flagVars, osVars
<1>16. CASE KillAll \/ WaitClients \/ SpinWait
  BY <1>16 DEF KillAll, WaitClients, SpinWait, vars, ownerVars, serverVars, clientVars, flagVars, osVars
<1>17. CASE CheckSock \/ CloseListener \/ ClearListener
  BY <1>17 DEF CheckSock, CloseListener, ClearListener, ownerVars, serverVars, clientVars, flagVars, osVars
<1>18. CASE Finish
  BY <1>18 DEF Finish, ownerVars, serverVars, clientVars, flagVars, osVars
<1>19. ASSUME NEW c \in Slot, FinishClient(c) PROVE Control'
  BY <1>19 DEF FinishClient, ownerVars, serverVars, clientVars, flagVars, osVars
<1>20. ASSUME NEW c \in Slot, EnterSpin(c) PROVE Control'
  BY <1>20 DEF EnterSpin, ownerVars, serverVars, clientVars, flagVars, osVars
<1>21. CASE Done \/ UNCHANGED vars
  BY <1>21 DEF Done, vars, ownerVars, serverVars, clientVars, flagVars, osVars
<1>22. QED
  BY <1>1, <1>2, <1>3, <1>4, <1>5, <1>6, <1>7, <1>8, <1>9, <1>10, <1>11, <1>12, <1>13, <1>14, <1>15, <1>16, <1>17, <1>18, <1>19, <1>20, <1>21 DEF Next, OwnerInCall, ServerRuns

\* No live client escapes the registry and the server thread.
LEMMA RegisteredNext == TInv /\ Control /\ Registered /\ [Next]_vars => Registered'
<1> SUFFICES ASSUME TInv, Control, Registered, [Next]_vars PROVE Registered'
  OBVIOUS
<1> USE DEF TInv, TypeOK, OwnerState, ServerState, ClientState, Live, Serving, Leaving, Stopping, Control, Registered, Stopped, Alive
<1>1. CASE CallStart
  BY <1>1 DEF CallStart, ownerVars, serverVars, clientVars, flagVars, osVars
<1>2. CASE CallStop \/ Destroy \/ StartReturns \/ ClaimSock \/ ClearSock \/ CloseSock \/ Join
  BY <1>2 DEF CallStop, Destroy, StartReturns, ClaimSock, ClearSock, CloseSock, Join, BeginStop, ownerVars, serverVars, clientVars, flagVars, osVars
<1>3. CASE Boot \/ Reset \/ OpenListener \/ BindOk \/ BindFail \/ ListenOk \/ Publish \/ ErrorDie
  BY <1>3 DEF Boot, Reset, OpenListener, BindOk, BindFail, ListenOk, Publish, ErrorDie, ownerVars, serverVars, clientVars, flagVars, osVars
<1>4. CASE LoopTest \/ CallAccept \/ AcceptFail
  BY <1>4 DEF LoopTest, CallAccept, AcceptFail, ownerVars, serverVars, clientVars, flagVars, osVars
<1>5. CASE AcceptConn
  BY <1>5 DEF AcceptConn, ownerVars, serverVars, clientVars, flagVars, osVars
<1>6. CASE SpawnThread
  BY <1>6 DEF SpawnThread, ownerVars, serverVars, clientVars, flagVars, osVars
<1>7. CASE InsertClient
  BY <1>7 DEF InsertClient, ownerVars, serverVars, clientVars, flagVars, osVars
<1>8. CASE KillAll \/ SpinWait
  BY <1>8 DEF KillAll, SpinWait, vars, ownerVars, serverVars, clientVars, flagVars, osVars
<1>9. CASE WaitClients
  BY <1>9 DEF WaitClients, ownerVars, serverVars, clientVars, flagVars, osVars
<1>10. CASE CheckSock \/ CloseListener \/ ClearListener \/ Finish
  BY <1>10 DEF CheckSock, CloseListener, ClearListener, Finish, ownerVars, serverVars, clientVars, flagVars, osVars
<1>11. ASSUME NEW c \in Slot, FinishClient(c) PROVE Registered'
  BY <1>11 DEF FinishClient, ownerVars, serverVars, clientVars, flagVars, osVars
<1>12. ASSUME NEW c \in Slot, EnterSpin(c) PROVE Registered'
  BY <1>12 DEF EnterSpin, ownerVars, serverVars, clientVars, flagVars, osVars
<1>13. CASE Done \/ UNCHANGED vars
  BY <1>13 DEF Done, vars, ownerVars, serverVars, clientVars, flagVars, osVars
<1>14. QED
  BY <1>1, <1>2, <1>3, <1>4, <1>5, <1>6, <1>7, <1>8, <1>9, <1>10, <1>11, <1>12, <1>13 DEF Next, OwnerInCall, ServerRuns

\* The listener stays open until Stop closes it.
LEMMA ListenerNext == TInv /\ Control /\ Registered /\ ListenerOpen /\ SocketsApart /\ [Next]_vars => ListenerOpen'
<1> SUFFICES ASSUME TInv, Control, Registered, ListenerOpen, SocketsApart, [Next]_vars PROVE ListenerOpen'
  OBVIOUS
<1> USE DEF TInv, TypeOK, OwnerState, ServerState, ClientState, Live, Serving, Leaving, Stopping, Control, Registered, Stopped, Alive, ListenerOpen, SocketsApart
<1>1. CASE CallStart
  BY <1>1 DEF CallStart, ownerVars, serverVars, clientVars, flagVars, osVars
<1>2. CASE CallStop \/ Destroy \/ StartReturns \/ Join
  BY <1>2 DEF CallStop, Destroy, StartReturns, Join, BeginStop, ownerVars, serverVars, clientVars, flagVars, osVars
<1>3. CASE ClaimSock
  BY <1>3 DEF ClaimSock, ownerVars, serverVars, clientVars, flagVars, osVars
<1>4. CASE ClearSock
  BY <1>4 DEF ClearSock, ownerVars, serverVars, clientVars, flagVars, osVars
<1>5. CASE CloseSock
  BY <1>5 DEF CloseSock, ownerVars, serverVars, clientVars, flagVars, osVars
<1>6. CASE Boot \/ Reset
  BY <1>6 DEF Boot, Reset, ownerVars, serverVars, clientVars, flagVars, osVars
<1>7. CASE OpenListener
  BY <1>7 DEF OpenListener, ownerVars, serverVars, clientVars, flagVars, osVars
<1>8. CASE BindOk \/ BindFail \/ ListenOk \/ ErrorDie
  BY <1>8 DEF BindOk, BindFail, ListenOk, ErrorDie, ownerVars, serverVars, clientVars, flagVars, osVars
<1>9. CASE Publish
  BY <1>9 DEF Publish, ownerVars, serverVars, clientVars, flagVars, osVars
<1>10. CASE LoopTest
  BY <1>10 DEF LoopTest, ownerVars, serverVars, clientVars, flagVars, osVars
<1>11. CASE CallAccept \/ AcceptFail
  BY <1>11 DEF CallAccept, AcceptFail, ownerVars, serverVars, clientVars, flagVars, osVars
<1>12. CASE AcceptConn
  BY <1>12 DEF AcceptConn, ownerVars, serverVars, clientVars, flagVars, osVars
<1>13. CASE SpawnThread \/ InsertClient
  BY <1>13 DEF SpawnThread, InsertClient, ownerVars, serverVars, clientVars, flagVars, osVars
<1>14. CASE KillAll \/ WaitClients \/ SpinWait
  BY <1>14 DEF KillAll, WaitClients, SpinWait, vars, ownerVars, serverVars, clientVars, flagVars, osVars
<1>15. CASE CheckSock \/ CloseListener \/ ClearListener \/ Finish
  BY <1>15 DEF CheckSock, CloseListener, ClearListener, Finish, ownerVars, serverVars, clientVars, flagVars, osVars
<1>16. ASSUME NEW c \in Slot, FinishClient(c) PROVE ListenerOpen'
  BY <1>16 DEF FinishClient, ownerVars, serverVars, clientVars, flagVars, osVars
<1>17. ASSUME NEW c \in Slot, EnterSpin(c) PROVE ListenerOpen'
  BY <1>17 DEF EnterSpin, ownerVars, serverVars, clientVars, flagVars, osVars
<1>18. CASE Done \/ UNCHANGED vars
  BY <1>18 DEF Done, vars, ownerVars, serverVars, clientVars, flagVars, osVars
<1>19. QED
  BY <1>1, <1>2, <1>3, <1>4, <1>5, <1>6, <1>7, <1>8, <1>9, <1>10, <1>11, <1>12, <1>13, <1>14, <1>15, <1>16, <1>17, <1>18 DEF Next, OwnerInCall, ServerRuns

\* No step closes the socket of a live client, or gives it to another one.
LEMMA SocketsNext == TInv /\ Control /\ Registered /\ ListenerOpen /\ SocketsApart /\ RaceNoted /\ [Next]_vars => SocketsApart'
<1> SUFFICES ASSUME TInv, Control, Registered, ListenerOpen, SocketsApart, RaceNoted, [Next]_vars PROVE SocketsApart'
  OBVIOUS
<1> USE DEF TInv, TypeOK, OwnerState, ServerState, ClientState, Live, Serving, Leaving, Stopping, Control, Registered, Stopped, Alive, ListenerOpen, SocketsApart
<1>1. CASE CallStart
  BY <1>1 DEF CallStart, ownerVars, serverVars, clientVars, flagVars, osVars
<1>2. CASE CallStop \/ Destroy \/ StartReturns \/ Join
  BY <1>2 DEF CallStop, Destroy, StartReturns, Join, BeginStop, ownerVars, serverVars, clientVars, flagVars, osVars
<1>3. CASE ClaimSock
  BY <1>3 DEF ClaimSock, ownerVars, serverVars, clientVars, flagVars, osVars
<1>4. CASE ClearSock
  <2>1. server_sock' = NoSock /\ owner' = "close" /\ UNCHANGED <<client, sock, open, ssock>>
    BY <1>4 DEF ClearSock, serverVars, clientVars, osVars
  <2>2. \A c \in Live : sock[c] # NoSock
    BY NoSockAssumption
  <2>3. QED
    BY <2>1, <2>2, <1>4 DEF ClearSock
<1>5. CASE CloseSock
  BY <1>5 DEF CloseSock, ownerVars, serverVars, clientVars, flagVars, osVars
<1>6. CASE Boot \/ Reset \/ OpenListener \/ BindOk \/ BindFail \/ ListenOk \/ Publish \/ ErrorDie
  BY <1>6 DEF Boot, Reset, OpenListener, BindOk, BindFail, ListenOk, Publish, ErrorDie, ownerVars, serverVars, clientVars, flagVars, osVars
<1>7. CASE LoopTest \/ CallAccept \/ AcceptFail
  BY <1>7 DEF LoopTest, CallAccept, AcceptFail, ownerVars, serverVars, clientVars, flagVars, osVars
<1>8. CASE AcceptConn
  <2>1. PICK c \in Slot \ Live, h \in Handle \ open :
          /\ open' = open \cup {h}
          /\ client' = [client EXCEPT ![c] = "allocated"]
          /\ sock' = [sock EXCEPT ![c] = h]
    BY <1>8 DEF AcceptConn
  <2>2. UNCHANGED <<server_sock, ssock, owner>>
    BY <1>8 DEF AcceptConn, ownerVars
  <2>3. Live' = Live \cup {c} /\ sock'[c] = h /\ \A d \in Live : sock'[d] = sock[d] /\ sock[d] \in open
    BY <2>1
  <2>4. h # server_sock /\ (owner \in {"clear", "close"} => h # ssock)
    BY <2>1, <1>8, NoSockAssumption DEF AcceptConn
  <2>5. QED
    BY <2>1, <2>2, <2>3, <2>4
<1>9. CASE SpawnThread
  <2>1. Live' \subseteq Live
    BY <1>9 DEF SpawnThread, RaceNoted
  <2>2. UNCHANGED <<sock, open, server_sock, ssock, owner>>
    BY <1>9 DEF SpawnThread, ownerVars, osVars
  <2>3. QED
    BY <2>1, <2>2
<1>10. CASE InsertClient \/ KillAll \/ WaitClients \/ SpinWait
  BY <1>10 DEF InsertClient, KillAll, WaitClients, SpinWait, vars, ownerVars, serverVars, clientVars, flagVars, osVars
<1>11. CASE CheckSock \/ CloseListener \/ ClearListener \/ Finish
  BY <1>11 DEF CheckSock, CloseListener, ClearListener, Finish, ownerVars, serverVars, clientVars, flagVars, osVars
<1>12. ASSUME NEW c \in Slot, FinishClient(c) PROVE SocketsApart'
  BY <1>12 DEF FinishClient, ownerVars, serverVars, clientVars, flagVars, osVars
<1>13. ASSUME NEW c \in Slot, EnterSpin(c) PROVE SocketsApart'
  BY <1>13 DEF EnterSpin, ownerVars, serverVars, clientVars, flagVars, osVars
<1>14. CASE Done \/ UNCHANGED vars
  BY <1>14 DEF Done, vars, ownerVars, serverVars, clientVars, flagVars, osVars
<1>15. QED
  BY <1>1, <1>2, <1>3, <1>4, <1>5, <1>6, <1>7, <1>8, <1>9, <1>10, <1>11, <1>12, <1>13, <1>14 DEF Next, OwnerInCall, ServerRuns

\* Only the race leaves a deleted request in the registry.
LEMMA RaceNext == TInv /\ Control /\ Registered /\ RaceNoted /\ [Next]_vars => RaceNoted'
<1> SUFFICES ASSUME TInv, Control, Registered, RaceNoted, [Next]_vars PROVE RaceNoted'
  OBVIOUS
<1> USE DEF TInv, TypeOK, OwnerState, ServerState, ClientState, Live, Serving, Leaving, Stopping, Control, Registered, Stopped, Alive, RaceNoted
<1>1. CASE CallStart
  BY <1>1 DEF CallStart, ownerVars, serverVars, clientVars, flagVars, osVars
<1>2. CASE CallStop \/ Destroy \/ StartReturns \/ ClaimSock \/ ClearSock \/ CloseSock \/ Join
  BY <1>2 DEF CallStop, Destroy, StartReturns, ClaimSock, ClearSock, CloseSock, Join, BeginStop, ownerVars, serverVars, clientVars, flagVars, osVars
<1>3. CASE Boot \/ Reset \/ OpenListener \/ BindOk \/ BindFail \/ ListenOk \/ Publish \/ ErrorDie
  BY <1>3 DEF Boot, Reset, OpenListener, BindOk, BindFail, ListenOk, Publish, ErrorDie, ownerVars, serverVars, clientVars, flagVars, osVars
<1>4. CASE LoopTest \/ CallAccept \/ AcceptFail
  BY <1>4 DEF LoopTest, CallAccept, AcceptFail, ownerVars, serverVars, clientVars, flagVars, osVars
<1>5. CASE AcceptConn
  BY <1>5 DEF AcceptConn, ownerVars, serverVars, clientVars, flagVars, osVars
<1>6. CASE SpawnThread
  BY <1>6 DEF SpawnThread, ownerVars, serverVars, clientVars, flagVars, osVars
<1>7. CASE InsertClient
  BY <1>7 DEF InsertClient, ownerVars, serverVars, clientVars, flagVars, osVars
<1>8. CASE KillAll \/ SpinWait \/ WaitClients \/ CheckSock \/ CloseListener \/ ClearListener \/ Finish
  BY <1>8 DEF KillAll, SpinWait, WaitClients, CheckSock, CloseListener, ClearListener, Finish, vars, ownerVars, serverVars, clientVars, flagVars, osVars
<1>9. ASSUME NEW c \in Slot, FinishClient(c) PROVE RaceNoted'
  <2>1. /\ activeClients' = activeClients \ {c} /\ UNCHANGED <<server, ar>>
        /\ client' = [client EXCEPT ![c] = "free"] /\ client[c] = "serving"
        /\ raced' = (raced \/ c \notin activeClients)
    BY <1>9 DEF FinishClient, serverVars
  <2>2. raced => raced'
    BY <2>1
  <2>3. \A d \in Slot \ {c} : client'[d] = client[d]
    BY <2>1
  <2>4. \A d \in activeClients' : client'[d] = "free" => raced'
    BY <2>1, <2>2, <2>3
  <2>5. server' = "spawn" => client'[ar'] = "allocated"
    BY <2>1, <2>3
  <2>6. server' = "insert" /\ client'[ar'] = "free" => raced'
    <3>1. CASE ar = c
      BY <3>1, <2>1, <2>2
    <3>2. CASE ar # c
      BY <3>2, <2>1, <2>2, <2>3
    <3>3. QED
      BY <3>1, <3>2
  <2>7. server' \in {"spawn", "insert"} /\ ar' \in activeClients' => raced'
    BY <2>1, <2>2
  <2>8. QED
    BY <2>4, <2>5, <2>6, <2>7
<1>10. ASSUME NEW c \in Slot, EnterSpin(c) PROVE RaceNoted'
  BY <1>10 DEF EnterSpin, ownerVars, serverVars, clientVars, flagVars, osVars
<1>11. CASE Done \/ UNCHANGED vars
  BY <1>11 DEF Done, vars, ownerVars, serverVars, clientVars, flagVars, osVars
<1>12. QED
  BY <1>1, <1>2, <1>3, <1>4, <1>5, <1>6, <1>7, <1>8, <1>9, <1>10, <1>11 DEF Next, OwnerInCall, ServerRuns

\* IInv holds in every reachable state.
THEOREM Invariant == Safety => []IInv
<1>1. Init => IInv
  BY TypeInit, NoSockAssumption DEF Init, IInv, Control, Registered, ListenerOpen, SocketsApart, RaceNoted,
     Live, Stopped, Serving, Leaving, Stopping
<1>2. IInv /\ [Next]_vars => IInv'
  BY TypeNext, ControlNext, RegisteredNext, ListenerNext, SocketsNext, RaceNext DEF IInv
<1>3. QED
  BY <1>1, <1>2, PTL DEF Safety

\* After Stop, and so when the destructor frees the shared state, no server
\* thread and no client thread is left: Control gives the server thread,
\* Registered the clients, which WaitClients could not have passed over.
THEOREM NoOrphansAfterStop == Safety => []NoOrphans
<1>1. IInv => NoOrphans
  BY DEF IInv, Control, Registered, NoOrphans, Serving
<1>2. QED
  BY <1>1, Invariant, PTL

\* However Stop and the server thread race for server_sock, the handles they
\* close are never those of a client that is still served.
THEOREM SocketsNeverStolen == Safety => []ClientSocketsIntact
<1>1. IInv => ClientSocketsIntact
  BY DEF IInv, SocketsApart, ClientSocketsIntact
<1>2. QED
  BY <1>1, Invariant, PTL

\* A registry entry whose request was deleted has one possible cause.
THEOREM DanglingHasOneCause == Safety => []DanglingOnlyByRace
<1>1. IInv => DanglingOnlyByRace
  BY DEF IInv, RaceNoted, DanglingOnlyByRace, Dangling
<1>2. QED
  BY <1>1, Invariant, PTL

\* While the server thread serves, the port is the listener's: bind leaves one
\* that is not 0, and only Start, a retry of bind and a Stop whose join has
\* returned write another.
THEOREM PortIsKnown == Safety => []PortKnownWhileServing
<1>1. Init => PortKnownWhileServing
  BY DEF Init, PortKnownWhileServing
<1>2. PortKnownWhileServing /\ [Next]_vars => PortKnownWhileServing'
  <2> SUFFICES ASSUME PortKnownWhileServing, [Next]_vars PROVE PortKnownWhileServing'
    OBVIOUS
  <2> USE DEF PortKnownWhileServing
  <2>1. CASE CallStart
    BY <2>1 DEF CallStart
  <2>2. CASE CallStop \/ Destroy
    BY <2>2 DEF CallStop, Destroy, BeginStop, serverVars
  <2>3. CASE Join
    BY <2>3 DEF Join, serverVars
  <2>4. CASE StartReturns \/ ClaimSock \/ ClearSock \/ CloseSock
    BY <2>4 DEF StartReturns, ClaimSock, ClearSock, CloseSock, serverVars
  <2>5. CASE BindOk \/ BindFail
    BY <2>5 DEF BindOk, BindFail
  <2>6. CASE Boot \/ Reset \/ OpenListener \/ ErrorDie \/ ListenOk \/ Publish
    BY <2>6 DEF Boot, Reset, OpenListener, ErrorDie, ListenOk, Publish
  <2>7. CASE LoopTest \/ CallAccept \/ AcceptFail \/ AcceptConn \/ SpawnThread \/ InsertClient
    BY <2>7 DEF LoopTest, CallAccept, AcceptFail, AcceptConn, SpawnThread, InsertClient
  <2>8. CASE KillAll \/ WaitClients \/ SpinWait \/ CheckSock
    BY <2>8 DEF KillAll, WaitClients, SpinWait, CheckSock, vars, serverVars
  <2>9. CASE CloseListener \/ ClearListener \/ Finish
    BY <2>9 DEF CloseListener, ClearListener, Finish
  <2>10. CASE \E c \in Slot : FinishClient(c) \/ EnterSpin(c)
    BY <2>10 DEF FinishClient, EnterSpin, serverVars
  <2>11. CASE Done \/ UNCHANGED vars
    BY <2>11 DEF Done, vars, serverVars
  <2>12. QED
    BY <2>1, <2>2, <2>3, <2>4, <2>5, <2>6, <2>7, <2>8, <2>9, <2>10, <2>11 DEF Next, OwnerInCall, ServerRuns
<1>3. QED
  BY <1>1, <1>2, PTL DEF Safety

\* What one step does to a handle and to those who will close it.
LEMMA AccountedNext == IInv /\ Accounted /\ [Next]_vars => Accounted'
<1> SUFFICES ASSUME IInv, Accounted, [Next]_vars, Alive', ~lost', NEW h \in open' PROVE HasCloser(h)'
  BY DEF Accounted
<1>1. /\ NoSock \notin Handle /\ open \subseteq Handle /\ client \in [Slot -> ClientState]
      /\ sock \in [Slot -> Handle \cup {NoSock}]
  BY NoSockAssumption DEF IInv, TInv, TypeOK
<1>2. ~lost
  BY DEF Next, OwnerInCall, ServerRuns, CallStart, CallStop, Destroy, BeginStop, StartReturns, ClaimSock, ClearSock,
     CloseSock, Join, Boot, Reset, OpenListener, ErrorDie, BindOk, BindFail, ListenOk, Publish, LoopTest, CallAccept,
     AcceptFail, AcceptConn, SpawnThread, InsertClient, KillAll, WaitClients, SpinWait, CheckSock, CloseListener,
     ClearListener, Finish, FinishClient, EnterSpin, Done, vars, ownerVars
<1>3. Alive
  BY DEF Alive, Next, OwnerInCall, ServerRuns, CallStart, CallStop, Destroy, BeginStop, StartReturns, ClaimSock, ClearSock,
     CloseSock, Join, Boot, Reset, OpenListener, ErrorDie, BindOk, BindFail, ListenOk, Publish, LoopTest, CallAccept,
     AcceptFail, AcceptConn, SpawnThread, InsertClient, KillAll, WaitClients, SpinWait, CheckSock, CloseListener,
     ClearListener, Finish, FinishClient, EnterSpin, Done, vars, serverVars
<1>4. h \in open => HasCloser(h)
  BY <1>2, <1>3 DEF Accounted
<1>5. h \in open => h # NoSock
  BY <1>1
<1> USE DEF HasCloser, Live, Serving
<1>6. CASE CallStart
  BY <1>4, <1>6 DEF CallStart, ownerVars, serverVars, clientVars, flagVars, osVars, IInv, Control, Stopped
<1>7. CASE CallStop \/ Destroy \/ StartReturns \/ ClaimSock
  BY <1>4, <1>7 DEF CallStop, Destroy, BeginStop, StartReturns, ClaimSock, serverVars, clientVars, osVars
<1>8. CASE ClearSock
  BY <1>4, <1>8 DEF ClearSock, serverVars, clientVars, osVars
<1>9. CASE CloseSock \/ Join
  BY <1>4, <1>9 DEF CloseSock, Join, serverVars, clientVars, osVars
<1>10. CASE Boot \/ Reset \/ OpenListener \/ ErrorDie
  BY <1>3, <1>4, <1>10 DEF Boot, Reset, OpenListener, ErrorDie, Alive, ownerVars, clientVars, osVars
<1>11. CASE BindOk \/ BindFail \/ ListenOk \/ Publish
  BY <1>4, <1>11 DEF BindOk, BindFail, ListenOk, Publish, Alive, ownerVars, clientVars, osVars
<1>12. CASE LoopTest \/ CallAccept \/ AcceptFail \/ KillAll \/ WaitClients
  BY <1>4, <1>12 DEF LoopTest, CallAccept, AcceptFail, KillAll, WaitClients, ownerVars, clientVars, osVars
<1>13. CASE AcceptConn
  BY <1>1, <1>4, <1>13 DEF AcceptConn, ownerVars
<1>14. CASE SpawnThread \/ InsertClient
  BY <1>1, <1>4, <1>14 DEF SpawnThread, InsertClient, ownerVars, osVars
<1>15. CASE CheckSock \/ CloseListener
  BY <1>4, <1>5, <1>15 DEF CheckSock, CloseListener, ownerVars, clientVars, osVars
<1>16. CASE ClearListener \/ Finish
  BY <1>4, <1>16 DEF ClearListener, Finish, ownerVars, clientVars, osVars
<1>17. ASSUME NEW c \in Slot, FinishClient(c) PROVE HasCloser(h)'
  BY <1>1, <1>4, <1>17 DEF FinishClient, ownerVars, serverVars
<1>18. ASSUME NEW c \in Slot, EnterSpin(c) PROVE HasCloser(h)'
  BY <1>1, <1>4, <1>18 DEF EnterSpin, ownerVars, serverVars, osVars
<1>19. CASE SpinWait \/ Done \/ UNCHANGED vars
  BY <1>4, <1>19 DEF SpinWait, Done, vars, ownerVars, serverVars, clientVars, osVars
<1>20. QED
  BY <1>6, <1>7, <1>8, <1>9, <1>10, <1>11, <1>12, <1>13, <1>14, <1>15, <1>16, <1>17, <1>18, <1>19
     DEF Next, OwnerInCall, ServerRuns

\* After Stop no handle is left open, for any number of handles and clients:
\* until then each had somebody to close it, and nobody is left.
THEOREM NothingStaysOpen == Safety => []ListenerReleased
<1>1. Init => Accounted
  BY DEF Init, Accounted
<1>2. IInv /\ Accounted => ListenerReleased
  <2> SUFFICES ASSUME IInv, Accounted, Stopped, ~lost PROVE open = {}
    BY DEF ListenerReleased
  <2>1. server = "none" /\ Live = {} /\ owner \in {"idle", "destroyed"}
    BY DEF IInv, Control, Registered, Stopped, Serving
  <2>2. QED
    BY <2>1 DEF Accounted, HasCloser, Alive, Serving
<1>3. QED
  BY <1>1, <1>2, AccountedNext, Invariant, PTL DEF Safety
=============================================================================
