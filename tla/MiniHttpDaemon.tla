--------------------------- MODULE MiniHttpDaemon ---------------------------
(***************************************************************************)
(* Life cycle of the embedded web server (src/MiniHttpDaemon.cpp, driven   *)
(* by DecipioWebInterface of src/WebInterface.cpp).  Three kinds of thread *)
(* share one unsynchronised MiniHtmlInfo_t:                                *)
(*   - the owner, that calls Start, Stop and the destructor;               *)
(*   - MiniHttpDaemon_serverthread, that accepts connections;              *)
(*   - one accept_request thread for each connection.                      *)
(* Only activeClients is under a mutex; a step of this module is one       *)
(* access to an unprotected shared field, or one critical section.  A       *)
(* local variable that is dead is reset to its initial value.              *)
(***************************************************************************)
EXTENDS Integers

CONSTANTS Slot,     \* addresses an AcceptRequest_t can be allocated at
          Handle,   \* socket handles of the operating system
          NoSock,   \* the handle value -1
          NoSlot    \* no AcceptRequest_t

ASSUME NoSockAssumption == NoSock \notin Handle
ASSUME NoSlotAssumption == NoSlot \notin Slot

BindTries == 3      \* "int retries = 3" in startup()

VARIABLES
  owner,            \* where the owner thread is
  m_IsRunning,      \* DecipioWebInterface::m_IsRunning
  ssock,            \* Stop's local copy of server_sock
  thread_started, thread_shouldrun, server_sock, port, activeClients,
  server,           \* where the server thread is; "exited" after exit(1)
  retries, httpd,   \* locals of startup()
  lsock,            \* the handle accept() was called with
  ar,               \* the server thread's local AcceptRequest_t
  client,           \* per slot: "free", "allocated", "serving", "spinning"
  sock,             \* AcceptRequest_t::client, kept by freed memory
  open,             \* handles the operating system has open
  down,             \* open handles that were shut down
  lost,             \* ghost: Stop overwrote a listener it had not read
  raced             \* ghost: a client finished before it was registered

ownerVars  == <<owner, m_IsRunning, ssock, lost>>
serverVars == <<server, retries, httpd, lsock, ar>>
clientVars == <<client, sock, activeClients, raced>>
flagVars   == <<thread_started, thread_shouldrun>>
osVars     == <<open, down>>
vars == <<ownerVars, serverVars, clientVars, flagVars, osVars, server_sock, port>>

OwnerState  == {"idle", "starting", "claim", "clear", "close", "join", "destroyed"}
ServerState == {"none", "boot", "reset", "socket", "bind", "listen", "publish",
                "loop", "call", "accept", "spawn", "insert", "kill", "wait",
                "check", "closing", "clearing", "finish", "exited"}
ClientState == {"free", "allocated", "serving", "spinning"}

\* exit(1) ends every thread.
Alive == server # "exited"

Live == {c \in Slot : client[c] # "free"}

\* Registry entries whose AcceptRequest_t was deleted.
Dangling == {c \in activeClients : client[c] = "free"}

\* The constructors: server_sock and thread_shouldrun stay uninitialised.
Init ==
  /\ owner = "idle" /\ m_IsRunning = FALSE /\ ssock = NoSock /\ lost = FALSE
  /\ thread_started = FALSE /\ thread_shouldrun \in BOOLEAN
  /\ server_sock \in Handle \cup {NoSock} /\ port = "zero"
  /\ server = "none" /\ retries = 0 /\ httpd = NoSock /\ lsock = NoSock /\ ar = NoSlot
  /\ client = [c \in Slot |-> "free"] /\ sock = [c \in Slot |-> NoSock]
  /\ activeClients = {} /\ raced = FALSE
  /\ open = {} /\ down = {}
-----------------------------------------------------------------------------
(* Faulty variants of the actions below.  None is part of the specification: *)
(* each shows that a property fails when the code has that fault.            *)

\* The retry counter is tested before it is decremented.
BindFailOffByOne ==
  /\ server = "bind"
  /\ port' = "zero" /\ retries' = retries - 1
  /\ server' = IF retries # 0 THEN "bind" ELSE "exited"
  /\ UNCHANGED <<httpd, lsock, ar, server_sock>>
  /\ UNCHANGED <<ownerVars, clientVars, flagVars, osVars>>

\* Kill closes the socket, as the destructor will do again.
KillAllCloses ==
  /\ server = "kill" /\ server' = "wait"
  /\ open' = open \ {sock[c] : c \in activeClients} /\ down' = down \cap open'
  /\ UNCHANGED <<retries, httpd, lsock, ar, server_sock, port>>
  /\ UNCHANGED <<ownerVars, clientVars, flagVars>>

\* Clients are left to finish by themselves.
KillAllForgets ==
  /\ server = "kill" /\ server' = "wait"
  /\ UNCHANGED <<retries, httpd, lsock, ar, server_sock, port>>
  /\ UNCHANGED <<ownerVars, clientVars, flagVars, osVars>>

\* Stop resets the port before it waits for the server thread.
CloseSockResetsPort ==
  /\ Alive /\ owner = "close" /\ owner' = "join"
  /\ open' = open \ {ssock} /\ down' = down \ {ssock} /\ port' = "zero"
  /\ UNCHANGED <<m_IsRunning, ssock, lost, server_sock>>
  /\ UNCHANGED <<serverVars, clientVars, flagVars>>

\* The server thread polls the registry once and goes on.
WaitClientsOnce ==
  /\ server = "wait" /\ server' = "check"
  /\ UNCHANGED <<retries, httpd, lsock, ar, server_sock, port>>
  /\ UNCHANGED <<ownerVars, clientVars, flagVars, osVars>>

\* The server thread leaves the listener to Stop.
CheckSockSkips ==
  /\ server = "check" /\ server' = "finish"
  /\ UNCHANGED <<retries, httpd, lsock, ar, server_sock, port>>
  /\ UNCHANGED <<ownerVars, clientVars, flagVars, osVars>>

\* The request is deleted but its registry entry stays.
FinishClientKeepsEntry(c) ==
  /\ Alive /\ client[c] = "serving"
  /\ client' = [client EXCEPT ![c] = "free"]
  /\ open' = open \ {sock[c]} /\ down' = down \ {sock[c]}
  /\ raced' = (raced \/ c \notin activeClients)
  /\ UNCHANGED <<sock, activeClients, server_sock, port>>
  /\ UNCHANGED <<ownerVars, serverVars, flagVars>>
-----------------------------------------------------------------------------
(* The owner thread. *)

\* DecipioWebInterface::Start and MiniHttpDaemon::Start up to the thread.
CallStart ==
  /\ Alive /\ owner = "idle" /\ ~m_IsRunning
  /\ port' = "wanted" /\ thread_started' = FALSE /\ thread_shouldrun' = TRUE
  /\ server' = "boot" /\ owner' = "starting"
  /\ UNCHANGED <<m_IsRunning, ssock, lost, retries, httpd, lsock, ar, server_sock>>
  /\ UNCHANGED <<clientVars, osVars>>

\* The spin loop of Start ends.
StartReturns ==
  /\ Alive /\ owner = "starting" /\ thread_started
  /\ owner' = "idle" /\ m_IsRunning' = TRUE
  /\ UNCHANGED <<ssock, lost, server_sock, port>>
  /\ UNCHANGED <<serverVars, clientVars, flagVars, osVars>>

\* Stop's first test and assignment, from the idle owner.
BeginStop ==
  /\ thread_shouldrun' = IF thread_started THEN FALSE ELSE thread_shouldrun
  /\ UNCHANGED <<ssock, lost, thread_started, server_sock, port>>
  /\ UNCHANGED <<serverVars, clientVars, osVars>>

CallStop ==
  /\ Alive /\ owner = "idle" /\ m_IsRunning
  /\ owner' = IF thread_started THEN "claim" ELSE "idle"
  /\ m_IsRunning' = thread_started
  /\ BeginStop

\* The destructors: DecipioWebInterface::Stop does nothing once stopped,
\* ~MiniHttpDaemon calls MiniHttpDaemon::Stop again and frees the state.
Destroy ==
  /\ Alive /\ owner = "idle" /\ ~m_IsRunning
  /\ owner' = IF thread_started THEN "claim" ELSE "destroyed"
  /\ UNCHANGED m_IsRunning
  /\ BeginStop

ClaimSock ==
  /\ Alive /\ owner = "claim" /\ owner' = "clear"
  /\ ssock' = server_sock
  /\ UNCHANGED <<m_IsRunning, lost, server_sock, port>>
  /\ UNCHANGED <<serverVars, clientVars, flagVars, osVars>>

ClearSock ==
  /\ Alive /\ owner = "clear" /\ owner' = "close"
  /\ server_sock' = NoSock
  /\ lost' = (lost \/ (server_sock \in open /\ server_sock # ssock))
  /\ UNCHANGED <<m_IsRunning, ssock, port>>
  /\ UNCHANGED <<serverVars, clientVars, flagVars, osVars>>

\* shutdown and closesocket; on a handle that is not open they only fail.
CloseSock ==
  /\ Alive /\ owner = "close" /\ owner' = "join"
  /\ open' = open \ {ssock} /\ down' = down \ {ssock}
  /\ UNCHANGED <<m_IsRunning, ssock, lost, server_sock, port>>
  /\ UNCHANGED <<serverVars, clientVars, flagVars>>

Join ==
  /\ owner = "join" /\ server = "none"
  /\ owner' = "idle" /\ m_IsRunning' = FALSE /\ port' = "zero" /\ ssock' = NoSock
  /\ UNCHANGED <<lost, server_sock>>
  /\ UNCHANGED <<serverVars, clientVars, flagVars, osVars>>
-----------------------------------------------------------------------------
(* The server thread. *)

\* thread_started is set before anything else is.
Boot ==
  /\ server = "boot" /\ server' = "reset"
  /\ thread_started' = TRUE
  /\ UNCHANGED <<retries, httpd, lsock, ar, thread_shouldrun, server_sock, port>>
  /\ UNCHANGED <<ownerVars, clientVars, osVars>>

Reset ==
  /\ server = "reset" /\ server' = "socket"
  /\ server_sock' = NoSock
  /\ UNCHANGED <<retries, httpd, lsock, ar, port>>
  /\ UNCHANGED <<ownerVars, clientVars, flagVars, osVars>>

OpenListener ==
  /\ server = "socket" /\ server' = "bind"
  /\ \E h \in Handle \ open : httpd' = h /\ open' = open \cup {h}
  /\ retries' = BindTries
  /\ UNCHANGED <<lsock, ar, down, server_sock, port>>
  /\ UNCHANGED <<ownerVars, clientVars, flagVars>>

\* socket, setsockopt, getsockname or listen fails: error_die exits.
ErrorDie ==
  /\ server \in {"socket", "listen"} /\ server' = "exited"
  /\ UNCHANGED <<retries, httpd, lsock, ar, server_sock, port>>
  /\ UNCHANGED <<ownerVars, clientVars, flagVars, osVars>>

\* A port of 0 is replaced by the one the system assigned.
BindOk ==
  /\ server = "bind" /\ server' = "listen"
  /\ port' = IF port = "zero" THEN "auto" ELSE port
  /\ retries' = 0
  /\ UNCHANGED <<httpd, lsock, ar, server_sock>>
  /\ UNCHANGED <<ownerVars, clientVars, flagVars, osVars>>

\* "alternating port": try again with port 0, or give up and exit.
BindFail ==
  /\ server = "bind"
  /\ port' = "zero" /\ retries' = retries - 1
  /\ server' = IF retries' # 0 THEN "bind" ELSE "exited"
  /\ UNCHANGED <<httpd, lsock, ar, server_sock>>
  /\ UNCHANGED <<ownerVars, clientVars, flagVars, osVars>>

ListenOk ==
  /\ server = "listen" /\ server' = "publish"
  /\ UNCHANGED <<retries, httpd, lsock, ar, server_sock, port>>
  /\ UNCHANGED <<ownerVars, clientVars, flagVars, osVars>>

\* startup's result reaches server_sock.
Publish ==
  /\ server = "publish" /\ server' = "loop"
  /\ server_sock' = httpd /\ httpd' = NoSock
  /\ UNCHANGED <<retries, lsock, ar, port>>
  /\ UNCHANGED <<ownerVars, clientVars, flagVars, osVars>>

LoopTest ==
  /\ server = "loop"
  /\ server' = IF thread_shouldrun /\ server_sock # NoSock THEN "call" ELSE "kill"
  /\ UNCHANGED <<retries, httpd, lsock, ar, server_sock, port>>
  /\ UNCHANGED <<ownerVars, clientVars, flagVars, osVars>>

\* server_sock is read again for the call of accept.
CallAccept ==
  /\ server = "call" /\ server' = "accept"
  /\ lsock' = server_sock
  /\ UNCHANGED <<retries, httpd, ar, server_sock, port>>
  /\ UNCHANGED <<ownerVars, clientVars, flagVars, osVars>>

AcceptFail ==
  /\ server = "accept" /\ server' = "loop"
  /\ lsock' = NoSock
  /\ UNCHANGED <<retries, httpd, ar, server_sock, port>>
  /\ UNCHANGED <<ownerVars, clientVars, flagVars, osVars>>

\* accept returns a connection, new AcceptRequest_t takes a free address.
AcceptConn ==
  /\ server = "accept" /\ lsock \in open /\ server' = "spawn"
  /\ \E c \in Slot \ Live, h \in Handle \ open :
       /\ ar' = c /\ open' = open \cup {h}
       /\ client' = [client EXCEPT ![c] = "allocated"]
       /\ sock' = [sock EXCEPT ![c] = h]
  /\ lsock' = NoSock
  /\ UNCHANGED <<retries, httpd, activeClients, raced, down, server_sock, port>>
  /\ UNCHANGED <<ownerVars, flagVars>>

\* The client thread runs from here on.
SpawnThread ==
  /\ server = "spawn" /\ server' = "insert"
  /\ client' = [client EXCEPT ![ar] = "serving"]
  /\ UNCHANGED <<retries, httpd, lsock, ar, sock, activeClients, raced, server_sock, port>>
  /\ UNCHANGED <<ownerVars, flagVars, osVars>>

InsertClient ==
  /\ server = "insert" /\ server' = "loop"
  /\ activeClients' = activeClients \cup {ar}
  /\ ar' = NoSlot
  /\ UNCHANGED <<retries, httpd, lsock, client, sock, raced, server_sock, port>>
  /\ UNCHANGED <<ownerVars, flagVars, osVars>>

\* Kill on every registered client.  On a deleted one it reads freed memory,
\* which may or may not still hold the old handle.
KillAll ==
  /\ server = "kill" /\ server' = "wait"
  /\ \E stale \in SUBSET {sock[c] : c \in Dangling} :
       down' = down \cup (open \cap (stale \cup {sock[c] : c \in activeClients \cap Live}))
  /\ UNCHANGED <<retries, httpd, lsock, ar, open, server_sock, port>>
  /\ UNCHANGED <<ownerVars, clientVars, flagVars>>

\* The loop that waits for the last client: it leaves, or polls again.
WaitClients ==
  /\ server = "wait" /\ activeClients = {} /\ server' = "check"
  /\ UNCHANGED <<retries, httpd, lsock, ar, server_sock, port>>
  /\ UNCHANGED <<ownerVars, clientVars, flagVars, osVars>>

SpinWait ==
  /\ server = "wait" /\ activeClients # {}
  /\ UNCHANGED vars

CheckSock ==
  /\ server = "check"
  /\ server' = IF server_sock # NoSock THEN "closing" ELSE "finish"
  /\ UNCHANGED <<retries, httpd, lsock, ar, server_sock, port>>
  /\ UNCHANGED <<ownerVars, clientVars, flagVars, osVars>>

CloseListener ==
  /\ server = "closing" /\ server' = "clearing"
  /\ open' = open \ {server_sock} /\ down' = down \ {server_sock}
  /\ UNCHANGED <<retries, httpd, lsock, ar, server_sock, port>>
  /\ UNCHANGED <<ownerVars, clientVars, flagVars>>

ClearListener ==
  /\ server = "clearing" /\ server' = "finish"
  /\ server_sock' = NoSock
  /\ UNCHANGED <<retries, httpd, lsock, ar, port>>
  /\ UNCHANGED <<ownerVars, clientVars, flagVars, osVars>>

Finish ==
  /\ server = "finish" /\ server' = "none"
  /\ thread_started' = FALSE
  /\ UNCHANGED <<retries, httpd, lsock, ar, thread_shouldrun, server_sock, port>>
  /\ UNCHANGED <<ownerVars, clientVars, osVars>>
-----------------------------------------------------------------------------
(* A client thread. *)

\* The end of accept_request: erase, delete and close under the mutex.
FinishClient(c) ==
  /\ Alive /\ client[c] = "serving"
  /\ activeClients' = activeClients \ {c}
  /\ client' = [client EXCEPT ![c] = "free"]
  /\ open' = open \ {sock[c]} /\ down' = down \ {sock[c]}
  /\ raced' = (raced \/ c \notin activeClients)
  /\ UNCHANGED <<sock, server_sock, port>>
  /\ UNCHANGED <<ownerVars, serverVars, flagVars>>

\* get_content and serve_bin_file retry a read that brought nothing for as
\* long as bytes are owed: at the end of the stream they never return.
EnterSpin(c) ==
  /\ Alive /\ client[c] = "serving"
  /\ client' = [client EXCEPT ![c] = "spinning"]
  /\ UNCHANGED <<sock, activeClients, raced, server_sock, port>>
  /\ UNCHANGED <<ownerVars, serverVars, flagVars, osVars>>
-----------------------------------------------------------------------------
\* The process is over, or the daemon was destroyed: nothing moves.
Done ==
  /\ server = "exited" \/ owner = "destroyed"
  /\ UNCHANGED vars

OwnerInCall == StartReturns \/ ClaimSock \/ ClearSock \/ CloseSock \/ Join

ServerRuns ==
  \/ Boot \/ Reset \/ OpenListener \/ BindOk \/ BindFail \/ ListenOk \/ Publish
  \/ ErrorDie \/ LoopTest \/ CallAccept \/ SpawnThread \/ InsertClient
  \/ KillAll \/ WaitClients \/ CheckSock \/ CloseListener \/ ClearListener \/ Finish

Next ==
  \/ CallStart \/ CallStop \/ Destroy \/ OwnerInCall
  \/ ServerRuns \/ AcceptFail \/ AcceptConn \/ SpinWait
  \/ \E c \in Slot : FinishClient(c) \/ EnterSpin(c)
  \/ Done

Safety == Init /\ [][Next]_vars

\* Every thread is scheduled.  Nothing obliges the owner to make a call, a
\* browser to connect, or a client that still has its socket to finish;
\* accept fails on a closed handle, and a request on a socket shut down.
Fairness ==
  /\ WF_vars(OwnerInCall)
  /\ WF_vars(ServerRuns)
  /\ WF_vars(lsock \notin open /\ AcceptFail)
  /\ \A c \in Slot : WF_vars(sock[c] \in down /\ FinishClient(c))

Spec == Safety /\ Fairness
-----------------------------------------------------------------------------
TypeOK ==
  /\ owner \in OwnerState /\ m_IsRunning \in BOOLEAN
  /\ ssock \in Handle \cup {NoSock} /\ lost \in BOOLEAN
  /\ thread_started \in BOOLEAN /\ thread_shouldrun \in BOOLEAN
  /\ server_sock \in Handle \cup {NoSock} /\ port \in {"zero", "wanted", "auto"}
  /\ server \in ServerState /\ retries \in 0..BindTries
  /\ httpd \in Handle \cup {NoSock} /\ lsock \in Handle \cup {NoSock}
  /\ ar \in Slot \cup {NoSlot}
  /\ client \in [Slot -> ClientState] /\ sock \in [Slot -> Handle \cup {NoSock}]
  /\ activeClients \in SUBSET Slot /\ raced \in BOOLEAN
  /\ open \in SUBSET Handle /\ down \in SUBSET open

Stopped == owner \in {"idle", "destroyed"} /\ ~m_IsRunning

\* When Stop has returned, and so when the destructor frees MiniHtmlInfo_t,
\* no server thread and no accept_request thread is left to use it, whatever
\* the order in which clients finish, register and are waited for.
NoOrphans == Stopped => server = "none" /\ Live = {}

\* Nobody closes the socket of a client that is still served: neither Stop,
\* which closes a handle it read earlier (possibly uninitialised, possibly
\* closed by the server thread in between), nor the server thread.
ClientSocketsIntact ==
  \A c \in Live : sock[c] \in open /\ \A d \in Live \ {c} : sock[d] # sock[c]

\* Once stopped no handle stays open, unless Stop overwrote server_sock
\* between startup's store and its own read.
ListenerReleased == Stopped /\ ~lost => open = {}

\* The registry holds a deleted request only after the race in which a client
\* finished before the server thread had inserted it.
DanglingOnlyByRace == Dangling # {} => raced

\* Start and Stop return, unless the process exits, the registry keeps a
\* deleted request, or a client spins on a read that brings nothing.
CallsReturn ==
  (owner \notin {"idle", "destroyed"}) ~>
    \/ owner = "idle"
    \/ server = "exited"
    \/ Dangling # {}
    \/ \E c \in Slot : client[c] = "spinning"

\* From startup's result until the server thread has ended, port is what the
\* listener was bound to, the one wanted or the one assigned, so that GetPort
\* tells it: no retry of bind and no Stop under way makes it 0.  Between the
\* return of Start and the bind it may still change (1543, 1675).
PortKnownWhileServing ==
  server \notin {"none", "boot", "reset", "socket", "bind", "exited"} => port # "zero"

\* accept_request's "This is weird!!!" branch: a client that finishes is in
\* the registry.  Refuted: it may finish before it is inserted.
ClientIsRegistered == [][\A c \in Slot : FinishClient(c) => c \in activeClients]_vars
=============================================================================
