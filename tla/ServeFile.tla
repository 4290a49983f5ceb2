----------------------------- MODULE ServeFile -----------------------------
(***************************************************************************)
(* serve_bin_file of src/MiniHttpDaemon.cpp with what it shares: a file    *)
(* that its owner is still writing, the registry incomplete2size that      *)
(* tells how long it will be, and the socket that Kill takes away.  Every  *)
(* thread serves one request, from the test in accept_request on.  The     *)
(* byte at position p of a resource is p itself, so a body is a sequence   *)
(* of positions.  The counter bytes_sent, which nothing in the program     *)
(* reads, is left out.                                                     *)
(***************************************************************************)
EXTENDS Integers, SequencesExt

CONSTANTS Thread,      \* request threads
          Requests,    \* per thread, the requests it may have got: [emulated, from, to],
                       \* where from is -1 without a Range, and to without an end
          BufSize,     \* bufsize, 8192 in the code
          Goals,       \* the sizes the owner may write the file to
          BufferSize,  \* emulatedResult.size
          Garbage      \* what an entry that was erased may read as

ASSUME SizeAssumption ==
  BufSize \in Nat \ {0} /\ Goals \subseteq Nat /\ BufferSize \in Nat /\ Garbage \subseteq Int
ASSUME RequestAssumption ==
  /\ Requests \in [Thread -> SUBSET [emulated : BOOLEAN, from : Int, to : Int]]
  /\ \A t \in Thread : \A r \in Requests[t] :
       r.from >= -1 /\ r.to >= -1 /\ (r.from = -1 => r.to = -1)

VARIABLES
  file,         \* the size of the file on disk, Gone after its owner deleted it
  goal,         \* the size the owner will write it to
  registry,     \* the entry of incomplete2size: a size, Complete or None
  owner,        \* the call of RegisterIncompleteFile under way: [size, it]
  socket,       \* per thread "open", "nonblocking" or "shut"
  req,          \* per thread its request
  th,           \* per thread the locals of serve_bin_file and logged_send
  accidents     \* ghost: the ways in which a registration went away too early

vars == <<file, goal, registry, owner, socket, req, th, accidents>>

Gone     == -1    \* stat fails
Complete == -1    \* what RegisterFile registers
None     == -2    \* no entry
NoCall   == [size |-> None, it |-> "end"]

Outcome == {"finished",   \* nothing remains
            "broken",     \* send failed
            "vanished",   \* the file could not be opened again
            "crashed"}

\* n is numchars, promised the Content-Length, it the iterator: end(), "valid"
\* or "dangling".  overtaken is a ghost: between the stat and the end of the
\* lookup the entry was erased or the file declared complete.
Idle == [pc |-> "dispatch", reply |-> "none", size |-> 0, it |-> "end", from |-> 0, remain |-> 0,
         n |-> 0, promised |-> 0, body |-> <<>>, overtaken |-> FALSE]

Init ==
  /\ req \in [Thread -> UNION Range(Requests)] /\ \A t \in Thread : req[t] \in Requests[t]
  /\ th = [t \in Thread |-> Idle]
  /\ socket = [t \in Thread |-> "open"] /\ accidents = {} /\ owner = NoCall
  /\ goal \in Goals
  /\ \/ file = goal /\ registry = None
     \/ file \in 0..goal /\ registry = goal
-----------------------------------------------------------------------------
At(t, label) == th[t].pc = label
Shared == <<file, goal, registry, owner, socket, req, accidents>>
Lesser(a, b) == IF a < b THEN a ELSE b

NotFound(t) == th' = [th EXCEPT ![t].pc = "headers", ![t].reply = "404"]

\* accept_request: the callback has answered, or the path must exist.
Dispatch(t) ==
  /\ At(t, "dispatch")
  /\ IF req[t].emulated \/ file # Gone THEN th' = [th EXCEPT ![t].pc = "stat"]
                                       ELSE NotFound(t)
  /\ UNCHANGED Shared

\* The second stat; its size is used for everything that follows.
Stat(t) ==
  /\ At(t, "stat")
  /\ IF ~req[t].emulated /\ file = Gone THEN NotFound(t) ELSE
       LET size == IF req[t].emulated THEN BufferSize ELSE file IN
       th' = [th EXCEPT ![t].size = size,
                        ![t].reply = IF req[t].from = -1 THEN "200" ELSE "206",
                        ![t].pc = IF req[t].from = -1 \/ req[t].emulated THEN "headers" ELSE "find"]
  /\ UNCHANGED Shared

(* The lookup, without the mutex: each read of the entry is a step.         *)

Looking == {"find", "test", "compare", "take"}

Find(t) ==
  /\ At(t, "find")
  /\ th' = IF registry = None THEN [th EXCEPT ![t].pc = "headers"]
                              ELSE [th EXCEPT ![t].pc = "test", ![t].it = "valid"]
  /\ UNCHANGED Shared

\* it->second.size
Seen(t) == IF th[t].it = "valid" THEN {registry} ELSE Garbage

\* "when size is -1, this is a complete file"
Test(t) ==
  /\ At(t, "test")
  /\ \E seen \in Seen(t) :
       th' = IF seen = Complete THEN [th EXCEPT ![t].pc = "headers", ![t].it = "end"]
                                ELSE [th EXCEPT ![t].pc = "compare"]
  /\ UNCHANGED Shared

\* Faulty variant: the entry goes as soon as a request has seen it.
CompareErasesAlways(t) ==
  /\ At(t, "compare")
  /\ \E seen \in Seen(t) : th' = [th EXCEPT ![t].pc = "erase", ![t].size = seen]
  /\ UNCHANGED Shared
\* A file that has reached its size is taken out,
Compare(t) ==
  /\ At(t, "compare")
  /\ \E seen \in Seen(t) : th' = [th EXCEPT ![t].pc = IF seen = th[t].size THEN "erase" ELSE "take"]
  /\ UNCHANGED Shared

\* Faulty variant: the expected size is not taken over.
TakeNothing(t) ==
  /\ At(t, "take")
  /\ th' = [th EXCEPT ![t].pc = "headers", ![t].it = "end"]
  /\ UNCHANGED Shared
\* and for any other one the size expected is announced.
Take(t) ==
  /\ At(t, "take")
  /\ \E seen \in Seen(t) :
       th' = [th EXCEPT ![t].pc = "headers", ![t].it = "end", ![t].size = seen]
  /\ UNCHANGED Shared

\* The entry goes: iterators to it dangle from now on.
Overtaken(s, it) == [th[s] EXCEPT !.it = it, !.overtaken = @ \/ th[s].pc \in Looking]
Stale(it)  == IF it = "valid" THEN "dangling" ELSE it
Erased(t) ==
  /\ registry' = None /\ owner' = [owner EXCEPT !.it = Stale(@)]
  /\ th' = [s \in Thread |-> IF s = t THEN [th[t] EXCEPT !.pc = "headers", !.it = "end"]
                                      ELSE Overtaken(s, Stale(th[s].it))]
Erase(t) ==
  /\ At(t, "erase") /\ th[t].it = "valid" /\ Erased(t)
  /\ accidents' = accidents \cup (IF registry \in {th[t].size, Complete} THEN {} ELSE {"registered again"})
  /\ UNCHANGED <<file, goal, socket, req>>

\* Erasing an entry that another request has erased: nothing happens, or
\* what was registered since at the same place goes.
EraseTwice(t) ==
  /\ At(t, "erase") /\ th[t].it = "dangling"
  /\ \/ th' = [th EXCEPT ![t].pc = "headers", ![t].it = "end"] /\ UNCHANGED <<registry, owner, accidents>>
     \/ registry # None /\ Erased(t) /\ accidents' = accidents \cup {"erased twice"}
  /\ UNCHANGED <<file, goal, socket, req>>

\* Whoever uses an entry that was erased may crash the program.
Crash ==
  /\ owner.it = "dangling" \/ \E t \in Thread : th[t].it = "dangling"
  /\ th' = [s \in Thread |-> [th[s] EXCEPT !.pc = "crashed"]]
  /\ UNCHANGED Shared
-----------------------------------------------------------------------------
LastByte(t) == IF req[t].to = -1 THEN th[t].size - 1 ELSE req[t].to

RangeLength(t) == LastByte(t) - req[t].from + 1

\* What remains to be sent after the headers; it may be negative.
Promise(t) ==
  CASE th[t].reply = "404" -> 0
    [] th[t].reply = "200" -> th[t].size
    [] th[t].reply = "206" -> RangeLength(t)

\* bin_headers, bin_range_headers or not_found, and from and remain for the
\* loop.  Nothing looks at what send returned.
Headers(t) ==
  /\ At(t, "headers")
  /\ th' = [th EXCEPT ![t].pc = "read", ![t].promised = Promise(t), ![t].remain = Promise(t),
                      ![t].from = IF req[t].from = -1 THEN 0 ELSE req[t].from]
  /\ UNCHANGED Shared
-----------------------------------------------------------------------------
\* Faulty variant: from advances by what was asked for.
AdvanceByAsked(t, n) == th[t].from + Lesser(BufSize, th[t].remain)
Advance(t, n) == th[t].from + n

\* Faulty variant: all that remains, whether it fits in buf or not.
AvailableUnbounded(t) ==
  IF req[t].emulated THEN th[t].remain
  ELSE Lesser(th[t].remain, IF th[t].from < file THEN file - th[t].from ELSE 0)
\* numchars: memmove takes what remains, fread what the file has of it.
Available(t) ==
  IF req[t].emulated THEN Lesser(BufSize, th[t].remain)
  ELSE Lesser(Lesser(BufSize, th[t].remain), IF th[t].from < file THEN file - th[t].from ELSE 0)

\* One turn of the loop up to send: remain and from advance before it.
Read(t) ==
  /\ At(t, "read") /\ th[t].remain > 0
  /\ req[t].emulated \/ file # Gone
  /\ Available(t) > 0
  /\ LET n == Available(t) IN
     th' = [th EXCEPT ![t].pc = "send", ![t].n = n,
                      ![t].remain = @ - n, ![t].from = Advance(t, n)]
  /\ UNCHANGED Shared

\* Nothing read: the thread yields and tries again, for ever if need be.
ReadNothing(t) ==
  /\ At(t, "read") /\ th[t].remain > 0
  /\ ~req[t].emulated /\ file # Gone /\ Available(t) = 0
  /\ UNCHANGED vars

\* fopen fails.
Vanish(t) ==
  /\ At(t, "read") /\ th[t].remain > 0
  /\ ~req[t].emulated /\ file = Gone
  /\ th' = [th EXCEPT ![t].pc = "vanished"]
  /\ UNCHANGED Shared

Finish(t) ==
  /\ At(t, "read") /\ th[t].remain <= 0
  /\ th' = [th EXCEPT ![t].pc = "finished"]
  /\ UNCHANGED Shared

\* logged_send.  A blocking socket takes all of it, one that Kill has made nonblocking a
\* part.  The bytes sent are those before from.
Taken(t) == IF socket[t] = "open" THEN {th[t].n} ELSE 1..th[t].n

Send(t) ==
  /\ At(t, "send") /\ socket[t] # "shut"
  /\ \E ret \in Taken(t) :
       LET first == th[t].from - th[t].n IN
       th' = [th EXCEPT ![t].pc = "read", ![t].n = 0,
                        ![t].body = @ \o [i \in 1..ret |-> first + i - 1]]
  /\ UNCHANGED Shared

\* Faulty variant: the same bytes are tried again.
SendErrorRetried(t) ==
  /\ At(t, "send")
  /\ th' = [th EXCEPT ![t].pc = "read", ![t].n = 0,
                      ![t].remain = @ + th[t].n, ![t].from = @ - th[t].n]
  /\ UNCHANGED Shared
\* send fails: the peer has gone, the socket is shut, or would block.
SendError(t) ==
  /\ At(t, "send") /\ th' = [th EXCEPT ![t].pc = "broken", ![t].n = 0] /\ UNCHANGED Shared
-----------------------------------------------------------------------------
\* Kill, called for this request by the server thread when it stops.
SetNonblocking(t) ==
  /\ socket[t] = "open" /\ socket' = [socket EXCEPT ![t] = "nonblocking"]
  /\ UNCHANGED <<file, goal, registry, owner, req, th, accidents>>
Shutdown(t) ==
  /\ socket[t] = "nonblocking" /\ socket' = [socket EXCEPT ![t] = "shut"]
  /\ UNCHANGED <<file, goal, registry, owner, req, th, accidents>>

\* The owner, one call after the other, writes the file,
Grow ==
  /\ owner = NoCall /\ file # Gone /\ file < goal /\ file' = file + 1
  /\ UNCHANGED <<goal, registry, owner, socket, req, th, accidents>>

\* decides that it will be longer, and says so with RegisterIncompleteFile, or
\* declares it complete with RegisterFile: both look for the entry first,
LookUp(size) == owner' = [size |-> size, it |-> IF registry = None THEN "end" ELSE "valid"]
RegisterIncompleteFile ==
  /\ owner = NoCall /\ file # Gone
  /\ \E g \in Goals : g > goal /\ LookUp(g)
  /\ UNCHANGED <<file, goal, registry, socket, req, th, accidents>>
RegisterFile ==
  /\ owner = NoCall /\ file = goal /\ registry # Complete /\ LookUp(Complete)
  /\ UNCHANGED <<file, goal, registry, socket, req, th, accidents>>

\* and then insert one or assign to it.  An entry that was erased in between
\* takes the registration with it.
Store ==
  /\ owner # NoCall /\ owner' = NoCall
  /\ goal' = IF owner.size = Complete THEN goal ELSE owner.size
  /\ IF owner.it = "dangling"
     THEN /\ accidents' = accidents \cup (IF owner.size = Complete THEN {} ELSE {"registration lost"})
          /\ UNCHANGED <<registry, th>>
     ELSE /\ registry' = owner.size /\ UNCHANGED accidents
          /\ th' = IF owner.size = Complete THEN [s \in Thread |-> Overtaken(s, th[s].it)] ELSE th
  /\ UNCHANGED <<file, socket, req>>

\* Or it deletes the file.
Delete ==
  /\ owner = NoCall /\ file # Gone /\ file' = Gone
  /\ UNCHANGED <<goal, registry, owner, socket, req, th, accidents>>
-----------------------------------------------------------------------------
Serve(t) ==
  \/ Dispatch(t) \/ Stat(t) \/ Find(t) \/ Test(t) \/ Compare(t) \/ Take(t)
  \/ Erase(t) \/ EraseTwice(t) \/ Headers(t)
  \/ Read(t) \/ ReadNothing(t) \/ Vanish(t) \/ Finish(t) \/ Send(t) \/ SendError(t)

Owner == Grow \/ RegisterIncompleteFile \/ RegisterFile \/ Store \/ Delete

Ended(t) == th[t].pc \in Outcome
Crashed  == \E t \in Thread : At(t, "crashed")
Done     == (\A t \in Thread : Ended(t)) /\ UNCHANGED vars

Next ==
  \/ ~Crashed /\ (Owner \/ Crash \/ \E t \in Thread : Serve(t) \/ SetNonblocking(t) \/ Shutdown(t))
  \/ Done

\* A thread that is ready to run runs.  send may block for as long as the
\* peer does not read, until the socket is shut down.
Runs(t) == Serve(t) /\ (At(t, "send") \/ At(t, "headers") => socket[t] = "shut")

Spec == Init /\ [][Next]_vars /\ \A t \in Thread : WF_vars(~Crashed /\ Runs(t))
-----------------------------------------------------------------------------
\* The size that is used is the file's or one that its owner registered, never
\* a negative one, unless the request was overtaken in the middle of the lookup.
TypeOK ==
  /\ file \in {Gone} \cup 0..goal /\ goal \in Goals
  /\ registry \in {None, Complete} \cup 0..goal
  /\ owner.size \in {None, Complete} \cup Goals /\ owner.it \in {"end", "valid", "dangling"}
  /\ socket \in [Thread -> {"open", "nonblocking", "shut"}] /\ DOMAIN req = Thread
  /\ \A t \in Thread :
       /\ req[t] \in Requests[t]
       /\ th[t].pc \in {"dispatch", "stat", "erase", "headers", "read", "send"} \cup Looking \cup Outcome
       /\ th[t].n \in 0..BufSize /\ th[t].body \in Seq(Nat)
       /\ th[t].size \in Nat \/ (th[t].size \in Int /\ th[t].overtaken)
  /\ accidents \subseteq {"erased twice", "registered again", "registration lost"}

\* While Kill has not touched the socket, the body sent is what the resource
\* holds from the first byte asked for on, without a gap or a repetition, in
\* however many pieces a growing file was read.  Once Kill has begun, bytes
\* may be missing, but they never come out of order.
BodyInOrder ==
  \A t \in Thread : LET body == th[t].body IN
    /\ socket[t] = "open" =>
         \A i \in DOMAIN body : body[i] = (IF req[t].from = -1 THEN 0 ELSE req[t].from) + i - 1
    /\ \A i, j \in DOMAIN body : i < j => body[i] < body[j]

\* A request that ended by itself has sent exactly the Content-Length it
\* announced, although the size was read once and the file may have grown,
\* been registered anew or been taken out of the registry since.
FinishedIsWhole ==
  \A t \in Thread :
    At(t, "finished") /\ socket[t] = "open" => Len(th[t].body) = (IF th[t].promised > 0 THEN th[t].promised ELSE 0)

\* A result held in memory is never read behind its end, unless the request
\* itself names an end behind it: a first byte behind it reads nothing.
InsideBuffer ==
  \A t \in Thread :
    req[t].emulated /\ req[t].to < BufferSize => \A i \in DOMAIN th[t].body : th[t].body[i] < BufferSize

\* The body that serve_bin_file sends is the one its headers announced, byte
\* by byte, in length, and without a byte from behind a result in memory.
BodyAsAnnounced == BodyInOrder /\ FinishedIsWhole /\ InsideBuffer

\* The registration of a file that is not complete goes away in three ways
\* only: the owner registered it anew between a request's comparison and its
\* erase; a request erased the entry between the two halves of the owner's
\* call; or a second request erased it after the first, and hit a new entry.
RegistrationKept ==
  registry = None /\ file # Gone /\ file < goal => accidents # {}

\* What a range of a registered file is announced to be a part of is the size
\* its owner will write, however little of it there is yet and whatever is
\* registered between the three reads of the entry, unless a registration went
\* away or this request was overtaken.
AnnouncesGoal ==
  [][\A t \in Thread :
       th[t].pc \in Looking /\ ~th[t].overtaken /\ accidents = {} /\ th'[t].pc \in {"erase", "headers"}
         => th'[t].size = goal]_vars

\* Once its socket is shut down a request ends, unless it waits for bytes that
\* the file does not have.
Starving(t) == At(t, "read") /\ th[t].remain > 0 /\ ~req[t].emulated /\ Available(t) = 0
KilledEnds ==
  \A t \in Thread : socket[t] = "shut" ~> (Ended(t) \/ Starving(t))
=============================================================================
