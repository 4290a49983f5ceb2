--------------------------- MODULE ServeFileProofs ---------------------------
(***************************************************************************)
(* Proofs about ServeFile, for any set of threads, any requests, and any   *)
(* sizes of the file, of the result in memory and of the buffer, whatever  *)
(* an erased entry reads as.  The bytes a body has come to are tied to the *)
(* position of the loop by Position, and to what the headers announced by  *)
(* Account; Sized, Called, Held and Expected tell what the entry of the    *)
(* registry, and the iterators to it, have to do with the sizes in use.    *)
(***************************************************************************)
EXTENDS ServeFile, SequenceTheorems, TLAPS

Label == {"dispatch", "stat", "find", "test", "compare", "take", "erase", "headers", "read", "send"}
           \cup Outcome
Lookup   == Looking \cup {"erase"}
Iterator == {"end", "valid", "dangling"}
Local == [pc : Label, reply : {"none", "404", "200", "206"}, size : Int, it : Iterator, from : Int,
          remain : Int, n : 0..BufSize, promised : Int, body : Seq(Nat), overtaken : BOOLEAN]
Accident == {"erased twice", "registered again", "registration lost"}

\* The type invariant, with all the locals of a thread.
SharedOK ==
  /\ file \in {Gone} \cup 0..goal /\ goal \in Goals
  /\ registry \in {None, Complete} \cup 0..goal
  /\ owner \in [size : {None, Complete} \cup Goals, it : Iterator]
  /\ socket \in [Thread -> {"open", "nonblocking", "shut"}]
  /\ DOMAIN req = Thread /\ \A t \in Thread : req[t] \in Requests[t]
  /\ accidents \subseteq Accident
TInv == SharedOK /\ th \in [Thread -> Local]

\* Where the body of a request begins.
Start(t) == IF req[t].from = -1 THEN 0 ELSE req[t].from

\* The bytes sent stand before the position of the loop, and right up to it as
\* long as Kill has not begun.
PositionOf(t) ==
  /\ th[t].pc \in {"dispatch", "stat", "headers"} \cup Lookup => th[t].body = <<>>
  /\ th[t].pc \notin {"send", "crashed"} => th[t].n = 0
  /\ th[t].pc = "send" => th[t].n > 0
  /\ th[t].pc \in {"read", "send"} =>
       /\ th[t].from - th[t].n >= 0
       /\ \A i \in DOMAIN th[t].body : th[t].body[i] < th[t].from - th[t].n
       /\ socket[t] = "open" => th[t].from - th[t].n = Start(t) + Len(th[t].body)
Position == \A t \in Thread : PositionOf(t)

\* What was sent and what remains is what was announced.
AccountOf(t) ==
  th[t].pc \in {"read", "send"} =>
    /\ th[t].from + th[t].remain = Start(t) + th[t].promised
    /\ th[t].promised > 0 => th[t].remain >= 0
    /\ th[t].promised <= 0 => th[t].body = <<>> /\ th[t].pc = "read" /\ th[t].from = Start(t)
Account == \A t \in Thread : AccountOf(t)

\* What a thread will announce, or has announced, of a result in memory ends
\* where that does.
BoundOf(t) ==
  /\ th[t].pc \in Lookup => ~req[t].emulated /\ req[t].from # -1 /\ th[t].reply = "206"
  /\ th[t].pc = "headers" => th[t].reply \in {"404", "200", "206"}
  /\ req[t].emulated /\ th[t].pc = "headers" =>
       th[t].size = BufferSize /\ th[t].reply = IF req[t].from = -1 THEN "200" ELSE "206"
  /\ req[t].emulated /\ req[t].to < BufferSize /\ th[t].pc \in {"read", "send"} =>
       Start(t) + th[t].promised <= BufferSize
Bounded == \A t \in Thread : BoundOf(t)

\* The parts of BodyAsAnnounced, for one thread.
OrderOf(t) ==
  /\ socket[t] = "open" => \A i \in DOMAIN th[t].body : th[t].body[i] = Start(t) + i - 1
  /\ \A i, j \in DOMAIN th[t].body : i < j => th[t].body[i] < th[t].body[j]
WholeOf(t) ==
  At(t, "finished") /\ socket[t] = "open" =>
    Len(th[t].body) = IF th[t].promised > 0 THEN th[t].promised ELSE 0
InsideOf(t) ==
  req[t].emulated /\ req[t].to < BufferSize => \A i \in DOMAIN th[t].body : th[t].body[i] < BufferSize
Announced == \A t \in Thread : OrderOf(t) /\ WholeOf(t) /\ InsideOf(t)

\* A size read from the file is one the file still has, and an entry of the
\* registry is the size its owner will write.
SizeOf(t) ==
  /\ th[t].pc \in Lookup => th[t].size \in Nat /\ (file = Gone \/ th[t].size <= file)
  /\ th[t].size \in Nat \/ th[t].overtaken
Sized ==
  /\ registry \in {None, Complete, goal}
  /\ registry = Complete => file \in {goal, Gone}
  /\ \A t \in Thread : SizeOf(t)

\* The call of the owner that is under way: what it will store is right, and an
\* entry it has lost has not been registered again.
Called ==
  /\ owner.size = None => owner.it = "end"
  /\ owner.size \in Goals => owner.size > goal
  /\ owner.size = Complete => file = goal
  /\ owner.it = "dangling" => registry = None

\* The iterators of the threads: unless it was overtaken, a thread looks at the
\* entry itself, and it is not one of a complete file once that was tested.
HeldOf(t) ==
  /\ th[t].it = "valid" => registry # None
  /\ th[t].pc \in {"dispatch", "stat", "find"} => th[t].it = "end"
  /\ th[t].pc \in {"test", "compare", "take", "erase"} => th[t].it # "end"
  /\ th[t].pc \in {"test", "compare", "take"} /\ ~th[t].overtaken => th[t].it = "valid"
  /\ th[t].pc \in {"compare", "take"} /\ ~th[t].overtaken => registry # Complete
Held == \A t \in Thread : HeldOf(t)

\* Where the registry has no size, and none was taken away meanwhile, the one
\* a thread has read is the whole file's.
ExpectedOf(t) ==
  th[t].pc \in Looking /\ ~th[t].overtaken /\ accidents = {} /\ registry \in {None, Complete}
    => th[t].size = goal
Expected == \A t \in Thread : ExpectedOf(t)

\* The inductive invariant.
IInv ==
  /\ TInv /\ Position /\ Account /\ Bounded /\ Announced
  /\ Sized /\ Called /\ Held /\ Expected /\ RegistrationKept
-----------------------------------------------------------------------------
\* What RequestAssumption says of the request of a thread.
LEMMA RequestOf ==
  ASSUME SharedOK, NEW t \in Thread
  PROVE  /\ req[t].emulated \in BOOLEAN /\ req[t].from \in Int /\ req[t].to \in Int
         /\ req[t].from >= -1 /\ req[t].to >= -1 /\ Start(t) \in Nat
<1>1. /\ req[t] \in Requests[t]
      /\ Requests[t] \subseteq [emulated : BOOLEAN, from : Int, to : Int]
      /\ \A r \in Requests[t] : r.from >= -1 /\ r.to >= -1
  BY RequestAssumption DEF SharedOK
<1>2. req[t] \in [emulated : BOOLEAN, from : Int, to : Int] /\ req[t].from >= -1 /\ req[t].to >= -1
  BY <1>1
<1>3. QED
  BY <1>2 DEF Start

\* What a reply announces, without a body, with all of it and with a range.
LEMMA PromiseOf ==
  ASSUME TInv, NEW t \in Thread
  PROVE  /\ th[t].reply = "404" => Promise(t) = 0
         /\ th[t].reply = "200" => Promise(t) = th[t].size
         /\ th[t].reply = "206" =>
              Promise(t) = (IF req[t].to = -1 THEN th[t].size ELSE req[t].to + 1) - req[t].from
<1>1. th[t].reply = "404" => Promise(t) = 0
  BY Zenon DEF Promise
<1>2. th[t].reply = "200" => Promise(t) = th[t].size
  BY Zenon DEF Promise
<1>3. th[t].reply = "206" => Promise(t) = RangeLength(t)
  BY Zenon DEF Promise
<1>4. th[t].size \in Int /\ req[t].from \in Int /\ req[t].to \in Int
  BY RequestOf DEF TInv, Local
<1>5. RangeLength(t) = (IF req[t].to = -1 THEN th[t].size ELSE req[t].to + 1) - req[t].from
  BY <1>4 DEF RangeLength, LastByte
<1>6. QED
  BY <1>1, <1>2, <1>3, <1>5

\* A turn of the loop takes no more than the buffer holds and than remains.
LEMMA AvailableOf ==
  ASSUME TInv, NEW t \in Thread, th[t].remain > 0, th[t].from >= 0, req[t].emulated \/ file # Gone
  PROVE  Available(t) \in 0..BufSize /\ Available(t) <= th[t].remain
<1>1. /\ th[t].remain \in Int /\ th[t].from \in Int /\ BufSize \in Nat
      /\ file \in {Gone} \cup 0..goal /\ goal \in Nat
  BY SizeAssumption DEF TInv, SharedOK, Local
<1>2. QED
  BY <1>1 DEF Available, Lesser, Gone

\* What a send that takes ret bytes adds to a body.
LEMMA Extended ==
  ASSUME NEW body \in Seq(Nat), NEW first \in Nat, NEW ret \in Nat
  PROVE  LET longer == body \o [i \in 1..ret |-> first + i - 1] IN
         /\ longer \in Seq(Nat) /\ Len(longer) = Len(body) + ret
         /\ DOMAIN longer = 1..(Len(body) + ret) /\ DOMAIN body = 1..Len(body)
         /\ \A i \in 1..Len(body) : longer[i] = body[i]
         /\ \A i \in (Len(body) + 1)..(Len(body) + ret) : longer[i] = first + i - Len(body) - 1
<1> DEFINE piece == [i \in 1..ret |-> first + i - 1]
<1>1. piece \in [1..ret -> Nat]
  OBVIOUS
<1>2. piece \in Seq(Nat) /\ Len(piece) = ret
  BY <1>1, SeqDef
<1>3. Len(body) \in Nat /\ DOMAIN body = 1..Len(body)
  BY LenProperties
<1>4. /\ body \o piece \in Seq(Nat) /\ Len(body \o piece) = Len(body) + ret
      /\ \A i \in 1..(Len(body) + ret) :
           (body \o piece)[i] = IF i <= Len(body) THEN body[i] ELSE piece[i - Len(body)]
  BY <1>2, ConcatProperties
<1>5. DOMAIN (body \o piece) = 1..(Len(body) + ret)
  BY <1>4, LenProperties
<1>6. \A i \in (Len(body) + 1)..(Len(body) + ret) : piece[i - Len(body)] = first + (i - Len(body)) - 1
  BY <1>3
<1>7. QED
  BY <1>3, <1>4, <1>5, <1>6
-----------------------------------------------------------------------------
LEMMA TypeInit == Init => TInv
<1> SUFFICES ASSUME Init PROVE TInv
  OBVIOUS
<1>1. Idle \in Local
  <2>1. <<>> \in Seq(Nat)
    BY EmptySeq
  <2>2. QED
    BY <2>1, SizeAssumption DEF Idle, Local, Label, Iterator
<1>2. th \in [Thread -> Local]
  BY <1>1 DEF Init
<1>3. DOMAIN req = Thread /\ \A t \in Thread : req[t] \in Requests[t]
  BY DEF Init
<1>4. goal \in Goals /\ goal \in Nat /\ file \in 0..goal /\ registry \in {None} \cup 0..goal
  BY SizeAssumption DEF Init
<1>5. owner \in [size : {None, Complete} \cup Goals, it : Iterator]
  BY DEF Init, NoCall, Iterator
<1>6. QED
  BY <1>2, <1>3, <1>4, <1>5 DEF Init, TInv, SharedOK

\* TypeOK says a part of it.
LEMMA TypeImplied == TInv /\ Sized => TypeOK
<1> SUFFICES ASSUME TInv, Sized PROVE TypeOK
  OBVIOUS
<1>1. owner.size \in {None, Complete} \cup Goals /\ owner.it \in {"end", "valid", "dangling"}
  BY DEF TInv, SharedOK, Iterator
<1>2. \A t \in Thread :
        /\ th[t].pc \in {"dispatch", "stat", "erase", "headers", "read", "send"} \cup Looking \cup Outcome
        /\ th[t].n \in 0..BufSize /\ th[t].body \in Seq(Nat)
        /\ th[t].size \in Nat \/ (th[t].size \in Int /\ th[t].overtaken)
  BY DEF TInv, Local, Label, Looking, Sized, SizeOf
<1>3. QED
  BY <1>1, <1>2 DEF TInv, SharedOK, TypeOK, Accident

\* What a step writes into the locals of its thread has the types of Local.
LEMMA LocalStep ==
  ASSUME TInv, NEW t \in Thread, NEW loc \in Local, th' = [th EXCEPT ![t] = loc], UNCHANGED Shared
  PROVE  TInv'
BY DEF TInv, SharedOK, Shared

LEMMA LocalOf ==
  ASSUME TInv, NEW t \in Thread
  PROVE  /\ th[t] \in Local
         /\ {"dispatch", "stat", "find", "test", "compare", "take", "erase", "headers", "read", "send",
             "finished", "broken", "vanished", "crashed"} \subseteq Label
         /\ {"end", "valid", "dangling"} \subseteq Iterator /\ th[t].it \in {"end", "valid", "dangling"}
         /\ th[t].n \in 0..BufSize /\ 0 \in 0..BufSize
BY SizeAssumption DEF TInv, Label, Outcome, Local, Iterator

\* What becomes of the locals of a thread when an entry goes, and of an
\* iterator.
LEMMA OvertakenOf ==
  ASSUME TInv, NEW s \in Thread, NEW it \in Iterator
  PROVE  /\ Overtaken(s, it) \in Local /\ Overtaken(s, it).it = it
         /\ Overtaken(s, it).overtaken = (th[s].overtaken \/ th[s].pc \in Looking)
         /\ \E b \in BOOLEAN : Overtaken(s, it) = [th[s] EXCEPT !.it = it, !.overtaken = b]
<1> DEFINE b == th[s].overtaken \/ th[s].pc \in Looking
<1>1. b \in BOOLEAN
  BY Zenon
<1>2. Overtaken(s, it) = [th[s] EXCEPT !.it = it, !.overtaken = b]
  BY DEF Overtaken
<1> HIDE DEF b
<1>3. [th[s] EXCEPT !.it = it, !.overtaken = b] \in Local
  BY <1>1, LocalOf DEF Local
<1>4. [th[s] EXCEPT !.it = it, !.overtaken = b].it = it
      /\ [th[s] EXCEPT !.it = it, !.overtaken = b].overtaken = b
  BY LocalOf DEF Local
<1>5. QED
  BY <1>1, <1>2, <1>3, <1>4 DEF b

LEMMA StaleOf ==
  ASSUME NEW it \in Iterator
  PROVE  Stale(it) \in Iterator /\ Stale(it) # "valid" /\ (Stale(it) = "end" <=> it = "end")
BY DEF Stale, Iterator

\* An entry goes: what happens to the shared state and to every thread.
LEMMA ErasedTypes ==
  ASSUME TInv, NEW t \in Thread, Erased(t)
  PROVE  /\ th' \in [Thread -> Local] /\ registry' = None
         /\ owner' = [owner EXCEPT !.it = Stale(@)]
         /\ owner' \in [size : {None, Complete} \cup Goals, it : Iterator]
         /\ th'[t] = [th[t] EXCEPT !.pc = "headers", !.it = "end"]
         /\ \A s \in Thread : s # t => th'[s] = Overtaken(s, Stale(th[s].it))
<1>1. \A s \in Thread : Overtaken(s, Stale(th[s].it)) \in Local
  BY LocalOf, StaleOf, OvertakenOf
<1>2. [th[t] EXCEPT !.pc = "headers", !.it = "end"] \in Local
  BY LocalOf DEF Local
<1>3. th' = [s \in Thread |-> IF s = t THEN [th[t] EXCEPT !.pc = "headers", !.it = "end"]
                                       ELSE Overtaken(s, Stale(th[s].it))]
      /\ registry' = None /\ owner' = [owner EXCEPT !.it = Stale(@)]
  BY DEF Erased
<1>4. owner' \in [size : {None, Complete} \cup Goals, it : Iterator]
  BY <1>3, StaleOf DEF TInv, SharedOK
<1>5. QED
  BY <1>1, <1>2, <1>3, <1>4

\* Steps of the other parties leave the locals alone, but for the iterator and
\* the ghost.
LEMMA TypeNext == TInv /\ Position /\ Bounded /\ Called /\ [Next]_vars => TInv'
<1> SUFFICES ASSUME TInv, Position, Bounded, Called, [Next]_vars PROVE TInv'
  OBVIOUS
<1>0. /\ SharedOK /\ th \in [Thread -> Local] /\ Goals \subseteq Nat /\ goal \in Nat /\ BufferSize \in Nat
  BY SizeAssumption DEF TInv, SharedOK
<1>a. (file = Gone \/ file \in 0..goal) /\ (registry \in {None, Complete} \/ registry \in 0..goal)
  BY <1>0 DEF SharedOK
<1>b. NoCall \in [size : {None, Complete} \cup Goals, it : Iterator]
  BY DEF NoCall, Iterator
<1>c. None = -2 /\ Complete = -1 /\ Gone = -1 /\ registry \in Int
  BY <1>0, <1>a DEF None, Complete, Gone
<1>1. CASE UNCHANGED vars
  BY <1>0, <1>1 DEF vars, TInv, SharedOK
<1>2. ASSUME NEW t \in Thread, SetNonblocking(t) \/ Shutdown(t) PROVE TInv'
  BY <1>0, <1>2 DEF SetNonblocking, Shutdown, TInv, SharedOK
<1>3. CASE Grow
  <2>1. file' \in 0..goal
    BY <1>0, <1>a, <1>3 DEF Grow
  <2>2. UNCHANGED <<goal, registry, owner, socket, req, th, accidents>>
    BY <1>3 DEF Grow
  <2>3. QED
    BY <1>0, <2>1, <2>2 DEF TInv, SharedOK
<1>4. CASE RegisterIncompleteFile \/ RegisterFile
  <2>1. PICK size \in {None, Complete} \cup Goals : LookUp(size)
    BY <1>4 DEF RegisterIncompleteFile, RegisterFile
  <2>2. owner' \in [size : {None, Complete} \cup Goals, it : Iterator]
    BY <2>1 DEF LookUp, Iterator
  <2>3. UNCHANGED <<file, goal, registry, socket, req, th, accidents>>
    BY <1>4 DEF RegisterIncompleteFile, RegisterFile
  <2>4. QED
    BY <1>0, <2>2, <2>3 DEF TInv, SharedOK
<1>5. CASE Store
  <2>1. owner' = NoCall /\ UNCHANGED <<file, socket, req>>
    BY <1>5 DEF Store
  <2>2. owner.size \in {None, Complete} \cup Goals /\ owner.size # None
    BY <1>0, <1>5 DEF Store, Called, SharedOK, NoCall
  <2>3. goal' = (IF owner.size = Complete THEN goal ELSE owner.size) /\ goal' \in Goals
    BY <1>0, <1>5, <2>2 DEF Store, SharedOK
  <2>4. goal' \in Nat /\ goal' >= goal
    BY <1>0, <1>c, <2>2, <2>3 DEF Called
  <2>5. accidents' \subseteq Accident
    <3>1. \/ accidents' = accidents
          \/ accidents' = accidents \cup {}
          \/ accidents' = accidents \cup {"registration lost"}
      BY <1>5, Zenon DEF Store
    <3>2. QED
      BY <1>0, <3>1 DEF SharedOK, Accident
  <2>6. registry' \in {registry, owner.size}
    BY <1>5 DEF Store
  <2>7. registry' \in {None, Complete} \cup 0..goal'
    <3>1. CASE registry' = registry
      BY <1>0, <1>a, <1>c, <2>4, <3>1
    <3>2. CASE registry' = owner.size
      BY <2>2, <2>3, <2>4, <3>2
    <3>3. QED
      BY <2>6, <3>1, <3>2
  <2>8. file' \in {Gone} \cup 0..goal'
    BY <1>0, <1>a, <2>1, <2>4
  <2>9. th' \in [Thread -> Local]
    <3>1. \A s \in Thread : Overtaken(s, th[s].it) \in Local
      BY LocalOf, OvertakenOf
    <3>2. th' \in {th, [s \in Thread |-> Overtaken(s, th[s].it)]}
      BY <1>5 DEF Store
    <3>3. QED
      BY <1>0, <3>1, <3>2
  <2>10. QED
    BY <1>0, <1>b, <2>1, <2>3, <2>5, <2>7, <2>8, <2>9 DEF TInv, SharedOK
<1>6. CASE Delete
  BY <1>0, <1>6 DEF Delete, TInv, SharedOK
<1>7. ASSUME NEW t \in Thread, Dispatch(t) PROVE TInv'
  <2> DEFINE loc == IF req[t].emulated \/ file # Gone THEN [th[t] EXCEPT !.pc = "stat"]
                    ELSE [th[t] EXCEPT !.pc = "headers", !.reply = "404"]
  <2>1. loc \in Local
    BY LocalOf DEF Local
  <2>2. th' = [th EXCEPT ![t] = loc] /\ UNCHANGED Shared
    BY <1>0, <1>7 DEF Dispatch, NotFound
  <2>3. QED
    BY <2>1, <2>2, LocalStep
<1>8. ASSUME NEW t \in Thread, Stat(t) PROVE TInv'
  <2> DEFINE size == IF req[t].emulated THEN BufferSize ELSE file
             loc == IF ~req[t].emulated /\ file = Gone
                    THEN [th[t] EXCEPT !.pc = "headers", !.reply = "404"]
                    ELSE [th[t] EXCEPT !.size = size,
                                       !.reply = IF req[t].from = -1 THEN "200" ELSE "206",
                                       !.pc = IF req[t].from = -1 \/ req[t].emulated THEN "headers" ELSE "find"]
  <2>1. size \in Int
    BY <1>0, <1>a, <1>c
  <2>2. loc \in Local
    <3> DEFINE reply == IF req[t].from = -1 THEN "200" ELSE "206"
               label == IF req[t].from = -1 \/ req[t].emulated THEN "headers" ELSE "find"
    <3>1. reply \in {"200", "206"} /\ label \in {"headers", "find"}
      OBVIOUS
    <3>2. [th[t] EXCEPT !.pc = "headers", !.reply = "404"] \in Local
      BY LocalOf DEF Local
    <3> HIDE DEF size, reply, label
    <3>3. [th[t] EXCEPT !.size = size, !.reply = reply, !.pc = label] \in Local
      BY <2>1, <3>1, LocalOf DEF Local
    <3>4. QED
      BY <3>2, <3>3 DEF reply, label
  <2>3. th' = [th EXCEPT ![t] = loc] /\ UNCHANGED Shared
    BY <1>0, <1>8 DEF Stat, NotFound
  <2>4. QED
    BY <2>2, <2>3, LocalStep
<1>9. ASSUME NEW t \in Thread, Find(t) \/ Test(t) \/ Compare(t) \/ Take(t) PROVE TInv'
  <2>1. \A seen \in Seen(t) : seen \in Int
    BY <1>c, SizeAssumption DEF Seen
  <2>2. \E l \in {"test", "compare", "take", "erase", "headers"}, it \in Iterator, size \in Int :
          th' = [th EXCEPT ![t] = [th[t] EXCEPT !.pc = l, !.it = it, !.size = size]]
    <3>1. th[t] \in Local /\ th[t].it \in Iterator /\ th[t].size \in Int /\ {"end", "valid"} \subseteq Iterator
      BY LocalOf DEF Local, Iterator
    <3>2. CASE Find(t)
      <4>1. PICK l \in {"test", "headers"}, it \in {th[t].it, "valid"} :
              th' = [th EXCEPT ![t] = [th[t] EXCEPT !.pc = l, !.it = it, !.size = th[t].size]]
        BY <1>0, <3>1, <3>2 DEF Find, Local
      <4>2. l \in {"test", "compare", "take", "erase", "headers"} /\ it \in Iterator
        BY <3>1, <4>1
      <4>3. QED
        BY <3>1, <4>1, <4>2, Zenon
    <3>3. CASE Test(t)
      <4>1. PICK l \in {"compare", "headers"}, it \in {th[t].it, "end"} :
              th' = [th EXCEPT ![t] = [th[t] EXCEPT !.pc = l, !.it = it, !.size = th[t].size]]
        BY <1>0, <3>1, <3>3 DEF Test, Local
      <4>2. l \in {"test", "compare", "take", "erase", "headers"} /\ it \in Iterator
        BY <3>1, <4>1
      <4>3. QED
        BY <3>1, <4>1, <4>2, Zenon
    <3>4. CASE Compare(t)
      <4>1. PICK l \in {"erase", "take"} :
              th' = [th EXCEPT ![t] = [th[t] EXCEPT !.pc = l, !.it = th[t].it, !.size = th[t].size]]
        BY <1>0, <3>1, <3>4 DEF Compare, Local
      <4>2. QED
        BY <3>1, <4>1, Zenon
    <3>5. CASE Take(t)
      <4>1. PICK size \in Seen(t) :
              th' = [th EXCEPT ![t].pc = "headers", ![t].it = "end", ![t].size = size]
        BY <3>5 DEF Take
      <4>2. th' = [th EXCEPT ![t] = [th[t] EXCEPT !.pc = "headers", !.it = "end", !.size = size]]
        BY <1>0, <4>1
      <4>3. size \in Int
        BY <2>1
      <4>4. QED
        BY <3>1, <4>2, <4>3, Zenon
    <3>6. QED
      BY <1>9, <3>2, <3>3, <3>4, <3>5
  <2>3. PICK l \in {"test", "compare", "take", "erase", "headers"}, it \in Iterator, size \in Int :
          th' = [th EXCEPT ![t] = [th[t] EXCEPT !.pc = l, !.it = it, !.size = size]]
    BY <2>2
  <2>4. [th[t] EXCEPT !.pc = l, !.it = it, !.size = size] \in Local
    BY LocalOf DEF Local
  <2>5. UNCHANGED Shared
    BY <1>9 DEF Find, Test, Compare, Take
  <2>6. QED
    BY <2>3, <2>4, <2>5, LocalStep
<1>10. ASSUME NEW t \in Thread, Erase(t) \/ EraseTwice(t) PROVE TInv'
  <2>1. UNCHANGED <<file, goal, socket, req>> /\ accidents' \subseteq Accident
    BY <1>0, <1>10 DEF Erase, EraseTwice, SharedOK, Accident
  <2>2. CASE Erased(t)
    BY <1>0, <2>1, <2>2, ErasedTypes DEF TInv, SharedOK
  <2>3. CASE /\ th' = [th EXCEPT ![t].pc = "headers", ![t].it = "end"]
             /\ UNCHANGED <<registry, owner, accidents>>
    <3>1. [th[t] EXCEPT !.pc = "headers", !.it = "end"] \in Local
      BY LocalOf DEF Local
    <3>2. th' = [th EXCEPT ![t] = [th[t] EXCEPT !.pc = "headers", !.it = "end"]]
      BY <1>0, <2>3
    <3>3. QED
      BY <2>1, <2>3, <3>1, <3>2, LocalStep DEF Shared
  <2>4. QED
    BY <1>10, <2>2, <2>3 DEF Erase, EraseTwice
<1>11. CASE Crash
  <2>1. \A s \in Thread : [th[s] EXCEPT !.pc = "crashed"] \in Local
    BY LocalOf DEF Local
  <2>2. th' \in [Thread -> Local] /\ UNCHANGED Shared
    BY <1>11, <2>1 DEF Crash
  <2>3. QED
    BY <1>0, <2>2 DEF TInv, SharedOK, Shared
<1>12. ASSUME NEW t \in Thread, Headers(t) PROVE TInv'
  <2> DEFINE loc == [th[t] EXCEPT !.pc = "read", !.promised = Promise(t), !.remain = Promise(t),
                                  !.from = IF req[t].from = -1 THEN 0 ELSE req[t].from]
  <2>1. Promise(t) \in Int /\ (IF req[t].from = -1 THEN 0 ELSE req[t].from) \in Int
    BY <1>0, <1>12, PromiseOf, RequestOf DEF Local, Headers, At, Bounded, BoundOf
  <2>2. loc \in Local
    BY <2>1, LocalOf DEF Local
  <2>3. th' = [th EXCEPT ![t] = loc] /\ UNCHANGED Shared
    BY <1>0, <1>12 DEF Headers
  <2>4. QED
    BY <2>2, <2>3, LocalStep
<1>13. ASSUME NEW t \in Thread, Read(t) PROVE TInv'
  <2> DEFINE n == Available(t)
             loc == [th[t] EXCEPT !.pc = "send", !.n = n, !.remain = @ - n, !.from = Advance(t, n)]
  <2>1. th[t].from \in Int /\ th[t].remain \in Int /\ th[t].from >= 0
    BY <1>0, <1>13 DEF Read, Position, PositionOf, Local, At
  <2>2. n \in 0..BufSize
    BY <1>13, <2>1, AvailableOf DEF Read
  <2>3. th[t].remain - n \in Int /\ Advance(t, n) \in Int
    BY <2>1, <2>2, SizeAssumption DEF Advance
  <2>4. loc \in Local
    <3> HIDE DEF n
    <3> QED
      BY <2>2, <2>3, LocalOf DEF Local
  <2>5. th' = [th EXCEPT ![t] = loc] /\ UNCHANGED Shared
    BY <1>0, <1>13 DEF Read
  <2>6. QED
    BY <2>4, <2>5, LocalStep
<1>14. ASSUME NEW t \in Thread, ReadNothing(t) PROVE TInv'
  BY <1>0, <1>14 DEF ReadNothing, vars, TInv, SharedOK
<1>15. ASSUME NEW t \in Thread, Vanish(t) \/ Finish(t) \/ SendError(t) PROVE TInv'
  <2>1. PICK l \in Label : \/ th' = [th EXCEPT ![t] = [th[t] EXCEPT !.pc = l]]
                           \/ th' = [th EXCEPT ![t] = [th[t] EXCEPT !.pc = l, !.n = 0]]
    <3>1. "vanished" \in Label /\ "finished" \in Label /\ "broken" \in Label
      BY LocalOf
    <3>2. CASE Vanish(t)
      BY <3>1, <3>2, Zenon DEF Vanish
    <3>3. CASE Finish(t)
      BY <3>1, <3>3, Zenon DEF Finish
    <3>4. CASE SendError(t)
      <4>1. th' = [th EXCEPT ![t] = [th[t] EXCEPT !.pc = "broken", !.n = 0]]
        BY <3>4 DEF SendError
      <4>2. QED
        BY <3>1, <4>1, Zenon
    <3>5. QED
      BY <1>15, <3>2, <3>3, <3>4
  <2>2. [th[t] EXCEPT !.pc = l] \in Local /\ [th[t] EXCEPT !.pc = l, !.n = 0] \in Local
    BY LocalOf DEF Local
  <2>3. UNCHANGED Shared
    BY <1>15 DEF Vanish, Finish, SendError
  <2>4. QED
    BY <2>1, <2>2, <2>3, LocalStep
<1>16. ASSUME NEW t \in Thread, Send(t) PROVE TInv'
  <2> DEFINE first == th[t].from - th[t].n
  <2>1. PICK ret \in Taken(t) :
          th' = [th EXCEPT ![t].pc = "read", ![t].n = 0,
                           ![t].body = @ \o [i \in 1..ret |-> first + i - 1]]
    BY <1>16 DEF Send
  <2>2. th[t].from \in Int /\ th[t].n \in Nat /\ first >= 0 /\ th[t].body \in Seq(Nat)
    BY <1>0, <1>16, SizeAssumption DEF Send, Position, PositionOf, At, Local
  <2>3. ret \in Nat /\ first \in Nat
    BY <2>2 DEF Taken
  <2> DEFINE longer == th[t].body \o [i \in 1..ret |-> first + i - 1]
             loc == [th[t] EXCEPT !.pc = "read", !.n = 0, !.body = longer]
  <2>4. longer \in Seq(Nat)
    BY <2>2, <2>3, Extended
  <2>5. loc \in Local
    <3> HIDE DEF longer
    <3> QED
      BY <2>4, LocalOf DEF Local
  <2>6. th' = [th EXCEPT ![t] = loc]
    BY <1>0, <2>1
  <2>7. QED
    BY <1>16, <2>5, <2>6, LocalStep DEF Send
<1>17. QED
  BY <1>1, <1>2, <1>3, <1>4, <1>5, <1>6, <1>7, <1>8, <1>9, <1>10, <1>11, <1>12, <1>13, <1>14, <1>15, <1>16
  DEF Next, Owner, Serve, Done
-----------------------------------------------------------------------------
\* What a step leaves of the locals of a thread that does not take it; the
\* deletion of an entry of the registry concerns all of them, and so does a
\* crash.
Leaves(s) ==
  \/ th'[s] = th[s]
  \/ th[s].pc = "erase" /\ th'[s] = [th[s] EXCEPT !.pc = "headers", !.it = "end"]
  \/ th'[s] = [th[s] EXCEPT !.pc = "crashed"]
Bystander(s) == Leaves(s) \/ \E it \in Iterator : th'[s] = Overtaken(s, it)
LooksUp(s) == Find(s) \/ Test(s) \/ Compare(s) \/ Take(s)
Moves(s) ==
  \/ Dispatch(s) \/ Stat(s) \/ LooksUp(s) \/ Headers(s)
  \/ Read(s) \/ Vanish(s) \/ Finish(s) \/ Send(s) \/ SendError(s)

LEMMA Effects ==
  ASSUME TInv, [Next]_vars, NEW s \in Thread
  PROVE  /\ req' = req /\ (socket'[s] = "open" => socket[s] = "open")
         /\ Bystander(s) \/ (Moves(s) /\ socket' = socket)
<1> USE DEF Bystander, Leaves
<1>0. th \in [Thread -> Local] /\ socket \in [Thread -> {"open", "nonblocking", "shut"}]
  BY DEF TInv, SharedOK
<1>1. CASE UNCHANGED vars
  BY <1>1 DEF vars
<1>2. ASSUME NEW t \in Thread, SetNonblocking(t) \/ Shutdown(t)
      PROVE  req' = req /\ th' = th /\ (socket'[s] = "open" => socket[s] = "open")
  BY <1>0, <1>2 DEF SetNonblocking, Shutdown
<1>3. CASE Grow \/ RegisterIncompleteFile \/ RegisterFile \/ Delete
  BY <1>3 DEF Grow, RegisterIncompleteFile, RegisterFile, Delete
<1>4. CASE Store
  <2>1. th' = th \/ th' = [r \in Thread |-> Overtaken(r, th[r].it)]
    BY <1>4 DEF Store
  <2>2. th'[s] = th[s] \/ th'[s] = Overtaken(s, th[s].it)
    BY <2>1, Zenon
  <2>3. QED
    BY <1>4, <2>2, LocalOf DEF Store
<1>5. ASSUME NEW t \in Thread, Erase(t) \/ EraseTwice(t)
      PROVE  req' = req /\ socket' = socket /\ Bystander(s)
  <2>1. UNCHANGED <<req, socket>> /\ th[t].pc = "erase"
    BY <1>5 DEF Erase, EraseTwice, At
  <2>2. CASE Erased(t)
    <3>1. CASE s = t
      BY <2>1, <2>2, <3>1, ErasedTypes
    <3>2. CASE s # t
      <4>1. th'[s] = Overtaken(s, Stale(th[s].it)) /\ Stale(th[s].it) \in Iterator
        BY <2>2, <3>2, ErasedTypes, StaleOf, LocalOf
      <4>2. QED
        BY <2>1, <4>1
    <3>3. QED
      BY <3>1, <3>2
  <2>3. CASE th' = [th EXCEPT ![t].pc = "headers", ![t].it = "end"]
    BY <1>0, <2>1, <2>3
  <2>4. QED
    BY <1>5, <2>2, <2>3 DEF Erase, EraseTwice
<1>6. ASSUME NEW t \in Thread, Moves(t)
      PROVE  req' = req /\ socket' = socket /\ (t # s => th'[s] = th[s])
  BY <1>0, <1>6
  DEF Moves, LooksUp, Shared, Dispatch, NotFound, Stat, Find, Test, Compare, Take, Headers, Read, Vanish,
      Finish, Send, SendError
<1>7. ASSUME NEW t \in Thread, ReadNothing(t) PROVE UNCHANGED vars
  BY <1>7 DEF ReadNothing
<1>8. CASE Crash
  <2>1. th' = [r \in Thread |-> [th[r] EXCEPT !.pc = "crashed"]] /\ UNCHANGED Shared
    BY <1>8 DEF Crash
  <2>2. QED
    BY <2>1 DEF Shared
<1>9. QED
  BY <1>1, <1>2, <1>3, <1>4, <1>5, <1>6, <1>7, <1>8 DEF Next, Owner, Serve, Moves, LooksUp, Done

\* What it leaves, in terms of the locals.
LEMMA BystanderLocals ==
  ASSUME TInv, NEW s \in Thread, Bystander(s)
  PROVE  /\ th'[s].body = th[s].body /\ th'[s].n = th[s].n /\ th'[s].from = th[s].from
         /\ th'[s].remain = th[s].remain /\ th'[s].promised = th[s].promised
         /\ th'[s].size = th[s].size /\ th'[s].reply = th[s].reply
         /\ th[s].overtaken => th'[s].overtaken
         /\ \/ th'[s].pc = th[s].pc \/ th'[s].pc = "crashed"
            \/ th[s].pc = "erase" /\ th'[s].pc = "headers"
<1>1. CASE Leaves(s)
  BY <1>1, LocalOf DEF Leaves, Local
<1>2. ASSUME NEW it \in Iterator, th'[s] = Overtaken(s, it)
      PROVE  /\ th'[s].body = th[s].body /\ th'[s].n = th[s].n /\ th'[s].from = th[s].from
             /\ th'[s].remain = th[s].remain /\ th'[s].promised = th[s].promised
             /\ th'[s].size = th[s].size /\ th'[s].reply = th[s].reply /\ th'[s].pc = th[s].pc
             /\ th[s].overtaken => th'[s].overtaken
  <2>0. it \in Iterator
    BY <1>2
  <2>a. \E b \in BOOLEAN : Overtaken(s, it) = [th[s] EXCEPT !.it = it, !.overtaken = b]
    BY <2>0, OvertakenOf, Zenon
  <2>b. Overtaken(s, it).overtaken = (th[s].overtaken \/ th[s].pc \in Looking)
    BY <2>0, OvertakenOf, Zenon
  <2>1. PICK b \in BOOLEAN : th'[s] = [th[s] EXCEPT !.it = it, !.overtaken = b]
    BY <1>2, <2>a, Zenon
  <2>2. th'[s].overtaken = (th[s].overtaken \/ th[s].pc \in Looking)
    BY <1>2, <2>b, Zenon
  <2>3. QED
    BY <2>1, <2>2, LocalOf DEF Local
<1>3. QED
  BY <1>1, <1>2 DEF Bystander

\* The locals after a step of the thread itself.
LEMMA MoverLocals ==
  ASSUME TInv, NEW s \in Thread
  PROVE  /\ Dispatch(s) => /\ th[s].pc = "dispatch"
                           /\ \/ th'[s] = [th[s] EXCEPT !.pc = "stat"]
                              \/ ~req[s].emulated /\ th'[s] = [th[s] EXCEPT !.pc = "headers", !.reply = "404"]
         /\ Vanish(s) => th[s].pc = "read" /\ th'[s] = [th[s] EXCEPT !.pc = "vanished"]
         /\ Finish(s) => th[s].pc = "read" /\ th[s].remain <= 0 /\ th'[s] = [th[s] EXCEPT !.pc = "finished"]
         /\ SendError(s) => th[s].pc = "send" /\ th'[s] = [th[s] EXCEPT !.pc = "broken", !.n = 0]
         /\ Headers(s) => /\ th[s].pc = "headers"
                          /\ th'[s] = [th[s] EXCEPT !.pc = "read", !.promised = Promise(s), !.remain = Promise(s),
                                                    !.from = IF req[s].from = -1 THEN 0 ELSE req[s].from]
BY DEF TInv, At, Dispatch, NotFound, Vanish, Finish, SendError, Headers

\* The same for the lookup, where an entry reads as what was registered unless
\* it was erased.
LEMMA FindLocals ==
  ASSUME TInv, NEW s \in Thread, Find(s)
  PROVE  /\ th[s].pc = "find"
         /\ \/ registry = None /\ th'[s] = [th[s] EXCEPT !.pc = "headers"]
            \/ registry # None /\ th'[s] = [th[s] EXCEPT !.pc = "test", !.it = "valid"]
BY DEF TInv, At, Find

LEMMA TestLocals ==
  ASSUME TInv, NEW s \in Thread, Test(s)
  PROVE  /\ th[s].pc = "test"
         /\ \E seen \in Seen(s) :
              \/ seen = Complete /\ th'[s] = [th[s] EXCEPT !.pc = "headers", !.it = "end"]
              \/ seen # Complete /\ th'[s] = [th[s] EXCEPT !.pc = "compare"]
<1>1. PICK seen \in Seen(s) :
        th' = IF seen = Complete THEN [th EXCEPT ![s].pc = "headers", ![s].it = "end"]
                                 ELSE [th EXCEPT ![s].pc = "compare"]
  BY DEF Test
<1>2. th[s].pc = "test" /\ th \in [Thread -> Local]
  BY DEF Test, At, TInv
<1>3. QED
  BY <1>1, <1>2

LEMMA CompareLocals ==
  ASSUME TInv, NEW s \in Thread, Compare(s)
  PROVE  /\ th[s].pc = "compare"
         /\ \E seen \in Seen(s) :
              \/ seen = th[s].size /\ th'[s] = [th[s] EXCEPT !.pc = "erase"]
              \/ seen # th[s].size /\ th'[s] = [th[s] EXCEPT !.pc = "take"]
<1>1. PICK seen \in Seen(s) : th' = [th EXCEPT ![s].pc = IF seen = th[s].size THEN "erase" ELSE "take"]
  BY DEF Compare
<1>2. th[s].pc = "compare" /\ th \in [Thread -> Local]
  BY DEF Compare, At, TInv
<1>3. QED
  BY <1>1, <1>2

LEMMA TakeLocals ==
  ASSUME TInv, NEW s \in Thread, Take(s)
  PROVE  /\ th[s].pc = "take"
         /\ \E seen \in Seen(s) : th'[s] = [th[s] EXCEPT !.pc = "headers", !.it = "end", !.size = seen]
<1>1. PICK seen \in Seen(s) : th' = [th EXCEPT ![s].pc = "headers", ![s].it = "end", ![s].size = seen]
  BY DEF Take
<1>2. th[s].pc = "take" /\ th \in [Thread -> Local]
  BY DEF Take, At, TInv
<1>3. QED
  BY <1>1, <1>2

\* What the four have in common.
LEMMA LookupFields ==
  ASSUME TInv, NEW s \in Thread, LooksUp(s)
  PROVE  /\ th[s].pc \in Looking /\ th'[s].pc \in {"test", "compare", "take", "erase", "headers"}
         /\ th'[s].body = th[s].body /\ th'[s].n = th[s].n /\ th'[s].from = th[s].from
         /\ th'[s].remain = th[s].remain /\ th'[s].promised = th[s].promised
         /\ th'[s].reply = th[s].reply /\ th'[s].overtaken = th[s].overtaken
         /\ th'[s].size = th[s].size \/ Take(s)
<1>0. th[s] \in Local /\ {"find", "test", "compare", "take"} \subseteq Looking
  BY LocalOf DEF Looking
<1>1. CASE Find(s)
  <2>1. /\ th[s].pc = "find"
        /\ \/ th'[s] = [th[s] EXCEPT !.pc = "headers"]
           \/ th'[s] = [th[s] EXCEPT !.pc = "test", !.it = "valid"]
    BY <1>1, FindLocals, Zenon
  <2>2. QED
    BY <1>0, <2>1 DEF Local
<1>2. CASE Test(s)
  <2>1. /\ th[s].pc = "test"
        /\ \/ th'[s] = [th[s] EXCEPT !.pc = "headers", !.it = "end"]
           \/ th'[s] = [th[s] EXCEPT !.pc = "compare"]
    BY <1>2, TestLocals, Zenon
  <2>2. QED
    BY <1>0, <2>1 DEF Local
<1>3. CASE Compare(s)
  <2>1. /\ th[s].pc = "compare"
        /\ \/ th'[s] = [th[s] EXCEPT !.pc = "erase"]
           \/ th'[s] = [th[s] EXCEPT !.pc = "take"]
    BY <1>3, CompareLocals, Zenon
  <2>2. QED
    BY <1>0, <2>1 DEF Local
<1>4. CASE Take(s)
  <2>1. PICK seen \in Seen(s) : th'[s] = [th[s] EXCEPT !.pc = "headers", !.it = "end", !.size = seen]
    BY <1>4, TakeLocals, Zenon
  <2>2. th[s].pc = "take"
    BY <1>4, TakeLocals
  <2>3. QED
    BY <1>0, <1>4, <2>1, <2>2 DEF Local
<1>5. QED
  BY <1>1, <1>2, <1>3, <1>4 DEF LooksUp

\* The same for Stat, Read and Send.
LEMMA StatLocals ==
  ASSUME TInv, NEW s \in Thread, Stat(s)
  PROVE  /\ th[s].pc = "stat"
         /\ \/ ~req[s].emulated /\ th'[s] = [th[s] EXCEPT !.pc = "headers", !.reply = "404"]
            \/ /\ th'[s] = [th[s] EXCEPT !.size = IF req[s].emulated THEN BufferSize ELSE file,
                                        !.reply = IF req[s].from = -1 THEN "200" ELSE "206",
                                        !.pc = IF req[s].from = -1 \/ req[s].emulated THEN "headers" ELSE "find"]
               /\ req[s].emulated \/ file # Gone
BY DEF TInv, At, Stat, NotFound

LEMMA StatFields ==
  ASSUME TInv, NEW s \in Thread, Stat(s)
  PROVE  /\ th[s].pc = "stat" /\ th'[s].body = th[s].body /\ th'[s].n = th[s].n
         /\ \/ ~req[s].emulated /\ th'[s].pc = "headers" /\ th'[s].reply = "404"
            \/ /\ th'[s].size = IF req[s].emulated THEN BufferSize ELSE file
               /\ th'[s].reply = IF req[s].from = -1 THEN "200" ELSE "206"
               /\ th'[s].pc = IF req[s].from = -1 \/ req[s].emulated THEN "headers" ELSE "find"
               /\ req[s].emulated \/ file # Gone
<1>1. CASE ~req[s].emulated /\ th'[s] = [th[s] EXCEPT !.pc = "headers", !.reply = "404"]
  BY <1>1, StatLocals, LocalOf DEF Local
<1> DEFINE size == IF req[s].emulated THEN BufferSize ELSE file
           reply == IF req[s].from = -1 THEN "200" ELSE "206"
           label == IF req[s].from = -1 \/ req[s].emulated THEN "headers" ELSE "find"
<1>2. CASE /\ th'[s] = [th[s] EXCEPT !.size = size, !.reply = reply, !.pc = label]
           /\ req[s].emulated \/ file # Gone
  <2>1. th[s].pc = "stat"
    BY StatLocals
  <2> HIDE DEF size, reply, label
  <2>2. /\ th'[s].size = size /\ th'[s].reply = reply /\ th'[s].pc = label
        /\ th'[s].body = th[s].body /\ th'[s].n = th[s].n
    BY <1>2, LocalOf DEF Local
  <2>3. QED
    BY <1>2, <2>1, <2>2 DEF size, reply, label
<1>3. QED
  BY <1>1, <1>2, StatLocals, Zenon

\* A request that ends, well or not.
LEMMA EndFields ==
  ASSUME TInv, Position, NEW s \in Thread, Vanish(s) \/ Finish(s) \/ SendError(s)
  PROVE  /\ th'[s].pc \in {"vanished", "finished", "broken"} /\ th'[s].n = 0 /\ th'[s].body = th[s].body
<1>1. /\ th[s].pc \in {"read", "send"}
      /\ \/ \E l \in {"vanished", "finished"} : th'[s] = [th[s] EXCEPT !.pc = l] /\ th[s].pc = "read"
         \/ th'[s] = [th[s] EXCEPT !.pc = "broken", !.n = 0]
  BY MoverLocals
<1>2. th[s].pc = "read" => th[s].n = 0
  BY DEF Position, PositionOf
<1>3. QED
  BY <1>1, <1>2, LocalOf DEF Local

LEMMA ReadLocals ==
  ASSUME TInv, Position, NEW s \in Thread, Read(s)
  PROVE  \E n \in 1..BufSize :
           /\ th[s].pc = "read" /\ n <= th[s].remain
           /\ th'[s] = [th[s] EXCEPT !.pc = "send", !.n = n, !.remain = @ - n, !.from = @ + n]
<1> DEFINE n == Available(s)
<1>1. /\ th[s].pc = "read" /\ th[s].remain > 0 /\ n > 0 /\ (req[s].emulated \/ file # Gone)
      /\ th'[s] = [th[s] EXCEPT !.pc = "send", !.n = n, !.remain = @ - n, !.from = Advance(s, n)]
  BY DEF TInv, At, Read
<1>2. th[s].from \in Int /\ th[s].remain \in Int /\ th[s].from >= 0
  BY <1>1 DEF TInv, Local, Position, PositionOf
<1>3. n \in 1..BufSize /\ n <= th[s].remain
  BY <1>1, <1>2, AvailableOf, SizeAssumption
<1>4. QED
  BY <1>1, <1>3 DEF Advance

\* A send of ret bytes.
Sends(s, ret) ==
  /\ ret \in 1..th[s].n /\ th[s].pc = "send" /\ (socket[s] = "open" => ret = th[s].n)
  /\ th[s].from - th[s].n \in Nat /\ th[s].body \in Seq(Nat) /\ Len(th[s].body) \in Nat
  /\ th'[s].pc = "read" /\ th'[s].n = 0 /\ th'[s].from = th[s].from
  /\ th'[s].remain = th[s].remain /\ th'[s].promised = th[s].promised
  /\ th'[s].body \in Seq(Nat) /\ Len(th'[s].body) = Len(th[s].body) + ret
  /\ DOMAIN th'[s].body = 1..(Len(th[s].body) + ret) /\ DOMAIN th[s].body = 1..Len(th[s].body)
  /\ \A i \in 1..Len(th[s].body) : th'[s].body[i] = th[s].body[i]
  /\ \A i \in (Len(th[s].body) + 1)..(Len(th[s].body) + ret) :
       th'[s].body[i] = th[s].from - th[s].n + i - Len(th[s].body) - 1

LEMMA SendLocals ==
  ASSUME TInv, Position, NEW s \in Thread, Send(s)
  PROVE  \E ret \in Nat : Sends(s, ret)
<1> DEFINE first == th[s].from - th[s].n
<1>1. /\ th[s].pc = "send" /\ th[s].from \in Int /\ th[s].n \in Nat \ {0} /\ th[s].body \in Seq(Nat)
      /\ first \in Nat /\ Len(th[s].body) \in Nat
  BY SizeAssumption, LenProperties DEF TInv, Local, Send, At, Position, PositionOf
<1>2. PICK ret \in Taken(s) :
        th'[s] = [th[s] EXCEPT !.pc = "read", !.n = 0,
                              !.body = @ \o [i \in 1..ret |-> first + i - 1]]
  BY DEF TInv, Send
<1>3. ret \in 1..th[s].n /\ ret \in Nat /\ (socket[s] = "open" => ret = th[s].n)
  BY <1>1, <1>2 DEF Taken
<1> DEFINE longer == th[s].body \o [i \in 1..ret |-> first + i - 1]
<1>4. /\ th'[s].body = longer /\ th'[s].pc = "read" /\ th'[s].n = 0 /\ th'[s].from = th[s].from
      /\ th'[s].remain = th[s].remain /\ th'[s].promised = th[s].promised
  <2>1. th'[s] = [th[s] EXCEPT !.pc = "read", !.n = 0, !.body = longer]
    BY <1>2
  <2> HIDE DEF longer
  <2>2. QED
    BY <2>1, LocalOf DEF Local
<1>5. /\ longer \in Seq(Nat) /\ Len(longer) = Len(th[s].body) + ret
      /\ DOMAIN longer = 1..(Len(th[s].body) + ret) /\ DOMAIN th[s].body = 1..Len(th[s].body)
      /\ \A i \in 1..Len(th[s].body) : longer[i] = th[s].body[i]
      /\ \A i \in (Len(th[s].body) + 1)..(Len(th[s].body) + ret) :
           longer[i] = first + i - Len(th[s].body) - 1
  <2>1. th[s].body \in Seq(Nat) /\ first \in Nat /\ ret \in Nat
    BY <1>1, <1>3
  <2> HIDE DEF first
  <2>2. QED
    BY <2>1, Extended, Zenon
<1> HIDE DEF longer
<1>6. Sends(s, ret)
  BY <1>1, <1>3, <1>4, <1>5 DEF Sends
<1>7. QED
  BY <1>3, <1>6
-----------------------------------------------------------------------------
\* The loop keeps its position behind what it has sent.
LEMMA PositionNext == TInv /\ Position /\ Bounded /\ [Next]_vars => Position'
<1> SUFFICES ASSUME TInv, Position, Bounded, [Next]_vars, NEW s \in Thread PROVE PositionOf(s)'
  BY DEF Position
<1> DEFINE loc == th[s]
<1>0. /\ loc \in Local /\ loc.n \in Nat /\ loc.from \in Int /\ loc.body \in Seq(Nat) /\ PositionOf(s)
      /\ req' = req /\ (socket'[s] = "open" => socket[s] = "open") /\ Start(s)' = Start(s) /\ Start(s) \in Nat
  BY LocalOf, Effects, RequestOf DEF TInv, Local, Position, Start
<1> USE DEF PositionOf, Lookup, Looking
<1>1. CASE Bystander(s)
  <2> HIDE DEF loc
  <2>1. QED
    BY <1>0, <1>1, BystanderLocals
<1>2. CASE Dispatch(s)
  BY <1>0, <1>2, MoverLocals DEF Local
<1>3. CASE Stat(s)
  BY <1>0, <1>3, StatFields
<1>4. CASE LooksUp(s)
  BY <1>0, <1>4, LookupFields DEF Looking, Lookup
<1>5. CASE Headers(s)
  <2>1. th'[s].pc = "read" /\ th'[s].n = 0 /\ th'[s].body = <<>> /\ th'[s].from = Start(s)
    BY <1>0, <1>5, MoverLocals DEF Local, Start
  <2>2. Len(<<>>) = 0 /\ DOMAIN <<>> = {}
    OBVIOUS
  <2>3. QED
    BY <1>0, <2>1, <2>2
<1>6. CASE Read(s)
  <2>1. PICK n \in 1..BufSize :
           /\ th[s].pc = "read" /\ n <= th[s].remain
           /\ th'[s] = [th[s] EXCEPT !.pc = "send", !.n = n, !.remain = @ - n, !.from = @ + n]
    BY <1>6, ReadLocals
  <2>2. th'[s].pc = "send" /\ th'[s].n = n /\ th'[s].body = th[s].body /\ th'[s].from = th[s].from + n
    BY <1>0, <2>1 DEF Local
  <2>3. n \in Nat /\ n > 0 /\ th'[s].from - th'[s].n = th[s].from - th[s].n
    BY <1>0, <2>1, <2>2, SizeAssumption
  <2>4. QED
    BY <1>0, <2>1, <2>2, <2>3
<1>7. CASE Vanish(s) \/ Finish(s) \/ SendError(s)
  BY <1>0, <1>7, EndFields
<1>8. CASE Send(s)
  <2>1. PICK ret \in Nat : Sends(s, ret)
    BY <1>8, SendLocals
  <2> DEFINE body == th[s].body
             old == Len(body)
             last == th[s].from
             n == th[s].n
  <2>2. /\ old \in Nat /\ last \in Int /\ n \in Nat /\ ret <= n /\ ret \in Nat
        /\ DOMAIN th'[s].body = 1..(old + ret) /\ DOMAIN body = 1..old
        /\ \A i \in 1..old : th'[s].body[i] = body[i]
        /\ \A i \in (old + 1)..(old + ret) : th'[s].body[i] = last - n + i - old - 1
    <3>1. old \in Nat /\ last \in Int /\ n \in Nat /\ ret \in 1..n
      BY <1>0, <2>1 DEF Sends
    <3>2. /\ DOMAIN th'[s].body = 1..(old + ret) /\ DOMAIN body = 1..old
          /\ \A i \in 1..old : th'[s].body[i] = body[i]
          /\ \A i \in (old + 1)..(old + ret) : th'[s].body[i] = last - n + i - old - 1
      BY <2>1, Zenon DEF Sends
    <3> HIDE DEF body, old, last, n
    <3>3. old \in Nat /\ last \in Int /\ n \in Nat /\ ret <= n /\ ret \in Nat
      BY <3>1
    <3>4. QED
      BY <3>2, <3>3, Zenon
  <2>3. body \in [1..old -> Nat] /\ \A i \in 1..old : body[i] < last - n
    BY <1>0, <2>1, LenProperties DEF Sends
  <2>4. \A i \in DOMAIN th'[s].body : th'[s].body[i] < last
    <3> HIDE DEF body, old, last, n
    <3> SUFFICES ASSUME NEW i \in 1..(old + ret) PROVE th'[s].body[i] < last
      BY <2>2
    <3>1. CASE i <= old
      <4>1. i \in 1..old /\ body[i] \in Nat
        BY <2>2, <2>3, <3>1
      <4>2. QED
        BY <2>2, <2>3, <4>1
    <3>2. CASE i > old
      <4>1. i \in (old + 1)..(old + ret)
        BY <2>2, <3>2
      <4>2. QED
        BY <2>2, <4>1
    <3>3. QED
      BY <2>2, <3>1, <3>2
  <2>5. socket[s] = "open" => last = Start(s) + Len(th'[s].body)
    <3>1. socket[s] = "open" => last - n = Start(s) + old /\ ret = n
      BY <1>0, <2>1 DEF Sends
    <3>2. Len(th'[s].body) = old + ret /\ Start(s) \in Nat
      BY <1>0, <2>1 DEF Sends
    <3>3. old \in Nat /\ last \in Int /\ n \in Nat
      BY <2>2
    <3> HIDE DEF body, old, last, n
    <3>4. socket[s] = "open" => last = Start(s) + (old + ret)
      BY <3>1, <3>2, <3>3
    <3>5. QED
      BY <3>2, <3>4
  <2>6. th'[s].pc = "read" /\ th'[s].n = 0 /\ th'[s].from = last /\ last - n \in Nat
    BY <2>1 DEF Sends
  <2>7. th'[s].from - th'[s].n = last /\ last >= 0
    BY <2>2, <2>6
  <2>8. QED
    BY <1>0, <2>4, <2>5, <2>6, <2>7
<1>9. QED
  BY <1>1, <1>2, <1>3, <1>4, <1>5, <1>6, <1>7, <1>8, Effects DEF Moves

\* And its account: what was announced has been sent or remains.
LEMMA AccountNext == TInv /\ Position /\ Account /\ Bounded /\ [Next]_vars => Account'
<1> SUFFICES ASSUME TInv, Position, Account, Bounded, [Next]_vars, NEW s \in Thread PROVE AccountOf(s)'
  BY DEF Account
<1>0. /\ th[s] \in Local /\ th[s].n \in Nat /\ th[s].from \in Int /\ th[s].remain \in Int /\ th[s].promised \in Int
      /\ PositionOf(s) /\ AccountOf(s) /\ req' = req /\ Start(s)' = Start(s) /\ Start(s) \in Nat
  BY LocalOf, Effects, RequestOf, SizeAssumption DEF TInv, Local, Position, Account, Start
<1> USE DEF AccountOf, Lookup, Looking
<1>1. CASE Bystander(s)
  BY <1>0, <1>1, BystanderLocals
<1>2. CASE Dispatch(s)
  BY <1>0, <1>2, MoverLocals DEF Local
<1>3. CASE Stat(s)
  BY <1>0, <1>3, StatFields
<1>4. CASE LooksUp(s)
  BY <1>0, <1>4, LookupFields DEF Looking, Lookup
<1>5. CASE Headers(s)
  <2>1. /\ th'[s].pc = "read" /\ th'[s].body = <<>> /\ th'[s].from = Start(s)
        /\ th'[s].promised = Promise(s) /\ th'[s].remain = Promise(s)
    BY <1>0, <1>5, MoverLocals DEF Local, Start, PositionOf
  <2>2. Promise(s) \in Int
    BY <1>0, <1>5, PromiseOf, RequestOf DEF TInv, Local, Headers, At, Bounded, BoundOf
  <2>3. QED
    BY <1>0, <2>1, <2>2
<1>6. CASE Read(s)
  <2>1. PICK n \in 1..BufSize :
           /\ th[s].pc = "read" /\ n <= th[s].remain
           /\ th'[s] = [th[s] EXCEPT !.pc = "send", !.n = n, !.remain = @ - n, !.from = @ + n]
    BY <1>6, ReadLocals
  <2>2. /\ th'[s].pc = "send" /\ th'[s].promised = th[s].promised
        /\ th'[s].from = th[s].from + n /\ th'[s].remain = th[s].remain - n
    BY <1>0, <2>1 DEF Local
  <2>3. n \in Nat /\ n > 0
    BY SizeAssumption
  <2>4. th[s].promised > 0
    BY <1>0, <2>1, <2>3
  <2>5. QED
    BY <1>0, <2>1, <2>2, <2>3, <2>4
<1>7. CASE Vanish(s) \/ Finish(s) \/ SendError(s)
  BY <1>0, <1>7, EndFields
<1>8. CASE Send(s)
  <2>1. PICK ret \in Nat : Sends(s, ret)
    BY <1>8, SendLocals
  <2>2. /\ th[s].pc = "send" /\ th'[s].pc = "read" /\ th'[s].from = th[s].from
        /\ th'[s].remain = th[s].remain /\ th'[s].promised = th[s].promised
    BY <2>1 DEF Sends
  <2>3. QED
    BY <1>0, <2>2
<1>9. QED
  BY <1>1, <1>2, <1>3, <1>4, <1>5, <1>6, <1>7, <1>8, Effects DEF Moves

\* The size a thread uses of a result in memory is the result's.
LEMMA BoundedNext == TInv /\ Position /\ Bounded /\ [Next]_vars => Bounded'
<1> SUFFICES ASSUME TInv, Position, Bounded, [Next]_vars, NEW s \in Thread PROVE BoundOf(s)'
  BY DEF Bounded
<1>0. /\ th[s] \in Local /\ BoundOf(s) /\ req' = req /\ Start(s)' = Start(s) /\ Start(s) \in Nat
      /\ req[s].emulated \in BOOLEAN
  BY LocalOf, Effects, RequestOf DEF TInv, Bounded, Start
<1> USE DEF BoundOf, Lookup, Looking
<1>1. CASE Bystander(s)
  BY <1>0, <1>1, BystanderLocals
<1>2. CASE Dispatch(s)
  BY <1>0, <1>2, MoverLocals DEF Local
<1>3. CASE Stat(s)
  BY <1>0, <1>3, StatFields
<1>4. CASE LooksUp(s)
  BY <1>0, <1>4, LookupFields DEF Looking, Lookup
<1>5. CASE Headers(s)
  <2>1. th[s].pc = "headers" /\ th'[s].pc = "read" /\ th'[s].promised = Promise(s)
    BY <1>0, <1>5, MoverLocals DEF Local
  <2>2. ASSUME req[s].emulated, req[s].to < BufferSize PROVE Start(s) + Promise(s) <= BufferSize
    <3>1. /\ req[s].from \in Int /\ req[s].to \in Int /\ req[s].to >= -1 /\ BufferSize \in Nat
          /\ Start(s) = IF req[s].from = -1 THEN 0 ELSE req[s].from
      BY RequestOf, SizeAssumption DEF TInv, Start
    <3>2. th[s].size = BufferSize /\ th[s].reply = IF req[s].from = -1 THEN "200" ELSE "206"
      BY <1>0, <2>1, <2>2
    <3>3. Promise(s) = IF req[s].from = -1 THEN BufferSize
                       ELSE (IF req[s].to = -1 THEN BufferSize ELSE req[s].to + 1) - req[s].from
      BY <3>2, PromiseOf
    <3>4. QED
      BY <2>2, <3>1, <3>3
  <2>3. QED
    BY <1>0, <2>1, <2>2
<1>6. CASE Read(s)
  <2>1. th[s].pc = "read" /\ th'[s].pc = "send" /\ th'[s].promised = th[s].promised
    BY <1>0, <1>6, ReadLocals DEF Local
  <2>2. QED
    BY <1>0, <2>1
<1>7. CASE Vanish(s) \/ Finish(s) \/ SendError(s)
  BY <1>0, <1>7, EndFields
<1>8. CASE Send(s)
  <2>1. PICK ret \in Nat : Sends(s, ret)
    BY <1>8, SendLocals
  <2>2. th[s].pc = "send" /\ th'[s].pc = "read" /\ th'[s].promised = th[s].promised
    BY <2>1 DEF Sends
  <2>3. QED
    BY <1>0, <2>2
<1>9. QED
  BY <1>1, <1>2, <1>3, <1>4, <1>5, <1>6, <1>7, <1>8, Effects DEF Moves

\* What a body has become is what was announced.
LEMMA AnnouncedNext ==
  TInv /\ Position /\ Account /\ Bounded /\ Announced /\ [Next]_vars => Announced'
<1> SUFFICES ASSUME TInv, Position, Account, Bounded, Announced, [Next]_vars, NEW s \in Thread
             PROVE  (OrderOf(s) /\ WholeOf(s) /\ InsideOf(s))'
  BY DEF Announced
<1>0. /\ th[s] \in Local /\ PositionOf(s) /\ AccountOf(s) /\ BoundOf(s)
      /\ OrderOf(s) /\ WholeOf(s) /\ InsideOf(s)
      /\ req' = req /\ (socket'[s] = "open" => socket[s] = "open") /\ Start(s)' = Start(s) /\ Start(s) \in Nat
      /\ th[s].from \in Int /\ th[s].remain \in Int /\ th[s].promised \in Int /\ th[s].n \in Nat
      /\ th[s].body \in Seq(Nat) /\ Len(th[s].body) \in Nat
  BY LocalOf, Effects, RequestOf, SizeAssumption, LenProperties
  DEF TInv, Local, Position, Account, Bounded, Announced, Start
<1>a. (PositionOf(s) /\ AccountOf(s) /\ BoundOf(s))'
  BY PositionNext, AccountNext, BoundedNext DEF Position, Account, Bounded
\* A step that neither adds to the body nor ends the request well.
<1>b. ASSUME th'[s].body = th[s].body, th'[s].pc # "finished" \/ (th'[s].pc = th[s].pc /\ th'[s].promised = th[s].promised)
      PROVE  (OrderOf(s) /\ WholeOf(s) /\ InsideOf(s))'
  BY <1>0, <1>b DEF OrderOf, WholeOf, InsideOf, At
<1>1. CASE Bystander(s)
  BY <1>0, <1>1, <1>b, BystanderLocals
<1>2. CASE Dispatch(s) \/ LooksUp(s) \/ Headers(s) \/ Vanish(s) \/ SendError(s)
  <2>1. CASE Dispatch(s)
    BY <1>0, <1>b, <2>1, MoverLocals DEF Local
  <2>2. CASE LooksUp(s)
    BY <1>0, <1>b, <2>2, LookupFields
  <2>3. CASE Headers(s)
    <3>1. th'[s].body = th[s].body /\ th'[s].pc = "read"
      BY <1>0, <2>3, MoverLocals DEF Local
    <3>2. QED
      BY <1>b, <3>1
  <2>4. CASE Vanish(s)
    BY <1>0, <1>b, <2>4, MoverLocals DEF Local
  <2>5. CASE SendError(s)
    BY <1>0, <1>b, <2>5, MoverLocals DEF Local
  <2>6. QED
    BY <1>2, <2>1, <2>2, <2>3, <2>4, <2>5
<1>3. CASE Stat(s)
  <2>1. th'[s].body = th[s].body /\ th'[s].pc # "finished"
    BY <1>0, <1>3, StatFields
  <2>2. QED
    BY <1>b, <2>1
<1>4. CASE Read(s)
  <2>1. th'[s].body = th[s].body /\ th'[s].pc # "finished"
    BY <1>0, <1>4, ReadLocals DEF Local
  <2>2. QED
    BY <1>b, <2>1
<1>5. CASE Finish(s)
  <2>1. /\ th[s].pc = "read" /\ th[s].remain <= 0 /\ th'[s].pc = "finished"
        /\ th'[s].body = th[s].body /\ th'[s].promised = th[s].promised
    BY <1>0, <1>5, MoverLocals DEF Local
  <2>2. socket[s] = "open" => th[s].from = Start(s) + Len(th[s].body)
    BY <1>0, <2>1 DEF PositionOf
  <2>3. th[s].promised > 0 => th[s].from = Start(s) + th[s].promised
    BY <1>0, <2>1 DEF AccountOf
  <2>4. th[s].promised <= 0 => Len(th[s].body) = 0
    BY <1>0, <2>1 DEF AccountOf
  <2>5. socket[s] = "open" => Len(th[s].body) = IF th[s].promised > 0 THEN th[s].promised ELSE 0
    BY <1>0, <2>2, <2>3, <2>4
  <2>6. QED
    BY <1>0, <2>1, <2>5 DEF OrderOf, WholeOf, InsideOf
<1>6. CASE Send(s)
  <2>1. PICK ret \in Nat : Sends(s, ret)
    BY <1>6, SendLocals
  <2> DEFINE body == th[s].body
             longer == th'[s].body
             old == Len(body)
             first == th[s].from - th[s].n
  <2>2. old \in Nat /\ first \in Nat /\ th[s].pc = "send" /\ th'[s].pc = "read"
    BY <2>1 DEF Sends
  <2>3. /\ DOMAIN longer = 1..(old + ret) /\ DOMAIN body = 1..old
        /\ \A i \in 1..old : longer[i] = body[i]
        /\ \A i \in (old + 1)..(old + ret) : longer[i] = first + i - old - 1
    BY <2>1, Zenon DEF Sends
  <2>4. \A i \in 1..old : body[i] \in Nat /\ body[i] < first
    <3>1. body \in [1..old -> Nat]
      BY <1>0, LenProperties
    <3>2. \A i \in DOMAIN body : body[i] < first
      BY <1>0, <2>2 DEF PositionOf
    <3>3. QED
      BY <2>3, <3>1, <3>2
  <2>5. \A i, j \in 1..old : i < j => body[i] < body[j]
    BY <1>0, <2>3 DEF OrderOf
  <2>6. socket[s] = "open" => first = Start(s) + old
    BY <1>0, <2>2 DEF PositionOf
  <2>7. socket[s] = "open" => \A i \in 1..old : body[i] = Start(s) + i - 1
    BY <1>0, <2>3 DEF OrderOf
  <2>8. \A i \in DOMAIN longer : longer[i] < th'[s].from
    <3>1. th'[s].n = 0 /\ th'[s].from \in Int
      BY <1>0, <2>1 DEF Sends
    <3>2. \A i \in DOMAIN longer : longer[i] < th'[s].from - th'[s].n
      BY <1>a, <2>2 DEF PositionOf
    <3>3. QED
      BY <3>1, <3>2
  <2>9. InsideOf(s)'
    <3>1. th'[s].from = th[s].from /\ th'[s].remain = th[s].remain /\ th'[s].promised = th[s].promised
      BY <2>1 DEF Sends
    <3>2. th[s].promised > 0 /\ th[s].remain >= 0 /\ th[s].from + th[s].remain = Start(s) + th[s].promised
      BY <1>0, <2>2 DEF AccountOf
    <3>3. req[s].emulated /\ req[s].to < BufferSize => Start(s) + th[s].promised <= BufferSize
      BY <1>0, <2>2 DEF BoundOf
    <3>4. \A i \in DOMAIN longer : longer[i] \in Nat
      <4>1. longer \in Seq(Nat)
        BY <2>1 DEF Sends
      <4>2. QED
        BY <4>1, LenProperties
    <3>5. BufferSize \in Nat
      BY SizeAssumption
    <3> HIDE DEF body, longer
    <3>6. ASSUME req[s].emulated, req[s].to < BufferSize, NEW i \in DOMAIN longer PROVE longer[i] < BufferSize
      <4>1. th[s].from <= BufferSize
        BY <1>0, <3>2, <3>3, <3>5, <3>6
      <4>2. longer[i] \in Nat /\ longer[i] < th[s].from
        BY <2>8, <3>1, <3>4, <3>6
      <4>3. QED
        BY <1>0, <3>5, <4>1, <4>2
    <3>7. QED
      BY <1>0, <3>6 DEF InsideOf, longer
  <2> HIDE DEF body, longer, old, first
  <2>10. \A i, j \in 1..(old + ret) : i < j => longer[i] < longer[j]
    <3> SUFFICES ASSUME NEW i \in 1..(old + ret), NEW j \in 1..(old + ret), i < j PROVE longer[i] < longer[j]
      OBVIOUS
    <3>1. CASE j <= old
      <4>1. i \in 1..old /\ j \in 1..old
        BY <2>2, <3>1
      <4>2. QED
        BY <2>3, <2>5, <4>1
    <3>2. CASE i <= old /\ j > old
      <4>1. i \in 1..old /\ j \in (old + 1)..(old + ret)
        BY <2>2, <3>2
      <4>2. QED
        BY <2>2, <2>3, <2>4, <4>1
    <3>3. CASE i > old
      <4>1. i \in (old + 1)..(old + ret) /\ j \in (old + 1)..(old + ret)
        BY <2>2, <3>3
      <4>2. QED
        BY <2>2, <2>3, <4>1
    <3>4. QED
      BY <2>2, <3>1, <3>2, <3>3
  <2>11. ASSUME socket[s] = "open", NEW i \in 1..(old + ret) PROVE longer[i] = Start(s) + i - 1
    <3>1. CASE i <= old
      <4>1. i \in 1..old
        BY <2>2, <3>1
      <4>2. QED
        BY <2>3, <2>7, <2>11, <4>1
    <3>2. CASE i > old
      <4>1. i \in (old + 1)..(old + ret)
        BY <2>2, <3>2
      <4>2. longer[i] = first + i - old - 1 /\ first = Start(s) + old
        BY <2>3, <2>6, <2>11, <4>1
      <4>3. QED
        BY <1>0, <2>2, <4>2
    <3>3. QED
      BY <2>2, <3>1, <3>2
  <2>12. OrderOf(s)'
    BY <1>0, <2>3, <2>10, <2>11 DEF OrderOf, longer
  <2>13. WholeOf(s)'
    BY <2>2 DEF WholeOf, At
  <2>14. QED
    BY <2>9, <2>12, <2>13
<1>7. QED
  BY <1>1, <1>2, <1>3, <1>4, <1>5, <1>6, Effects DEF Moves
-----------------------------------------------------------------------------
\* A step that takes the entry away, of a thread at its erase: it is an
\* accident unless the entry was the one the thread compared, or a complete
\* file's.
TakesAway(t) ==
  /\ Erased(t) /\ th[t].pc = "erase" /\ UNCHANGED <<file, goal>> /\ registry # None
  /\ accidents' = {} => accidents = {} /\ registry \in {th[t].size, Complete}

\* What a step does to the file and to its entry of the registry.
LEMMA SharedEffects ==
  ASSUME TInv, Held, [Next]_vars
  PROVE  \/ /\ UNCHANGED <<file, goal, registry, owner, accidents>>
            /\ \A s \in Thread : Leaves(s) \/ Moves(s)
         \/ Grow \/ RegisterIncompleteFile \/ RegisterFile \/ Store \/ Delete
         \/ \E t \in Thread : TakesAway(t)
<1>1. CASE UNCHANGED vars
  BY <1>1 DEF vars, Leaves
<1>2. ASSUME NEW t \in Thread, SetNonblocking(t) \/ Shutdown(t)
      PROVE  UNCHANGED <<file, goal, registry, owner, accidents, th>>
  BY <1>2 DEF SetNonblocking, Shutdown
<1>3. ASSUME NEW t \in Thread, Moves(t)
      PROVE  /\ UNCHANGED <<file, goal, registry, owner, accidents>>
             /\ \A s \in Thread : th'[s] = th[s] \/ Moves(s)
  <2>1. UNCHANGED Shared
    BY <1>3 DEF Moves, LooksUp, Dispatch, Stat, Find, Test, Compare, Take, Headers, Read, Vanish, Finish,
                Send, SendError
  <2>2. \A s \in Thread : s # t => th'[s] = th[s]
    BY <1>3 DEF Moves, LooksUp, TInv, Dispatch, NotFound, Stat, Find, Test, Compare, Take, Headers, Read,
                Vanish, Finish, Send, SendError
  <2>3. QED
    BY <1>3, <2>1, <2>2 DEF Shared
<1>4. ASSUME NEW t \in Thread, ReadNothing(t) PROVE UNCHANGED vars
  BY <1>4 DEF ReadNothing
<1>5. CASE Crash
  BY <1>5 DEF Crash, Shared, Leaves
<1>6. ASSUME NEW t \in Thread, Erase(t) PROVE TakesAway(t)
  <2>1. accidents' = {} => accidents = {} /\ registry \in {th[t].size, Complete}
    BY <1>6 DEF Erase
  <2>2. registry # None
    BY <1>6 DEF Erase, Held, HeldOf
  <2>3. QED
    BY <1>6, <2>1, <2>2 DEF Erase, TakesAway, At
<1>7. ASSUME NEW t \in Thread, EraseTwice(t)
      PROVE  \/ TakesAway(t)
             \/ /\ UNCHANGED <<file, goal, registry, owner, accidents>>
                /\ \A s \in Thread : Leaves(s)
  <2>1. CASE Erased(t) /\ registry # None /\ accidents' = accidents \cup {"erased twice"}
    BY <1>7, <2>1 DEF EraseTwice, TakesAway, At
  <2>2. CASE /\ th' = [th EXCEPT ![t].pc = "headers", ![t].it = "end"]
             /\ UNCHANGED <<registry, owner, accidents>>
    <3>1. th[t].pc = "erase" /\ UNCHANGED <<file, goal>>
      BY <1>7 DEF EraseTwice, At
    <3>2. \A s \in Thread : th'[s] = IF s = t THEN [th[t] EXCEPT !.pc = "headers", !.it = "end"] ELSE th[s]
      BY <2>2 DEF TInv
    <3>3. QED
      BY <2>2, <3>1, <3>2 DEF Leaves
  <2>3. QED
    BY <1>7, <2>1, <2>2 DEF EraseTwice
<1>8. QED
  BY <1>1, <1>2, <1>3, <1>4, <1>5, <1>6, <1>7 DEF Next, Owner, Serve, Moves, LooksUp, Leaves, Done

\* A thread that is in the lookup after its own step has just read the size, or
\* keeps the one it has.
LEMMA SizeLocals ==
  ASSUME TInv, Position, NEW s \in Thread, Moves(s), th'[s].pc \in Lookup
  PROVE  \/ th'[s].pc = "find" /\ file # Gone /\ th'[s].size = file /\ th'[s].overtaken = th[s].overtaken
         \/ th[s].pc \in Looking /\ th'[s].pc # "find" /\ th'[s].size = th[s].size
<1>0. th[s] \in Local
  BY LocalOf
<1> USE DEF Lookup, Looking
<1>1. CASE Dispatch(s) \/ Headers(s) \/ Vanish(s) \/ Finish(s) \/ SendError(s)
  BY <1>0, <1>1, MoverLocals DEF Local
<1>2. CASE Stat(s)
  <2>1. th'[s].overtaken = th[s].overtaken
    <3> DEFINE size == IF req[s].emulated THEN BufferSize ELSE file
               reply == IF req[s].from = -1 THEN "200" ELSE "206"
               label == IF req[s].from = -1 \/ req[s].emulated THEN "headers" ELSE "find"
    <3>1. \/ th'[s] = [th[s] EXCEPT !.pc = "headers", !.reply = "404"]
          \/ th'[s] = [th[s] EXCEPT !.size = size, !.reply = reply, !.pc = label]
      BY <1>2, StatLocals, Zenon
    <3> HIDE DEF size, reply, label
    <3>2. QED
      BY <1>0, <3>1 DEF Local
  <2>2. QED
    BY <1>0, <1>2, <2>1, StatFields
<1>3. CASE LooksUp(s)
  <2>1. th[s].pc \in Looking /\ th'[s].pc # "find"
    BY <1>3, LookupFields
  <2>2. ~Take(s)
    <3>1. SUFFICES ASSUME Take(s) PROVE FALSE
      OBVIOUS
    <3>2. PICK seen \in Seen(s) : th'[s] = [th[s] EXCEPT !.pc = "headers", !.it = "end", !.size = seen]
      BY <3>1, TakeLocals, Zenon
    <3>3. QED
      BY <1>0, <3>2 DEF Local
  <2>3. QED
    BY <1>3, <2>1, <2>2, LookupFields
<1>4. CASE Read(s)
  <2>1. PICK n \in 1..BufSize :
          th'[s] = [th[s] EXCEPT !.pc = "send", !.n = n, !.remain = @ - n, !.from = @ + n]
    BY <1>4, ReadLocals, Zenon
  <2>2. QED
    BY <1>0, <2>1 DEF Local
<1>5. CASE Send(s)
  BY <1>5, SendLocals DEF Sends
<1>6. QED
  BY <1>1, <1>2, <1>3, <1>4, <1>5 DEF Moves

\* The other locals of the lookup, the iterator and the ghost.
LEMMA HeldLocals ==
  ASSUME TInv, Position, Held, NEW s \in Thread, Moves(s)
  PROVE  /\ th'[s].overtaken = th[s].overtaken
         /\ th'[s].it = "valid" => registry # None
         /\ th'[s].pc \in {"dispatch", "stat", "find"} => th'[s].it = "end"
         /\ th'[s].pc \in {"test", "compare", "take", "erase"} => th'[s].it # "end"
         /\ th'[s].pc \in {"test", "compare", "take"} /\ ~th[s].overtaken => th'[s].it = "valid"
         /\ th'[s].pc \in {"compare", "take"} /\ ~th[s].overtaken => registry # Complete
<1>0. th[s] \in Local /\ HeldOf(s)
  BY LocalOf DEF Held
<1> USE DEF HeldOf
<1>1. CASE Dispatch(s)
  <2>1. /\ th[s].pc = "dispatch"
        /\ \/ th'[s] = [th[s] EXCEPT !.pc = "stat"]
           \/ th'[s] = [th[s] EXCEPT !.pc = "headers", !.reply = "404"]
    BY <1>1, MoverLocals, Zenon
  <2>2. QED
    BY <1>0, <2>1 DEF Local
<1>2. CASE Stat(s)
  <2> DEFINE size == IF req[s].emulated THEN BufferSize ELSE file
             reply == IF req[s].from = -1 THEN "200" ELSE "206"
             label == IF req[s].from = -1 \/ req[s].emulated THEN "headers" ELSE "find"
  <2>1. /\ th[s].pc = "stat"
        /\ \/ th'[s] = [th[s] EXCEPT !.pc = "headers", !.reply = "404"]
           \/ th'[s] = [th[s] EXCEPT !.size = size, !.reply = reply, !.pc = label]
    BY <1>2, StatLocals, Zenon
  <2>2. label \in {"headers", "find"}
    OBVIOUS
  <2> HIDE DEF size, reply, label
  <2>3. QED
    BY <1>0, <2>1, <2>2 DEF Local
<1>3. CASE Find(s)
  <2>1. /\ th[s].pc = "find"
        /\ \/ th'[s] = [th[s] EXCEPT !.pc = "headers"]
           \/ registry # None /\ th'[s] = [th[s] EXCEPT !.pc = "test", !.it = "valid"]
    BY <1>3, FindLocals, Zenon
  <2>2. QED
    BY <1>0, <2>1 DEF Local
<1>4. CASE Test(s)
  <2>1. PICK seen \in Seen(s) :
          \/ th'[s] = [th[s] EXCEPT !.pc = "headers", !.it = "end"]
          \/ seen # Complete /\ th'[s] = [th[s] EXCEPT !.pc = "compare"]
    BY <1>4, TestLocals, Zenon
  <2>2. th[s].pc = "test" /\ (~th[s].overtaken => th[s].it = "valid" /\ seen = registry)
    BY <1>0, <1>4, TestLocals DEF Seen
  <2>3. QED
    BY <1>0, <2>1, <2>2 DEF Local
<1>5. CASE Compare(s)
  <2>1. /\ th[s].pc = "compare"
        /\ \/ th'[s] = [th[s] EXCEPT !.pc = "erase"]
           \/ th'[s] = [th[s] EXCEPT !.pc = "take"]
    BY <1>5, CompareLocals, Zenon
  <2>2. QED
    BY <1>0, <2>1 DEF Local
<1>6. CASE Take(s)
  <2>1. PICK seen \in Seen(s) : th'[s] = [th[s] EXCEPT !.pc = "headers", !.it = "end", !.size = seen]
    BY <1>6, TakeLocals, Zenon
  <2>2. QED
    BY <1>0, <2>1 DEF Local
<1>7. CASE Headers(s)
  <2> DEFINE from == IF req[s].from = -1 THEN 0 ELSE req[s].from
             p == Promise(s)
  <2>1. th'[s] = [th[s] EXCEPT !.pc = "read", !.promised = p, !.remain = p, !.from = from]
    BY <1>7, MoverLocals, Zenon
  <2> HIDE DEF from, p
  <2>2. QED
    BY <1>0, <2>1 DEF Local
<1>8. CASE Read(s)
  <2>1. PICK n \in 1..BufSize :
          th'[s] = [th[s] EXCEPT !.pc = "send", !.n = n, !.remain = @ - n, !.from = @ + n]
    BY <1>8, ReadLocals, Zenon
  <2>2. QED
    BY <1>0, <2>1 DEF Local
<1>9. CASE Vanish(s) \/ Finish(s) \/ SendError(s)
  <2>1. \/ th'[s] = [th[s] EXCEPT !.pc = "vanished"]
        \/ th'[s] = [th[s] EXCEPT !.pc = "finished"]
        \/ th'[s] = [th[s] EXCEPT !.pc = "broken", !.n = 0]
    BY <1>9, MoverLocals, Zenon
  <2>2. QED
    BY <1>0, <2>1 DEF Local
<1>10. CASE Send(s)
  <2> DEFINE first == th[s].from - th[s].n
  <2>1. PICK ret \in Taken(s) :
          th'[s] = [th[s] EXCEPT !.pc = "read", !.n = 0, !.body = @ \o [i \in 1..ret |-> first + i - 1]]
    BY <1>10 DEF TInv, Send
  <2> DEFINE body == th[s].body \o [i \in 1..ret |-> first + i - 1]
  <2>2. th'[s] = [th[s] EXCEPT !.pc = "read", !.n = 0, !.body = body]
    BY <2>1
  <2> HIDE DEF body
  <2>3. QED
    BY <1>0, <2>2 DEF Local
<1>11. QED
  BY <1>1, <1>2, <1>3, <1>4, <1>5, <1>6, <1>7, <1>8, <1>9, <1>10 DEF Moves, LooksUp

\* What a step that only leaves its mark does to those.
LEMMA LeftLocals ==
  ASSUME TInv, NEW s \in Thread, Leaves(s)
  PROVE  /\ th'[s].overtaken = th[s].overtaken /\ th'[s].it \in {th[s].it, "end"} /\ th'[s].size = th[s].size
         /\ th'[s].pc \in Lookup \cup {"dispatch", "stat"} => th'[s] = th[s]
<1>1. th[s] \in Local
  BY LocalOf
<1>2. QED
  BY <1>1 DEF Leaves, Local, Lookup, Looking

LEMMA OvertakenLocals ==
  ASSUME TInv, NEW s \in Thread, NEW it \in Iterator, th'[s] = Overtaken(s, it)
  PROVE  /\ th'[s].overtaken = (th[s].overtaken \/ th[s].pc \in Looking) /\ th'[s].it = it
         /\ th'[s].pc = th[s].pc /\ th'[s].size = th[s].size
<1>1. /\ \E b \in BOOLEAN : Overtaken(s, it) = [th[s] EXCEPT !.it = it, !.overtaken = b]
      /\ Overtaken(s, it).overtaken = (th[s].overtaken \/ th[s].pc \in Looking)
  BY OvertakenOf, Zenon
<1>2. PICK b \in BOOLEAN : th'[s] = [th[s] EXCEPT !.it = it, !.overtaken = b]
  BY <1>1
<1>3. th'[s].pc = th[s].pc /\ th'[s].size = th[s].size /\ th'[s].it = it
  BY <1>2, LocalOf DEF Local
<1>4. QED
  BY <1>1, <1>3, Zenon

\* What a step that takes the entry away leaves of every thread.
LEMMA TakenAway ==
  ASSUME TInv, NEW t \in Thread, TakesAway(t), NEW s \in Thread
  PROVE  /\ registry' = None /\ th'[s].size = th[s].size /\ th'[s].it # "valid"
         /\ owner'.size = owner.size /\ owner'.it # "valid" /\ (owner'.it = "end" <=> owner.it = "end")
         /\ \/ th'[s].pc = "headers" /\ th'[s].overtaken = th[s].overtaken /\ th'[s].it = "end" /\ th[s].pc = "erase"
            \/ /\ th'[s].pc = th[s].pc /\ (th'[s].it = "end" <=> th[s].it = "end")
               /\ th'[s].overtaken = (th[s].overtaken \/ th[s].pc \in Looking)
<1>1. Erased(t) /\ th[t].pc = "erase"
  BY DEF TakesAway
<1>2. /\ registry' = None /\ owner' = [owner EXCEPT !.it = Stale(@)]
      /\ th'[t] = [th[t] EXCEPT !.pc = "headers", !.it = "end"]
      /\ s # t => th'[s] = Overtaken(s, Stale(th[s].it))
  BY <1>1, ErasedTypes
<1>3. owner \in [size : {None, Complete} \cup Goals, it : Iterator]
  BY DEF TInv, SharedOK
<1>4. owner'.size = owner.size /\ owner'.it = Stale(owner.it) /\ owner.it \in Iterator
  BY <1>2, <1>3
<1>5. CASE s = t
  <2>1. /\ th'[s].pc = "headers" /\ th'[s].it = "end" /\ th'[s].size = th[s].size
        /\ th'[s].overtaken = th[s].overtaken
    BY <1>2, <1>5, LocalOf DEF Local
  <2>2. QED
    BY <1>1, <1>2, <1>4, <1>5, <2>1, StaleOf
<1>6. CASE s # t
  <2>1. Stale(th[s].it) \in Iterator /\ Stale(th[s].it) # "valid" /\ (Stale(th[s].it) = "end" <=> th[s].it = "end")
    BY LocalOf, StaleOf
  <2>2. /\ th'[s].overtaken = (th[s].overtaken \/ th[s].pc \in Looking) /\ th'[s].it = Stale(th[s].it)
        /\ th'[s].pc = th[s].pc /\ th'[s].size = th[s].size
    BY <1>2, <1>6, <2>1, OvertakenLocals, Zenon
  <2>3. QED
    BY <1>2, <1>4, <2>1, <2>2, StaleOf
<1>7. QED
  BY <1>5, <1>6

\* A size that a step writes is in Nat, but for what an erased entry reads as.
LEMMA SizeSteps ==
  ASSUME TInv, Position, Sized, Held, NEW s \in Thread, Moves(s)
  PROVE  th'[s].size \in Nat \/ th[s].overtaken
<1>0. /\ th[s] \in Local /\ (th[s].size \in Nat \/ th[s].overtaken) /\ BufferSize \in Nat
      /\ goal \in Nat /\ (file \in Nat \/ file = Gone) /\ registry \in {None, Complete, goal}
  BY LocalOf, SizeAssumption DEF Sized, SizeOf, TInv, SharedOK
<1>1. CASE Dispatch(s) \/ Vanish(s) \/ Finish(s) \/ SendError(s)
  <2>1. th'[s].size = th[s].size
    BY <1>1, MoverLocals, LocalOf DEF Local
  <2>2. QED
    BY <1>0, <2>1
<1>2. CASE Headers(s)
  <2> DEFINE from == IF req[s].from = -1 THEN 0 ELSE req[s].from
             p == Promise(s)
  <2>1. th'[s] = [th[s] EXCEPT !.pc = "read", !.promised = p, !.remain = p, !.from = from]
    BY <1>2, MoverLocals, Zenon
  <2> HIDE DEF from, p
  <2>2. QED
    BY <1>0, <2>1 DEF Local
<1>3. CASE Stat(s)
  <2> DEFINE size == IF req[s].emulated THEN BufferSize ELSE file
             reply == IF req[s].from = -1 THEN "200" ELSE "206"
             label == IF req[s].from = -1 \/ req[s].emulated THEN "headers" ELSE "find"
  <2>1. \/ th'[s] = [th[s] EXCEPT !.pc = "headers", !.reply = "404"]
        \/ /\ th'[s] = [th[s] EXCEPT !.size = size, !.reply = reply, !.pc = label]
           /\ req[s].emulated \/ file # Gone
    BY <1>3, StatLocals, Zenon
  <2>2. req[s].emulated \/ file # Gone => size \in Nat
    BY <1>0
  <2> HIDE DEF size, reply, label
  <2>3. \/ th'[s].size = th[s].size
        \/ th'[s].size = size /\ (req[s].emulated \/ file # Gone)
    BY <2>1, LocalOf DEF Local
  <2>4. QED
    BY <1>0, <2>2, <2>3
<1>4. CASE Take(s)
  <2>1. PICK seen \in Seen(s) : th'[s] = [th[s] EXCEPT !.pc = "headers", !.it = "end", !.size = seen]
    BY <1>4, TakeLocals, Zenon
  <2>2. th'[s].size = seen
    BY <1>0, <2>1 DEF Local
  <2>3. ~th[s].overtaken => th[s].it = "valid" /\ registry # Complete /\ registry # None
    BY <1>4, TakeLocals DEF Held, HeldOf
  <2>4. ~th[s].overtaken => seen = registry /\ registry = goal
    BY <1>0, <2>1, <2>3 DEF Seen
  <2>5. QED
    BY <1>0, <2>2, <2>4
<1>5. CASE LooksUp(s)
  BY <1>0, <1>4, <1>5, LookupFields
<1>6. CASE Read(s)
  <2>1. PICK n \in 1..BufSize :
          th'[s] = [th[s] EXCEPT !.pc = "send", !.n = n, !.remain = @ - n, !.from = @ + n]
    BY <1>6, ReadLocals, Zenon
  <2>2. QED
    BY <1>0, <2>1 DEF Local
<1>7. CASE Send(s)
  <2> DEFINE first == th[s].from - th[s].n
  <2>1. PICK ret \in Taken(s) :
          th'[s] = [th[s] EXCEPT !.pc = "read", !.n = 0, !.body = @ \o [i \in 1..ret |-> first + i - 1]]
    BY <1>7 DEF TInv, Send
  <2> DEFINE body == th[s].body \o [i \in 1..ret |-> first + i - 1]
  <2>2. th'[s] = [th[s] EXCEPT !.pc = "read", !.n = 0, !.body = body]
    BY <2>1
  <2> HIDE DEF body
  <2>3. QED
    BY <1>0, <2>2 DEF Local
<1>8. QED
  BY <1>1, <1>2, <1>3, <1>5, <1>6, <1>7 DEF Moves

\* What the types and the invariant say of the shared state, in numbers.
LEMMA SharedFacts ==
  ASSUME TInv, Sized, Called
  PROVE  /\ goal \in Nat /\ (file = Gone \/ file \in 0..goal) /\ Gone = -1 /\ None = -2 /\ Complete = -1
         /\ registry \in {None, Complete, goal} /\ (registry = Complete => file \in {goal, Gone})
         /\ owner \in [size : {None, Complete} \cup Goals, it : Iterator] /\ Goals \subseteq Nat
         /\ NoCall = [size |-> None, it |-> "end"] /\ (owner # NoCall => owner.size # None)
         /\ owner.size = Complete \/ owner.size = None \/ (owner.size \in Nat /\ owner.size > goal)
<1>1. owner \in [size : {None, Complete} \cup Goals, it : Iterator] /\ Goals \subseteq Nat
  BY SizeAssumption DEF TInv, SharedOK
<1>2. owner.size = None => owner = NoCall
  BY <1>1 DEF Called, NoCall
<1>3. QED
  BY <1>1, <1>2 DEF TInv, SharedOK, Sized, Called, Gone, None, Complete, NoCall

\* What the store of the owner's call does.
LEMMA StoreOf ==
  ASSUME TInv, Sized, Called, Store
  PROVE  /\ file' = file /\ owner' = NoCall /\ owner.size # None
         /\ goal' \in Nat /\ goal' >= goal
         /\ \/ /\ owner.it = "dangling" /\ UNCHANGED <<registry, th>> /\ registry = None
               /\ goal' # goal => accidents' # {}
            \/ /\ owner.size = Complete /\ goal' = goal /\ registry' = Complete /\ accidents' = accidents
               /\ file = goal /\ th' = [s \in Thread |-> Overtaken(s, th[s].it)]
            \/ registry' = goal' /\ accidents' = accidents /\ th' = th
         /\ accidents' = {} => accidents = {}
<1>1. /\ owner # NoCall /\ owner' = NoCall /\ file' = file
      /\ goal' = IF owner.size = Complete THEN goal ELSE owner.size
      /\ owner.size # None
  BY SharedFacts DEF Store
<1>2. goal' \in Nat /\ goal' >= goal
  BY <1>1, SharedFacts
<1>3. CASE owner.it = "dangling"
  <2>1. /\ UNCHANGED <<registry, th>>
        /\ accidents' = accidents \cup (IF owner.size = Complete THEN {} ELSE {"registration lost"})
    BY <1>3 DEF Store
  <2>2. QED
    BY <1>1, <1>2, <1>3, <2>1 DEF Called
<1>4. CASE owner.it # "dangling"
  <2>1. /\ registry' = owner.size /\ accidents' = accidents
        /\ th' = IF owner.size = Complete THEN [s \in Thread |-> Overtaken(s, th[s].it)] ELSE th
    BY <1>4 DEF Store
  <2>2. CASE owner.size = Complete
    BY <1>1, <1>2, <2>1, <2>2 DEF Called
  <2>3. CASE owner.size # Complete
    BY <1>1, <1>2, <2>1, <2>3
  <2>4. QED
    BY <2>2, <2>3
<1>5. QED
  BY <1>3, <1>4

\* The owner's call finds the entry as it is.
LEMMA CallOf ==
  ASSUME TInv, RegisterIncompleteFile \/ RegisterFile
  PROVE  /\ UNCHANGED <<file, goal, registry, th, accidents>> /\ owner'.it \in {"end", "valid"}
         /\ \/ owner'.size = Complete /\ file = goal
            \/ owner'.size \in Goals /\ owner'.size > goal
BY DEF RegisterIncompleteFile, RegisterFile, LookUp

\* The call of the owner that is under way is about to store what is right.
LEMMA CalledNext == TInv /\ Sized /\ Called /\ Held /\ [Next]_vars => Called'
<1> SUFFICES ASSUME TInv, Sized, Called, Held, [Next]_vars PROVE Called'
  OBVIOUS
<1> USE DEF Called
<1>0. Complete \notin Goals /\ None \notin Goals /\ Complete # None
  BY SizeAssumption DEF Complete, None
<1>1. CASE UNCHANGED <<file, goal, registry, owner, accidents>>
  BY <1>1
<1>2. CASE Grow \/ Delete
  <2>1. owner = NoCall /\ UNCHANGED <<goal, registry, owner>>
    BY <1>2 DEF Grow, Delete
  <2>2. QED
    BY <1>0, <2>1 DEF NoCall
<1>3. CASE RegisterIncompleteFile \/ RegisterFile
  BY <1>0, <1>3, CallOf
<1>4. CASE Store
  BY <1>0, <1>4, StoreOf DEF NoCall
<1>5. ASSUME NEW t \in Thread, TakesAway(t) PROVE Called'
  <2>1. UNCHANGED <<file, goal>> /\ registry' = None
    BY <1>5, TakenAway DEF TakesAway
  <2>2. owner'.size = owner.size /\ (owner'.it = "end" <=> owner.it = "end")
    BY <1>5, TakenAway
  <2>3. QED
    BY <2>1, <2>2
<1>6. QED
  BY <1>1, <1>2, <1>3, <1>4, <1>5, SharedEffects

\* The sizes in use stay at or below the file's, and the entry its goal.
LEMMA SizedNext == TInv /\ Position /\ Sized /\ Called /\ Held /\ [Next]_vars => Sized'
<1> SUFFICES ASSUME TInv, Position, Sized, Called, Held, [Next]_vars PROVE Sized'
  OBVIOUS
<1>0. /\ goal \in Nat /\ (file = Gone \/ file \in 0..goal) /\ Gone = -1 /\ None = -2 /\ Complete = -1
      /\ registry \in {None, Complete, goal} /\ (registry = Complete => file \in {goal, Gone})
  BY SharedFacts
<1>1. /\ registry' \in {None, Complete, goal'} /\ (registry' = Complete => file' \in {goal', Gone})
      /\ \/ file' = Gone
         \/ file # Gone /\ file' \in Int /\ file' >= file
  <2>1. CASE UNCHANGED <<file, goal, registry, owner, accidents>>
    BY <1>0, <2>1
  <2>2. CASE Grow
    BY <1>0, <2>2 DEF Grow
  <2>3. CASE RegisterIncompleteFile \/ RegisterFile
    BY <1>0, <2>3, CallOf
  <2>4. CASE Store
    BY <1>0, <2>4, StoreOf
  <2>5. CASE Delete
    BY <1>0, <2>5 DEF Delete
  <2>6. ASSUME NEW t \in Thread, TakesAway(t)
        PROVE  UNCHANGED <<file, goal>> /\ registry' = None
    BY <2>6, TakenAway DEF TakesAway
  <2>7. QED
    BY <1>0, <2>1, <2>2, <2>3, <2>4, <2>5, <2>6, SharedEffects
<1>2. ASSUME NEW s \in Thread PROVE SizeOf(s)'
  <2> USE DEF SizeOf
  <2>0. SizeOf(s) /\ th[s].size \in Int
    BY LocalOf DEF Local, Sized
  <2>1. CASE Bystander(s)
    <3>1. /\ th'[s].size = th[s].size /\ (th[s].overtaken => th'[s].overtaken)
          /\ th'[s].pc \in Lookup => th[s].pc \in Lookup
      BY <2>1, BystanderLocals DEF Lookup, Looking
    <3>2. QED
      BY <1>0, <1>1, <2>0, <3>1
  <2>2. CASE Moves(s)
    <3>1. th'[s].overtaken = th[s].overtaken
      BY <2>2, HeldLocals
    <3>2. CASE th'[s].pc \in Lookup
      <4>1. \/ file # Gone /\ th'[s].size = file
            \/ th[s].pc \in Lookup /\ th'[s].size = th[s].size
        BY <2>2, <3>2, SizeLocals DEF Lookup
      <4>2. QED
        BY <1>0, <1>1, <2>0, <3>1, <4>1
    <3>3. CASE th'[s].pc \notin Lookup
      <4>1. th'[s].size \in Nat \/ th'[s].overtaken
        BY <1>0, <2>0, <2>2, <3>1, SizeSteps
      <4>2. QED
        BY <3>3, <4>1
    <3>4. QED
      BY <3>2, <3>3
  <2>3. QED
    BY <2>1, <2>2, Effects
<1>3. QED
  BY <1>1, <1>2 DEF Sized

\* Unless it was overtaken, a thread looks at the entry of the file.
LEMMA HeldNext == TInv /\ Position /\ Sized /\ Called /\ Held /\ [Next]_vars => Held'
<1> SUFFICES ASSUME TInv, Position, Sized, Called, Held, [Next]_vars, NEW s \in Thread PROVE HeldOf(s)'
  BY DEF Held
<1>0. HeldOf(s) /\ th[s].it \in Iterator /\ None # Complete
  BY LocalOf DEF Held, Local, None, Complete
<1>1. CASE UNCHANGED <<file, goal, registry, owner, accidents>> /\ \A r \in Thread : Leaves(r) \/ Moves(r)
  <2>1. CASE Leaves(s)
    <3>1. /\ th'[s].overtaken = th[s].overtaken /\ th'[s].it \in {th[s].it, "end"}
          /\ th'[s].pc \in Lookup \cup {"dispatch", "stat"} => th'[s] = th[s]
      BY <2>1, LeftLocals
    <3>2. QED
      BY <1>0, <1>1, <3>1 DEF HeldOf, Lookup, Looking
  <2>2. CASE Moves(s)
    BY <1>1, <2>2, HeldLocals DEF HeldOf
  <2>3. QED
    BY <1>1, <2>1, <2>2
<1>2. CASE Grow \/ Delete
  BY <1>0, <1>2 DEF Grow, Delete, HeldOf
<1>3. CASE RegisterIncompleteFile \/ RegisterFile
  BY <1>0, <1>3, CallOf DEF HeldOf
<1>4. CASE Store
  <2>1. CASE UNCHANGED <<registry, th>>
    BY <1>0, <2>1 DEF HeldOf
  <2>2. CASE registry' = goal' /\ goal' \in Nat /\ th' = th
    BY <1>0, <2>2 DEF HeldOf, None, Complete
  <2>3. CASE registry' = Complete /\ th' = [r \in Thread |-> Overtaken(r, th[r].it)]
    <3>1. th'[s] = Overtaken(s, th[s].it)
      BY <2>3
    <3>2. /\ th'[s].overtaken = (th[s].overtaken \/ th[s].pc \in Looking) /\ th'[s].it = th[s].it
          /\ th'[s].pc = th[s].pc
      BY <1>0, <3>1, OvertakenLocals, Zenon
    <3>3. th'[s].pc \in {"test", "compare", "take"} => th'[s].overtaken
      BY <3>2 DEF Looking
    <3>4. QED
      BY <1>0, <2>3, <3>2, <3>3 DEF HeldOf
  <2>4. QED
    BY <1>4, <2>1, <2>2, <2>3, StoreOf
<1>5. ASSUME NEW t \in Thread, TakesAway(t) PROVE HeldOf(s)'
  <2>1. /\ registry' = None /\ th'[s].it # "valid"
        /\ \/ th'[s].pc = "headers" /\ th'[s].it = "end"
           \/ /\ th'[s].pc = th[s].pc /\ (th'[s].it = "end" <=> th[s].it = "end")
              /\ th'[s].overtaken = (th[s].overtaken \/ th[s].pc \in Looking)
    BY <1>5, TakenAway
  <2>2. th[s].pc \in {"test", "compare", "take"} => th[s].pc \in Looking
    BY DEF Looking
  <2>3. QED
    BY <1>0, <2>1, <2>2 DEF HeldOf
<1>6. QED
  BY <1>1, <1>2, <1>3, <1>4, <1>5, SharedEffects

\* The entry of a growing file goes away only by an accident.
LEMMA KeptNext == TInv /\ Sized /\ Called /\ Held /\ RegistrationKept /\ [Next]_vars => RegistrationKept'
<1> SUFFICES ASSUME TInv, Sized, Called, Held, RegistrationKept, [Next]_vars,
                    registry' = None, file' # Gone, file' < goal'
             PROVE  accidents' # {}
  BY DEF RegistrationKept
<1>0. /\ goal \in Nat /\ (file = Gone \/ file \in 0..goal) /\ Gone = -1 /\ None = -2 /\ Complete = -1
      /\ registry \in {None, Complete, goal} /\ (registry = Complete => file \in {goal, Gone})
  BY SharedFacts
<1>1. CASE UNCHANGED <<file, goal, registry, owner, accidents>>
  BY <1>1 DEF RegistrationKept
<1>2. CASE Grow
  BY <1>0, <1>2 DEF Grow, RegistrationKept
<1>3. CASE RegisterIncompleteFile \/ RegisterFile
  BY <1>3, CallOf DEF RegistrationKept
<1>4. CASE Store
  BY <1>0, <1>4, StoreOf DEF RegistrationKept
<1>5. CASE Delete
  BY <1>5 DEF Delete
<1>6. ASSUME NEW t \in Thread, TakesAway(t) PROVE accidents' # {}
  <2>1. UNCHANGED <<file, goal>> /\ th[t].pc \in Lookup /\ registry # None
    BY <1>6 DEF TakesAway, Lookup
  <2>2. th[t].size \in Nat /\ th[t].size <= file
    BY <2>1 DEF Sized, SizeOf
  <2>3. registry \notin {th[t].size, Complete}
    BY <1>0, <2>1, <2>2
  <2>4. QED
    BY <1>6, <2>3 DEF TakesAway
<1>7. QED
  BY <1>1, <1>2, <1>3, <1>4, <1>5, <1>6, SharedEffects

\* A thread that looks the file up expects the size its owner will write.
LEMMA ExpectedNext ==
  TInv /\ Position /\ Sized /\ Called /\ Held /\ Expected /\ RegistrationKept /\ [Next]_vars => Expected'
<1> SUFFICES ASSUME TInv, Position, Sized, Called, Held, Expected, RegistrationKept, [Next]_vars,
                    NEW s \in Thread, th'[s].pc \in Looking, ~th'[s].overtaken, accidents' = {},
                    registry' \in {None, Complete}
             PROVE  th'[s].size = goal'
  BY DEF Expected, ExpectedOf
<1>0. /\ goal \in Nat /\ (file = Gone \/ file \in 0..goal) /\ Gone = -1 /\ None = -2 /\ Complete = -1
      /\ registry \in {None, Complete, goal} /\ (registry = Complete => file \in {goal, Gone}) /\ ExpectedOf(s)
  BY SharedFacts DEF Expected
<1>1. CASE UNCHANGED <<file, goal, registry, owner, accidents>> /\ \A r \in Thread : Leaves(r) \/ Moves(r)
  <2>1. CASE Leaves(s)
    <3>1. th'[s] = th[s]
      BY <2>1, LeftLocals DEF Lookup
    <3>2. QED
      BY <1>0, <1>1, <3>1 DEF ExpectedOf
  <2>2. CASE Moves(s)
    <3>1. \/ file # Gone /\ th'[s].size = file
          \/ th[s].pc \in Looking /\ th'[s].size = th[s].size
      BY <2>2, SizeLocals DEF Lookup
    <3>2. th'[s].overtaken = th[s].overtaken
      BY <2>2, HeldLocals
    <3>3. ~(registry = None /\ file # Gone /\ file < goal)
      BY <1>1 DEF RegistrationKept
    <3>4. QED
      BY <1>0, <1>1, <3>1, <3>2, <3>3 DEF ExpectedOf
  <2>3. QED
    BY <1>1, <2>1, <2>2
<1>2. CASE Grow \/ Delete
  BY <1>0, <1>2 DEF Grow, Delete, ExpectedOf
<1>3. CASE RegisterIncompleteFile \/ RegisterFile
  BY <1>0, <1>3, CallOf DEF ExpectedOf
<1>4. CASE Store
  <2>1. CASE UNCHANGED <<registry, th>> /\ goal' = goal
    BY <1>0, <1>4, <2>1, StoreOf DEF ExpectedOf
  <2>2. CASE th' = [r \in Thread |-> Overtaken(r, th[r].it)]
    <3>1. th'[s] = Overtaken(s, th[s].it) /\ th[s].it \in Iterator
      BY <2>2, LocalOf
    <3>2. th'[s].overtaken = (th[s].overtaken \/ th[s].pc \in Looking) /\ th'[s].pc = th[s].pc
      BY <3>1, OvertakenLocals, Zenon
    <3>3. QED
      BY <3>2
  <2>3. CASE registry' = goal' /\ goal' \in Nat
    BY <1>0, <2>3
  <2>4. QED
    BY <1>4, <2>1, <2>2, <2>3, StoreOf
<1>5. ASSUME NEW t \in Thread, TakesAway(t) PROVE FALSE
  <2>1. \/ th'[s].pc = "headers"
        \/ th'[s].pc = th[s].pc /\ th'[s].overtaken = (th[s].overtaken \/ th[s].pc \in Looking)
    BY <1>5, TakenAway
  <2>2. th'[s].pc # "headers"
    BY DEF Looking
  <2>3. QED
    BY <2>1, <2>2
<1>6. QED
  BY <1>1, <1>2, <1>3, <1>4, <1>5, SharedEffects
-----------------------------------------------------------------------------
LEMMA IInvInit == Init => IInv
<1> SUFFICES ASSUME Init PROVE IInv
  OBVIOUS
<1>1. TInv
  BY TypeInit
<1>2. \A t \in Thread : /\ th[t].pc = "dispatch" /\ th[t].body = <<>> /\ th[t].n = 0
                        /\ th[t].size = 0 /\ th[t].it = "end"
  BY DEF Init, Idle
<1>3. Position /\ Account /\ Bounded
  BY <1>2 DEF Position, PositionOf, Account, AccountOf, Bounded, BoundOf, Lookup, Looking
<1>4. Announced
  BY <1>2 DEF Announced, OrderOf, WholeOf, InsideOf, At
<1>5. goal \in Nat /\ ((file = goal /\ registry = None) \/ registry = goal)
  BY SizeAssumption DEF Init
<1>6. owner.size = None /\ owner.it = "end" /\ None \notin Goals /\ None # Complete
  BY SizeAssumption DEF Init, NoCall, None, Complete
<1>7. Sized /\ Called /\ Held
  BY <1>2, <1>5, <1>6 DEF Sized, SizeOf, Called, Held, HeldOf, None, Complete, Lookup, Looking
<1>8. Expected /\ RegistrationKept
  BY <1>2, <1>5 DEF Expected, ExpectedOf, RegistrationKept, None, Complete, Looking
<1>9. QED
  BY <1>1, <1>3, <1>4, <1>7, <1>8 DEF IInv

LEMMA IInvNext == IInv /\ [Next]_vars => IInv'
BY TypeNext, PositionNext, AccountNext, BoundedNext, AnnouncedNext, SizedNext, CalledNext, HeldNext, KeptNext,
   ExpectedNext
DEF IInv

\* What the invariant says of every thread is what the property says of all.
LEMMA AnnouncedImplied == Announced => BodyAsAnnounced
BY DEF Announced, OrderOf, WholeOf, InsideOf, Start, BodyAsAnnounced, BodyInOrder, FinishedIsWhole, InsideBuffer

\* The size a range is announced to be a part of is settled when the thread
\* leaves the lookup.
LEMMA LookupNext ==
  IInv /\ [Next]_vars =>
    \A t \in Thread :
      th[t].pc \in Looking /\ ~th[t].overtaken /\ accidents = {} /\ th'[t].pc \in {"erase", "headers"}
        => th'[t].size = goal
<1> SUFFICES ASSUME TInv, Position, Sized, Called, Held, Expected, [Next]_vars,
                    NEW s \in Thread, th[s].pc \in Looking, ~th[s].overtaken, accidents = {},
                    th'[s].pc \in {"erase", "headers"}
             PROVE  th'[s].size = goal
  BY DEF IInv
<1>0. /\ registry \in {None, Complete, goal} /\ (registry \in {None, Complete} => th[s].size = goal)
      /\ HeldOf(s) /\ th[s] \in Local
  BY LocalOf DEF Sized, Expected, ExpectedOf, Held
<1>1. LooksUp(s)
  <2>1. CASE Bystander(s)
    <3>1. th'[s].pc = th[s].pc \/ th'[s].pc = "crashed" \/ th[s].pc = "erase"
      BY <2>1, BystanderLocals
    <3>2. QED
      BY <3>1 DEF Looking
  <2>2. CASE Moves(s)
    BY <2>2 DEF Moves, Looking, At, Dispatch, Stat, Headers, Read, Vanish, Finish, Send, SendError
  <2>3. QED
    BY <2>1, <2>2, Effects
<1>2. CASE Find(s)
  <2>1. \/ registry = None /\ th'[s] = [th[s] EXCEPT !.pc = "headers"]
        \/ th'[s] = [th[s] EXCEPT !.pc = "test", !.it = "valid"]
    BY <1>2, FindLocals, Zenon
  <2>2. QED
    BY <1>0, <2>1 DEF Local
<1>3. CASE Test(s)
  <2>1. PICK seen \in Seen(s) :
          \/ seen = Complete /\ th'[s] = [th[s] EXCEPT !.pc = "headers", !.it = "end"]
          \/ th'[s] = [th[s] EXCEPT !.pc = "compare"]
    BY <1>3, TestLocals, Zenon
  <2>2. seen = registry
    BY <1>0, <1>3, <2>1, TestLocals DEF HeldOf, Seen
  <2>3. QED
    BY <1>0, <2>1, <2>2 DEF Local
<1>4. CASE Compare(s)
  <2>1. PICK seen \in Seen(s) :
          \/ seen = th[s].size /\ th'[s] = [th[s] EXCEPT !.pc = "erase"]
          \/ th'[s] = [th[s] EXCEPT !.pc = "take"]
    BY <1>4, CompareLocals, Zenon
  <2>2. seen = registry /\ registry = goal
    BY <1>0, <1>4, <2>1, CompareLocals DEF HeldOf, Seen
  <2>3. QED
    BY <1>0, <2>1, <2>2 DEF Local
<1>5. CASE Take(s)
  <2>1. PICK seen \in Seen(s) : th'[s] = [th[s] EXCEPT !.pc = "headers", !.it = "end", !.size = seen]
    BY <1>5, TakeLocals, Zenon
  <2>2. seen = registry /\ registry = goal
    BY <1>0, <1>5, <2>1, TakeLocals DEF HeldOf, Seen
  <2>3. QED
    BY <1>0, <2>1, <2>2 DEF Local
<1>6. QED
  BY <1>1, <1>2, <1>3, <1>4, <1>5 DEF LooksUp
-----------------------------------------------------------------------------
\* The inductive invariant holds in every state that serving requests reaches.
THEOREM Invariant == Spec => []IInv
BY IInvInit, IInvNext, PTL DEF Spec

\* The types of the file, its entry of the registry, the owner's call and the
\* locals; the size in use is negative only if the request was overtaken in
\* the middle of its lookup.
THEOREM TypeCorrect == Spec => []TypeOK
<1>1. IInv => TypeOK
  BY TypeImplied DEF IInv
<1>2. QED
  BY <1>1, Invariant, PTL

\* The body that serve_bin_file sends is the one its headers announced, byte
\* by byte and in length, for every size of the buffer and any sizes the file
\* goes through meanwhile.  No byte of it comes from behind a result in memory,
\* unless the Range names an end behind it.
THEOREM SentAsAnnounced == Spec => []BodyAsAnnounced
<1>1. IInv => BodyAsAnnounced
  BY AnnouncedImplied DEF IInv
<1>2. QED
  BY <1>1, Invariant, PTL

\* The registration of a file that is not complete goes away in the three ways
\* accidents names only, each of them a crossing of an erase with another call.
THEOREM RegistrationIsKept == Spec => []RegistrationKept
<1>1. IInv => RegistrationKept
  BY DEF IInv
<1>2. QED
  BY <1>1, Invariant, PTL

\* A range is announced to be a part of what the owner will write, unless a
\* registration went away or this request was overtaken in its lookup.
THEOREM GoalIsAnnounced == Spec => AnnouncesGoal
BY LookupNext, Invariant, PTL DEF Spec, AnnouncesGoal
==============================================================================
