----------------------------- MODULE WebUiProofs -----------------------------
(***************************************************************************)
(* Proofs about WebUi, for any processes and addresses, any number of      *)
(* presets, requests and replies, and replies in any order.                *)
(***************************************************************************)
EXTENDS WebUi, SequenceTheorems, WellFoundedInduction, TLAPS

Reply == {"sent", "ok"}
SelectMsg == [kind : {"select"}, home : Pid, state : Reply]
SearchMsg == [kind : {"search", "refresh"}, state : Reply, found : Match]
ListMsg   == [kind : {"list"}, then : {"search", "refresh"}, state : Reply, list : Pid \cup {NoPid}]
GetMsg    == [kind : {"get"}, addr : Addr, slot : Nat, state : Reply \cup {"failed"}, from : Pid \cup {NoPid}]
SetMsg    == [kind : {"set"}, home : Pid, addr : Addr, value : Place, state : {"sent"}]
Message == SelectMsg \cup SearchMsg \cup ListMsg \cup GetMsg \cup SetMsg

Editor == [home : Pid, at : Nat, entry : Entry]
Editing == selectedAddress # Nothing

\* The types.
Types ==
  /\ viewState \in View /\ oldState \in View /\ match \in Match /\ onFile \in Match /\ listed \in BOOLEAN
  /\ selectedProcess \in Pid \cup {NoPid} /\ candidates \in Pid \cup {NoPid}
  /\ theProcess \in Pid \cup {NoPid} /\ addressList \in Pid \cup {NoPid}
  /\ presets \in [Pid -> Seq(Entry)] /\ net \subseteq Message
  /\ Editing => selectedAddress \in Editor

\* An entry that is edited in its place is one object with the preset.
Shared ==
  Editing /\ selectedAddress.at # 0 =>
    /\ selectedAddress.at \in DOMAIN presets[selectedAddress.home]
    /\ presets[selectedAddress.home][selectedAddress.at] = selectedAddress.entry

\* Before the first selection nothing but selections is sent, and what was
\* read has been read of a process.
Chosen ==
  /\ selectedProcess = NoPid => viewState = "process-select" /\ \A m \in net : m.kind = "select"
  /\ theProcess = NoPid => selectedProcess = NoPid /\ \A m \in net : m.state = "sent"
  /\ \A m \in net : m.kind = "get" =>
       (m.state = "ok" => m.from # NoPid) /\ (m.state = "failed" => m.slot = 0)

\* The view v is shown, or the back button of the presets will show it.
On(v) == viewState = v \/ (viewState = "presets-view" /\ oldState = v)

\* What the editor shows is of the process selected.
EditsSelected == On("value-edit") /\ Editing => selectedAddress.home = selectedProcess

TInv == Types /\ Shared /\ Chosen /\ EditsSelected

\* Requests that the next selection or search waits for: there is one at most.
Blocks(m) == m.kind \in {"select", "search"} \/ (m.kind = "list" /\ m.then = "search")
OneBlocks == \A m, n \in net : Blocks(m) /\ Blocks(n) => m = n

\* Only a selection of another process, that is alone under way, makes the
\* server differ from the page.
Selecting(m) ==
  /\ m.home # selectedProcess => net = {m} /\ viewState = "process-select"
  /\ m.state = "ok" => theProcess = m.home
  /\ \A n \in net : n.kind \notin {"refresh", "list"}
SameProcess ==
  /\ \A m \in net : m.kind = "select" => Selecting(m)
  /\ theProcess # selectedProcess => \E m \in net : m.kind = "select" /\ m.state = "ok"

\* What the page and the replies say of the last search is what the server has.
Searching(m) ==
  /\ m.kind \in {"search", "refresh"} /\ m.state = "ok" => m.found = onFile /\ addressList = theProcess
  /\ m.kind = "search" => \A n \in net : n.kind # "refresh"
  /\ m.kind = "refresh" => onFile # "none"
  /\ m.kind = "list" => (IF m.state = "ok" THEN m.list ELSE addressList) = theProcess
MatchFits ==
  \/ match = onFile
  \/ \E m \in net : m.kind \in {"select", "search"} /\ m.state = "ok"
  \/ ~listed /\ \A m \in net : ~(m.kind = "list" /\ m.then = "search")
Searched ==
  /\ \A m \in net : Searching(m)
  /\ MatchFits
  /\ On("refine-search") => listed
  /\ listed => candidates = selectedProcess

\* The values, and the requests that are to read or write one.
Own(p, e) == e.value = At(p, e.addr) /\ e.lock \in {Unlocked, At(p, e.addr)}
Reading(m) ==
  /\ m.slot = 0 /\ Editing => selectedAddress.home = selectedProcess /\ selectedAddress.entry.addr = m.addr
  /\ m.slot # 0 => m.slot \in DOMAIN Mine /\ Mine[m.slot].addr = m.addr
  /\ m.state = "ok" => m.from = theProcess
Values ==
  /\ \A p \in Pid : \A k \in DOMAIN presets[p] : Own(p, presets[p][k])
  /\ Editing => Own(selectedAddress.home, selectedAddress.entry)
  /\ \A m \in net : m.kind = "get" => Reading(m)
  /\ \A m \in net : m.kind = "set" => m.home = selectedProcess /\ m.value = At(m.home, m.addr)

\* The inductive invariant.
IInv == TInv /\ OneBlocks /\ (Calm => SameProcess /\ Searched /\ Values)
-----------------------------------------------------------------------------
(* Messages, and the replies to them.                                       *)

LEMMA KindOf ==
  ASSUME NEW m \in Message
  PROVE  /\ m.kind \in {"select", "search", "refresh", "list", "get", "set"}
         /\ m.kind = "select" => m \in SelectMsg
         /\ m.kind \in {"search", "refresh"} => m \in SearchMsg
         /\ m.kind = "list" => m \in ListMsg
         /\ m.kind = "get" => m \in GetMsg
         /\ m.kind = "set" => m \in SetMsg
BY DEF Message, SelectMsg, SearchMsg, ListMsg, GetMsg, SetMsg

LEMMA SelectAnswer ==
  ASSUME NEW m \in SelectMsg
  PROVE  LET r == [m EXCEPT !.state = "ok"] IN
         r \in SelectMsg /\ r.kind = "select" /\ r.home = m.home /\ r.state = "ok"
BY DEF SelectMsg, Reply

LEMMA SearchAnswer ==
  ASSUME NEW m \in SearchMsg, NEW f \in Match
  PROVE  LET r == [m EXCEPT !.state = "ok", !.found = f] IN
         r \in SearchMsg /\ r.kind = m.kind /\ r.found = f /\ r.state = "ok"
BY DEF SearchMsg, Reply

LEMMA ListAnswer ==
  ASSUME NEW m \in ListMsg, NEW p \in Pid \cup {NoPid}
  PROVE  LET r == [m EXCEPT !.state = "ok", !.list = p] IN
         r \in ListMsg /\ r.kind = "list" /\ r.then = m.then /\ r.list = p /\ r.state = "ok"
BY DEF ListMsg, Reply

LEMMA GetFailure ==
  ASSUME NEW m \in GetMsg
  PROVE  LET r == [m EXCEPT !.state = "failed"] IN
         /\ r \in GetMsg /\ r.kind = "get" /\ r.addr = m.addr /\ r.slot = m.slot
         /\ r.from = m.from /\ r.state = "failed"
BY DEF GetMsg, Reply
-----------------------------------------------------------------------------
(* Entries and the lists of them.                                           *)

LEMMA EntryOf ==
  /\ \A e \in Entry : e.addr \in Addr /\ e.value \in Place /\ e.lock \in Place \cup {Unlocked}
  /\ \A e \in Entry, x \in Place :
       LET n == [e EXCEPT !.value = x] IN n \in Entry /\ n.addr = e.addr /\ n.value = x /\ n.lock = e.lock
  /\ \A e \in Entry, x \in Place \cup {Unlocked} :
       LET n == [e EXCEPT !.lock = x] IN n \in Entry /\ n.addr = e.addr /\ n.value = e.value /\ n.lock = x
BY DEF Entry

LEMMA AtOf == ASSUME NEW p \in Pid, NEW a \in Addr PROVE At(p, a) \in Place
BY DEF At, Place

LEMMA Appended ==
  ASSUME NEW S, NEW s \in Seq(S), NEW e \in S
  PROVE  /\ Append(s, e) \in Seq(S) /\ DOMAIN Append(s, e) = DOMAIN s \cup {Len(s) + 1}
         /\ Append(s, e)[Len(s) + 1] = e /\ Len(s) + 1 \notin DOMAIN s /\ Len(s) + 1 \in Nat \ {0}
         /\ \A k \in DOMAIN s : Append(s, e)[k] = s[k]
<1>1. Len(s) \in Nat /\ DOMAIN s = 1..Len(s)
  BY LenProperties
<1>2. /\ Append(s, e) \in Seq(S) /\ Len(Append(s, e)) = Len(s) + 1
      /\ \A k \in 1..Len(s) : Append(s, e)[k] = s[k]
      /\ Append(s, e)[Len(s) + 1] = e
  BY AppendProperties
<1>3. DOMAIN Append(s, e) = 1..(Len(s) + 1)
  BY <1>2, LenProperties
<1>4. QED
  BY <1>1, <1>2, <1>3

\* What is behind the element removed moves up.
LEMMA Removed ==
  ASSUME NEW S, NEW s \in Seq(S), NEW n \in DOMAIN s
  PROVE  /\ RemoveAt(s, n) \in Seq(S)
         /\ \A k \in DOMAIN RemoveAt(s, n) : k \in DOMAIN s /\ RemoveAt(s, n)[k] = IF k < n THEN s[k] ELSE s[k + 1]
         /\ \A k \in DOMAIN s : k < n => k \in DOMAIN RemoveAt(s, n)
         /\ \A k \in DOMAIN s : k > n => k - 1 \in DOMAIN RemoveAt(s, n)
         /\ \A k \in DOMAIN RemoveAt(s, n) : k >= n => k + 1 \in DOMAIN s
<1> DEFINE len == Len(s)  a == SubSeq(s, 1, n - 1)  b == SubSeq(s, n + 1, len)
<1>1. len \in Nat /\ DOMAIN s = 1..len /\ n \in 1..len
  BY LenProperties
<1>2. \A k \in 1..len : s[k] \in S
  BY <1>1, ElementOfSeq
<1> HIDE DEF len
<1>3. a \in Seq(S) /\ Len(a) = n - 1 /\ \A k \in 1..(n - 1) : a[k] = s[k]
  <2>1. \A k \in 1..(n - 1) : s[k] \in S
    BY <1>1, <1>2
  <2>2. /\ a \in Seq(S) /\ Len(a) = IF 1 <= n - 1 THEN (n - 1) - 1 + 1 ELSE 0
        /\ \A k \in 1..((n - 1) - 1 + 1) : a[k] = s[1 + k - 1]
    BY <1>1, <2>1, SubSeqProperties
  <2>3. QED
    BY <1>1, <2>2
<1>4. b \in Seq(S) /\ Len(b) = len - n /\ \A k \in 1..(len - n) : b[k] = s[n + k]
  <2>1. \A k \in (n + 1)..len : s[k] \in S
    BY <1>1, <1>2
  <2>2. /\ b \in Seq(S) /\ Len(b) = IF n + 1 <= len THEN len - (n + 1) + 1 ELSE 0
        /\ \A k \in 1..(len - (n + 1) + 1) : b[k] = s[(n + 1) + k - 1]
    BY <1>1, <2>1, SubSeqProperties
  <2>3. QED
    BY <1>1, <2>2
<1>5. RemoveAt(s, n) = a \o b
  BY DEF RemoveAt, len
<1> DEFINE c == a \o b
<1> HIDE DEF a, b
<1>6. /\ c \in Seq(S) /\ Len(c) = (n - 1) + (len - n)
      /\ \A k \in 1..((n - 1) + (len - n)) : c[k] = IF k <= n - 1 THEN a[k] ELSE b[k - (n - 1)]
  <2>1. /\ c \in Seq(S) /\ Len(c) = Len(a) + Len(b)
        /\ \A k \in 1..(Len(a) + Len(b)) : c[k] = IF k <= Len(a) THEN a[k] ELSE b[k - Len(a)]
    BY <1>3, <1>4, ConcatProperties
  <2>2. Len(a) = n - 1 /\ Len(b) = len - n
    BY <1>3, <1>4
  <2> HIDE DEF c
  <2>3. QED
    BY <2>1, <2>2
<1>7. DOMAIN c = 1..(len - 1)
  <2>1. DOMAIN c = 1..Len(c)
    BY <1>6, LenProperties
  <2>2. QED
    BY <1>1, <1>6, <2>1
<1> HIDE DEF c
<1>8. ASSUME NEW k \in 1..(len - 1) PROVE c[k] = IF k < n THEN s[k] ELSE s[k + 1]
  <2>1. k \in 1..((n - 1) + (len - n))
    BY <1>1
  <2>2. CASE k < n
    <3>1. k \in 1..(n - 1) /\ k <= n - 1
      BY <1>1, <2>2
    <3>2. QED
      BY <1>3, <1>6, <2>1, <2>2, <3>1
  <2>3. CASE ~(k < n)
    <3>1. k - (n - 1) \in 1..(len - n) /\ n + (k - (n - 1)) = k + 1 /\ ~(k <= n - 1)
      BY <1>1, <2>3
    <3>2. QED
      BY <1>4, <1>6, <2>1, <2>3, <3>1
  <2>4. QED
    BY <2>2, <2>3
<1>9. RemoveAt(s, n) = c
  BY <1>5 DEF c
<1>10. c \in Seq(S)
  BY <1>6
<1>11. QED
  BY <1>1, <1>7, <1>8, <1>9, <1>10

\* Every set of numbers has a smallest one.
LEMMA MinIn ==
  ASSUME NEW T \in SUBSET Nat, T # {}
  PROVE  Min(T) \in T
<1> DEFINE R == {ss \in Nat \X Nat : ss[1] < ss[2]}
<1>1. IsWellFoundedOn(R, Nat)
  <2>1. R = OpToRel(<, Nat)
    BY DEF OpToRel
  <2>2. QED
    BY <2>1, NatLessThanWellFounded
<1>2. PICK x \in T : \A y \in T : <<y, x>> \notin R
  <2> HIDE DEF R
  <2> QED
    BY <1>1, WFMin
<1>3. \A y \in T : x <= y
  <2> SUFFICES ASSUME NEW y \in T PROVE x <= y
    OBVIOUS
  <2>1. x \in Nat /\ y \in Nat
    OBVIOUS
  <2>2. y < x => <<y, x>> \in R
    BY <2>1
  <2>3. QED
    BY <1>2, <2>1, <2>2
<1>4. QED
  BY <1>3 DEF Min

LEMMA EditorOf ==
  /\ \A x \in Editor : x.home \in Pid /\ x.at \in Nat /\ x.entry \in Entry /\ x # Nothing
  /\ \A x \in Editor, e \in Entry :
       LET y == [x EXCEPT !.entry = e] IN y \in Editor /\ y.home = x.home /\ y.at = x.at /\ y.entry = e
  /\ \A x \in Editor, n \in Nat :
       LET y == [x EXCEPT !.at = n] IN y \in Editor /\ y.home = x.home /\ y.at = n /\ y.entry = x.entry
<1>1. \A x \in Editor : x.home # Nothing.home
  BY NoPidAssumption DEF Editor, Nothing
<1>2. \A x \in Editor : x # Nothing
  BY <1>1
<1>3. QED
  BY <1>2 DEF Editor

\* The entry n of the process h is changed to e, and nothing else; with n = 0
\* it is the entry in the editor that is no preset.
Writes(h, n, e) ==
  /\ presets' \in [Pid -> Seq(Entry)]
  /\ \A q \in Pid : DOMAIN presets'[q] = DOMAIN presets[q]
  /\ \A q \in Pid : \A k \in DOMAIN presets[q] : presets'[q][k] = IF q = h /\ k = n THEN e ELSE presets[q][k]
  /\ Editing' <=> Editing
  /\ Editing => /\ selectedAddress' \in Editor
                /\ selectedAddress'.home = selectedAddress.home
                /\ selectedAddress'.at = selectedAddress.at
                /\ selectedAddress'.entry = IF selectedAddress.home = h /\ selectedAddress.at = n
                                            THEN e ELSE selectedAddress.entry

LEMMA UpdateWrites ==
  ASSUME Types, NEW p \in Pid, NEW n \in DOMAIN presets[p], NEW e \in Entry, Update(p, n, e)
  PROVE  Writes(p, n, e)
<1>1. presets \in [Pid -> Seq(Entry)] /\ presets[p] \in Seq(Entry)
  BY DEF Types
<1>2. presets' = [presets EXCEPT ![p] = [presets[p] EXCEPT ![n] = e]]
  BY <1>1 DEF Update
<1> DEFINE s == [presets[p] EXCEPT ![n] = e]
<1>3. /\ s \in Seq(Entry) /\ DOMAIN s = DOMAIN presets[p]
      /\ \A k \in DOMAIN presets[p] : s[k] = IF k = n THEN e ELSE presets[p][k]
  <2>1. n \in 1..Len(presets[p])
    BY <1>1, LenProperties
  <2>2. s \in Seq(Entry)
    BY <1>1, <2>1, ExceptSeq
  <2>3. QED
    BY <1>1, <2>2
<1> HIDE DEF s
<1>4. presets' = [presets EXCEPT ![p] = s]
  BY <1>2 DEF s
<1>5. /\ presets' \in [Pid -> Seq(Entry)] /\ presets'[p] = s
      /\ \A q \in Pid : q # p => presets'[q] = presets[q]
  BY <1>1, <1>3, <1>4
<1>6. ASSUME NEW q \in Pid
      PROVE  /\ DOMAIN presets'[q] = DOMAIN presets[q]
             /\ \A k \in DOMAIN presets[q] : presets'[q][k] = IF q = p /\ k = n THEN e ELSE presets[q][k]
  BY <1>3, <1>5
<1>7. CASE Editing
  <2>1. selectedAddress \in Editor
    BY <1>7 DEF Types
  <2>2. selectedAddress' = IF selectedAddress.home = p /\ selectedAddress.at = n
                           THEN [selectedAddress EXCEPT !.entry = e] ELSE selectedAddress
    BY <1>7 DEF Update, Editing
  <2>3. QED
    BY <1>5, <1>6, <1>7, <2>1, <2>2, EditorOf DEF Writes, Editing
<1>8. CASE ~Editing
  BY <1>5, <1>6, <1>8 DEF Writes, Update, Editing
<1>9. QED
  BY <1>7, <1>8

LEMMA MineOf ==
  ASSUME Types
  PROVE  /\ selectedProcess \in Pid => Mine = presets[selectedProcess]
         /\ \A k \in DOMAIN Mine : /\ selectedProcess \in Pid /\ k \in Nat \ {0} /\ Mine[k] \in Entry
<1>1. CASE selectedProcess = NoPid
  BY <1>1, NoPidAssumption DEF Mine
<1>2. CASE selectedProcess \in Pid
  <2>1. Mine = presets[selectedProcess] /\ presets[selectedProcess] \in Seq(Entry)
    BY <1>2, NoPidAssumption DEF Mine, Types
  <2>2. DOMAIN presets[selectedProcess] = 1..Len(presets[selectedProcess]) /\ Len(presets[selectedProcess]) \in Nat
    BY <2>1, LenProperties
  <2>3. QED
    BY <1>2, <2>1, <2>2, ElementOfSeq
<1>3. QED
  BY <1>1, <1>2 DEF Types

\* What the timer sends.
LEMMA TickSends ==
  ASSUME TInv, NEW n \in Gets \cup Refreshes \cup Locks
  PROVE  /\ n \in Message /\ n.state = "sent" /\ n.kind \in {"get", "refresh", "set"}
         /\ selectedProcess \in Pid /\ viewState # "process-select"
         /\ n.kind = "get" => \/ /\ n.slot = 0 /\ Editing /\ n.addr = selectedAddress.entry.addr
                                 /\ selectedAddress.home = selectedProcess
                              \/ n.slot # 0 /\ n.slot \in DOMAIN Mine /\ n.addr = Mine[n.slot].addr
         /\ n.kind = "refresh" => viewState = "refine-search" /\ match = "few"
         /\ n.kind = "set" => /\ n.home = selectedProcess
                              /\ \E k \in DOMAIN Mine :
                                   n.addr = Mine[k].addr /\ n.value = Mine[k].lock /\ n.value # Unlocked
<1> USE DEF TInv
<1>1. CASE n \in Gets
  <2>1. CASE viewState = "value-edit" /\ Editing
    <3>1. n = Get(selectedAddress.entry.addr, 0)
      BY <1>1, <2>1 DEF Gets, In, Editing
    <3>2. selectedAddress.home = selectedProcess /\ selectedProcess \in Pid /\ selectedAddress.entry.addr \in Addr
      BY <2>1, EditorOf, EntryOf DEF EditsSelected, On, Types
    <3>3. QED
      BY <2>1, <3>1, <3>2 DEF Get, Message, GetMsg, Reply
  <2>2. CASE viewState = "presets-view"
    <3>1. PICK k \in DOMAIN Mine : n = Get(Mine[k].addr, k)
      BY <1>1, <2>2 DEF Gets, In
    <3>2. selectedProcess \in Pid /\ k \in Nat \ {0} /\ Mine[k].addr \in Addr
      BY <3>1, MineOf, EntryOf
    <3>3. QED
      BY <2>2, <3>1, <3>2 DEF Get, Message, GetMsg, Reply
  <2>3. QED
    BY <1>1, <2>1, <2>2 DEF Gets, In, Editing
<1>2. CASE n \in Refreshes
  <2>1. n = Request("refresh") /\ viewState = "refine-search" /\ match = "few"
    BY <1>2 DEF Refreshes, In
  <2>2. selectedProcess \in Pid
    BY <2>1 DEF Chosen, Types
  <2>3. QED
    BY <2>1, <2>2 DEF Request, Message, SearchMsg, Reply, Match
<1>3. CASE n \in Locks
  <2>1. viewState # "process-select"
    BY <1>3 DEF Locks, In
  <2>2. PICK k \in DOMAIN Mine : Mine[k].lock # Unlocked /\ n = Set(Mine[k].addr, Mine[k].lock)
    BY <1>3, <2>1 DEF Locks, In
  <2>3. selectedProcess \in Pid /\ Mine[k].addr \in Addr /\ Mine[k].lock \in Place
    BY <2>2, MineOf, EntryOf
  <2>4. QED
    BY <2>1, <2>2, <2>3 DEF Set, Message, SetMsg
<1>4. QED
  BY <1>1, <1>2, <1>3
\* What the buttons send.
LEMMA SelectSends ==
  ASSUME TInv, NEW p \in Pid, SelectProcess(p) \/ (RestartSearch /\ p = selectedProcess)
  PROVE  /\ ~Waiting
         /\ \E s : /\ net' = net \cup {s} /\ s.kind = "select" /\ s.home = p /\ s.state = "sent"
                   /\ viewState = "process-select" \/ (p = selectedProcess /\ viewState # "process-select")
         /\ UNCHANGED <<viewState, oldState, selectedProcess, match, candidates, selectedAddress, presets>>
         /\ UNCHANGED <<theProcess, onFile, addressList, listed>>
<1> DEFINE s == Select(p)
<1>1. s.kind = "select" /\ s.home = p /\ s.state = "sent"
  BY DEF Select
<1>2. net' = net \cup {s} /\ ~Waiting
  BY DEF SelectProcess, RestartSearch, Sends
<1>3. viewState = "process-select" \/ (p = selectedProcess /\ viewState # "process-select")
  BY DEF SelectProcess, RestartSearch, In
<1> HIDE DEF s
<1>4. \E x : /\ net' = net \cup {x} /\ x.kind = "select" /\ x.home = p /\ x.state = "sent"
             /\ viewState = "process-select" \/ (p = selectedProcess /\ viewState # "process-select")
  BY <1>1, <1>2, <1>3
<1>5. QED
  BY <1>2, <1>4 DEF SelectProcess, RestartSearch, page, server

LEMMA SearchSends ==
  ASSUME TInv, Search
  PROVE  /\ ~Waiting /\ selectedProcess \in Pid
         /\ \E s : net' = net \cup {s} /\ s.kind = "search" /\ s.state = "sent"
         /\ UNCHANGED <<viewState, oldState, selectedProcess, match, candidates, selectedAddress, presets>>
         /\ UNCHANGED <<theProcess, onFile, addressList, listed>>
<1> DEFINE s == Request("search")
<1>1. s.kind = "search" /\ s.state = "sent"
  BY DEF Request
<1>2. net' = net \cup {s} /\ ~Waiting
  BY DEF Search, Sends
<1> HIDE DEF s
<1>3. \E x : net' = net \cup {x} /\ x.kind = "search" /\ x.state = "sent"
  BY <1>1, <1>2
<1>4. selectedProcess \in Pid
  BY DEF Search, In, TInv, Types, Chosen
<1>5. QED
  BY <1>2, <1>3, <1>4 DEF Search, page, server

LEMMA SetSends ==
  ASSUME TInv, SetValue
  PROVE  /\ selectedProcess \in Pid
         /\ \E s : /\ net' = net \cup {s} /\ s.kind = "set" /\ s.state = "sent" /\ s.home = selectedProcess
                   /\ s.value = At(s.home, s.addr)
         /\ UNCHANGED <<viewState, oldState, selectedProcess, match, candidates, selectedAddress, presets>>
         /\ UNCHANGED <<theProcess, onFile, addressList, listed, accidents>>
<1> DEFINE a == selectedAddress.entry.addr
           s == Set(a, At(selectedProcess, a))
<1>1. s.kind = "set" /\ s.state = "sent" /\ s.home = selectedProcess /\ s.value = At(s.home, s.addr)
  BY DEF Set
<1>2. net' = net \cup {s}
  BY DEF SetValue, Sends
<1> HIDE DEF s
<1>3. \E x : /\ net' = net \cup {x} /\ x.kind = "set" /\ x.state = "sent" /\ x.home = selectedProcess
             /\ x.value = At(x.home, x.addr)
  BY <1>1, <1>2
<1>4. selectedProcess \in Pid
  BY DEF SetValue, In, TInv, Types, Chosen
<1>5. QED
  BY <1>3, <1>4 DEF SetValue, page, server

-----------------------------------------------------------------------------
(* What the steps that change an entry do.                                  *)

LEMMA ToggleWrites ==
  ASSUME TInv, NEW k \in DOMAIN Mine, ToggledPresetLock(k)
  PROVE  \E e \in Entry : /\ Writes(selectedProcess, k, e) /\ e.addr = Mine[k].addr /\ e.value = Mine[k].value
                          /\ e.lock \in {Unlocked, Mine[k].value}
<1> DEFINE x == presets[selectedProcess][k]
           e == [x EXCEPT !.lock = IF x.lock = Unlocked THEN x.value ELSE Unlocked]
<1>1. selectedProcess \in Pid /\ x \in Entry /\ k \in DOMAIN presets[selectedProcess] /\ Mine[k] = x
  BY MineOf DEF TInv
<1>2. e \in Entry /\ e.addr = x.addr /\ e.value = x.value /\ e.lock \in {Unlocked, x.value}
  BY <1>1, EntryOf
<1>3. Update(selectedProcess, k, e)
  BY DEF ToggledPresetLock
<1> HIDE DEF x, e
<1>4. Writes(selectedProcess, k, e)
  BY <1>1, <1>2, <1>3, UpdateWrites DEF TInv
<1>5. QED
  BY <1>1, <1>2, <1>4

LEMMA GetReplyOf ==
  ASSUME TInv, NEW m \in net, m.kind = "get", m.state # "sent"
  PROVE  /\ m \in GetMsg /\ m.addr \in Addr /\ m.slot \in Nat /\ m.state \in {"ok", "failed"}
         /\ m.slot # 0 \/ m.state = "ok" => m.state = "ok" /\ m.from \in Pid
<1>1. m \in Message
  BY DEF TInv, Types
<1>2. m \in GetMsg
  BY <1>1, KindOf
<1>3. QED
  BY <1>2 DEF GetMsg, Reply, TInv, Chosen

LEMMA EditedWrites ==
  ASSUME TInv, NEW m \in net, m.state # "sent", GotEdited(m), Editing
  PROVE  \E e \in Entry : /\ Writes(selectedAddress.home, selectedAddress.at, e)
                          /\ e.addr = selectedAddress.entry.addr /\ e.lock = selectedAddress.entry.lock
                          /\ e.value = At(m.from, m.addr)
<1> DEFINE e == [selectedAddress.entry EXCEPT !.value = At(m.from, m.addr)]
<1>1. m.from \in Pid /\ m.addr \in Addr
  BY GetReplyOf DEF GotEdited
<1>2. selectedAddress \in Editor /\ selectedAddress.home \in Pid /\ selectedAddress.at \in Nat /\ selectedAddress.entry \in Entry
  BY EditorOf DEF TInv, Types
<1>3. /\ e \in Entry /\ e.addr = selectedAddress.entry.addr /\ e.lock = selectedAddress.entry.lock
      /\ e.value = At(m.from, m.addr)
  BY <1>1, <1>2, EntryOf, AtOf
<1>4. IF selectedAddress.at = 0
      THEN selectedAddress' = [selectedAddress EXCEPT !.entry = e] /\ UNCHANGED presets
      ELSE Update(selectedAddress.home, selectedAddress.at, e)
  BY DEF GotEdited, Editing
<1> HIDE DEF e
<1>5. CASE selectedAddress.at = 0
  <2>1. /\ selectedAddress' \in Editor /\ selectedAddress'.home = selectedAddress.home
        /\ selectedAddress'.at = selectedAddress.at /\ selectedAddress'.entry = e /\ Editing'
    <3>1. selectedAddress' = [selectedAddress EXCEPT !.entry = e] /\ e \in Entry /\ selectedAddress \in Editor
      BY <1>2, <1>3, <1>4, <1>5
    <3>2. QED
      BY <3>1, EditorOf DEF Editing
  <2>2. \A q \in Pid : 0 \notin DOMAIN presets[q]
    <3>1. ASSUME NEW q \in Pid PROVE DOMAIN presets[q] = 1..Len(presets[q]) /\ Len(presets[q]) \in Nat
      BY LenProperties DEF TInv, Types
    <3>2. QED
      BY <3>1
  <2>3. presets' = presets /\ presets \in [Pid -> Seq(Entry)]
    BY <1>4, <1>5 DEF TInv, Types
  <2>4. Writes(selectedAddress.home, selectedAddress.at, e)
    BY <1>5, <2>1, <2>2, <2>3 DEF Writes
  <2>5. QED
    BY <1>3, <2>4
<1>6. CASE selectedAddress.at # 0
  <2>1. selectedAddress.at \in DOMAIN presets[selectedAddress.home]
    BY <1>6 DEF TInv, Shared
  <2>2. Writes(selectedAddress.home, selectedAddress.at, e)
    BY <1>2, <1>3, <1>4, <1>6, <2>1, UpdateWrites DEF TInv
  <2>3. QED
    BY <1>3, <2>2
<1>7. QED
  BY <1>5, <1>6

LEMMA PresetWrites ==
  ASSUME TInv, NEW m \in net, m.state # "sent", GotPreset(m), m.slot \in DOMAIN Mine
  PROVE  \E e \in Entry : /\ Writes(selectedProcess, m.slot, e) /\ e.addr = Mine[m.slot].addr
                          /\ e.lock = Mine[m.slot].lock /\ e.value = At(m.from, m.addr)
<1> DEFINE x == Mine[m.slot]
           e == [x EXCEPT !.value = At(m.from, m.addr)]
<1>1. m.from \in Pid /\ m.addr \in Addr
  BY GetReplyOf DEF GotPreset
<1>2. selectedProcess \in Pid /\ m.slot \in DOMAIN presets[selectedProcess] /\ x \in Entry
  BY MineOf DEF TInv
<1>3. e \in Entry /\ e.addr = x.addr /\ e.lock = x.lock /\ e.value = At(m.from, m.addr)
  BY <1>1, <1>2, EntryOf, AtOf
<1>4. Update(selectedProcess, m.slot, e)
  BY DEF GotPreset
<1> HIDE DEF e, x
<1>5. Writes(selectedProcess, m.slot, e)
  BY <1>2, <1>3, <1>4, UpdateWrites DEF TInv
<1>6. QED
  BY <1>3, <1>5 DEF x

\* The candidate or the preset chosen is in the editor.
Opens(n, e) ==
  /\ selectedProcess \in Pid /\ e \in Entry /\ selectedAddress' \in Editor /\ Editing'
  /\ selectedAddress'.home = selectedProcess /\ selectedAddress'.at = n /\ selectedAddress'.entry = e

LEMMA SelectOpens ==
  ASSUME NEW n \in Nat, NEW e \in Entry, selectedProcess \in Pid,
         selectedAddress' = [home |-> selectedProcess, at |-> n, entry |-> e]
  PROVE  Opens(n, e)
<1>1. /\ selectedAddress' \in Editor /\ selectedAddress'.home = selectedProcess
      /\ selectedAddress'.at = n /\ selectedAddress'.entry = e
  BY DEF Editor
<1>2. Editing'
  BY <1>1, EditorOf DEF Editing
<1>3. QED
  BY <1>1, <1>2 DEF Opens

\* A row that was never added, or one that is a preset by now.
Row(n, e, a) ==
  /\ Opens(n, e)
  /\ \/ n = 0 /\ e.addr = a /\ e.value = At(candidates, a) /\ e.lock = Unlocked
     \/ n \in DOMAIN presets[selectedProcess] /\ e = presets[selectedProcess][n]

LEMMA CandidateOpens ==
  ASSUME TInv, NEW a \in Addr, SelectCandidate(a)
  PROVE  \E n \in Nat, e \in Entry : Row(n, e, a)
<1>1. selectedProcess \in Pid /\ candidates \in Pid
  BY DEF SelectCandidate, In, TInv, Types, Chosen
<1>2. CASE SelectAddress(0, [addr |-> a, value |-> At(candidates, a), lock |-> Unlocked])
  <2> DEFINE e == [addr |-> a, value |-> At(candidates, a), lock |-> Unlocked]
  <2>1. e \in Entry /\ e.addr = a /\ e.value = At(candidates, a) /\ e.lock = Unlocked
    BY <1>1, AtOf DEF Entry
  <2>2. selectedAddress' = [home |-> selectedProcess, at |-> 0, entry |-> e]
    BY <1>2 DEF SelectAddress
  <2> HIDE DEF e
  <2>3. Opens(0, e)
    BY <1>1, <2>1, <2>2, SelectOpens
  <2>4. QED
    BY <2>1, <2>3 DEF Row
<1>3. ASSUME NEW k \in DOMAIN Mine, SelectAddress(k, Mine[k])
      PROVE  \E n \in Nat, e \in Entry : Row(n, e, a)
  <2> DEFINE e == presets[selectedProcess][k]
  <2>1. /\ e \in Entry /\ k \in Nat /\ k \in DOMAIN presets[selectedProcess] /\ Mine[k] = e
    BY <1>1, MineOf DEF TInv, Mine
  <2>2. selectedAddress' = [home |-> selectedProcess, at |-> k, entry |-> e]
    BY <1>3, <2>1 DEF SelectAddress
  <2>3. Opens(k, e)
    BY <1>1, <2>1, <2>2, SelectOpens
  <2>4. QED
    BY <2>1, <2>3 DEF Row
<1>4. QED
  BY <1>2, <1>3 DEF SelectCandidate

LEMMA PresetOpens ==
  ASSUME TInv, NEW k \in DOMAIN Mine, SelectPreset(k)
  PROVE  Opens(k, presets[selectedProcess][k])
<1>1. /\ selectedProcess \in Pid /\ presets[selectedProcess][k] \in Entry /\ k \in Nat
      /\ k \in DOMAIN presets[selectedProcess]
  BY MineOf DEF TInv
<1>2. QED
  BY <1>1, SelectOpens DEF SelectPreset, SelectAddress

\* The entry in the editor is appended to the presets.
LEMMA AddOpens ==
  ASSUME TInv, AddToPresets
  PROVE  \E e \in Entry, n \in Nat \ {0} :
           /\ Opens(n, e) /\ e.addr = selectedAddress.entry.addr /\ e.value = selectedAddress.entry.value
           /\ e.lock = Unlocked /\ Editing
           /\ presets' \in [Pid -> Seq(Entry)]
           /\ n \notin DOMAIN presets[selectedProcess]
           /\ DOMAIN presets'[selectedProcess] = DOMAIN presets[selectedProcess] \cup {n}
           /\ presets'[selectedProcess][n] = e
           /\ \A k \in DOMAIN presets[selectedProcess] :
                presets'[selectedProcess][k] = presets[selectedProcess][k]
           /\ \A q \in Pid : q # selectedProcess => presets'[q] = presets[q]
<1> DEFINE x == selectedAddress.entry
           e == [x EXCEPT !.lock = Unlocked]
           s == presets[selectedProcess]
           n == Len(s) + 1
<1>1. selectedProcess \in Pid /\ Editing /\ x \in Entry
  BY EditorOf DEF AddToPresets, In, TInv, Types, Chosen, Editing
<1>2. e \in Entry /\ e.addr = x.addr /\ e.value = x.value /\ e.lock = Unlocked
  BY <1>1, EntryOf
<1>3. presets \in [Pid -> Seq(Entry)] /\ s \in Seq(Entry)
  BY <1>1 DEF TInv, Types
<1>4. /\ presets' = [presets EXCEPT ![selectedProcess] = Append(s, e)]
      /\ selectedAddress' = [home |-> selectedProcess, at |-> Len(presets'[selectedProcess]), entry |-> e]
  BY DEF AddToPresets
<1> HIDE DEF e, s, x
<1>5. /\ Append(s, e) \in Seq(Entry) /\ DOMAIN Append(s, e) = DOMAIN s \cup {n}
      /\ Append(s, e)[n] = e /\ n \notin DOMAIN s /\ n \in Nat \ {0} /\ Len(Append(s, e)) = n
      /\ \A k \in DOMAIN s : Append(s, e)[k] = s[k]
  BY <1>2, <1>3, Appended, AppendProperties
<1> HIDE DEF n
<1>6. /\ presets' \in [Pid -> Seq(Entry)] /\ presets'[selectedProcess] = Append(s, e)
      /\ \A q \in Pid : q # selectedProcess => presets'[q] = presets[q]
  BY <1>1, <1>3, <1>4, <1>5
<1>7. Opens(n, e)
  BY <1>1, <1>2, <1>4, <1>5, <1>6, SelectOpens
<1>8. QED
  BY <1>1, <1>2, <1>5, <1>6, <1>7 DEF s, x

\* The preset n goes, and the editor is told.
LEMMA RemoveOf ==
  ASSUME TInv, NEW a \in Addr, RemoveFromPresets(a)
  PROVE  \E n \in DOMAIN presets[selectedProcess] :
           /\ selectedProcess \in Pid /\ n \in Nat \ {0}
           /\ presets' = [presets EXCEPT ![selectedProcess] = RemoveAt(presets[selectedProcess], n)]
           /\ presets' \in [Pid -> Seq(Entry)]
           /\ Editing' <=> Editing
           /\ Editing => /\ selectedAddress' \in Editor
                         /\ selectedAddress'.home = selectedAddress.home
                         /\ selectedAddress'.entry = selectedAddress.entry
                         /\ selectedAddress'.at =
                              IF selectedAddress.home # selectedProcess \/ selectedAddress.at < n
                              THEN selectedAddress.at
                              ELSE IF selectedAddress.at = n THEN 0 ELSE selectedAddress.at - 1
<1> DEFINE s == presets[selectedProcess]
           hits == {k \in DOMAIN s : s[k].addr = a}
           n == Min(hits)
<1>1. selectedProcess \in Pid /\ s \in Seq(Entry) /\ presets \in [Pid -> Seq(Entry)]
  BY DEF RemoveFromPresets, In, TInv, Types, Chosen
<1>2. n \in DOMAIN s /\ n \in Nat \ {0}
  <2>1. DOMAIN s = 1..Len(s) /\ Len(s) \in Nat
    BY <1>1, LenProperties
  <2>2. hits \in SUBSET Nat /\ hits # {} /\ hits \subseteq DOMAIN s
    BY <2>1 DEF RemoveFromPresets
  <2> HIDE DEF hits, s
  <2>3. n \in hits
    BY <2>2, MinIn
  <2> HIDE DEF n
  <2>4. QED
    BY <2>1, <2>2, <2>3
<1>3. /\ presets' = [presets EXCEPT ![selectedProcess] = RemoveAt(s, n)]
      /\ selectedAddress' =
           IF selectedAddress = Nothing \/ selectedAddress.home # selectedProcess \/ selectedAddress.at < n
           THEN selectedAddress
           ELSE [selectedAddress EXCEPT !.at = IF selectedAddress.at = n THEN 0 ELSE selectedAddress.at - 1]
  BY DEF RemoveFromPresets
<1> HIDE DEF s, n
<1>4. presets' \in [Pid -> Seq(Entry)]
  <2>1. RemoveAt(s, n) \in Seq(Entry)
    BY <1>1, <1>2, Removed
  <2>2. QED
    BY <1>1, <1>3, <2>1
<1>5. CASE Editing
  <2>1. selectedAddress \in Editor /\ selectedAddress # Nothing /\ selectedAddress.at \in Nat
    BY <1>5, EditorOf DEF TInv, Types, Editing
  <2> DEFINE x == IF selectedAddress.at = n THEN 0 ELSE selectedAddress.at - 1
  <2>2. CASE selectedAddress.home # selectedProcess \/ selectedAddress.at < n
    BY <1>1, <1>2, <1>3, <1>4, <1>5, <2>1, <2>2 DEF Editing, s
  <2>3. CASE ~(selectedAddress.home # selectedProcess \/ selectedAddress.at < n)
    <3>1. x \in Nat
      BY <1>2, <2>1, <2>3
    <3>2. selectedAddress' = [selectedAddress EXCEPT !.at = x]
      BY <1>3, <2>1, <2>3
    <3> HIDE DEF x
    <3>3. /\ selectedAddress' \in Editor /\ selectedAddress'.home = selectedAddress.home
          /\ selectedAddress'.entry = selectedAddress.entry /\ selectedAddress'.at = x /\ Editing'
      BY <2>1, <3>1, <3>2, EditorOf DEF Editing
    <3>4. QED
      BY <1>1, <1>2, <1>3, <1>4, <1>5, <2>3, <3>3 DEF s, x
  <2>4. QED
    BY <2>2, <2>3
<1>6. CASE ~Editing
  BY <1>1, <1>2, <1>3, <1>4, <1>6 DEF Editing, s
<1>7. QED
  BY <1>5, <1>6
-----------------------------------------------------------------------------
(* What becomes of a message.                                               *)

\* r takes the place of m.
Becomes(m, r) == net' = (net \ {m}) \cup {r} /\ r \in Message

LEMMA SelectHandled ==
  ASSUME TInv, NEW m \in net, HandleSelect(m)
  PROVE  m.home \in Pid /\ \E r : Becomes(m, r) /\ r.kind = "select" /\ r.home = m.home /\ r.state = "ok"
<1>1. m \in SelectMsg /\ m.home \in Pid
  BY KindOf DEF HandleSelect, SelectMsg, TInv, Types
<1>2. QED
  BY <1>1, SelectAnswer DEF HandleSelect, Answers, Becomes, Message

LEMMA SearchHandled ==
  ASSUME TInv, NEW m \in net, HandleSearch(m)
  PROVE  onFile' \in Match /\ \E r : Becomes(m, r) /\ r.kind = "search" /\ r.found = onFile' /\ r.state = "ok"
<1>1. m \in SearchMsg /\ onFile' \in Match
  BY KindOf DEF HandleSearch, Match, TInv, Types
<1> DEFINE r == [m EXCEPT !.state = "ok", !.found = onFile']
<1>2. r \in Message /\ r.kind = "search" /\ r.found = onFile' /\ r.state = "ok"
  BY <1>1, SearchAnswer DEF HandleSearch, Message
<1>3. net' = (net \ {m}) \cup {r}
  BY DEF HandleSearch, Answers
<1> HIDE DEF r
<1>4. QED
  BY <1>1, <1>2, <1>3 DEF Becomes

LEMMA RefreshHandled ==
  ASSUME TInv, NEW m \in net, HandleRefresh(m)
  PROVE  \E r : /\ Becomes(m, r) /\ r.kind = "refresh" /\ r.state = "ok"
                /\ r.found = IF onFile = "none" THEN "many" ELSE onFile
<1> DEFINE f == IF onFile = "none" THEN "many" ELSE onFile
<1>1. m \in SearchMsg /\ f \in Match
  BY KindOf DEF HandleRefresh, Match, TInv, Types
<1> DEFINE r == [m EXCEPT !.state = "ok", !.found = f]
<1>2. r \in Message /\ r.kind = "refresh" /\ r.found = f /\ r.state = "ok"
  BY <1>1, SearchAnswer DEF HandleRefresh, Message
<1>3. net' = (net \ {m}) \cup {r}
  BY DEF HandleRefresh, Answers
<1> HIDE DEF r
<1>4. QED
  BY <1>1, <1>2, <1>3 DEF Becomes

LEMMA ListHandled ==
  ASSUME TInv, NEW m \in net, HandleList(m)
  PROVE  \E r : Becomes(m, r) /\ r.kind = "list" /\ r.then = m.then /\ r.list = addressList /\ r.state = "ok"
<1>1. m \in ListMsg /\ addressList \in Pid \cup {NoPid}
  BY KindOf DEF HandleList, TInv, Types
<1> DEFINE r == [m EXCEPT !.state = "ok", !.list = addressList]
<1>2. r \in Message /\ r.kind = "list" /\ r.then = m.then /\ r.list = addressList /\ r.state = "ok"
  BY <1>1, ListAnswer DEF Message
<1>3. net' = (net \ {m}) \cup {r}
  BY DEF HandleList, Answers
<1> HIDE DEF r
<1>4. QED
  BY <1>2, <1>3 DEF Becomes

LEMMA GetHandled ==
  ASSUME TInv, NEW m \in net, HandleGet(m)
  PROVE  \E r : /\ Becomes(m, r) /\ r.kind = "get" /\ r.addr = m.addr /\ r.slot = m.slot
                /\ \/ r.state = "ok" /\ r.from = theProcess
                   \/ r.state = "failed" /\ m.slot = 0
<1>1. m \in GetMsg /\ theProcess \in Pid \cup {NoPid}
  BY KindOf DEF HandleGet, TInv, Types
<1>2. CASE Answers(m, [m EXCEPT !.state = "ok", !.from = theProcess])
  <2> DEFINE r == [m EXCEPT !.state = "ok", !.from = theProcess]
  <2>1. /\ r \in GetMsg /\ r.kind = "get" /\ r.addr = m.addr /\ r.slot = m.slot
        /\ r.state = "ok" /\ r.from = theProcess
    BY <1>1 DEF GetMsg, Reply
  <2>2. net' = (net \ {m}) \cup {r}
    BY <1>2 DEF Answers
  <2> HIDE DEF r
  <2>3. r \in Message
    BY <2>1 DEF Message
  <2>4. QED
    BY <2>1, <2>2, <2>3 DEF Becomes
<1>3. CASE m.slot = 0 /\ Answers(m, [m EXCEPT !.state = "failed"])
  BY <1>1, <1>3, GetFailure DEF Answers, Becomes, Message
<1>4. QED
  BY <1>2, <1>3 DEF HandleGet

LEMMA FoundSends ==
  ASSUME TInv, NEW m \in net, Found(m)
  PROVE  /\ m.kind \in {"search", "refresh"} /\ m.found \in Match /\ m.state \in Reply
         /\ m.found = "none" => net' = net \ {m}
         /\ m.found # "none" => \E r : Becomes(m, r) /\ r.kind = "list" /\ r.then = m.kind /\ r.state = "sent"
<1>1. m \in SearchMsg /\ m.kind \in {"search", "refresh"} /\ m.found \in Match /\ m.state \in Reply
  BY KindOf DEF Found, SearchMsg, TInv, Types
<1>2. CASE m.found = "none"
  BY <1>1, <1>2 DEF Found, Drops
<1>3. CASE m.found # "none"
  <2> DEFINE r == List(m.kind)
  <2>1. r \in Message /\ r.kind = "list" /\ r.then = m.kind /\ r.state = "sent"
    BY <1>1 DEF List, Message, ListMsg, Reply
  <2>2. net' = (net \ {m}) \cup {r}
    BY <1>3 DEF Found, Answers
  <2> HIDE DEF r
  <2>3. QED
    BY <1>1, <1>3, <2>1, <2>2 DEF Becomes
<1>4. QED
  BY <1>2, <1>3
-----------------------------------------------------------------------------
(* TInv is inductive.                                                       *)

LEMMA TypesNext == TInv /\ [Next]_vars => Types'
<1> SUFFICES ASSUME TInv, Types, Chosen, [Next]_vars PROVE Types'
  BY DEF TInv
<1> USE DEF Types, page, server, Sends, Shows, In, View
<1>1. ASSUME NEW p \in Pid, SelectProcess(p) PROVE Types'
  <2>1. Select(p) \in Message
    BY DEF Select, Message, SelectMsg, Reply
  <2>2. QED
    BY <1>1, <2>1 DEF SelectProcess, Editing
<1>2. CASE RestartSearch
  <2>1. selectedProcess \in Pid
    BY <1>2 DEF RestartSearch, Chosen
  <2>2. Select(selectedProcess) \in Message
    BY <2>1 DEF Select, Message, SelectMsg, Reply
  <2>3. net' \subseteq Message
    BY <1>2, <2>2 DEF RestartSearch
  <2>4. UNCHANGED <<viewState, oldState, selectedProcess, match, candidates, selectedAddress>>
    BY <1>2 DEF RestartSearch
  <2>5. UNCHANGED <<presets, theProcess, onFile, addressList, listed>>
    BY <1>2 DEF RestartSearch
  <2>6. QED
    BY <2>3, <2>4, <2>5 DEF Editing
<1>3. CASE Search
  <2>1. Request("search") \in Message
    BY DEF Request, Message, SearchMsg, Reply, Match
  <2>2. QED
    BY <1>3, <2>1 DEF Search, Editing
<1>4. CASE ReselectProcess \/ OnShowPresets \/ OnBackFromPresets
  BY <1>4 DEF ReselectProcess, OnShowPresets, OnBackFromPresets, Editing
<1>5. CASE OnRefineSearch
  BY <1>5 DEF OnRefineSearch, Editing
<1>6. CASE SetValue
  <2>1. selectedProcess \in Pid /\ Editing
    BY <1>6 DEF SetValue, Chosen, Editing
  <2> DEFINE a == selectedAddress.entry.addr
  <2>2. a \in Addr
    BY <2>1, EditorOf, EntryOf
  <2>3. Set(a, At(selectedProcess, a)) \in Message
    BY <2>1, <2>2, AtOf DEF Set, Message, SetMsg
  <2>4. QED
    BY <1>6, <2>3 DEF SetValue, Editing
<1>7. CASE AddToPresets
  <2>1. presets' \in [Pid -> Seq(Entry)] /\ selectedAddress' \in Editor
    BY <1>7, AddOpens DEF Opens
  <2>2. QED
    BY <1>7, <2>1 DEF AddToPresets
<1>8. ASSUME NEW a \in Addr, SelectCandidate(a) PROVE Types'
  <2>1. selectedAddress' \in Editor
    BY <1>8, CandidateOpens DEF Opens, Row
  <2>2. QED
    BY <1>8, <2>1 DEF SelectCandidate, SelectAddress
<1>9. ASSUME NEW a \in Addr, RemoveFromPresets(a) PROVE Types'
  <2>1. presets' \in [Pid -> Seq(Entry)] /\ (Editing' => selectedAddress' \in Editor)
    BY <1>9, RemoveOf
  <2>2. QED
    BY <1>9, <2>1 DEF RemoveFromPresets
<1>10. ASSUME NEW k \in DOMAIN Mine, SelectPreset(k) PROVE Types'
  <2>1. selectedAddress' \in Editor
    BY <1>10, PresetOpens DEF Opens
  <2>2. QED
    BY <1>10, <2>1 DEF SelectPreset, SelectAddress
<1>11. ASSUME NEW k \in DOMAIN Mine, ToggledPresetLock(k) PROVE Types'
  <2>1. presets' \in [Pid -> Seq(Entry)] /\ (Editing' => selectedAddress' \in Editor)
    BY <1>11, ToggleWrites DEF Writes
  <2>2. QED
    BY <1>11, <2>1 DEF ToggledPresetLock
<1>12. CASE Tick
  <2>1. Gets \cup Refreshes \cup Locks \subseteq Message
    BY TickSends
  <2>2. net' \subseteq Message
    BY <1>12, <2>1 DEF Tick
  <2>3. UNCHANGED <<viewState, oldState, selectedProcess, match, candidates, selectedAddress>>
    BY <1>12 DEF Tick
  <2>4. UNCHANGED <<presets, theProcess, onFile, addressList, listed>>
    BY <1>12 DEF Tick
  <2>5. QED
    BY <2>2, <2>3, <2>4 DEF Editing
<1>13. ASSUME NEW m \in net, Handle(m) PROVE Types'
  <2>1. CASE HandleSelect(m)
    <3>1. net' \subseteq Message /\ m.home \in Pid
      BY <2>1, SelectHandled DEF Becomes
    <3>2. onFile' \in Match /\ theProcess' \in Pid
      BY <2>1, <3>1 DEF HandleSelect, Match
    <3>3. QED
      BY <2>1, <3>1, <3>2 DEF HandleSelect, Editing
  <2>2. CASE HandleSearch(m)
    <3>1. net' \subseteq Message /\ onFile' \in Match
      BY <2>2, SearchHandled DEF Becomes
    <3>2. QED
      BY <2>2, <3>1 DEF HandleSearch, Editing
  <2>3. CASE HandleRefresh(m)
    <3>1. net' \subseteq Message
      BY <2>3, RefreshHandled DEF Becomes
    <3>2. QED
      BY <2>3, <3>1 DEF HandleRefresh, Editing
  <2>4. CASE HandleList(m)
    <3>1. net' \subseteq Message
      BY <2>4, ListHandled DEF Becomes
    <3>2. QED
      BY <2>4, <3>1 DEF HandleList, Editing
  <2>5. CASE HandleGet(m)
    <3>1. net' \subseteq Message
      BY <2>5, GetHandled DEF Becomes
    <3>2. QED
      BY <2>5, <3>1 DEF HandleGet, Editing
  <2>6. CASE HandleSet(m) \/ Fails(m)
    BY <2>6 DEF HandleSet, Fails, Drops, Editing
  <2>7. QED
    BY <1>13, <2>1, <2>2, <2>3, <2>4, <2>5, <2>6 DEF Handle
<1>14. ASSUME NEW m \in net, Receive(m) PROVE Types'
  <2>1. m \in Message /\ m.state # "sent"
    BY <1>14 DEF Receive
  <2>2. CASE Selected(m)
    <3>1. m.home \in Pid
      BY <2>1, <2>2, KindOf DEF Selected, SelectMsg
    <3>2. QED
      BY <2>2, <3>1 DEF Selected, Drops, Editing
  <2>3. CASE Found(m)
    <3>1. net' \subseteq Message /\ m.found \in Match
      BY <2>3, FoundSends DEF Becomes
    <3>2. QED
      BY <2>3, <3>1 DEF Found, Editing
  <2>4. CASE Listed(m)
    <3>1. m.list \in Pid \cup {NoPid}
      BY <2>1, <2>4, KindOf DEF Listed, ListMsg
    <3>2. listed' \in BOOLEAN
      <4>1. CASE m.then = "search"
        BY <2>4, <4>1 DEF Listed
      <4>2. CASE m.then # "search"
        BY <2>4, <4>2 DEF Listed
      <4>3. QED
        BY <4>1, <4>2
    <3>3. QED
      BY <2>4, <3>1, <3>2 DEF Listed, Drops, Editing
  <2>5. CASE GotEdited(m)
    <3>1. CASE ~Editing
      BY <2>5, <3>1 DEF GotEdited, Drops, Editing
    <3>2. CASE Editing
      <4>1. presets' \in [Pid -> Seq(Entry)] /\ (Editing' => selectedAddress' \in Editor)
        BY <2>1, <2>5, <3>2, EditedWrites DEF Writes
      <4>2. QED
        BY <2>5, <4>1 DEF GotEdited, Drops
    <3>3. QED
      BY <3>1, <3>2
  <2>6. CASE GetFailed(m)
    BY <2>6 DEF GetFailed, Drops, Editing
  <2>7. CASE GotPreset(m)
    <3>1. CASE m.slot \in DOMAIN Mine
      <4>1. presets' \in [Pid -> Seq(Entry)] /\ (Editing' => selectedAddress' \in Editor)
        BY <2>1, <2>7, <3>1, PresetWrites DEF Writes
      <4>2. QED
        BY <2>7, <4>1 DEF GotPreset, Drops
    <3>2. CASE m.slot \notin DOMAIN Mine
      BY <2>7, <3>2 DEF GotPreset, Drops, Editing
    <3>3. QED
      BY <3>1, <3>2
  <2>8. QED
    BY <1>14, <2>2, <2>3, <2>4, <2>5, <2>6, <2>7 DEF Receive
<1>15. CASE UNCHANGED vars
  BY <1>15 DEF vars, Editing
<1>16. QED
  BY <1>1, <1>2, <1>3, <1>4, <1>5, <1>6, <1>7, <1>8, <1>9, <1>10, <1>11, <1>12, <1>13, <1>14, <1>15 DEF Next, User

LEMMA WritesShared ==
  ASSUME TInv, NEW h, NEW n, NEW e, Writes(h, n, e)
  PROVE  Shared'
<1> SUFFICES ASSUME Editing', selectedAddress'.at # 0
             PROVE  /\ selectedAddress'.at \in DOMAIN presets'[selectedAddress'.home]
                    /\ presets'[selectedAddress'.home][selectedAddress'.at] = selectedAddress'.entry
  BY DEF Shared
<1>1. /\ Editing /\ selectedAddress'.home = selectedAddress.home /\ selectedAddress'.at = selectedAddress.at
      /\ selectedAddress'.entry = IF selectedAddress.home = h /\ selectedAddress.at = n
                                  THEN e ELSE selectedAddress.entry
  BY DEF Writes
<1>2. selectedAddress.home \in Pid
  BY <1>1, EditorOf DEF TInv, Types
<1>3. /\ selectedAddress.at \in DOMAIN presets[selectedAddress.home]
      /\ presets[selectedAddress.home][selectedAddress.at] = selectedAddress.entry
  BY <1>1 DEF TInv, Shared
<1>4. QED
  BY <1>1, <1>2, <1>3 DEF Writes

LEMMA SharedNext == TInv /\ [Next]_vars => Shared'
<1> SUFFICES ASSUME TInv, [Next]_vars PROVE Shared'
  OBVIOUS
<1>0. UNCHANGED <<presets, selectedAddress>> => Shared'
  BY DEF TInv, Shared, Editing
<1>1. CASE \/ \E p \in Pid : SelectProcess(p)
           \/ RestartSearch \/ Search \/ ReselectProcess \/ OnShowPresets \/ OnBackFromPresets \/ SetValue \/ Tick
  BY <1>0, <1>1 DEF SelectProcess, RestartSearch, Search, ReselectProcess, OnShowPresets, OnBackFromPresets,
     SetValue, Tick, page
<1>2. CASE OnRefineSearch
  BY <1>2 DEF OnRefineSearch, Shared, Editing
<1>3. CASE AddToPresets
  BY <1>3, AddOpens DEF Opens, Shared
<1>4. ASSUME NEW a \in Addr, SelectCandidate(a) PROVE Shared'
  <2>1. PICK n \in Nat, e \in Entry : Row(n, e, a)
    BY <1>4, CandidateOpens
  <2>2. presets' = presets
    BY <1>4 DEF SelectCandidate, SelectAddress
  <2>3. QED
    BY <2>1, <2>2 DEF Row, Opens, Shared
<1>5. ASSUME NEW k \in DOMAIN Mine, SelectPreset(k) PROVE Shared'
  <2>1. /\ selectedAddress'.home = selectedProcess /\ selectedAddress'.at = k
        /\ selectedAddress'.entry = presets[selectedProcess][k]
    BY <1>5, PresetOpens DEF Opens
  <2>2. k \in DOMAIN presets[selectedProcess] /\ presets' = presets
    BY <1>5, MineOf DEF SelectPreset, SelectAddress, TInv
  <2>3. QED
    BY <2>1, <2>2 DEF Shared
<1>6. ASSUME NEW a \in Addr, RemoveFromPresets(a) PROVE Shared'
  <2> DEFINE s == presets[selectedProcess]
  <2>1. PICK n \in DOMAIN s :
           /\ selectedProcess \in Pid /\ n \in Nat \ {0}
           /\ presets' = [presets EXCEPT ![selectedProcess] = RemoveAt(s, n)]
           /\ Editing' <=> Editing
           /\ Editing => /\ selectedAddress'.home = selectedAddress.home
                         /\ selectedAddress'.entry = selectedAddress.entry
                         /\ selectedAddress'.at =
                              IF selectedAddress.home # selectedProcess \/ selectedAddress.at < n
                              THEN selectedAddress.at
                              ELSE IF selectedAddress.at = n THEN 0 ELSE selectedAddress.at - 1
    BY <1>6, RemoveOf
  <2>2. s \in Seq(Entry) /\ presets \in [Pid -> Seq(Entry)]
    BY <2>1 DEF TInv, Types
  <2>3. /\ \A k \in DOMAIN RemoveAt(s, n) : k \in DOMAIN s /\ RemoveAt(s, n)[k] = IF k < n THEN s[k] ELSE s[k + 1]
        /\ \A k \in DOMAIN s : k < n => k \in DOMAIN RemoveAt(s, n)
        /\ \A k \in DOMAIN s : k > n => k - 1 \in DOMAIN RemoveAt(s, n)
    BY <2>2, Removed
  <2> SUFFICES ASSUME Editing', selectedAddress'.at # 0
               PROVE  /\ selectedAddress'.at \in DOMAIN presets'[selectedAddress'.home]
                      /\ presets'[selectedAddress'.home][selectedAddress'.at] = selectedAddress'.entry
    BY DEF Shared
  <2> DEFINE k == selectedAddress.at
  <2>4. selectedAddress.home \in Pid /\ k \in Nat
    BY <2>1, EditorOf DEF TInv, Types
  <2>5. k # 0 => k \in DOMAIN presets[selectedAddress.home] /\ presets[selectedAddress.home][k] = selectedAddress.entry
    BY <2>1 DEF TInv, Shared
  <2>6. CASE selectedAddress.home # selectedProcess
    <3>1. presets'[selectedAddress.home] = presets[selectedAddress.home]
      BY <2>1, <2>2, <2>4, <2>6
    <3>2. QED
      BY <2>1, <2>5, <2>6, <3>1
  <2>7. CASE selectedAddress.home = selectedProcess
    <3>1. presets'[selectedProcess] = RemoveAt(s, n)
      BY <2>1, <2>2
    <3>2. CASE k < n
      <4>1. selectedAddress'.at = k /\ k # 0 /\ selectedAddress'.home = selectedProcess
            /\ selectedAddress'.entry = selectedAddress.entry
        BY <2>1, <2>7, <3>2
      <4>2. k \in DOMAIN RemoveAt(s, n) /\ RemoveAt(s, n)[k] = s[k]
        BY <2>3, <2>5, <2>7, <3>2, <4>1
      <4>3. QED
        BY <2>5, <2>7, <3>1, <4>1, <4>2
    <3>3. CASE ~(k < n)
      <4>1. k # n /\ selectedAddress'.at = k - 1 /\ selectedAddress'.home = selectedProcess
            /\ selectedAddress'.entry = selectedAddress.entry
        BY <2>1, <2>7, <3>3
      <4>2. k > n /\ k # 0 /\ k - 1 \in Nat /\ ~(k - 1 < n) /\ (k - 1) + 1 = k
        BY <2>1, <2>4, <3>3, <4>1
      <4>3. k - 1 \in DOMAIN RemoveAt(s, n)
        BY <2>3, <2>5, <2>7, <4>2
      <4>4. RemoveAt(s, n)[k - 1] = s[k]
        BY <2>3, <4>2, <4>3
      <4>5. QED
        BY <2>5, <2>7, <3>1, <4>1, <4>2, <4>3, <4>4
    <3>4. QED
      BY <3>2, <3>3
  <2>8. QED
    BY <2>6, <2>7
<1>7. ASSUME NEW k \in DOMAIN Mine, ToggledPresetLock(k) PROVE Shared'
  BY <1>7, ToggleWrites, WritesShared
<1>8. ASSUME NEW m \in net, Handle(m) PROVE Shared'
  BY <1>0, <1>8 DEF Handle, HandleSelect, HandleSearch, HandleRefresh, HandleList, HandleGet, HandleSet, Fails, page
<1>9. ASSUME NEW m \in net, Receive(m) PROVE Shared'
  <2>1. m.state # "sent"
    BY <1>9 DEF Receive
  <2>2. CASE Selected(m) \/ Found(m) \/ GetFailed(m)
    BY <1>0, <2>2 DEF Selected, Found, GetFailed
  <2>3. CASE Listed(m)
    <3>1. CASE m.then = "search"
      BY <2>3, <3>1 DEF Listed, Shared, Editing
    <3>2. CASE m.then # "search"
      BY <1>0, <2>3, <3>2 DEF Listed
    <3>3. QED
      BY <3>1, <3>2
  <2>4. CASE GotEdited(m)
    <3>1. CASE Editing
      BY <2>1, <2>4, <3>1, EditedWrites, WritesShared
    <3>2. CASE ~Editing
      BY <1>0, <2>4, <3>2 DEF GotEdited, Editing
    <3>3. QED
      BY <3>1, <3>2
  <2>5. CASE GotPreset(m)
    <3>1. CASE m.slot \in DOMAIN Mine
      BY <2>1, <2>5, <3>1, PresetWrites, WritesShared
    <3>2. CASE m.slot \notin DOMAIN Mine
      BY <1>0, <2>5, <3>2 DEF GotPreset
    <3>3. QED
      BY <3>1, <3>2
  <2>6. QED
    BY <1>9, <2>2, <2>3, <2>4, <2>5 DEF Receive
<1>10. CASE UNCHANGED vars
  BY <1>0, <1>10 DEF vars, page
<1>11. QED
  BY <1>1, <1>2, <1>3, <1>4, <1>5, <1>6, <1>7, <1>8, <1>9, <1>10 DEF Next, User

LEMMA ChosenNext == TInv /\ [Next]_vars => Chosen'
<1> SUFFICES ASSUME TInv, Chosen, [Next]_vars PROVE Chosen'
  BY DEF TInv
<1>0. /\ selectedProcess \in Pid \cup {NoPid} /\ theProcess \in Pid \cup {NoPid} /\ NoPid \notin Pid
      /\ net \subseteq Message
  BY NoPidAssumption DEF TInv, Types
<1> USE DEF Chosen, page, server, Sends, Shows, In
<1>1. ASSUME NEW p \in Pid, SelectProcess(p) \/ (RestartSearch /\ p = selectedProcess) PROVE Chosen'
  <2>1. PICK s : net' = net \cup {s} /\ s.kind = "select" /\ s.state = "sent"
    BY <1>1, SelectSends
  <2>2. UNCHANGED <<viewState, selectedProcess, theProcess>>
    BY <1>1 DEF SelectProcess, RestartSearch
  <2>3. QED
    BY <2>1, <2>2
<1>2. CASE RestartSearch
  <2>1. selectedProcess \in Pid
    BY <1>0, <1>2 DEF RestartSearch
  <2>2. QED
    BY <1>1, <1>2, <2>1
<1>3. CASE Search
  BY <1>0, <1>3, SearchSends
<1>4. CASE ReselectProcess \/ OnShowPresets \/ OnBackFromPresets \/ OnRefineSearch
  BY <1>4 DEF ReselectProcess, OnShowPresets, OnBackFromPresets, OnRefineSearch
<1>5. CASE SetValue
  BY <1>0, <1>5, SetSends
<1>6. CASE AddToPresets
  BY <1>6 DEF AddToPresets
<1>7. ASSUME NEW a \in Addr, SelectCandidate(a) \/ RemoveFromPresets(a) PROVE Chosen'
  BY <1>7 DEF SelectCandidate, SelectAddress, RemoveFromPresets
<1>8. ASSUME NEW k \in DOMAIN Mine, SelectPreset(k) \/ ToggledPresetLock(k) PROVE Chosen'
  BY <1>8 DEF SelectPreset, SelectAddress, ToggledPresetLock
<1>9. CASE Tick
  <2>1. /\ net' = net \cup (Gets \cup Refreshes \cup Locks)
        /\ UNCHANGED <<selectedProcess, viewState, theProcess>>
    BY <1>9 DEF Tick
  <2>2. \A n \in Gets \cup Refreshes \cup Locks :
          n.state = "sent" /\ selectedProcess \in Pid /\ viewState # "process-select"
    BY TickSends
  <2>3. QED
    BY <1>0, <2>1, <2>2
<1>10. ASSUME NEW m \in net, Handle(m) PROVE Chosen'
  <2>1. CASE HandleSelect(m)
    <3>1. PICK r : Becomes(m, r) /\ r.kind = "select" /\ r.home = m.home /\ r.state = "ok" /\ m.home \in Pid
      BY <2>1, SelectHandled
    <3>2. theProcess' = m.home /\ UNCHANGED <<selectedProcess, viewState>> /\ m.kind = "select"
      BY <2>1 DEF HandleSelect
    <3>3. QED
      BY <1>0, <3>1, <3>2 DEF Becomes
  <2>2. CASE HandleSearch(m) \/ HandleRefresh(m)
    <3>1. \E r : Becomes(m, r) /\ r.kind # "get"
      BY <2>2, SearchHandled, RefreshHandled
    <3>2. UNCHANGED <<theProcess, selectedProcess, viewState>> /\ m.kind # "select"
      BY <2>2 DEF HandleSearch, HandleRefresh
    <3>3. QED
      BY <1>0, <3>1, <3>2 DEF Becomes
  <2>3. CASE HandleList(m)
    <3>1. \E r : Becomes(m, r) /\ r.kind # "get"
      BY <2>3, ListHandled
    <3>2. UNCHANGED <<theProcess, selectedProcess, viewState>> /\ m.kind # "select"
      BY <2>3 DEF HandleList
    <3>3. QED
      BY <1>0, <3>1, <3>2 DEF Becomes
  <2>4. CASE HandleGet(m)
    <3>1. PICK r : /\ Becomes(m, r) /\ r.kind = "get" /\ r.slot = m.slot
                   /\ (r.state = "ok" /\ r.from = theProcess) \/ (r.state = "failed" /\ m.slot = 0)
      BY <2>4, GetHandled
    <3>2. UNCHANGED <<theProcess, selectedProcess, viewState>> /\ m.kind = "get"
      BY <2>4 DEF HandleGet
    <3>3. QED
      BY <1>0, <3>1, <3>2 DEF Becomes
  <2>5. CASE HandleSet(m) \/ Fails(m)
    BY <2>5 DEF HandleSet, Fails, Drops
  <2>6. QED
    BY <1>10, <2>1, <2>2, <2>3, <2>4, <2>5 DEF Handle
<1>11. ASSUME NEW m \in net, Receive(m) PROVE Chosen'
  <2>1. m.state # "sent" /\ theProcess # NoPid
    BY <1>11 DEF Receive
  <2>2. CASE Selected(m)
    <3>1. m.home \in Pid
      BY <1>0, <2>2, KindOf DEF Selected, SelectMsg
    <3>2. QED
      BY <1>0, <2>1, <2>2, <3>1 DEF Selected, Drops
  <2>3. CASE Found(m)
    <3>1. m.kind # "select" /\ UNCHANGED <<theProcess, selectedProcess>>
      BY <2>3 DEF Found
    <3>2. selectedProcess # NoPid
      BY <3>1
    <3>3. net' \subseteq net \/ \E r : Becomes(m, r) /\ r.kind = "list"
      BY <2>3, FoundSends
    <3>4. QED
      BY <2>1, <3>1, <3>2, <3>3 DEF Becomes
  <2>4. CASE Listed(m)
    BY <2>1, <2>4 DEF Listed, Drops
  <2>5. CASE GotEdited(m)
    BY <2>1, <2>5 DEF GotEdited, Drops
  <2>6. CASE GetFailed(m)
    BY <2>1, <2>6 DEF GetFailed, Drops
  <2>7. CASE GotPreset(m)
    BY <2>1, <2>7 DEF GotPreset, Drops
  <2>8. QED
    BY <1>11, <2>2, <2>3, <2>4, <2>5, <2>6, <2>7 DEF Receive
<1>12. CASE UNCHANGED vars
  BY <1>12 DEF vars
<1>13. QED
  BY <1>1, <1>2, <1>3, <1>4, <1>5, <1>6, <1>7, <1>8, <1>9, <1>10, <1>11, <1>12 DEF Next, User

LEMMA EditsNext == TInv /\ [Next]_vars => EditsSelected'
<1> SUFFICES ASSUME TInv, EditsSelected, [Next]_vars PROVE EditsSelected'
  BY DEF TInv
<1> USE DEF EditsSelected, On, page, Shows, In
<1>1. CASE \/ \E p \in Pid : SelectProcess(p)
           \/ RestartSearch \/ Search \/ ReselectProcess \/ OnShowPresets \/ OnBackFromPresets \/ SetValue \/ Tick
  BY <1>1 DEF SelectProcess, RestartSearch, Search, ReselectProcess, OnShowPresets, OnBackFromPresets,
     SetValue, Tick, Editing
<1>2. CASE OnRefineSearch
  BY <1>2 DEF OnRefineSearch, Editing
<1>3. CASE AddToPresets
  <2>1. selectedAddress'.home = selectedProcess /\ UNCHANGED selectedProcess
    BY <1>3, AddOpens DEF Opens, AddToPresets
  <2>2. QED
    BY <2>1
<1>4. ASSUME NEW a \in Addr, SelectCandidate(a) PROVE EditsSelected'
  <2>1. selectedAddress'.home = selectedProcess /\ UNCHANGED selectedProcess
    BY <1>4, CandidateOpens DEF Opens, Row, SelectCandidate, SelectAddress
  <2>2. QED
    BY <2>1
<1>5. ASSUME NEW k \in DOMAIN Mine, SelectPreset(k) PROVE EditsSelected'
  <2>1. selectedAddress'.home = selectedProcess /\ UNCHANGED selectedProcess
    BY <1>5, PresetOpens DEF Opens, SelectPreset, SelectAddress
  <2>2. QED
    BY <2>1
<1>6. ASSUME NEW a \in Addr, RemoveFromPresets(a) PROVE EditsSelected'
  <2>1. (Editing' <=> Editing) /\ (Editing => selectedAddress'.home = selectedAddress.home)
    BY <1>6, RemoveOf
  <2>2. UNCHANGED <<viewState, oldState, selectedProcess>>
    BY <1>6 DEF RemoveFromPresets
  <2>3. QED
    BY <2>1, <2>2
<1>7. ASSUME NEW k \in DOMAIN Mine, ToggledPresetLock(k) PROVE EditsSelected'
  <2>1. (Editing' <=> Editing) /\ (Editing => selectedAddress'.home = selectedAddress.home)
    BY <1>7, ToggleWrites DEF Writes
  <2>2. UNCHANGED <<viewState, oldState, selectedProcess>>
    BY <1>7 DEF ToggledPresetLock
  <2>3. QED
    BY <2>1, <2>2
<1>8. ASSUME NEW m \in net, Handle(m) PROVE EditsSelected'
  BY <1>8 DEF Handle, HandleSelect, HandleSearch, HandleRefresh, HandleList, HandleGet, HandleSet, Fails, Editing
<1>9. ASSUME NEW m \in net, Receive(m) PROVE EditsSelected'
  <2>1. m.state # "sent"
    BY <1>9 DEF Receive
  <2>2. CASE Selected(m) \/ GetFailed(m)
    BY <2>2 DEF Selected, GetFailed, Editing
  <2>3. CASE Found(m)
    BY <2>3 DEF Found, Editing
  <2>4. CASE Listed(m)
    BY <2>4 DEF Listed, Editing
  <2>5. CASE GotEdited(m)
    <3>1. UNCHANGED <<viewState, oldState, selectedProcess>>
      BY <2>5 DEF GotEdited
    <3>2. CASE Editing
      <4>1. (Editing' <=> Editing) /\ selectedAddress'.home = selectedAddress.home
        BY <2>1, <2>5, <3>2, EditedWrites DEF Writes
      <4>2. QED
        BY <3>1, <3>2, <4>1
    <3>3. CASE ~Editing
      BY <2>5, <3>3 DEF GotEdited, Editing
    <3>4. QED
      BY <3>2, <3>3
  <2>6. CASE GotPreset(m)
    <3>1. UNCHANGED <<viewState, oldState, selectedProcess>>
      BY <2>6 DEF GotPreset
    <3>2. CASE m.slot \in DOMAIN Mine
      <4>1. (Editing' <=> Editing) /\ (Editing => selectedAddress'.home = selectedAddress.home)
        BY <2>1, <2>6, <3>2, PresetWrites DEF Writes
      <4>2. QED
        BY <3>1, <4>1
    <3>3. CASE m.slot \notin DOMAIN Mine
      BY <2>6, <3>3 DEF GotPreset, Editing
    <3>4. QED
      BY <3>2, <3>3
  <2>7. QED
    BY <1>9, <2>2, <2>3, <2>4, <2>5, <2>6 DEF Receive
<1>10. CASE UNCHANGED vars
  BY <1>10 DEF vars, Editing
<1>11. QED
  BY <1>1, <1>2, <1>3, <1>4, <1>5, <1>6, <1>7, <1>8, <1>9, <1>10 DEF Next, User

LEMMA TInvNext == TInv /\ [Next]_vars => TInv'
<1>1. TInv /\ [Next]_vars => Types' /\ Shared' /\ Chosen' /\ EditsSelected'
  BY TypesNext, SharedNext, ChosenNext, EditsNext
<1>2. QED
  BY <1>1 DEF TInv
-----------------------------------------------------------------------------
(* The net.                                                                 *)

\* What the user does on the page alone, apart from what is sent.
Clicks ==
  \/ ReselectProcess \/ OnShowPresets \/ OnBackFromPresets \/ OnRefineSearch \/ AddToPresets
  \/ \E a \in Addr : SelectCandidate(a) \/ RemoveFromPresets(a)
  \/ \E k \in DOMAIN Mine : SelectPreset(k) \/ ToggledPresetLock(k)

LEMMA ClicksKeep ==
  ASSUME Clicks
  PROVE  /\ viewState # "process-select"
         /\ UNCHANGED <<net, selectedProcess, match, candidates>>
         /\ UNCHANGED <<theProcess, onFile, addressList, listed>>
<1>1. CASE ReselectProcess \/ OnShowPresets \/ OnBackFromPresets \/ OnRefineSearch \/ AddToPresets
  BY <1>1 DEF ReselectProcess, OnShowPresets, OnBackFromPresets, OnRefineSearch, AddToPresets, In, View, server
<1>2. ASSUME NEW a \in Addr, SelectCandidate(a) \/ RemoveFromPresets(a)
      PROVE  /\ viewState # "process-select"
             /\ UNCHANGED <<net, selectedProcess, match, candidates>>
             /\ UNCHANGED <<theProcess, onFile, addressList, listed>>
  BY <1>2 DEF SelectCandidate, SelectAddress, RemoveFromPresets, In, server
<1>3. ASSUME NEW k \in DOMAIN Mine, SelectPreset(k) \/ ToggledPresetLock(k)
      PROVE  /\ viewState # "process-select"
             /\ UNCHANGED <<net, selectedProcess, match, candidates>>
             /\ UNCHANGED <<theProcess, onFile, addressList, listed>>
  BY <1>3 DEF SelectPreset, SelectAddress, ToggledPresetLock, In, server
<1>4. QED
  BY <1>1, <1>2, <1>3 DEF Clicks

LEMMA NextCases ==
  ASSUME TInv, [Next]_vars
  PROVE  \/ \E p \in Pid : SelectProcess(p) \/ (RestartSearch /\ p = selectedProcess)
         \/ Search \/ SetValue \/ Tick \/ Clicks
         \/ \E m \in net : Handle(m)
         \/ \E m \in net : Receive(m)
         \/ UNCHANGED vars
<1>1. RestartSearch => selectedProcess \in Pid
  BY DEF RestartSearch, In, TInv, Types, Chosen
<1>2. QED
  BY <1>1 DEF Next, User, Clicks

LEMMA CalmBefore == [Next]_vars /\ Calm' => Calm
<1> SUFFICES ASSUME [Next]_vars, Calm' PROVE Calm
  OBVIOUS
<1> USE DEF Calm, Note
<1>1. CASE \/ \E p \in Pid : SelectProcess(p)
           \/ RestartSearch \/ Search \/ ReselectProcess \/ OnShowPresets \/ OnBackFromPresets
           \/ OnRefineSearch \/ SetValue \/ AddToPresets \/ Tick
  BY <1>1 DEF SelectProcess, RestartSearch, Search, ReselectProcess, OnShowPresets, OnBackFromPresets,
     OnRefineSearch, SetValue, AddToPresets, Tick
<1>2. ASSUME NEW a \in Addr, SelectCandidate(a) \/ RemoveFromPresets(a) PROVE Calm
  BY <1>2 DEF SelectCandidate, SelectAddress, RemoveFromPresets
<1>3. ASSUME NEW k \in DOMAIN Mine, SelectPreset(k) \/ ToggledPresetLock(k) PROVE Calm
  BY <1>3 DEF SelectPreset, SelectAddress, ToggledPresetLock
<1>4. ASSUME NEW m \in net, Handle(m) PROVE Calm
  BY <1>4 DEF Handle, HandleSelect, HandleSearch, HandleRefresh, HandleList, HandleGet, HandleSet, Fails
<1>5. ASSUME NEW m \in net, Receive(m) PROVE Calm
  BY <1>5 DEF Receive, Selected, Found, Listed, GotEdited, GetFailed, GotPreset
<1>6. CASE UNCHANGED vars
  BY <1>6 DEF vars
<1>7. QED
  BY <1>1, <1>2, <1>3, <1>4, <1>5, <1>6 DEF Next, User

\* What the server does with a message: an answer of the same kind takes its
\* place, or it goes.
LEMMA HandleBecomes ==
  ASSUME TInv, NEW m \in net, Handle(m)
  PROVE  /\ m.state = "sent"
         /\ \/ net' = net \ {m}
            \/ \E r : /\ Becomes(m, r) /\ r.kind = m.kind /\ r.state # "sent"
                      /\ m.kind = "list" => r.then = m.then
<1>1. m.state = "sent"
  BY DEF Handle
<1>2. CASE HandleSelect(m)
  BY <1>1, <1>2, SelectHandled DEF HandleSelect
<1>3. CASE HandleSearch(m)
  BY <1>1, <1>3, SearchHandled DEF HandleSearch
<1>4. CASE HandleRefresh(m)
  BY <1>1, <1>4, RefreshHandled DEF HandleRefresh
<1>5. CASE HandleList(m)
  <2>1. PICK r : Becomes(m, r) /\ r.kind = "list" /\ r.then = m.then /\ r.state = "ok"
    BY <1>5, ListHandled
  <2>2. r.state # "sent" /\ m.kind = "list"
    BY <1>5, <2>1 DEF HandleList
  <2>3. QED
    BY <1>1, <2>1, <2>2
<1>6. CASE HandleGet(m)
  <2>1. PICK r : /\ Becomes(m, r) /\ r.kind = "get"
                 /\ \/ r.state = "ok" /\ r.from = theProcess
                    \/ r.state = "failed" /\ m.slot = 0
    BY <1>6, GetHandled
  <2>2. r.state # "sent" /\ m.kind = "get"
    BY <1>6, <2>1 DEF HandleGet
  <2>3. QED
    BY <1>1, <2>1, <2>2
<1>7. CASE HandleSet(m) \/ Fails(m)
  BY <1>1, <1>7 DEF HandleSet, Fails, Drops
<1>8. QED
  BY <1>2, <1>3, <1>4, <1>5, <1>6, <1>7 DEF Handle

\* What the page does with a reply: a request for the list takes its place, or
\* it goes.
LEMMA ReceiveBecomes ==
  ASSUME TInv, NEW m \in net, Receive(m)
  PROVE  /\ m.state # "sent"
         /\ \/ net' = net \ {m}
            \/ \E r : Becomes(m, r) /\ r.kind = "list" /\ r.then = m.kind /\ r.state = "sent"
<1>1. m.state # "sent"
  BY DEF Receive
<1>2. CASE Found(m)
  BY <1>1, <1>2, FoundSends
<1>3. CASE Selected(m) \/ Listed(m) \/ GotEdited(m) \/ GetFailed(m) \/ GotPreset(m)
  BY <1>1, <1>3 DEF Selected, Listed, GotEdited, GetFailed, GotPreset, Drops
<1>4. QED
  BY <1>2, <1>3 DEF Receive

LEMMA OneBlocksNext == TInv /\ OneBlocks /\ [Next]_vars => OneBlocks'
<1> SUFFICES ASSUME TInv, OneBlocks, [Next]_vars PROVE OneBlocks'
  OBVIOUS
<1>1. ASSUME NEW s, net' = net \cup {s}, ~Waiting PROVE OneBlocks'
  BY <1>1 DEF OneBlocks, Blocks, Waiting
<1>2. ASSUME NEW m \in net, NEW r, Becomes(m, r), Blocks(r) => Blocks(m) PROVE OneBlocks'
  BY <1>2 DEF OneBlocks, Becomes
<1>3. ASSUME \A n \in net' : Blocks(n) => n \in net PROVE OneBlocks'
  BY <1>3 DEF OneBlocks
<1>4. ASSUME NEW p \in Pid, SelectProcess(p) \/ (RestartSearch /\ p = selectedProcess) PROVE OneBlocks'
  BY <1>1, <1>4, SelectSends
<1>5. CASE Search
  BY <1>1, <1>5, SearchSends
<1>6. CASE SetValue
  <2>1. PICK s : net' = net \cup {s} /\ s.kind = "set"
    BY <1>6, SetSends
  <2>2. QED
    BY <1>3, <2>1 DEF Blocks
<1>7. CASE Tick
  <2>1. net' = net \cup (Gets \cup Refreshes \cup Locks)
    BY <1>7 DEF Tick, Sends
  <2>2. \A n \in Gets \cup Refreshes \cup Locks : ~Blocks(n)
    BY TickSends DEF Blocks
  <2>3. QED
    BY <1>3, <2>1, <2>2
<1>8. CASE Clicks
  BY <1>3, <1>8, ClicksKeep
<1>9. ASSUME NEW m \in net, Handle(m) PROVE OneBlocks'
  <2>1. CASE net' = net \ {m}
    BY <1>3, <2>1
  <2>2. ASSUME NEW r, Becomes(m, r), r.kind = m.kind, m.kind = "list" => r.then = m.then PROVE OneBlocks'
    BY <1>2, <2>2 DEF Blocks
  <2>3. QED
    BY <1>9, <2>1, <2>2, HandleBecomes
<1>10. ASSUME NEW m \in net, Receive(m) PROVE OneBlocks'
  <2>1. CASE net' = net \ {m}
    BY <1>3, <2>1
  <2>2. ASSUME NEW r, Becomes(m, r), r.kind = "list", r.then = m.kind PROVE OneBlocks'
    BY <1>2, <2>2 DEF Blocks
  <2>3. QED
    BY <1>10, <2>1, <2>2, ReceiveBecomes
<1>11. CASE UNCHANGED vars
  BY <1>3, <1>11 DEF vars
<1>12. QED
  BY <1>4, <1>5, <1>6, <1>7, <1>8, <1>9, <1>10, <1>11, NextCases
-----------------------------------------------------------------------------
(* While no accident happens.                                               *)

LEMMA SelectsAlone ==
  ASSUME TInv, Calm', NEW p \in Pid, SelectProcess(p) \/ (RestartSearch /\ p = selectedProcess)
  PROVE  net = {}
<1>1. ~Waiting /\ net \subseteq Message
  BY SelectSends DEF TInv, Types
<1>2. ByTimer = {}
  BY DEF SelectProcess, RestartSearch, Note, Calm
<1>3. ASSUME NEW m \in net PROVE FALSE
  <2>1. m.kind \in {"select", "search", "refresh", "list", "get", "set"}
    BY <1>1, KindOf
  <2>2. m.kind = "list" => m.then \in {"search", "refresh"}
    BY <1>1, KindOf DEF ListMsg
  <2>3. QED
    BY <1>1, <1>2, <2>1, <2>2 DEF Waiting, ByTimer
<1>4. QED
  BY <1>3

LEMMA RefreshesAlone ==
  ASSUME TInv, Calm', Tick, NEW n \in Gets \cup Refreshes \cup Locks, n.kind = "refresh"
  PROVE  \A m \in net : m.kind \notin {"select", "search"}
<1>1. viewState = "refine-search" /\ match = "few"
  BY TickSends
<1>2. Refreshes # {}
  BY <1>1 DEF Refreshes, In
<1>3. QED
  BY <1>2 DEF Tick, Note, Calm

LEMMA TickSent ==
  ASSUME Tick
  PROVE  /\ net' = net \cup (Gets \cup Refreshes \cup Locks)
         /\ UNCHANGED <<viewState, oldState, selectedProcess, match, candidates, selectedAddress, presets>>
         /\ UNCHANGED <<theProcess, onFile, addressList, listed>>
BY DEF Tick, Sends, page, server

\* A message that waits for the server or for the page while no selection is
\* under way finds them at the same process.
LEMMA SameAs ==
  ASSUME OneBlocks, SameProcess, NEW m \in net, m.kind # "select"
  PROVE  theProcess = selectedProcess
BY DEF SameProcess, Selecting

LEMMA NoSelection ==
  ASSUME OneBlocks, SameProcess, NEW m \in net, m.kind \in {"search", "refresh", "list"}
  PROVE  \A n \in net : n.kind # "select"
BY DEF OneBlocks, Blocks, SameProcess, Selecting

LEMMA SameProcessNext ==
  ASSUME TInv, OneBlocks, SameProcess, Calm', [Next]_vars
  PROVE  SameProcess'
<1> USE DEF SameProcess, Selecting
\* With no selection under way the two are one.
<1>1. ASSUME \A n \in net' : n.kind # "select", theProcess' = selectedProcess' PROVE SameProcess'
  BY <1>1
\* Messages of another kind come and go.
<1>2. ASSUME UNCHANGED <<selectedProcess, theProcess>>,
             \A n \in net : n.kind = "select" => n \in net',
             \A n \in net' : n \notin net => n.kind \notin {"select", "refresh", "list"} /\ viewState # "process-select",
             viewState' = viewState \/ viewState # "process-select" \/ (\A n \in net' : n.kind # "select")
      PROVE  SameProcess'
  <2>1. ASSUME NEW n \in net', n.kind = "select" PROVE Selecting(n)'
    <3>1. n \in net /\ UNCHANGED <<selectedProcess, theProcess>>
      BY <1>2, <2>1
    <3>2. n.home # selectedProcess => net' = {n} /\ viewState' = "process-select"
      BY <1>2, <2>1, <3>1
    <3>3. \A x \in net' : x.kind \notin {"refresh", "list"}
      BY <1>2, <2>1, <3>1
    <3>4. QED
      BY <2>1, <3>1, <3>2, <3>3
  <2>2. theProcess' # selectedProcess' => \E n \in net' : n.kind = "select" /\ n.state = "ok"
    BY <1>2
  <2>3. QED
    BY <2>1, <2>2
<1>3. ASSUME NEW p \in Pid, SelectProcess(p) \/ (RestartSearch /\ p = selectedProcess) PROVE SameProcess'
  <2>1. net = {}
    BY <1>3, SelectsAlone
  <2>2. PICK s : /\ net' = net \cup {s} /\ s.kind = "select" /\ s.home = p /\ s.state = "sent"
                 /\ viewState = "process-select" \/ (p = selectedProcess /\ viewState # "process-select")
    BY <1>3, SelectSends
  <2>3. UNCHANGED <<viewState, selectedProcess, theProcess>>
    BY <1>3, SelectSends
  <2>4. QED
    BY <2>1, <2>2, <2>3
<1>4. CASE Search
  <2>1. \A n \in net : n.kind # "select"
    BY <1>4, SearchSends DEF Waiting
  <2>2. \A n \in net' : n.kind # "select"
    BY <1>4, <2>1, SearchSends
  <2>3. theProcess' = selectedProcess'
    BY <1>4, <2>1, SearchSends
  <2>4. QED
    BY <1>1, <2>2, <2>3
<1>5. CASE SetValue
  <2>1. PICK s : net' = net \cup {s} /\ s.kind = "set"
    BY <1>5, SetSends
  <2>2. viewState # "process-select" /\ UNCHANGED <<viewState, selectedProcess, theProcess>>
    BY <1>5 DEF SetValue, In, page, server
  <2>3. QED
    BY <1>2, <2>1, <2>2
<1>6. CASE Tick
  <2> DEFINE new == Gets \cup Refreshes \cup Locks
  <2>1. net' = net \cup new
    BY <1>6, TickSent
  <2>2. UNCHANGED <<viewState, selectedProcess, theProcess>>
    BY <1>6, TickSent
  <2>3. \A n \in new : n.kind # "select" /\ viewState # "process-select"
    BY TickSends
  <2>4. \A n \in new : n.kind = "refresh" => \A m \in net : m.kind # "select"
    BY <1>6, RefreshesAlone
  <2>5. \A n \in new : n.kind # "list"
    BY TickSends
  <2> HIDE DEF new
  <2>6. CASE \E n \in new : n.kind = "refresh"
    <3>1. \A m \in net : m.kind # "select"
      BY <2>4, <2>6
    <3>2. QED
      BY <1>1, <2>1, <2>2, <2>3, <3>1
  <2>7. CASE ~\E n \in new : n.kind = "refresh"
    BY <1>2, <2>1, <2>2, <2>3, <2>5, <2>7
  <2>8. QED
    BY <2>6, <2>7
<1>7. CASE Clicks
  BY <1>2, <1>7, ClicksKeep
<1>8. ASSUME NEW m \in net, Handle(m) PROVE SameProcess'
  <2>1. CASE HandleSelect(m)
    <3>1. PICK r : Becomes(m, r) /\ r.kind = "select" /\ r.home = m.home /\ r.state = "ok"
      BY <2>1, SelectHandled
    <3>2. theProcess' = m.home /\ UNCHANGED <<viewState, selectedProcess>> /\ m.kind = "select"
      BY <2>1 DEF HandleSelect, page
    <3>3. \A n \in net' : n.kind = "select" => n = r
      BY <3>1, <3>2 DEF Becomes, OneBlocks, Blocks
    <3>4. \A n \in net' : n.kind \notin {"refresh", "list"}
      BY <3>1, <3>2 DEF Becomes
    <3>5. r.home # selectedProcess => net' = {r} /\ viewState' = "process-select"
      BY <3>1, <3>2 DEF Becomes
    <3>6. r \in net'
      BY <3>1 DEF Becomes
    <3>7. QED
      BY <3>1, <3>2, <3>3, <3>4, <3>5, <3>6
  <2>2. CASE ~HandleSelect(m)
    <3>1. m.kind # "select" /\ UNCHANGED <<viewState, selectedProcess, theProcess>>
      BY <1>8, <2>2 DEF Handle, HandleSearch, HandleRefresh, HandleList, HandleGet, HandleSet, Fails, page, server,
         HandleSelect
    <3>2. theProcess = selectedProcess
      BY <3>1, SameAs
    <3>3. CASE net' = net \ {m}
      BY <1>2, <3>1, <3>3
    <3>4. ASSUME NEW r, Becomes(m, r), r.kind = m.kind PROVE SameProcess'
      <4>1. CASE m.kind \in {"search", "refresh", "list"}
        BY <1>1, <3>1, <3>2, <3>4, <4>1, NoSelection DEF Becomes
      <4>2. CASE m.kind \notin {"search", "refresh", "list"}
        <5>1. \A n \in net' : n.kind = "select" => n \in net /\ n # m
          BY <3>1, <3>4 DEF Becomes
        <5>2. \A n \in net' : n.kind = "select" => n.home = selectedProcess /\ (n.state = "ok" => theProcess = n.home)
          BY <3>1, <5>1
        <5>3. \A n \in net' : n.kind = "select" => \A x \in net' : x.kind \notin {"refresh", "list"}
          BY <3>4, <4>2, <5>1 DEF Becomes
        <5>4. QED
          BY <3>1, <3>2, <5>2, <5>3
      <4>3. QED
        BY <4>1, <4>2
    <3>5. QED
      BY <1>8, <3>3, <3>4, HandleBecomes
  <2>3. QED
    BY <2>1, <2>2
<1>9. ASSUME NEW m \in net, Receive(m) PROVE SameProcess'
  <2>1. CASE Selected(m)
    <3>1. m.kind = "select" /\ m.state = "ok" /\ net' = net \ {m}
      BY <1>9, <2>1, KindOf DEF Receive, Selected, Drops, SelectMsg, Reply, TInv, Types
    <3>2. selectedProcess' = m.home /\ theProcess' = theProcess
      BY <2>1 DEF Selected, server
    <3>3. \A n \in net' : n.kind # "select"
      BY <3>1 DEF OneBlocks, Blocks
    <3>4. theProcess = m.home
      BY <3>1
    <3>5. QED
      BY <1>1, <3>2, <3>3, <3>4
  <2>2. CASE Found(m) \/ Listed(m)
    <3>1. m.kind \in {"search", "refresh", "list"} /\ UNCHANGED <<selectedProcess, theProcess>>
      BY <2>2 DEF Found, Listed, server
    <3>2. theProcess = selectedProcess /\ \A n \in net : n.kind # "select"
      BY <3>1, SameAs, NoSelection
    <3>3. \A n \in net' : n.kind # "select"
      BY <1>9, <3>2, ReceiveBecomes DEF Becomes
    <3>4. QED
      BY <1>1, <3>1, <3>2, <3>3
  <2>3. CASE GotEdited(m) \/ GetFailed(m) \/ GotPreset(m)
    <3>1. m.kind = "get" /\ net' = net \ {m} /\ UNCHANGED <<selectedProcess, theProcess>>
      BY <2>3 DEF GotEdited, GetFailed, GotPreset, Drops, server
    <3>2. theProcess = selectedProcess
      BY <3>1, SameAs
    <3>3. \A n \in net' : n.kind = "select" => n.home = selectedProcess
      BY <3>1
    <3>4. QED
      BY <3>1, <3>2, <3>3
  <2>4. QED
    BY <1>9, <2>1, <2>2, <2>3 DEF Receive
<1>10. CASE UNCHANGED vars
  BY <1>2, <1>10 DEF vars, page, server
<1>11. QED
  BY <1>3, <1>4, <1>5, <1>6, <1>7, <1>8, <1>9, <1>10, NextCases

\* The refine view is shown with a list of a search of the process.
Refining == (On("refine-search") => listed) /\ (listed => candidates = selectedProcess)

\* A request for the list, or its reply, is answered with the server's process.
LEMMA ListIs ==
  ASSUME TInv, Searched, NEW m \in net, Listed(m), m.state # "sent"
  PROVE  m.kind = "list" /\ m.list = theProcess /\ net' = net \ {m}
<1>1. m \in ListMsg /\ m.kind = "list"
  BY KindOf DEF Listed, TInv, Types
<1>2. m.state = "ok"
  BY <1>1 DEF ListMsg, Reply
<1>3. QED
  BY <1>1, <1>2 DEF Searched, Searching, Listed, Drops

LEMMA RefiningNext ==
  ASSUME TInv, OneBlocks, SameProcess, Searched, Calm', [Next]_vars
  PROVE  Refining'
<1>0. Refining
  BY DEF Searched, Refining
<1> USE DEF Refining, On
<1>1. ASSUME UNCHANGED <<viewState, oldState, selectedProcess, candidates, listed>> PROVE Refining'
  BY <1>0, <1>1
<1>2. ASSUME NEW p \in Pid, SelectProcess(p) \/ (RestartSearch /\ p = selectedProcess) PROVE Refining'
  BY <1>1, <1>2, SelectSends
<1>3. CASE Search
  BY <1>1, <1>3, SearchSends
<1>4. CASE SetValue
  BY <1>1, <1>4, SetSends
<1>5. CASE Tick
  BY <1>1, <1>5, TickSent
<1>6. CASE Clicks
  <2>1. CASE ReselectProcess \/ OnShowPresets \/ OnBackFromPresets
    BY <1>0, <2>1 DEF ReselectProcess, OnShowPresets, OnBackFromPresets, In, Shows, View
  <2>2. CASE OnRefineSearch
    <3>1. listed
      BY <2>2 DEF OnRefineSearch, Note, Calm
    <3>2. QED
      BY <1>0, <2>2, <3>1 DEF OnRefineSearch
  <2>3. CASE AddToPresets
    BY <1>0, <2>3 DEF AddToPresets, In, Shows
  <2>4. ASSUME NEW a \in Addr, SelectCandidate(a) \/ RemoveFromPresets(a) PROVE Refining'
    <3>1. /\ UNCHANGED <<oldState, selectedProcess, candidates, listed>>
          /\ viewState' = viewState \/ viewState' = "value-edit"
      BY <2>4 DEF SelectCandidate, SelectAddress, RemoveFromPresets, Shows
    <3>2. QED
      BY <1>0, <3>1
  <2>5. ASSUME NEW k \in DOMAIN Mine, SelectPreset(k) \/ ToggledPresetLock(k) PROVE Refining'
    <3>1. /\ UNCHANGED <<oldState, selectedProcess, candidates, listed>>
          /\ viewState' = viewState \/ viewState' = "value-edit"
      BY <2>5 DEF SelectPreset, SelectAddress, ToggledPresetLock, Shows
    <3>2. QED
      BY <1>0, <3>1
  <2>6. QED
    BY <1>6, <2>1, <2>2, <2>3, <2>4, <2>5 DEF Clicks
<1>7. ASSUME NEW m \in net, Handle(m) PROVE Refining'
  BY <1>1, <1>7 DEF Handle, HandleSelect, HandleSearch, HandleRefresh, HandleList, HandleGet, HandleSet, Fails, page
<1>8. ASSUME NEW m \in net, Receive(m) PROVE Refining'
  <2>1. CASE Selected(m)
    BY <2>1 DEF Selected, Shows
  <2>2. CASE Found(m)
    BY <1>0, <2>2 DEF Found
  <2>3. CASE Listed(m)
    <3>1. m.kind = "list" /\ m.list = theProcess
      BY <1>8, <2>3, ListIs DEF Receive
    <3>2. theProcess = selectedProcess
      BY <3>1, SameAs
    <3>3. candidates' = selectedProcess'
      BY <2>3, <3>1, <3>2 DEF Listed
    <3>4. listed' \/ UNCHANGED <<viewState, oldState, listed>>
      BY <2>3 DEF Listed
    <3>5. QED
      BY <1>0, <3>3, <3>4
  <2>4. CASE GotEdited(m) \/ GotPreset(m)
    BY <1>1, <2>4 DEF GotEdited, GotPreset
  <2>5. CASE GetFailed(m)
    BY <1>0, <2>5 DEF GetFailed, Shows
  <2>6. QED
    BY <1>8, <2>1, <2>2, <2>3, <2>4, <2>5 DEF Receive
<1>9. CASE UNCHANGED vars
  BY <1>1, <1>9 DEF vars, page
<1>10. QED
  BY <1>2, <1>3, <1>4, <1>5, <1>6, <1>7, <1>8, <1>9, NextCases

\* A refresh is sent while there is a result: the view is the refine view, so
\* the result shown is the server's.
LEMMA RefreshFits ==
  ASSUME TInv, Searched, Calm', Tick, NEW n \in Gets \cup Refreshes \cup Locks, n.kind = "refresh"
  PROVE  match = onFile /\ onFile # "none" /\ \A m \in net : m.kind \notin {"select", "search"}
<1>1. \A m \in net : m.kind \notin {"select", "search"}
  BY RefreshesAlone
<1>2. viewState = "refine-search" /\ match = "few"
  BY TickSends
<1>3. listed
  BY <1>2 DEF Searched, On
<1>4. match = onFile
  BY <1>1, <1>3 DEF Searched, MatchFits
<1>5. QED
  BY <1>1, <1>2, <1>4

LEMMA MatchFitsNext ==
  ASSUME TInv, OneBlocks, SameProcess, Searched, Calm', [Next]_vars
  PROVE  MatchFits'
<1>0. MatchFits
  BY DEF Searched
<1> USE DEF MatchFits
<1>1. ASSUME UNCHANGED <<match, onFile, listed>>,
             \A n \in net : n.kind \in {"select", "search"} /\ n.state = "ok" => n \in net',
             \A n \in net' : n.kind = "list" /\ n.then = "search" =>
               \E x \in net : x.kind = "list" /\ x.then = "search"
      PROVE  MatchFits'
  BY <1>0, <1>1
<1>2. ASSUME NEW p \in Pid, SelectProcess(p) \/ (RestartSearch /\ p = selectedProcess) PROVE MatchFits'
  BY <1>1, <1>2, SelectSends
<1>3. CASE Search
  BY <1>1, <1>3, SearchSends
<1>4. CASE SetValue
  BY <1>1, <1>4, SetSends
<1>5. CASE Tick
  <2>1. \A n \in Gets \cup Refreshes \cup Locks : n.kind # "list"
    BY TickSends
  <2>2. QED
    BY <1>1, <1>5, <2>1, TickSent
<1>6. CASE Clicks
  BY <1>1, <1>6, ClicksKeep
<1>7. ASSUME NEW m \in net, Handle(m) PROVE MatchFits'
  <2>1. CASE HandleSelect(m)
    BY <2>1, SelectHandled DEF Becomes
  <2>2. CASE HandleSearch(m)
    BY <2>2, SearchHandled DEF Becomes
  <2>3. CASE ~HandleSelect(m) /\ ~HandleSearch(m)
    <3>1. UNCHANGED <<match, onFile, listed>>
      BY <1>7, <2>3 DEF Handle, HandleSelect, HandleSearch, HandleRefresh, HandleList, HandleGet, HandleSet, Fails,
         page, server
    <3>2. QED
      BY <1>1, <1>7, <3>1, HandleBecomes DEF Becomes
  <2>4. QED
    BY <2>1, <2>2, <2>3
<1>8. ASSUME NEW m \in net, Receive(m) PROVE MatchFits'
  <2>1. CASE Selected(m)
    <3>1. \A n \in net : n.kind # "list"
      BY <2>1 DEF Selected, SameProcess, Selecting
    <3>2. QED
      BY <2>1, <3>1 DEF Selected, Drops
  <2>2. CASE Found(m)
    <3>1. m.kind \in {"search", "refresh"} /\ m.state = "ok" /\ match' = m.found /\ onFile' = onFile
      BY <1>8, <2>2, FoundSends DEF Receive, Reply, Found, server
    <3>2. m.found = onFile
      BY <3>1 DEF Searched, Searching
    <3>3. QED
      BY <3>1, <3>2
  <2>3. CASE Listed(m)
    <3>1. m.kind = "list" /\ net' = net \ {m} /\ UNCHANGED <<match, onFile>>
      BY <2>3 DEF Listed, Drops, server
    <3>2. CASE m.then = "search"
      BY <1>0, <3>1, <3>2
    <3>3. CASE m.then # "search"
      BY <1>1, <2>3, <3>1, <3>3 DEF Listed
    <3>4. QED
      BY <3>2, <3>3
  <2>4. CASE GotEdited(m) \/ GotPreset(m) \/ GetFailed(m)
    BY <1>1, <2>4 DEF GotEdited, GotPreset, GetFailed, Drops, server
  <2>5. QED
    BY <1>8, <2>1, <2>2, <2>3, <2>4 DEF Receive
<1>9. CASE UNCHANGED vars
  BY <1>1, <1>9 DEF vars, page, server
<1>10. QED
  BY <1>2, <1>3, <1>4, <1>5, <1>6, <1>7, <1>8, <1>9, NextCases

LEMMA SearchingNext ==
  ASSUME TInv, OneBlocks, SameProcess, Searched, Calm', [Next]_vars, NEW n \in net'
  PROVE  Searching(n)'
<1>0. \A m \in net : Searching(m)
  BY DEF Searched
<1> USE DEF Searching
\* The server's part stays, and so does the kind of the messages under way.
<1>1. ASSUME UNCHANGED <<theProcess, onFile, addressList>>,
             \A x \in net' : x \notin net => x.kind \in {"select", "get", "set"}
      PROVE  Searching(n)'
  BY <1>0, <1>1
<1>2. ASSUME NEW p \in Pid, SelectProcess(p) \/ (RestartSearch /\ p = selectedProcess) PROVE Searching(n)'
  BY <1>1, <1>2, SelectSends
<1>3. CASE Search
  <2>1. PICK s : net' = net \cup {s} /\ s.kind = "search" /\ s.state = "sent"
    BY <1>3, SearchSends
  <2>2. UNCHANGED <<theProcess, onFile, addressList>>
    BY <1>3, SearchSends
  <2>3. \A m \in net : m.kind # "refresh"
    BY <1>3 DEF Search, Note, Calm
  <2>4. CASE n = s
    BY <2>1, <2>3, <2>4
  <2>5. CASE n # s
    BY <1>0, <2>1, <2>2, <2>3, <2>5
  <2>6. QED
    BY <2>4, <2>5
<1>4. CASE SetValue
  BY <1>1, <1>4, SetSends
<1>5. CASE Tick
  <2> DEFINE new == Gets \cup Refreshes \cup Locks
  <2>1. net' = net \cup new /\ UNCHANGED <<theProcess, onFile, addressList>>
    BY <1>5, TickSent
  <2>2. \A x \in new : x.kind \in {"get", "set", "refresh"} /\ x.state = "sent"
    BY TickSends
  <2>3. \A x \in new : x.kind = "refresh" => onFile # "none" /\ \A m \in net : m.kind # "search"
    BY <1>5, RefreshFits
  <2> HIDE DEF new
  <2>4. CASE n \in new
    BY <2>1, <2>2, <2>3, <2>4
  <2>5. CASE n \notin new
    <3>1. n \in net
      BY <2>1, <2>5
    <3>2. n.kind = "search" => \A x \in net' : x.kind # "refresh"
      BY <1>0, <2>1, <2>3, <3>1
    <3>3. QED
      BY <1>0, <2>1, <3>1, <3>2
  <2>6. QED
    BY <2>4, <2>5
<1>6. CASE Clicks
  BY <1>1, <1>6, ClicksKeep
<1>7. ASSUME NEW m \in net, Handle(m) PROVE Searching(n)'
  <2>0. m.state = "sent"
    BY <1>7 DEF Handle
  <2>1. CASE HandleSelect(m)
    <3>1. m.kind = "select" /\ \A x \in net : x.kind \notin {"refresh", "list"}
      BY <2>1 DEF HandleSelect, SameProcess, Selecting
    <3>2. \A x \in net : x.kind # "search"
      BY <3>1 DEF OneBlocks, Blocks
    <3>3. PICK r : net' = (net \ {m}) \cup {r} /\ r.kind = "select"
      BY <2>1, SelectHandled DEF Becomes
    <3>4. n.kind \notin {"refresh", "list", "search"}
      BY <3>1, <3>2, <3>3
    <3>5. QED
      BY <3>4
  <2>2. CASE HandleSearch(m)
    <3>1. m.kind = "search" /\ addressList' = theProcess /\ theProcess' = theProcess
      BY <2>2 DEF HandleSearch
    <3>2. PICK r : net' = (net \ {m}) \cup {r} /\ r.kind = "search" /\ r.found = onFile' /\ r.state = "ok"
      BY <2>2, SearchHandled DEF Becomes
    <3>3. \A x \in net : x.kind # "refresh"
      BY <1>0, <3>1
    <3>4. \A x \in net : x.kind = "search" => x = m
      BY <3>1 DEF OneBlocks, Blocks
    <3>5. CASE n = r
      BY <3>1, <3>2, <3>3, <3>5
    <3>6. CASE n # r
      <4>1. n \in net /\ n.kind \notin {"search", "refresh"}
        BY <3>2, <3>3, <3>4, <3>6
      <4>2. n.kind = "list" /\ n.state = "ok" => n.list = theProcess
        BY <1>0, <4>1
      <4>3. QED
        BY <3>1, <4>1, <4>2
    <3>7. QED
      BY <3>5, <3>6
  <2>3. CASE HandleRefresh(m)
    <3>1. m.kind = "refresh" /\ addressList' = theProcess /\ UNCHANGED <<theProcess, onFile>> /\ onFile # "none"
      BY <1>0, <2>3 DEF HandleRefresh
    <3>2. PICK r : net' = (net \ {m}) \cup {r} /\ r.kind = "refresh" /\ r.found = onFile /\ r.state = "ok"
      BY <2>3, <3>1, RefreshHandled DEF Becomes
    <3>3. \A x \in net : x.kind # "search"
      BY <1>0, <3>1
    <3>4. CASE n = r
      BY <3>1, <3>2, <3>4
    <3>5. CASE n # r
      <4>1. n \in net /\ n.kind # "search"
        BY <3>2, <3>3, <3>5
      <4>2. n.kind = "list" /\ n.state = "ok" => n.list = theProcess
        BY <1>0, <4>1
      <4>3. n.kind = "refresh" /\ n.state = "ok" => n.found = onFile
        BY <1>0, <4>1
      <4>4. QED
        BY <3>1, <4>1, <4>2, <4>3
    <3>6. QED
      BY <3>4, <3>5
  <2>4. CASE HandleList(m)
    <3>1. m.kind = "list" /\ UNCHANGED <<theProcess, onFile, addressList>>
      BY <2>4 DEF HandleList, server
    <3>2. addressList = theProcess
      BY <1>0, <2>0, <3>1
    <3>3. PICK r : net' = (net \ {m}) \cup {r} /\ r.kind = "list" /\ r.list = addressList /\ r.state = "ok"
      BY <2>4, ListHandled DEF Becomes
    <3>4. CASE n = r
      BY <3>1, <3>2, <3>3, <3>4
    <3>5. CASE n # r
      BY <1>0, <3>1, <3>3, <3>5
    <3>6. QED
      BY <3>4, <3>5
  <2>5. CASE HandleGet(m) \/ HandleSet(m) \/ Fails(m)
    <3>1. UNCHANGED <<theProcess, onFile, addressList>>
      BY <2>5 DEF HandleGet, HandleSet, Fails, server
    <3>2. \A x \in net' : x \notin net => x.kind = "get"
      BY <2>5, GetHandled DEF HandleSet, Fails, Drops, Becomes
    <3>3. QED
      BY <1>1, <3>1, <3>2
  <2>6. QED
    BY <1>7, <2>1, <2>2, <2>3, <2>4, <2>5 DEF Handle
<1>8. ASSUME NEW m \in net, Receive(m) PROVE Searching(n)'
  <2>1. UNCHANGED <<theProcess, onFile, addressList>>
    BY <1>8 DEF Receive, Selected, Found, Listed, GotEdited, GetFailed, GotPreset, server
  <2>2. CASE Found(m)
    <3>1. m.kind \in {"search", "refresh"} /\ m.state = "ok"
      BY <1>8, <2>2, FoundSends DEF Receive, Reply
    <3>2. addressList = theProcess
      BY <1>0, <3>1
    <3>3. CASE net' = net \ {m}
      BY <1>1, <2>1, <3>3
    <3>4. ASSUME NEW r, Becomes(m, r), r.kind = "list", r.state = "sent" PROVE Searching(n)'
      <4>1. CASE n = r
        BY <2>1, <3>2, <3>4, <4>1
      <4>2. CASE n # r
        BY <1>0, <2>1, <3>4, <4>2 DEF Becomes
      <4>3. QED
        BY <4>1, <4>2
    <3>5. QED
      BY <2>2, <3>1, <3>3, <3>4, FoundSends
  <2>3. CASE Selected(m) \/ Listed(m) \/ GotEdited(m) \/ GetFailed(m) \/ GotPreset(m)
    <3>1. net' \subseteq net
      BY <2>3 DEF Selected, Listed, GotEdited, GetFailed, GotPreset, Drops
    <3>2. QED
      BY <1>1, <2>1, <3>1
  <2>4. QED
    BY <1>8, <2>2, <2>3 DEF Receive
<1>9. CASE UNCHANGED vars
  BY <1>1, <1>9 DEF vars, server
<1>10. QED
  BY <1>2, <1>3, <1>4, <1>5, <1>6, <1>7, <1>8, <1>9, NextCases

LEMMA SearchedNext ==
  ASSUME TInv, OneBlocks, SameProcess, Searched, Calm', [Next]_vars
  PROVE  Searched'
<1>1. \A n \in net' : Searching(n)'
  BY SearchingNext
<1>2. MatchFits' /\ Refining'
  BY MatchFitsNext, RefiningNext
<1>3. QED
  BY <1>1, <1>2 DEF Searched, Refining

\* One entry is written, with a value and a lock that are its own.
LEMMA EntryWrites ==
  ASSUME TInv, Values, NEW h \in Pid, NEW n, NEW e, Writes(h, n, e), Own(h, e),
         n \in DOMAIN presets[h] => presets[h][n].addr = e.addr,
         Editing /\ selectedAddress.home = h /\ selectedAddress.at = n => selectedAddress.entry.addr = e.addr,
         UNCHANGED <<selectedProcess, theProcess>>, net' \subseteq net
  PROVE  Values'
<1>1. \A p \in Pid : \A k \in DOMAIN presets'[p] : Own(p, presets'[p][k]) /\ presets'[p][k].addr = presets[p][k].addr
  BY DEF Values, Writes
<1>2. Editing' => /\ Own(selectedAddress'.home, selectedAddress'.entry)
                  /\ selectedAddress'.home = selectedAddress.home
                  /\ selectedAddress'.entry.addr = selectedAddress.entry.addr
  BY DEF Values, Writes
<1>3. DOMAIN Mine' = DOMAIN Mine /\ \A k \in DOMAIN Mine : Mine'[k].addr = Mine[k].addr
  <2>1. CASE selectedProcess = NoPid
    BY <2>1 DEF Mine
  <2>2. CASE selectedProcess # NoPid
    <3>1. selectedProcess \in Pid
      BY <2>2 DEF TInv, Types
    <3>2. Mine = presets[selectedProcess] /\ Mine' = presets'[selectedProcess]
      BY <2>2 DEF Mine
    <3>3. DOMAIN presets'[selectedProcess] = DOMAIN presets[selectedProcess]
      BY <3>1 DEF Writes
    <3>4. QED
      BY <1>1, <3>1, <3>2, <3>3
  <2>3. QED
    BY <2>1, <2>2
<1>4. ASSUME NEW m \in net', m.kind = "get" PROVE Reading(m)'
  <2>1. Reading(m) /\ (Editing' => Editing)
    BY <1>4 DEF Values, Writes
  <2>2. QED
    BY <1>2, <1>3, <2>1 DEF Reading
<1>5. \A m \in net' : m.kind = "set" => m.home = selectedProcess' /\ m.value = At(m.home, m.addr)
  BY DEF Values
<1>6. QED
  BY <1>1, <1>2, <1>4, <1>5 DEF Values

LEMMA ValuesNext ==
  ASSUME TInv, OneBlocks, SameProcess, Searched, Values, Calm', [Next]_vars
  PROVE  Values'
<1>0. /\ selectedProcess \in Pid \cup {NoPid} /\ NoPid \notin Pid /\ presets \in [Pid -> Seq(Entry)]
      /\ net \subseteq Message /\ (Editing => selectedAddress \in Editor)
  BY NoPidAssumption DEF TInv, Types
\* The entries stay, and the requests are those of before or right.
<1>1. ASSUME UNCHANGED <<presets, selectedProcess, selectedAddress, theProcess>>,
             \A m \in net' : m \notin net /\ m.kind = "get" => Reading(m),
             \A m \in net' : m \notin net /\ m.kind = "set" =>
               m.home = selectedProcess /\ m.value = At(m.home, m.addr)
      PROVE  Values'
  <2>1. Mine' = Mine /\ Editing' = Editing
    BY <1>1 DEF Mine, Editing
  <2>2. \A m \in net' : m.kind = "get" => Reading(m)'
    BY <1>1, <2>1 DEF Values, Reading
  <2>3. \A m \in net' : m.kind = "set" => m.home = selectedProcess' /\ m.value = At(m.home, m.addr)
    BY <1>1 DEF Values
  <2>4. \A p \in Pid : \A k \in DOMAIN presets'[p] : Own(p, presets'[p][k])
    BY <1>1 DEF Values
  <2>5. Editing' => Own(selectedAddress'.home, selectedAddress'.entry)
    BY <1>1, <2>1 DEF Values
  <2>6. QED
    BY <2>2, <2>3, <2>4, <2>5 DEF Values
<1>2. ASSUME NEW p \in Pid, SelectProcess(p) \/ (RestartSearch /\ p = selectedProcess) PROVE Values'
  BY <1>1, <1>2, SelectSends
<1>3. CASE Search
  BY <1>1, <1>3, SearchSends
<1>4. CASE SetValue
  BY <1>1, <1>4, SetSends
<1>5. CASE Tick
  <2> DEFINE new == Gets \cup Refreshes \cup Locks
  <2>1. net' = net \cup new
    BY <1>5, TickSent
  <2>2. UNCHANGED <<presets, selectedProcess, selectedAddress, theProcess>>
    BY <1>5, TickSent
  <2>3. ASSUME NEW m \in new, m.kind = "get" PROVE Reading(m)
    BY <2>3, TickSends DEF Reading
  <2>4. ASSUME NEW m \in new, m.kind = "set" PROVE m.home = selectedProcess /\ m.value = At(m.home, m.addr)
    <3>1. m.home = selectedProcess /\ selectedProcess \in Pid
      BY <2>4, TickSends
    <3>2. PICK k \in DOMAIN Mine : m.addr = Mine[k].addr /\ m.value = Mine[k].lock /\ m.value # Unlocked
      BY <2>4, TickSends
    <3>3. Own(selectedProcess, Mine[k])
      BY <1>0, <3>1, <3>2 DEF Mine, Values
    <3>4. QED
      BY <3>1, <3>2, <3>3 DEF Own
  <2> HIDE DEF new
  <2>5. QED
    BY <1>1, <2>1, <2>2, <2>3, <2>4
<1>6. CASE Clicks
  <2>0. UNCHANGED <<net, selectedProcess, theProcess>> /\ Calm
    BY <1>6, ClicksKeep, CalmBefore
  <2>1. CASE ReselectProcess \/ OnShowPresets \/ OnBackFromPresets
    <3>1. UNCHANGED <<presets, selectedAddress>>
      BY <2>1 DEF ReselectProcess, OnShowPresets, OnBackFromPresets
    <3>2. QED
      BY <1>1, <2>0, <3>1
  <2>2. CASE OnRefineSearch
    <3>1. ~Editing' /\ presets' = presets
      BY <2>2 DEF OnRefineSearch, Editing
    <3>2. Mine' = Mine
      BY <2>0, <3>1 DEF Mine
    <3>3. \A m \in net' : m.kind = "get" => Reading(m)'
      BY <2>0, <3>1, <3>2 DEF Values, Reading
    <3>4. QED
      BY <2>0, <3>1, <3>3 DEF Values
  \* Another entry comes into the editor: no reply for the editor is under way.
  <2>3. ASSUME NEW n, NEW e, Opens(n, e), Own(selectedProcess, e), presets' = presets,
               \A m \in net : m.kind = "get" => m.slot # 0
        PROVE  Values'
    <3>1. Mine' = Mine
      BY <2>0, <2>3 DEF Mine
    <3>2. \A m \in net' : m.kind = "get" => Reading(m)'
      BY <2>0, <2>3, <3>1 DEF Values, Reading
    <3>3. Own(selectedAddress'.home, selectedAddress'.entry)
      BY <2>3 DEF Opens
    <3>4. QED
      BY <2>0, <2>3, <3>2, <3>3 DEF Values
  <2>4. CASE AddToPresets
    <3>1. PICK e \in Entry, n \in Nat \ {0} :
            /\ Opens(n, e) /\ e.addr = selectedAddress.entry.addr /\ e.value = selectedAddress.entry.value
            /\ e.lock = Unlocked /\ Editing
            /\ presets' \in [Pid -> Seq(Entry)]
            /\ n \notin DOMAIN presets[selectedProcess]
            /\ DOMAIN presets'[selectedProcess] = DOMAIN presets[selectedProcess] \cup {n}
            /\ presets'[selectedProcess][n] = e
            /\ \A k \in DOMAIN presets[selectedProcess] :
                 presets'[selectedProcess][k] = presets[selectedProcess][k]
            /\ \A q \in Pid : q # selectedProcess => presets'[q] = presets[q]
      BY <2>4, AddOpens
    <3>2. selectedAddress.home = selectedProcess /\ selectedProcess \in Pid /\ selectedProcess # NoPid
      BY <1>0, <2>4, <3>1 DEF AddToPresets, In, TInv, EditsSelected, On, Opens
    <3>3. Own(selectedProcess, e)
      BY <3>1, <3>2 DEF Values, Own
    <3>4. \A p \in Pid : \A k \in DOMAIN presets'[p] : Own(p, presets'[p][k])
      <4>1. ASSUME NEW k \in DOMAIN presets'[selectedProcess] PROVE Own(selectedProcess, presets'[selectedProcess][k])
        <5>1. CASE k = n
          BY <3>1, <3>3, <5>1
        <5>2. CASE k # n
          BY <3>1, <3>2, <4>1, <5>2 DEF Values
        <5>3. QED
          BY <5>1, <5>2
      <4>2. QED
        BY <3>1, <4>1 DEF Values
    <3>5. selectedAddress'.home = selectedProcess /\ selectedAddress'.entry = e
      BY <3>1 DEF Opens
    <3>6. Mine = presets[selectedProcess] /\ Mine' = presets'[selectedProcess]
      BY <2>0, <3>2 DEF Mine
    <3>7. ASSUME NEW m \in net', m.kind = "get" PROVE Reading(m)'
      <4>1. Reading(m)
        BY <2>0, <3>7 DEF Values
      <4>2. m.slot # 0 => m.slot \in DOMAIN Mine' /\ Mine'[m.slot].addr = m.addr
        BY <3>1, <3>6, <4>1 DEF Reading
      <4>3. m.slot = 0 => selectedAddress'.home = selectedProcess' /\ selectedAddress'.entry.addr = m.addr
        BY <2>0, <3>1, <3>5, <4>1 DEF Reading
      <4>4. QED
        BY <2>0, <4>1, <4>2, <4>3 DEF Reading
    <3>8. QED
      BY <2>0, <3>3, <3>4, <3>5, <3>7 DEF Values
  <2>5. ASSUME NEW a \in Addr, SelectCandidate(a) PROVE Values'
    <3>1. PICK n \in Nat, e \in Entry : Row(n, e, a)
      BY <2>5, CandidateOpens
    <3>2. viewState = "refine-search" /\ presets' = presets /\ \A m \in net : m.kind = "get" => m.slot # 0
      BY <2>5 DEF SelectCandidate, SelectAddress, In, Note, Calm
    <3>3. candidates = selectedProcess
      BY <3>2 DEF Searched, On
    <3>4. Own(selectedProcess, e) /\ Opens(n, e)
      <4>1. CASE n = 0 /\ e.addr = a /\ e.value = At(candidates, a) /\ e.lock = Unlocked
        BY <3>1, <3>3, <4>1 DEF Own, Row
      <4>2. CASE n \in DOMAIN presets[selectedProcess] /\ e = presets[selectedProcess][n]
        BY <3>1, <4>2 DEF Values, Row, Opens
      <4>3. QED
        BY <3>1, <4>1, <4>2 DEF Row
    <3>5. QED
      BY <2>3, <3>2, <3>4
  <2>6. ASSUME NEW k \in DOMAIN Mine, SelectPreset(k) PROVE Values'
    <3>1. Opens(k, presets[selectedProcess][k])
      BY <2>6, PresetOpens
    <3>2. presets' = presets /\ \A m \in net : m.kind = "get" => m.slot # 0
      BY <2>6 DEF SelectPreset, SelectAddress, Note, Calm
    <3>3. selectedProcess \in Pid /\ k \in DOMAIN presets[selectedProcess]
      BY <1>0, <2>6, <3>1 DEF Opens, Mine
    <3>4. QED
      BY <2>3, <3>1, <3>2, <3>3 DEF Values
  <2>7. ASSUME NEW a \in Addr, RemoveFromPresets(a) PROVE Values'
    <3>1. PICK n \in DOMAIN presets[selectedProcess] :
            /\ selectedProcess \in Pid
            /\ presets' = [presets EXCEPT ![selectedProcess] = RemoveAt(presets[selectedProcess], n)]
            /\ Editing' <=> Editing
            /\ Editing => /\ selectedAddress'.home = selectedAddress.home
                          /\ selectedAddress'.entry = selectedAddress.entry
      BY <2>7, RemoveOf
    <3>2. \A m \in net : m.kind = "get" => m.slot = 0
      BY <2>7 DEF RemoveFromPresets, Note, Calm
    <3>3. \A k \in DOMAIN RemoveAt(presets[selectedProcess], n) :
            \E x \in DOMAIN presets[selectedProcess] :
              RemoveAt(presets[selectedProcess], n)[k] = presets[selectedProcess][x]
      <4> DEFINE s == presets[selectedProcess]
      <4>1. s \in Seq(Entry) /\ n \in DOMAIN s
        BY <1>0, <3>1
      <4> HIDE DEF s
      <4>2. /\ \A k \in DOMAIN RemoveAt(s, n) :
                 k \in DOMAIN s /\ RemoveAt(s, n)[k] = IF k < n THEN s[k] ELSE s[k + 1]
            /\ \A k \in DOMAIN RemoveAt(s, n) : k >= n => k + 1 \in DOMAIN s
        BY <4>1, Removed
      <4>3. DOMAIN s \subseteq Nat
        BY <4>1, LenProperties
      <4>4. ASSUME NEW k \in DOMAIN RemoveAt(s, n) PROVE \E x \in DOMAIN s : RemoveAt(s, n)[k] = s[x]
        <5>1. CASE k < n
          BY <4>2, <5>1
        <5>2. CASE ~(k < n)
          <6>1. k \in Nat /\ n \in Nat
            BY <4>1, <4>2, <4>3
          <6>2. k >= n
            BY <5>2, <6>1
          <6>3. QED
            BY <4>2, <5>2, <6>2
        <5>3. QED
          BY <5>1, <5>2
      <4>5. QED
        BY <4>4 DEF s
    <3>4. \A p \in Pid : \A k \in DOMAIN presets'[p] : Own(p, presets'[p][k])
      <4>1. presets'[selectedProcess] = RemoveAt(presets[selectedProcess], n)
        BY <1>0, <3>1
      <4>2. \A q \in Pid : q # selectedProcess => presets'[q] = presets[q]
        BY <1>0, <3>1
      <4>3. \A k \in DOMAIN presets'[selectedProcess] : Own(selectedProcess, presets'[selectedProcess][k])
        BY <3>1, <3>3, <4>1 DEF Values
      <4>4. QED
        BY <4>2, <4>3 DEF Values
    <3>5. \A m \in net' : m.kind = "get" => Reading(m)'
      BY <2>0, <3>1, <3>2 DEF Values, Reading
    <3>6. QED
      BY <2>0, <3>1, <3>4, <3>5 DEF Values
  <2>8. ASSUME NEW k \in DOMAIN Mine, ToggledPresetLock(k) PROVE Values'
    <3>1. PICK e \in Entry : /\ Writes(selectedProcess, k, e) /\ e.addr = Mine[k].addr /\ e.value = Mine[k].value
                             /\ e.lock \in {Unlocked, Mine[k].value}
      BY <2>8, ToggleWrites
    <3>2. selectedProcess \in Pid /\ Mine = presets[selectedProcess] /\ k # 0
      BY MineOf DEF TInv
    <3>3. Own(selectedProcess, e)
      BY <3>1, <3>2 DEF Values, Own
    <3>4. Editing /\ selectedAddress.home = selectedProcess /\ selectedAddress.at = k =>
            selectedAddress.entry.addr = e.addr
      BY <3>1, <3>2 DEF TInv, Shared
    <3>5. QED
      BY <2>0, <3>1, <3>2, <3>3, <3>4, EntryWrites
  <2>9. QED
    BY <1>6, <2>1, <2>2, <2>4, <2>5, <2>6, <2>7, <2>8 DEF Clicks
<1>7. ASSUME NEW m \in net, Handle(m) PROVE Values'
  <2>0. UNCHANGED <<presets, selectedProcess, selectedAddress>>
    BY <1>7 DEF Handle, HandleSelect, HandleSearch, HandleRefresh, HandleList, HandleGet, HandleSet, Fails, page
  <2>1. CASE HandleSelect(m)
    <3>1. m.kind = "select" /\ m.state = "sent" /\ theProcess' = m.home
      BY <1>7, <2>1 DEF HandleSelect, Handle
    <3>2. PICK r : net' = (net \ {m}) \cup {r} /\ r.kind = "select"
      BY <2>1, SelectHandled DEF Becomes
    <3>3. CASE m.home = selectedProcess
      <4>1. theProcess = selectedProcess
        BY <3>1 DEF SameProcess, OneBlocks, Blocks
      <4>2. QED
        BY <1>1, <2>0, <3>1, <3>2, <3>3, <4>1
    <3>4. CASE m.home # selectedProcess
      <4>1. net' = {r}
        BY <3>1, <3>2, <3>4 DEF SameProcess, Selecting
      <4>2. QED
        BY <2>0, <3>2, <4>1 DEF Values, Editing
    <3>5. QED
      BY <3>3, <3>4
  <2>2. CASE HandleSearch(m) \/ HandleRefresh(m) \/ HandleList(m)
    <3>1. theProcess' = theProcess
      BY <2>2 DEF HandleSearch, HandleRefresh, HandleList, server
    <3>2. \A x \in net' : x \notin net => x.kind \notin {"get", "set"}
      BY <2>2, SearchHandled, RefreshHandled, ListHandled DEF Becomes
    <3>3. QED
      BY <1>1, <2>0, <3>1, <3>2
  <2>3. CASE HandleGet(m)
    <3>1. PICK r : /\ Becomes(m, r) /\ r.kind = "get" /\ r.addr = m.addr /\ r.slot = m.slot
                   /\ \/ r.state = "ok" /\ r.from = theProcess
                      \/ r.state = "failed" /\ m.slot = 0
      BY <2>3, GetHandled
    <3>2. m.kind = "get" /\ theProcess' = theProcess
      BY <2>3 DEF HandleGet, server
    <3>3. Reading(r)
      BY <3>1, <3>2 DEF Values, Reading
    <3>4. QED
      BY <1>1, <2>0, <3>1, <3>2, <3>3 DEF Becomes
  <2>4. CASE HandleSet(m) \/ Fails(m)
    BY <1>1, <2>0, <2>4 DEF HandleSet, Fails, Drops, server
  <2>5. QED
    BY <1>7, <2>1, <2>2, <2>3, <2>4 DEF Handle
<1>8. ASSUME NEW m \in net, Receive(m) PROVE Values'
  <2>0. m.state # "sent" /\ theProcess' = theProcess
    BY <1>8 DEF Receive, Selected, Found, Listed, GotEdited, GetFailed, GotPreset, server
  <2>1. CASE Selected(m)
    <3>1. m.kind = "select" /\ net' = net \ {m} /\ selectedProcess' = m.home /\ UNCHANGED <<presets, selectedAddress>>
      BY <2>1 DEF Selected, Drops
    <3>2. CASE m.home = selectedProcess
      BY <1>1, <2>0, <3>1, <3>2
    <3>3. CASE m.home # selectedProcess
      <4>1. net' = {}
        BY <3>1, <3>3 DEF SameProcess, Selecting
      <4>2. QED
        BY <3>1, <4>1 DEF Values, Editing
    <3>4. QED
      BY <3>2, <3>3
  <2>2. CASE Found(m)
    <3>1. UNCHANGED <<presets, selectedProcess, selectedAddress>>
      BY <2>2 DEF Found
    <3>2. \A x \in net' : x \notin net => x.kind = "list"
      BY <2>2, FoundSends DEF Becomes
    <3>3. QED
      BY <1>1, <2>0, <3>1, <3>2
  <2>3. CASE Listed(m)
    <3>1. net' \subseteq net /\ UNCHANGED <<presets, selectedProcess>>
      BY <2>3 DEF Listed, Drops
    <3>2. UNCHANGED selectedAddress \/ ~Editing'
      BY <2>3 DEF Listed, Editing
    <3>3. CASE UNCHANGED selectedAddress
      BY <1>1, <2>0, <3>1, <3>3
    <3>4. CASE ~Editing'
      <4>1. Mine' = Mine
        BY <3>1 DEF Mine
      <4>2. \A x \in net' : x.kind = "get" => Reading(x)'
        BY <2>0, <3>1, <3>4, <4>1 DEF Values, Reading
      <4>3. QED
        BY <3>1, <3>4, <4>2 DEF Values
    <3>5. QED
      BY <3>2, <3>3, <3>4
  <2>4. CASE GetFailed(m)
    BY <1>1, <2>0, <2>4 DEF GetFailed, Drops
  <2>5. CASE GotEdited(m)
    <3>1. m.kind = "get" /\ m.slot = 0 /\ m.state = "ok" /\ net' = net \ {m} /\ selectedProcess' = selectedProcess
      BY <2>5 DEF GotEdited, Drops
    <3>2. theProcess = selectedProcess /\ m.from = theProcess
      BY <3>1, SameAs DEF Values, Reading
    <3>3. CASE ~Editing
      BY <1>1, <2>0, <2>5, <3>1, <3>3 DEF GotEdited, Editing
    <3>4. CASE Editing
      <4>1. PICK e \in Entry : /\ Writes(selectedAddress.home, selectedAddress.at, e)
                               /\ e.addr = selectedAddress.entry.addr /\ e.lock = selectedAddress.entry.lock
                               /\ e.value = At(m.from, m.addr)
        BY <2>0, <2>5, <3>4, EditedWrites
      <4>2. selectedAddress.home = selectedProcess /\ selectedAddress.entry.addr = m.addr /\ selectedAddress.home \in Pid
        BY <1>0, <3>1, <3>4, EditorOf DEF Values, Reading
      <4>3. Own(selectedAddress.home, selectedAddress.entry)
        BY <3>4 DEF Values
      <4>4. Own(selectedAddress.home, e)
        BY <3>2, <4>1, <4>2, <4>3 DEF Own
      <4>5. selectedAddress.at \in DOMAIN presets[selectedAddress.home] =>
              presets[selectedAddress.home][selectedAddress.at].addr = e.addr
        <5>1. presets[selectedAddress.home] \in Seq(Entry)
          BY <1>0, <4>2
        <5>2. 0 \notin DOMAIN presets[selectedAddress.home]
          BY <5>1, LenProperties
        <5>3. QED
          BY <3>4, <4>1, <5>2 DEF TInv, Shared
      <4>6. QED
        BY <2>0, <3>1, <4>1, <4>2, <4>4, <4>5, EntryWrites
    <3>5. QED
      BY <3>3, <3>4
  <2>6. CASE GotPreset(m)
    <3>1. m.kind = "get" /\ m.slot # 0 /\ net' = net \ {m} /\ selectedProcess' = selectedProcess
      BY <2>6 DEF GotPreset, Drops
    <3>2. m.state = "ok"
      BY <2>0, <3>1, GetReplyOf
    <3>3. theProcess = selectedProcess /\ m.from = theProcess /\ m.slot \in DOMAIN Mine /\ Mine[m.slot].addr = m.addr
      BY <3>1, <3>2, SameAs DEF Values, Reading
    <3>4. PICK e \in Entry : /\ Writes(selectedProcess, m.slot, e) /\ e.addr = Mine[m.slot].addr
                             /\ e.lock = Mine[m.slot].lock /\ e.value = At(m.from, m.addr)
      BY <2>0, <2>6, <3>3, PresetWrites
    <3>5. selectedProcess \in Pid /\ Mine = presets[selectedProcess]
      BY <3>3, MineOf DEF TInv
    <3>6. Own(selectedProcess, Mine[m.slot])
      BY <3>3, <3>5 DEF Values
    <3>7. Own(selectedProcess, e)
      BY <3>3, <3>4, <3>6 DEF Own
    <3>8. Editing /\ selectedAddress.home = selectedProcess /\ selectedAddress.at = m.slot =>
            selectedAddress.entry.addr = e.addr
      BY <3>1, <3>4, <3>5 DEF TInv, Shared
    <3>9. QED
      BY <2>0, <3>1, <3>4, <3>5, <3>7, <3>8, EntryWrites
  <2>7. QED
    BY <1>8, <2>1, <2>2, <2>3, <2>4, <2>5, <2>6 DEF Receive
<1>9. CASE UNCHANGED vars
  BY <1>1, <1>9 DEF vars, page, server
<1>10. QED
  BY <1>2, <1>3, <1>4, <1>5, <1>6, <1>7, <1>8, <1>9, NextCases
-----------------------------------------------------------------------------
LEMMA InitInv == Init => IInv
<1> SUFFICES ASSUME Init PROVE IInv
  OBVIOUS
<1> USE DEF Init
<1>1. Types
  <2>1. <<>> \in Seq(Entry)
    OBVIOUS
  <2>2. [p \in Pid |-> <<>>] \in [Pid -> Seq(Entry)]
    BY <2>1
  <2>3. QED
    BY <2>2 DEF Types, View, Match, Editing
<1>2. Shared /\ Chosen /\ EditsSelected
  BY DEF Shared, Chosen, EditsSelected, Editing
<1>3. OneBlocks /\ SameProcess
  BY DEF OneBlocks, SameProcess
<1>4. Searched
  BY DEF Searched, MatchFits, On
<1>5. Values
  BY DEF Values, Editing
<1>6. QED
  BY <1>1, <1>2, <1>3, <1>4, <1>5 DEF IInv, TInv

LEMMA InvNext == IInv /\ [Next]_vars => IInv'
<1> SUFFICES ASSUME TInv, OneBlocks, Calm => SameProcess /\ Searched /\ Values, [Next]_vars PROVE IInv'
  BY DEF IInv
<1>1. TInv' /\ OneBlocks'
  BY TInvNext, OneBlocksNext
<1>2. ASSUME Calm' PROVE SameProcess' /\ Searched' /\ Values'
  <2>1. Calm
    BY <1>2, CalmBefore
  <2>2. SameProcess'
    BY <1>2, <2>1, SameProcessNext
  <2>3. Searched'
    BY <1>2, <2>1, SearchedNext
  <2>4. Values'
    BY <1>2, <2>1, ValuesNext
  <2>5. QED
    BY <2>2, <2>3, <2>4
<1>3. QED
  BY <1>1, <1>2 DEF IInv

\* The invariant of the page, its requests and the server (326-372): the server
\* is where the page is unless a selection is alone under way, and every reply
\* under way still fits what it is for.
THEOREM Invariant == Spec => []IInv
BY InitInv, InvNext, PTL DEF Spec

\* The page and the replies hold what they should, and an entry in the editor
\* is the preset it was added as (129-144), whatever the order of the replies.
THEOREM TypeCorrect == Spec => []TypeOK
<1>1. ASSUME TInv PROVE TypeOK
  <2>1. Types /\ Shared
    BY <1>1 DEF TInv
  <2>2. \A p \in Pid : \A i \in DOMAIN presets[p] : presets[p][i] \in Entry
    BY <2>1, ElementOfSeq, LenProperties DEF Types
  <2>3. selectedAddress # Nothing =>
          /\ selectedAddress.entry \in Entry
          /\ selectedAddress.at # 0 => presets[selectedAddress.home][selectedAddress.at] = selectedAddress.entry
    BY <2>1, EditorOf DEF Types, Shared, Editing
  <2>4. QED
    BY <2>1, <2>2, <2>3 DEF TypeOK, Types
<1>2. IInv => TypeOK
  BY <1>1 DEF IInv
<1>3. QED
  BY <1>2, Invariant, PTL

\* The candidates shown are those of the process selected, however late a list
\* comes in (178, 211), unless one of the accidents happened.
THEOREM CandidatesHome == Spec => []CandidatesBelong
<1>1. IInv => CandidatesBelong
  BY DEF IInv, Searched, On, CandidatesBelong
<1>2. QED
  BY <1>1, Invariant, PTL

\* The values shown and locked were read at the entry's own place, in whatever
\* order the replies come (325, 338), unless one of the accidents happened.
THEOREM ValuesHome == Spec => []ValuesBelong
<1>1. IInv => ValuesBelong
  BY DEF IInv, Values, Own, Editing, ValuesBelong
<1>2. QED
  BY <1>1, Invariant, PTL

\* What the user sets, and what the timer sets again and again to keep a value
\* locked (364), is set in the process it is meant for, unless an accident
\* happened.
THEOREM SetsGoHome == Spec => WritesGoHome
<1>1. ASSUME IInv, Calm, NEW m \in net, HandleSet(m)
      PROVE  theProcess = m.home /\ m.value = At(m.home, m.addr)
  <2>1. m.kind = "set"
    BY <1>1 DEF HandleSet
  <2>2. m.home = selectedProcess /\ m.value = At(m.home, m.addr)
    BY <1>1, <2>1 DEF IInv, Values
  <2>3. theProcess = selectedProcess
    BY <1>1, <2>1, SameAs DEF IInv
  <2>4. QED
    BY <2>2, <2>3
<1>2. IInv => (Calm => \A m \in net : HandleSet(m) => theProcess = m.home /\ m.value = At(m.home, m.addr))
  BY <1>1
<1>3. QED
  BY <1>2, Invariant, PTL DEF WritesGoHome

\* A refresh finds the result of a search (351), unless an accident happened;
\* without one it would list all of memory.
THEOREM RefreshFindsResult == Spec => RefineMeansSearching
<1>1. IInv => (Calm => \A m \in net : m.state = "sent" /\ HandleRefresh(m) => onFile # "none")
  BY DEF IInv, Searched, Searching, HandleRefresh
<1>2. QED
  BY <1>1, Invariant, PTL DEF RefineMeansSearching
=============================================================================
