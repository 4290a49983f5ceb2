------------------------------- MODULE WebUi -------------------------------
(***************************************************************************)
(* The page src/www/index.html: its views, the user's clicks, the timer    *)
(* and the replies, which arrive in any order because every request has a  *)
(* connection of its own.  The server is what WebInterface.cpp does for    *)
(* one request alone: the process selected, whether a search has           *)
(* candidates, and the list.                                               *)
(*                                                                         *)
(* A value is the place it was read from: a process and an address.  So a  *)
(* value belongs to an entry when it is the entry's own place.             *)
(***************************************************************************)
EXTENDS Integers, FiniteSets, SequencesExt

CONSTANTS Pid, Addr,
          NoPid,
          MaxPresets,    \* bound: presets of all processes together
          MaxInFlight    \* bound: requests and replies under way

ASSUME NoPidAssumption == NoPid \notin Pid
ASSUME BoundAssumption == MaxPresets \in Nat /\ MaxInFlight \in Nat

VARIABLES
  viewState, oldState,
  selectedProcess,
  match,             \* results.match: "none", "few" (below 100) or "many"
  candidates,        \* the process whose list is shown
  selectedAddress,   \* the entry in the editor: [home, at, entry], or Nothing
  presets,           \* config.presets: per process a sequence of entries
  theProcess,        \* server: the process of g_TheProcess
  onFile,            \* server: how much the last search left, "none" without one
  addressList,       \* server: the process whose addresses g_AddressList holds
  net,               \* requests sent and replies not yet received
  listed,            \* ghost: the list of a search of selectedProcess has come in
  accidents          \* ghost: the crossings that happened and that the page cannot cope with

page   == <<viewState, oldState, selectedProcess, match, candidates, selectedAddress, presets>>
server == <<theProcess, onFile, addressList>>
vars   == <<page, server, net, listed, accidents>>

View  == {"process-select", "first-search", "not-found", "refine-search", "value-edit", "presets-view"}
Match == {"none", "few", "many"}
Place == [pid : Pid, addr : Addr]
Unlocked == [pid |-> NoPid]
\* lock is the lockValue of an entry that is locked.
Entry == [addr : Addr, value : Place, lock : Place \cup {Unlocked}]
Nothing == [home |-> NoPid]

At(p, a) == [pid |-> p, addr |-> a]

Init ==
  /\ viewState = "process-select" /\ oldState = "process-select"
  /\ selectedProcess = NoPid /\ match = "none" /\ candidates = NoPid
  /\ selectedAddress = Nothing /\ presets = [p \in Pid |-> <<>>]
  /\ theProcess = NoPid /\ onFile = "none" /\ addressList = NoPid
  /\ net = {} /\ listed = FALSE /\ accidents = {}
-----------------------------------------------------------------------------
(* Requests.  home is a ghost: the process the page meant.                  *)

Request(kind)  == [kind |-> kind, state |-> "sent", found |-> "none"]
Select(p)      == [kind |-> "select", home |-> p, state |-> "sent"]
List(then)     == [kind |-> "list", then |-> then, state |-> "sent", list |-> NoPid]
\* slot is the index of the preset, 0 for the editor.
Get(a, slot)   == [kind |-> "get", addr |-> a, slot |-> slot, state |-> "sent", from |-> NoPid]
Set(a, v)      == [kind |-> "set", home |-> selectedProcess, addr |-> a, value |-> v, state |-> "sent"]

\* Bound on the user: a second selection or search waits for the first one.
Waiting == \E m \in net : m.kind \in {"select", "search"} \/ (m.kind = "list" /\ m.then = "search")

\* What the timer has under way.
ByTimer == {m \in net : m.kind \in {"get", "set", "refresh"} \/ (m.kind = "list" /\ m.then = "refresh")}
Note(what, happened) == accidents' = IF happened THEN accidents \cup {what} ELSE accidents

Sends(ms) == net' = net \cup ms /\ Cardinality(net') <= MaxInFlight
-----------------------------------------------------------------------------
(* The user.  Each view has its buttons, index.html 12-82.                  *)

In(views) == viewState \in views
Shows(view) == viewState' = view

SelectProcess(p) ==
  /\ In({"process-select"}) /\ ~Waiting /\ Sends({Select(p)})
  /\ Note("selected over", ByTimer # {})
  /\ UNCHANGED <<page, server, listed>>

RestartSearch ==
  /\ In({"not-found", "refine-search", "value-edit", "presets-view"})
  /\ ~Waiting /\ Sends({Select(selectedProcess)})
  /\ Note("selected over", ByTimer # {})
  /\ UNCHANGED <<page, server, listed>>

Search ==
  /\ In({"first-search", "refine-search"}) /\ ~Waiting /\ Sends({Request("search")})
  /\ Note("refreshed over", \E m \in net : m.kind = "refresh")
  /\ UNCHANGED <<page, server, listed>>

ReselectProcess ==
  /\ In(View \ {"process-select"}) /\ Shows("process-select")
  /\ UNCHANGED <<oldState, selectedProcess, match, candidates, selectedAddress, presets,
                 server, net, accidents, listed>>

OnShowPresets ==
  /\ In({"first-search", "not-found", "refine-search", "value-edit"})
  /\ oldState' = viewState /\ Shows("presets-view")
  /\ UNCHANGED <<selectedProcess, match, candidates, selectedAddress, presets,
                 server, net, accidents, listed>>

OnBackFromPresets ==
  /\ In({"presets-view"}) /\ Shows(oldState)
  /\ UNCHANGED <<oldState, selectedProcess, match, candidates, selectedAddress, presets,
                 server, net, accidents, listed>>

\* The back button of the editor is onRefineSearch.
OnRefineSearch ==
  /\ In({"value-edit"}) /\ selectedAddress' = Nothing /\ Shows("refine-search")
  /\ Note("no search", ~listed)
  /\ UNCHANGED <<oldState, selectedProcess, match, candidates, presets, server, net, listed>>

\* The presets of the process selected.
Mine == IF selectedProcess = NoPid THEN <<>> ELSE presets[selectedProcess]

\* A row of the candidates or of the presets is clicked.  A preset is edited
\* in its place, at is its index.
SelectAddress(at, entry) ==
  /\ selectedAddress' = [home |-> selectedProcess, at |-> at, entry |-> entry]
  /\ Shows("value-edit")
  /\ Note("edited over", \E m \in net : m.kind = "get" /\ m.slot = 0)
  /\ UNCHANGED <<oldState, selectedProcess, match, candidates, presets, server, net, listed>>

\* A row that has been added to the presets is one object with the preset, until
\* the rows are replaced or the presets copied; which it is by now is left open.
SelectCandidate(a) ==
  /\ In({"refine-search"}) /\ candidates # NoPid
  /\ \/ SelectAddress(0, [addr |-> a, value |-> At(candidates, a), lock |-> Unlocked])
     \/ \E i \in DOMAIN Mine : Mine[i].addr = a /\ SelectAddress(i, Mine[i])
SelectPreset(i) ==
  /\ In({"presets-view"})
  /\ SelectAddress(i, presets[selectedProcess][i])

\* The modify button; the value is the user's.
SetValue ==
  /\ In({"value-edit"}) /\ selectedAddress # Nothing
  /\ LET a == selectedAddress.entry.addr IN Sends({Set(a, At(selectedProcess, a))})
  /\ UNCHANGED <<page, server, accidents, listed>>

\* The presets are copied, except for the entry added, which stays the one in
\* the editor.
PresetCount == FoldSet(LAMBDA p, n : n + Len(presets[p]), 0, Pid)
AddToPresets ==
  /\ In({"value-edit"}) /\ selectedAddress # Nothing
  /\ PresetCount < MaxPresets
  /\ LET entry == [selectedAddress.entry EXCEPT !.lock = Unlocked] IN
     /\ presets' = [presets EXCEPT ![selectedProcess] = Append(@, entry)]
     /\ selectedAddress' = [home |-> selectedProcess, at |-> Len(presets'[selectedProcess]), entry |-> entry]
  /\ oldState' = viewState /\ Shows("presets-view")
  /\ UNCHANGED <<selectedProcess, match, candidates, server, net, accidents, listed>>

\* removeFromPresets takes out the first entry with the address.
RemoveFromPresets(a) ==
  /\ In({"presets-view"})
  /\ LET mine == presets[selectedProcess]
         hits == {i \in DOMAIN mine : mine[i].addr = a}
     IN /\ hits # {}
        /\ presets' = [presets EXCEPT ![selectedProcess] = RemoveAt(@, Min(hits))]
        /\ selectedAddress' =
             IF selectedAddress = Nothing \/ selectedAddress.home # selectedProcess \/ selectedAddress.at < Min(hits)
             THEN selectedAddress
             ELSE [selectedAddress EXCEPT !.at = IF @ = Min(hits) THEN 0 ELSE @ - 1]
  /\ Note("shifted", \E m \in net : m.kind = "get" /\ m.slot # 0)
  /\ UNCHANGED <<viewState, oldState, selectedProcess, match, candidates, server, net, listed>>

\* What a change of the object e does to the presets and to the editor.
UpdateCopy(p, i, e) ==
  /\ presets' = [presets EXCEPT ![p][i] = e]
  /\ UNCHANGED selectedAddress
Update(p, i, e) ==
  /\ presets' = [presets EXCEPT ![p][i] = e]
  /\ selectedAddress' = IF selectedAddress # Nothing /\ selectedAddress.home = p /\ selectedAddress.at = i
                        THEN [selectedAddress EXCEPT !.entry = e] ELSE selectedAddress

ToggledPresetLock(i) ==
  /\ In({"presets-view"})
  /\ LET x == presets[selectedProcess][i] IN
     Update(selectedProcess, i, [x EXCEPT !.lock = IF @ = Unlocked THEN x.value ELSE Unlocked])
  /\ UNCHANGED <<viewState, oldState, selectedProcess, match, candidates, server, net, accidents, listed>>
-----------------------------------------------------------------------------
(* The timer, index.html 326-372.                                           *)

Gets ==
  IF In({"value-edit"}) /\ selectedAddress # Nothing THEN {Get(selectedAddress.entry.addr, 0)}
  ELSE IF In({"presets-view"}) THEN {Get(Mine[i].addr, i) : i \in DOMAIN Mine}
  ELSE {}

RefreshesInAnyView == IF match = "few" THEN {Request("refresh")} ELSE {}
Refreshes == IF In({"refine-search"}) /\ match = "few" THEN {Request("refresh")} ELSE {}

LocksEverywhere ==
  {Set(Mine[i].addr, Mine[i].lock) : i \in {j \in DOMAIN Mine : Mine[j].lock # Unlocked}}
Locks ==
  IF In({"process-select"}) THEN {}
  ELSE {Set(Mine[i].addr, Mine[i].lock) : i \in {j \in DOMAIN Mine : Mine[j].lock # Unlocked}}

\* A process without presets ends the callback at line 333 or 365 with an
\* exception, by when all that there is to send has been sent; the timer goes on.
Tick ==
  /\ Sends(Gets \cup Refreshes \cup Locks)
  /\ Note("refreshed over", Refreshes # {} /\ \E m \in net : m.kind \in {"select", "search"})
  /\ UNCHANGED <<page, server, listed>>
-----------------------------------------------------------------------------
(* The server, one request at a time, in any order.  A request that fails   *)
(* and whose failure the page only reports is forgotten.                    *)

Answers(m, reply) == net' = (net \ {m}) \cup {reply}
Drops(m) == net' = net \ {m}

HandleSelect(m) ==
  /\ m.kind = "select" /\ Answers(m, [m EXCEPT !.state = "ok"])
  /\ theProcess' = m.home /\ onFile' = "none"
  /\ UNCHANGED <<page, addressList, listed, accidents>>

HandleSearch(m) ==
  /\ m.kind = "search" /\ addressList' = theProcess
  /\ onFile' \in (IF onFile = "few" THEN {"none", "few"} ELSE Match)
  /\ Answers(m, [m EXCEPT !.state = "ok", !.found = onFile'])
  /\ UNCHANGED <<page, theProcess, listed, accidents>>

\* Without a search a refresh dumps all memory, and is not counted as one.
HandleRefresh(m) ==
  /\ m.kind = "refresh" /\ addressList' = theProcess
  /\ Answers(m, [m EXCEPT !.state = "ok", !.found = IF onFile = "none" THEN "many" ELSE onFile])
  /\ UNCHANGED <<page, theProcess, onFile, listed, accidents>>

HandleList(m) ==
  /\ m.kind = "list" /\ Answers(m, [m EXCEPT !.state = "ok", !.list = addressList])
  /\ UNCHANGED <<page, server, accidents, listed>>

HandleGet(m) ==
  /\ m.kind = "get"
  /\ \/ Answers(m, [m EXCEPT !.state = "ok", !.from = theProcess])
     \/ m.slot = 0 /\ Answers(m, [m EXCEPT !.state = "failed"])
  /\ UNCHANGED <<page, server, accidents, listed>>

HandleSet(m) ==
  /\ m.kind = "set" /\ Drops(m)
  /\ UNCHANGED <<page, server, accidents, listed>>

Fails(m) ==
  /\ m.kind \in {"search", "refresh", "list", "get"} /\ Drops(m) /\ (m.kind = "get" => m.slot # 0)
  /\ UNCHANGED <<page, server, accidents, listed>>

Handle(m) ==
  /\ m.state = "sent"
  /\ \/ HandleSelect(m) \/ HandleSearch(m) \/ HandleRefresh(m) \/ HandleList(m)
     \/ HandleGet(m) \/ HandleSet(m) \/ Fails(m)
-----------------------------------------------------------------------------
(* The replies.                                                             *)

Selected(m) ==
  /\ m.kind = "select" /\ Drops(m)
  /\ selectedProcess' = m.home /\ Shows("first-search") /\ listed' = FALSE
  /\ UNCHANGED <<oldState, match, candidates, selectedAddress, presets, server, accidents>>

\* onSearchResults and onSearchRefresh.
FoundShowsAtOnce(m) ==
  /\ m.kind \in {"search", "refresh"}
  /\ match' = m.found
  /\ IF m.found # "none" THEN Answers(m, List(m.kind)) ELSE Drops(m)
  /\ viewState' = IF m.kind = "refresh" THEN viewState ELSE IF m.found = "none" THEN "not-found" ELSE "refine-search"
  /\ UNCHANGED <<oldState, selectedProcess, candidates, selectedAddress, presets, server, accidents, listed>>
Found(m) ==
  /\ m.kind \in {"search", "refresh"}
  /\ match' = m.found
  /\ IF m.found # "none" THEN Answers(m, List(m.kind)) ELSE Drops(m)
  /\ viewState' = IF m.found = "none" /\ m.kind = "search" THEN "not-found" ELSE viewState
  /\ UNCHANGED <<oldState, selectedProcess, candidates, selectedAddress, presets, server, accidents, listed>>

Listed(m) ==
  /\ m.kind = "list" /\ Drops(m) /\ candidates' = m.list
  /\ IF m.then = "search" THEN selectedAddress' = Nothing /\ Shows("refine-search") /\ listed' = TRUE
                          ELSE UNCHANGED <<selectedAddress, viewState, listed>>
  /\ UNCHANGED <<oldState, selectedProcess, match, presets, server, accidents>>

\* The editor is given the value, whatever entry it shows by now.
GotEdited(m) ==
  /\ m.kind = "get" /\ m.slot = 0 /\ m.state = "ok" /\ Drops(m)
  /\ IF selectedAddress = Nothing THEN UNCHANGED <<selectedAddress, presets>>
     ELSE LET e == [selectedAddress.entry EXCEPT !.value = At(m.from, m.addr)] IN
          IF selectedAddress.at = 0
          THEN selectedAddress' = [selectedAddress EXCEPT !.entry = e] /\ UNCHANGED presets
          ELSE Update(selectedAddress.home, selectedAddress.at, e)
  /\ UNCHANGED <<viewState, oldState, selectedProcess, match, candidates, server, accidents, listed>>

GetFailed(m) ==
  /\ m.kind = "get" /\ m.state = "failed" /\ Drops(m) /\ Shows("process-select")
  /\ UNCHANGED <<oldState, selectedProcess, match, candidates, selectedAddress, presets, server, accidents, listed>>

\* A preset is given the value by its index.
GotPresetLast(m) ==
  /\ m.kind = "get" /\ m.slot # 0 /\ Drops(m)
  /\ IF Mine # <<>>
     THEN Update(selectedProcess, Len(Mine), [Mine[Len(Mine)] EXCEPT !.value = At(m.from, m.addr)])
     ELSE UNCHANGED <<selectedAddress, presets>>
  /\ UNCHANGED <<viewState, oldState, selectedProcess, match, candidates, server, accidents, listed>>
GotPreset(m) ==
  /\ m.kind = "get" /\ m.slot # 0 /\ Drops(m)
  /\ IF m.slot \in DOMAIN Mine
     THEN Update(selectedProcess, m.slot, [Mine[m.slot] EXCEPT !.value = At(m.from, m.addr)])
     ELSE UNCHANGED <<selectedAddress, presets>>
  /\ UNCHANGED <<viewState, oldState, selectedProcess, match, candidates, server, accidents, listed>>

Receive(m) ==
  /\ m.state # "sent"
  /\ Selected(m) \/ Found(m) \/ Listed(m) \/ GotEdited(m) \/ GetFailed(m) \/ GotPreset(m)
-----------------------------------------------------------------------------
User ==
  \/ \E p \in Pid : SelectProcess(p)
  \/ RestartSearch \/ Search \/ ReselectProcess \/ OnShowPresets \/ OnBackFromPresets
  \/ OnRefineSearch \/ SetValue \/ AddToPresets
  \/ \E a \in Addr : SelectCandidate(a) \/ RemoveFromPresets(a)
  \/ \E i \in DOMAIN Mine : SelectPreset(i) \/ ToggledPresetLock(i)

Next == User \/ Tick \/ \E m \in net : Handle(m) \/ Receive(m)

Spec == Init /\ [][Next]_vars
-----------------------------------------------------------------------------
\* The variables hold what their comments say, and an entry that is in the
\* editor and among the presets is one object: addToPresets (129-144) shares it.
TypeOK ==
  /\ viewState \in View /\ oldState \in View /\ selectedProcess \in Pid \cup {NoPid}
  /\ match \in Match /\ candidates \in Pid \cup {NoPid}
  /\ \A p \in Pid : \A i \in DOMAIN presets[p] : presets[p][i] \in Entry
  /\ selectedAddress # Nothing =>
       /\ selectedAddress.entry \in Entry
       /\ selectedAddress.at # 0 => presets[selectedAddress.home][selectedAddress.at] = selectedAddress.entry
  /\ theProcess \in Pid \cup {NoPid} /\ onFile \in Match

Calm == accidents = {}

\* The refine view shows the list of the process whose name it shows: a list
\* that arrives late (178) or that the server still had (211) is never taken
\* for the list of the process selected, unless one of the accidents happened.
CandidatesBelong == Calm /\ viewState = "refine-search" => candidates = selectedProcess

\* The value shown for an entry, and the value it is locked to, were read at
\* the entry's own place, although replies come in any order (325, 338), unless
\* one of the accidents happened.
ValuesBelong ==
  LET Own(p, e) == e.value = At(p, e.addr) /\ e.lock \in {Unlocked, At(p, e.addr)} IN
  Calm =>
    /\ \A p \in Pid : \A i \in DOMAIN presets[p] : Own(p, presets[p][i])
    /\ selectedAddress # Nothing => Own(selectedAddress.home, selectedAddress.entry)

\* Whatever is written, by the user or to keep a value locked, is written to
\* the process and the address it was meant for, unless an accident happened:
\* set goes to the process the server selected last (364).
WritesGoHome ==
  [][Calm => \A m \in net : HandleSet(m) => theProcess = m.home /\ m.value = At(m.home, m.addr)]_vars

\* A refresh reaches the server only while there are results to refresh, unless
\* an accident happened; without results it lists all of memory (351).
RefineMeansSearching ==
  [][Calm => \A m \in net : m.state = "sent" /\ HandleRefresh(m) => onFile # "none"]_vars
=============================================================================
