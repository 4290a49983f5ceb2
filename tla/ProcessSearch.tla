---------------------------- MODULE ProcessSearch ----------------------------
(***************************************************************************)
(* CProcess::Search (src/process_util.cpp) as the web interface calls it,  *)
(* while the target process keeps running: it writes, allocates and frees  *)
(* memory between any two reads of the scan (SUSPEND_WHILE_SEARCHING is 0).*)
(* A step of the scan is one ReadProcessMemory and what is done with it.   *)
(*                                                                         *)
(* A result file is a sequence of chunks of records.  A full dump has one  *)
(* chunk for each region, a list of matches one for each record: the two   *)
(* loops that refine them differ only in how much they read at a time.     *)
(***************************************************************************)
EXTENDS Integers, FiniteSets, SequencesExt

CONSTANTS
  Pages,          \* number of pages of the target that may be in use
  PageWords,      \* searchable words of a page
  MaxValue,       \* words hold 0..MaxValue
  ListCap,        \* candidates MyAddResultCallback keeps, 100 in the code
  RefreshLimit,   \* the page refreshes below this many matches, 100 too
  AnyRefresh,     \* TRUE: a client that ignores that rule
  MaxScans,       \* bound: m_ScanCount, only ever compared with 0, stays here
  MaxActivity     \* bound: steps of the target process

ASSUME SizeAssumption ==
  /\ Pages \in Nat \ {0} /\ PageWords \in Nat \ {0} /\ MaxValue \in Nat
  /\ ListCap \in Nat \ {0} /\ MaxScans \in Nat \ {0} /\ MaxActivity \in Nat
\* A page of 4096 bytes has 1024 words: a dump is never refreshed by the page.
ASSUME RefreshAssumption == AnyRefresh \in BOOLEAN /\ RefreshLimit \in 1..PageWords

Addr  == 1..(Pages * PageWords)
Value == 0..MaxValue
Page(a) == ((a - 1) \div PageWords) + 1
PageAddrs(p) == ((p - 1) * PageWords + 1)..(p * PageWords)

Unreadable == -1     \* in held: the address could not be read
Mode == {"exact", "greater", "lower", "equal", "refresh"}

VARIABLES
  mem,                    \* the target's words
  mapped,                 \* pages committed, writable and below kernelBase
  activity,               \* steps the target has taken
  m_ScanCount, m_LastScanIsFullDump,
  oldFile,                \* decipio.srch.old
  temp,                   \* chunks written to the temporary file
  pc,                     \* "idle", "first" scan or "refine"
  mode, value,            \* arguments of the search
  todo,                   \* regions or chunks still to read
  matchCount,             \* of the search, and of the reply once idle
  list,                   \* g_AddressList
  held                    \* ghost: what each address held during the scan

targetVars == <<mem, mapped, activity>>
searchVars == <<m_ScanCount, m_LastScanIsFullDump, oldFile>>
scanVars   == <<temp, pc, mode, value, todo, matchCount, list>>
vars == <<targetVars, searchVars, scanVars, held>>

NoFile == [kind |-> "none", chunks |-> <<>>]

\* What address a holds now, as a reader sees it.
Seen(a) == IF Page(a) \in mapped THEN mem[a] ELSE Unreadable

\* The CProcess constructor leaves m_LastScanIsFullDump uninitialised.  What
\* the target holds differs by the steps it takes before the first search.
Init ==
  /\ mem = [a \in Addr |-> 0] /\ mapped = 1..Pages /\ activity = 0
  /\ m_ScanCount = 0 /\ m_LastScanIsFullDump \in BOOLEAN /\ oldFile = NoFile
  /\ temp = <<>> /\ pc = "idle" /\ mode = "equal" /\ value = 0 /\ todo = <<>>
  /\ matchCount = 0 /\ list = <<>> /\ held = [a \in Addr |-> {Seen(a)}]
-----------------------------------------------------------------------------
(* The target process. *)

Observe == held' = [a \in Addr |-> IF pc = "idle" THEN held[a] ELSE held[a] \cup {Seen(a)'}]

Poke ==
  /\ activity < MaxActivity /\ activity' = activity + 1
  /\ \E a \in Addr : Page(a) \in mapped /\ \E v \in Value \ {mem[a]} : mem' = [mem EXCEPT ![a] = v]
  /\ UNCHANGED <<mapped, searchVars, scanVars>> /\ Observe

Unmap ==
  /\ activity < MaxActivity /\ activity' = activity + 1
  /\ \E p \in mapped : mapped' = mapped \ {p}
  /\ UNCHANGED <<mem, searchVars, scanVars>> /\ Observe

Map ==
  /\ activity < MaxActivity /\ activity' = activity + 1
  /\ \E p \in 1..Pages \ mapped :
       /\ mapped' = mapped \cup {p}
       /\ mem' = [a \in Addr |-> IF Page(a) = p THEN 0 ELSE mem[a]]
  /\ UNCHANGED <<searchVars, scanVars>> /\ Observe
-----------------------------------------------------------------------------
(* The search. *)

\* The elements of s at the places in I, as a loop over s collects them.
Picked(s, I) ==
  LET taken[n \in 0..Len(s)] ==
        IF n = 0 THEN <<>> ELSE IF n \in I THEN Append(taken[n - 1], s[n]) ELSE taken[n - 1]
  IN taken[Len(s)]

\* RescanRegions: the maximal runs of usable pages, in address order, each as
\* the sequence of its addresses.
Run(p) == {q \in p..Pages : p..q \subseteq mapped}
Region(p) == [k \in 1..(Cardinality(Run(p)) * PageWords) |-> (p - 1) * PageWords + k]
RescanRegions == Picked([p \in 1..Pages |-> Region(p)], {p \in mapped : p - 1 \notin mapped})

\* GetRegionMemory: the words of a region, what a buffer that was filled only
\* in part may hold (error 0x12B), or nothing.
GetRegionMemory(region) ==
  IF Page(region[1]) \notin mapped THEN {}
  ELSE {data \in [1..Len(region) -> Value] :
          \A k \in 1..Len(region) :
            (\A j \in 1..k : Page(region[j]) \in mapped) => data[k] = mem[region[k]]}

\* The predicate of a refinement: new value d against old value o.
Satisfies(d, o) ==
  \/ mode = "exact" /\ d = value
  \/ mode = "greater" /\ d > o
  \/ mode = "lower" /\ d < o
  \/ mode = "equal" /\ d = o
  \/ mode = "refresh"

\* Every match is counted and written, as a chunk of its own unless it is
\* part of a dump, and reported to MyAddResultCallback, which keeps the first
\* ListCap and then takes itself away.
Singles(recs) == [i \in 1..Len(recs) |-> <<recs[i]>>]
\* Faulty variant: the cap is tested with <=.
ReportOneMore(recs, type) ==
  LET all == list \o [i \in 1..Len(recs) |-> [addr |-> recs[i].addr, value |-> recs[i].value, type |-> type]]
  IN list' = SubSeq(all, 1, IF Len(all) <= ListCap THEN Len(all) ELSE ListCap + 1)
Report(recs, type) ==
  LET all == list \o [i \in 1..Len(recs) |-> [addr |-> recs[i].addr, value |-> recs[i].value, type |-> type]]
  IN list' = SubSeq(all, 1, IF Len(all) < ListCap THEN Len(all) ELSE ListCap)
Found(recs, chunks, type) ==
  /\ matchCount' = matchCount + Len(recs)
  /\ temp' = IF mode = "refresh" /\ pc = "refine" THEN temp ELSE temp \o chunks
  /\ Report(recs, type)

\* The page sends refresh only while its last result, which a restart does
\* not clear, is below the limit.
MayRefresh == AnyRefresh \/ matchCount \in 1..(RefreshLimit - 1)

\* A full dump read as Address_t records yields records of any address.
Misread == {<<>>} \cup {<< <<[addr |-> a, value |-> 0]>> >> : a \in Addr}

BeginSearch ==
  /\ pc = "idle"
  /\ mode' \in Mode /\ value' \in (IF mode' = "exact" THEN Value ELSE {0})
  /\ mode' = "refresh" => MayRefresh
  /\ pc' = IF m_ScanCount = 0 THEN "first" ELSE "refine"
  /\ todo' \in IF m_ScanCount = 0 THEN {RescanRegions}
               ELSE IF m_LastScanIsFullDump = (oldFile.kind = "dump") THEN {oldFile.chunks}
               ELSE Misread
  /\ temp' = <<>> /\ matchCount' = 0 /\ list' = <<>>
  /\ held' = [a \in Addr |-> {Seen(a)}]
  /\ UNCHANGED <<targetVars, searchVars>>

\* select-process: a new CProcess, for the same target when the page starts
\* over.  The file and the list of the old one stay.
Select ==
  /\ pc = "idle"
  /\ m_ScanCount' = 0 /\ m_LastScanIsFullDump' \in BOOLEAN
  /\ UNCHANGED <<targetVars, oldFile, scanVars, held>>

\* Faulty variant: an exact scan stops before the last word of the region.
ScanRegionMissesLast ==
  /\ pc = "first" /\ todo # <<>> /\ todo' = Tail(todo)
  /\ LET region == Head(todo) IN
     IF GetRegionMemory(region) = {} THEN UNCHANGED <<matchCount, temp, list>>
     ELSE \E data \in GetRegionMemory(region) :
            LET words == [k \in 1..Len(region) |-> [addr |-> region[k], value |-> data[k]]]
                equal == Picked(words, {k \in 1..(Len(region) - 1) : data[k] = value})
            IN IF mode = "exact" THEN Found(equal, Singles(equal), 1)
               ELSE Found(words, <<words>>, 1)
  /\ UNCHANGED <<targetVars, searchVars, pc, mode, value, held>>

\* First scan, one region: a dump of it, or the words that are the value.
ScanRegion ==
  /\ pc = "first" /\ todo # <<>> /\ todo' = Tail(todo)
  /\ LET region == Head(todo) IN
     IF GetRegionMemory(region) = {} THEN UNCHANGED <<matchCount, temp, list>>
     ELSE \E data \in GetRegionMemory(region) :
            LET words == [k \in 1..Len(region) |-> [addr |-> region[k], value |-> data[k]]]
                equal == Picked(words, {k \in 1..Len(region) : data[k] = value})
            IN IF mode = "exact" THEN Found(equal, Singles(equal), 1)
               ELSE Found(words, <<words>>, 1)
  /\ UNCHANGED <<targetVars, searchVars, pc, mode, value, held>>

\* Faulty variants: a refresh drops what it cannot read; a match is written
\* with the value it had before.
RefineChunkDrops ==
  /\ pc = "refine" /\ todo # <<>> /\ todo' = Tail(todo)
  /\ LET chunk == Head(todo)
         readable == \A k \in 1..Len(chunk) : Page(chunk[k].addr) \in mapped
         kept == Picked(chunk, {k \in 1..Len(chunk) : Satisfies(mem[chunk[k].addr], chunk[k].value)})
         new  == [k \in 1..Len(kept) |-> [kept[k] EXCEPT !.value = mem[kept[k].addr]]]
     IN IF readable THEN Found(new, Singles(new), 1) ELSE UNCHANGED <<matchCount, temp, list>>
  /\ UNCHANGED <<targetVars, searchVars, pc, mode, value, held>>
RefineChunkKeepsValue ==
  /\ pc = "refine" /\ todo # <<>> /\ todo' = Tail(todo)
  /\ LET chunk == Head(todo)
         readable == \A k \in 1..Len(chunk) : Page(chunk[k].addr) \in mapped
         kept == Picked(chunk, {k \in 1..Len(chunk) : Satisfies(mem[chunk[k].addr], chunk[k].value)})
     IN IF readable THEN Found(kept, Singles(kept), 1)
        ELSE IF mode = "refresh" THEN Found(chunk, <<>>, -1)
        ELSE UNCHANGED <<matchCount, temp, list>>
  /\ UNCHANGED <<targetVars, searchVars, pc, mode, value, held>>

\* Later scan, one chunk: read as a whole again, dropped if that fails,
\* except that a refresh reports the old values with type -1.
RefineChunk ==
  /\ pc = "refine" /\ todo # <<>> /\ todo' = Tail(todo)
  /\ LET chunk == Head(todo)
         readable == \A k \in 1..Len(chunk) : Page(chunk[k].addr) \in mapped
         kept == Picked(chunk, {k \in 1..Len(chunk) : Satisfies(mem[chunk[k].addr], chunk[k].value)})
         new  == [k \in 1..Len(kept) |-> [kept[k] EXCEPT !.value = mem[kept[k].addr]]]
     IN IF readable THEN Found(new, Singles(new), 1)
        ELSE IF mode = "refresh" THEN Found(chunk, <<>>, -1)
        ELSE UNCHANGED <<matchCount, temp, list>>
  /\ UNCHANGED <<targetVars, searchVars, pc, mode, value, held>>

\* Faulty variants: the flag of a dump outlives its refinement; the files move
\* although nothing matched.
EndSearchKeepsFlag ==
  /\ pc # "idle" /\ todo = <<>>
  /\ LET dumped == pc = "first" /\ mode # "exact" IN
     /\ m_LastScanIsFullDump' = (dumped \/ m_LastScanIsFullDump)
     /\ IF mode = "refresh" THEN UNCHANGED <<m_ScanCount, oldFile>>
        ELSE IF matchCount > 0
             THEN /\ oldFile' = [kind |-> IF dumped THEN "dump" ELSE "list", chunks |-> temp]
                  /\ m_ScanCount' = IF m_ScanCount < MaxScans THEN m_ScanCount + 1 ELSE MaxScans
             ELSE m_ScanCount' = 0 /\ UNCHANGED oldFile
  /\ pc' = "idle" /\ temp' = <<>> /\ mode' = "equal" /\ value' = 0
  /\ UNCHANGED <<targetVars, todo, matchCount, list, held>>
EndSearchCommitsNothing ==
  /\ pc # "idle" /\ todo = <<>>
  /\ LET dumped == pc = "first" /\ mode # "exact" IN
     /\ m_LastScanIsFullDump' = dumped
     /\ IF mode = "refresh" THEN UNCHANGED <<m_ScanCount, oldFile>>
        ELSE /\ oldFile' = [kind |-> IF dumped THEN "dump" ELSE "list", chunks |-> temp]
             /\ m_ScanCount' = IF m_ScanCount < MaxScans THEN m_ScanCount + 1 ELSE MaxScans
  /\ pc' = "idle" /\ temp' = <<>> /\ mode' = "equal" /\ value' = 0
  /\ UNCHANGED <<targetVars, todo, matchCount, list, held>>

\* The end of Search.  Whatever the mode, a scan that was not a first dump
\* clears m_LastScanIsFullDump; the files only move if it was no refresh.
EndSearch ==
  /\ pc # "idle" /\ todo = <<>>
  /\ LET dumped == pc = "first" /\ mode # "exact" IN
     /\ m_LastScanIsFullDump' = dumped
     /\ IF mode = "refresh" THEN UNCHANGED <<m_ScanCount, oldFile>>
        ELSE IF matchCount > 0
             THEN /\ oldFile' = [kind |-> IF dumped THEN "dump" ELSE "list", chunks |-> temp]
                  /\ m_ScanCount' = IF m_ScanCount < MaxScans THEN m_ScanCount + 1 ELSE MaxScans
             ELSE m_ScanCount' = 0 /\ UNCHANGED oldFile
  /\ pc' = "idle" /\ temp' = <<>> /\ mode' = "equal" /\ value' = 0
  /\ UNCHANGED <<targetVars, todo, matchCount, list, held>>
-----------------------------------------------------------------------------
Next ==
  \/ Poke \/ Unmap \/ Map
  \/ Select \/ BeginSearch \/ ScanRegion \/ RefineChunk \/ EndSearch

Spec == Init /\ [][Next]_vars
-----------------------------------------------------------------------------
Records(chunks) == UNION {ToSet(chunks[i]) : i \in 1..Len(chunks)}
AddrsOf(chunks) == {r.addr : r \in Records(chunks)}
Rec == [addr : Addr, value : Value]

TypeOK ==
  /\ mem \in [Addr -> Value] /\ mapped \subseteq 1..Pages /\ activity \in 0..MaxActivity
  /\ m_ScanCount \in 0..MaxScans /\ m_LastScanIsFullDump \in BOOLEAN
  /\ oldFile.kind \in {"none", "dump", "list"}
  /\ Records(oldFile.chunks) \cup Records(temp) \subseteq Rec
  /\ pc \in {"idle", "first", "refine"} /\ mode \in Mode /\ value \in Value
  /\ matchCount \in 0..Cardinality(Addr) /\ Len(list) <= ListCap
  /\ held \in [Addr -> SUBSET (Value \cup {Unreadable})]

\* m_LastScanIsFullDump tells how decipio.srch.old is to be read, across
\* commits, refreshes that leave the file alone and restarts.
FileFormat == pc = "idle" /\ m_ScanCount > 0 => (m_LastScanIsFullDump <=> oldFile.kind = "dump")

\* The list shown is the head of the candidates on file, in the file's order:
\* the cap drops only the tail, and a refresh loses no candidate, not even
\* one whose memory is gone.
ListMatchesFile ==
  pc = "idle" /\ m_ScanCount > 0 =>
    LET file == FlattenSeq(oldFile.chunks)
    IN /\ matchCount = Len(file)
       /\ Len(list) = IF Len(file) < ListCap THEN Len(file) ELSE ListCap
       /\ \A i \in 1..Len(list) : list[i].addr = file[i].addr

\* A region was torn apart: a page of it at or before a, which was readable
\* when the search began, is gone.
TornBefore(a) == \E b \in 1..a : Unreadable \in held[b] /\ \A c \in b..a : held[c] # {Unreadable}

\* While the target runs, a result is never invented: its value is one the
\* address held during this scan (on a first scan, the buffer of a region
\* that was torn apart excepted), and it satisfies the search, against the
\* value on file if there is one.
ResultsAreSound ==
  \A r \in Records(temp) :
    /\ r.value \in held[r.addr] \/ (pc = "first" /\ TornBefore(r.addr))
    /\ pc = "first" /\ mode = "exact" => r.value = value
    /\ pc = "refine" => \E o \in Records(oldFile.chunks) : o.addr = r.addr /\ Satisfies(r.value, o.value)

\* An address is never dismissed wrongly: if it kept one readable value that
\* satisfies the search, and what is read along with it stayed readable, then
\* it is in the result when the scan ends.
Steady(a, v) == held[a] = {v} /\ v # Unreadable
NoFalseDismissal ==
  todo = <<>> =>
    /\ pc = "refine" /\ mode # "refresh" =>
         \A i \in 1..Len(oldFile.chunks) :
           (\A r \in ToSet(oldFile.chunks[i]) : Unreadable \notin held[r.addr]) =>
             \A r \in ToSet(oldFile.chunks[i]), v \in Value :
               Steady(r.addr, v) /\ Satisfies(v, r.value) => [addr |-> r.addr, value |-> v] \in Records(temp)
    /\ pc = "first" /\ (\A a \in Addr : Unreadable \in held[a] => held[a] = {Unreadable}) =>
         \A a \in Addr, v \in Value :
           Steady(a, v) /\ (mode = "exact" => v = value) => [addr |-> a, value |-> v] \in Records(temp)

\* The files and the scan count together implement the narrowing set of
\* candidates.
Candidates == INSTANCE CandidateSearch WITH
  searching <- m_ScanCount > 0,
  candidates <- IF m_ScanCount > 0 THEN AddrsOf(oldFile.chunks) ELSE {}
ImplementsCandidateSearch == Candidates!Spec
=============================================================================
