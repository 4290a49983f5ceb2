--------------------------- MODULE UnalignedSearch ---------------------------
(***************************************************************************)
(* The exact search for a value at any address: CProcess::Search with      *)
(* isAligned = FALSE (src/process_util.cpp 405-471) and findfast           *)
(* (src/searching.cpp).  It looks in the buffers of the regions that       *)
(* RegionScan lists, one after the other.  A step of findfast is one turn  *)
(* of its loop.  What it reads behind a buffer may be any byte.            *)
(*                                                                         *)
(* What has been read of a region, and what of it stays uninitialised when *)
(* only a part could be read, is open when the region is read.             *)
(***************************************************************************)
EXTENDS RegionScan

CONSTANTS Byte,        \* what bytes hold, 0..255 in the code
          PageBytes,   \* 4096 in the code
          DWordRange   \* 2^32 in the code

patlen == 4
ASSUME ByteAssumption == Byte # {}
ASSUME BytesAssumption ==
  /\ PageBytes \in Nat /\ PageBytes >= patlen
  /\ DWordRange \in Nat /\ DWordRange > Top * PageBytes

VARIABLES
  value,       \* the bytes looked for
  region,      \* index of the region looked at
  v,           \* its bytes, <<>> before it is read
  d, buflen,   \* the rest of the buffer starts at d and has buflen bytes
  i, j,        \* of findfast, indices of the rest and of the pattern
  found        \* offsets written to the file, of this region

searchVars == <<value, region, v, d, buflen, i, j, found>>
vars == <<scanVars, searchVars>>

DWord(n) == n % DWordRange

Init ==
  /\ ScanInit
  /\ value \in [0..(patlen - 1) -> Byte]
  /\ region = 0 /\ v = <<>> /\ d = 0 /\ buflen = 0 /\ i = 0 /\ j = 0 /\ found = {}
-----------------------------------------------------------------------------
Search ==
  /\ Begin
  /\ value' \in [0..(patlen - 1) -> Byte] /\ region' = 1
  /\ UNCHANGED <<v, d, buflen, i, j, found>>

Rescan == Query /\ UNCHANGED searchVars

\* findfast is called for the rest of the buffer.
Findfast == i' = patlen - 1 /\ j' = patlen - 1 /\ pc' = "findfast"

\* The buffer is deleted.
NoBuffer == v' = <<>> /\ d' = 0 /\ buflen' = 0 /\ i' = 0 /\ j' = 0 /\ found' = {}

\* GetRegionMemory gives a buffer or nothing.
ReadRegion ==
  /\ pc = "scanned" /\ region <= Len(m_Regions)
  /\ LET size == m_Regions[region].size * PageBytes IN
     \/ /\ v' \in [0..(size - 1) -> Byte] /\ d' = 0 /\ buflen' = DWord(size) /\ found' = {}
        /\ Findfast
        /\ UNCHANGED region
     \/ /\ region' = region + 1
        /\ UNCHANGED <<pc, v, d, buflen, i, j, found>>
  /\ UNCHANGED <<writable, address, m_Regions, steady, value>>

Finish ==
  /\ pc = "scanned" /\ region > Len(m_Regions)
  /\ pc' = "idle" /\ region' = 0
  /\ UNCHANGED <<writable, address, m_Regions, steady, value, v, d, buflen, i, j, found>>
-----------------------------------------------------------------------------
\* The bytes that reading index k of the rest may give.
Bytes(k) == IF d + k \in DOMAIN v THEN {v[d + k]} ELSE Byte

\* The distance from the end of the pattern to where b occurs last in it.
skip(b) ==
  LET hits == {k \in 0..(patlen - 1) : value[k] = b}
  IN IF hits = {} THEN patlen ELSE patlen - 1 - Max(hits)

\* The next try ends one byte further, and more than that only when fewer
\* bytes are left than the skip.
MismatchSkipsAll ==
  /\ i' = i + patlen
  /\ j' = patlen - 1
Mismatch ==
  LET next == i + patlen - j
      left == DWord(buflen - (patlen - 1))
  IN /\ \E b \in Bytes(next) : i' = IF skip(b) > left THEN next + skip(b) - left ELSE next
     /\ j' = patlen - 1

LoopsToTheEnd == j' >= 0 /\ i' <= buflen - 1
Loops == j' >= 0 /\ i' < buflen - 1

Compare ==
  /\ pc = "findfast"
  /\ \E b \in Bytes(i) : IF b = value[j] THEN i' = i - 1 /\ j' = j - 1 ELSE Mismatch
  /\ pc' = IF Loops THEN pc ELSE "returned"
  /\ UNCHANGED <<writable, address, m_Regions, steady, value, region, v, d, buflen, found>>

t == i + 1    \* what findfast returned
IsMatch == t < DWord(buflen - (patlen - 1))

Advance == buflen' = DWord(buflen - (t + 1)) /\ d' = d + t + 1

Returned ==
  /\ pc = "returned"
  /\ IF IsMatch
     THEN found' = found \cup {d + t} /\ Advance /\ Findfast /\ UNCHANGED <<region, v>>
     ELSE NoBuffer /\ region' = region + 1 /\ pc' = "scanned"
  /\ UNCHANGED <<writable, address, m_Regions, steady, value>>
-----------------------------------------------------------------------------
Step == Rescan \/ ReadRegion \/ Finish \/ Compare \/ Returned
Next == Search \/ Step \/ (Remap /\ UNCHANGED searchVars)

\* The thread that searches runs.
Spec == Init /\ [][Next]_vars /\ WF_vars(Step)
-----------------------------------------------------------------------------
Matches == {o \in 0..(Cardinality(DOMAIN v) - patlen) : \A k \in 0..(patlen - 1) : v[o + k] = value[k]}

\* The rest of the buffer never gets shorter than patlen - 1, so buflen - 3
\* does not wrap, and findfast reads behind the buffer only at its first try,
\* when no more than the length of a pattern is left, and then at most two
\* bytes (19, 25 and 29 of searching.cpp, 456 of process_util.cpp).
TypeOK ==
  /\ ScanTypeOK /\ pc \in {"idle", "rescan", "scanned", "findfast", "returned"}
  /\ j \in -1..(patlen - 1) /\ i \in Int
  /\ pc \in {"findfast", "returned"} => DOMAIN v = 0..(d + buflen - 1) /\ buflen >= patlen - 1
  /\ pc = "findfast" => LET furthest == i + patlen - j IN
       furthest >= buflen => buflen <= patlen /\ furthest <= buflen + 5 - patlen

\* What findfast reports are occurrences, even where it read behind the
\* buffer, and when it is done with a region the only occurrence it may have
\* missed is one at the very end of the buffer (searching.cpp 29).
ReportsAreMatches ==
  /\ found \subseteq Matches
  /\ pc = "returned" /\ ~IsMatch => Matches \ found \subseteq {d + buflen - patlen}

\* A search comes to its end, however often the target remaps its memory
\* (the loops of RescanRegions, findfast and Search).
SearchEnds == pc = "rescan" ~> pc = "idle"
=============================================================================
