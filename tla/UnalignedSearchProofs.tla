------------------------ MODULE UnalignedSearchProofs ------------------------
(***************************************************************************)
(* Proofs about the walk of RegionScan as UnalignedSearch uses it, and     *)
(* about findfast: for any size of the address space, any place of         *)
(* kernelBase in it and any width that can address it, any bytes, any      *)
(* pattern and buffers of any length.                                      *)
(***************************************************************************)
EXTENDS UnalignedSearch, SequenceTheorems, FiniteSetTheorems, TLAPS

Region == [base : Page, size : 1..Top]

\* What the walk has listed so far lies behind it.
WalkInv ==
  /\ address \in 0..Top
  /\ m_Regions \in Seq(Region)
  /\ pc = "rescan" => \A k \in DOMAIN m_Regions : m_Regions[k].base + m_Regions[k].size <= address
  /\ \A k, l \in DOMAIN m_Regions :
       k < l => m_Regions[k].base + m_Regions[k].size <= m_Regions[l].base
  /\ \A k \in DOMAIN m_Regions : m_Regions[k].base + m_Regions[k].size <= KernelPage

\* What a listed region is, and where the last one stands after Append.
LEMMA ListedRegion ==
  ASSUME NEW list \in Seq(Region), NEW k \in DOMAIN list
  PROVE  k \in 1..Len(list) /\ list[k].base \in Nat /\ list[k].size \in 1..Top /\ list[k].size \in Nat
<1>1. k \in 1..Len(list)
  BY LenProperties
<1>2. list[k] \in Region
  BY <1>1, ElementOfSeq
<1>3. QED
  BY <1>1, <1>2, TopAssumption DEF Region, Page

LEMMA AppendedRegion ==
  ASSUME NEW list \in Seq(Region), NEW new \in Region
  PROVE  LET longer == Append(list, new) IN
         /\ longer \in Seq(Region)
         /\ DOMAIN longer = DOMAIN list \cup {Len(list) + 1}
         /\ longer[Len(list) + 1] = new
         /\ \A k \in DOMAIN list : longer[k] = list[k]
<1>1. /\ Append(list, new) \in Seq(Region)
      /\ Len(Append(list, new)) = Len(list) + 1
      /\ \A k \in 1..Len(list) : Append(list, new)[k] = list[k]
      /\ Append(list, new)[Len(list) + 1] = new
  BY AppendProperties
<1>2. Len(list) \in Nat /\ DOMAIN list = 1..Len(list)
  BY LenProperties
<1>3. DOMAIN Append(list, new) = 1..(Len(list) + 1)
  BY <1>1, LenProperties
<1>4. QED
  BY <1>1, <1>2, <1>3

\* As long as the address space is narrower than the sum, the sum is exact.
LEMMA NextAddressExact ==
  ASSUME NEW a \in 0..Top, NEW n \in 0..(Top - a)
  PROVE  NextAddress(a, n) = a + n
<1>1. Top \in Nat /\ Wrap \in Nat /\ Top < Wrap
  BY TopAssumption, WidthAssumption
<1>2. a + n \in 0..(Wrap - 1)
  BY <1>1
<1>3. QED
  BY <1>1, <1>2 DEF NextAddress

\* A region that is writable and starts below kernelBase ends there at most.
LEMMA QueryKeepsWalkInv ==
  ASSUME WalkInv, Query
  PROVE  WalkInv'
<1> USE TopAssumption DEF WalkInv
<1>1. CASE QueryNothing
  BY <1>1 DEF QueryNothing, Scanned, Forgotten
<1>2. ASSUME pc = "rescan", address < Top, NEW n \in RegionSize(address), QueryOther(n)
      PROVE  WalkInv'
  <2>1. n \in 1..(Top - address)
    BY DEF RegionSize
  <2>2. address' = address + n
    BY <1>2, <2>1, NextAddressExact DEF QueryOther
  <2>3. \A k \in DOMAIN m_Regions : m_Regions[k].base + m_Regions[k].size <= address'
    BY <1>2, <2>1, <2>2, ListedRegion
  <2>4. UNCHANGED m_Regions /\ address' \in 0..Top
    BY <1>2, <2>1, <2>2 DEF QueryOther
  <2>5. QED
    BY <2>3, <2>4
<1>3. ASSUME pc = "rescan", address < Top, NEW n \in RegionSize(address), QueryWritable(n)
      PROVE  WalkInv'
  <2>1. CASE ~(address < KernelPage)
    BY <1>3, <2>1 DEF QueryWritable, Scanned, Forgotten
  <2>2. CASE address < KernelPage
    <3> DEFINE new == [base |-> address, size |-> n]
    <3>1. n \in 1..(Top - address) /\ KernelPage \notin (address + 1)..(address + n - 1)
      BY DEF RegionSize
    <3>2. address + n <= KernelPage
      BY <2>2, <3>1
    <3>3. address' = address + n /\ m_Regions' = Append(m_Regions, new) /\ pc' = pc
      BY <1>3, <2>2, <3>1, NextAddressExact DEF QueryWritable, Listed, scanVars
    <3>4. new \in Region
      BY <2>2, <3>1 DEF Region, Page
    <3>5. /\ DOMAIN m_Regions' = DOMAIN m_Regions \cup {Len(m_Regions) + 1}
          /\ m_Regions'[Len(m_Regions) + 1] = new
          /\ \A k \in DOMAIN m_Regions : m_Regions'[k] = m_Regions[k]
          /\ m_Regions' \in Seq(Region)
      BY <3>3, <3>4, AppendedRegion
    <3>6. \A k \in DOMAIN m_Regions : k < Len(m_Regions) + 1 /\ k # Len(m_Regions) + 1
      BY ListedRegion, LenProperties
    <3>7. new.base = address /\ new.size = n
      OBVIOUS
    <3>8. \A k \in DOMAIN m_Regions' : m_Regions'[k].base + m_Regions'[k].size <= address'
      <4> SUFFICES ASSUME NEW k \in DOMAIN m_Regions'
                   PROVE  m_Regions'[k].base + m_Regions'[k].size <= address'
        OBVIOUS
      <4>1. CASE k = Len(m_Regions) + 1
        BY <4>1, <3>1, <3>3, <3>5, <3>7
      <4>2. CASE k \in DOMAIN m_Regions
        <5>1. m_Regions[k].base \in Nat /\ m_Regions[k].size \in Nat
          BY <4>2, ListedRegion
        <5>2. m_Regions[k].base + m_Regions[k].size <= address
          BY <4>2, <1>3
        <5>3. QED
          BY <4>2, <5>1, <5>2, <3>1, <3>3, <3>5
      <4>3. QED
        BY <4>1, <4>2, <3>5
    <3>9. \A k, l \in DOMAIN m_Regions' :
            k < l => m_Regions'[k].base + m_Regions'[k].size <= m_Regions'[l].base
      <4> SUFFICES ASSUME NEW k \in DOMAIN m_Regions', NEW l \in DOMAIN m_Regions', k < l
                   PROVE  m_Regions'[k].base + m_Regions'[k].size <= m_Regions'[l].base
        OBVIOUS
      <4>1. k \in DOMAIN m_Regions
        BY <3>5, <3>6
      <4>2. CASE l = Len(m_Regions) + 1
        BY <4>1, <4>2, <1>3, <3>5, <3>7
      <4>3. CASE l \in DOMAIN m_Regions
        BY <4>1, <4>3, <3>5
      <4>4. QED
        BY <4>2, <4>3, <3>5
    <3>10. \A k \in DOMAIN m_Regions' : m_Regions'[k].base + m_Regions'[k].size <= KernelPage
      <4> SUFFICES ASSUME NEW k \in DOMAIN m_Regions'
                   PROVE  m_Regions'[k].base + m_Regions'[k].size <= KernelPage
        OBVIOUS
      <4>1. CASE k = Len(m_Regions) + 1
        BY <4>1, <3>2, <3>5, <3>7
      <4>2. CASE k \in DOMAIN m_Regions
        BY <4>2, <3>5
      <4>3. QED
        BY <4>1, <4>2, <3>5
    <3>11. address' \in 0..Top
      BY <3>1, <3>3
    <3>12. QED
      BY <3>5, <3>8, <3>9, <3>10, <3>11
  <2>3. QED
    BY <2>1, <2>2
<1>4. QED
  BY <1>1, <1>2, <1>3 DEF Query

\* WalkInv is inductive: of the steps, only Search and Query touch the list.
LEMMA WalkNext == WalkInv /\ [Next]_vars => WalkInv'
<1> SUFFICES ASSUME WalkInv, [Next]_vars PROVE WalkInv'
  OBVIOUS
<1>1. CASE Search
  BY <1>1, TopAssumption DEF Search, Begin, WalkInv
<1>2. CASE Rescan
  BY <1>2, QueryKeepsWalkInv DEF Rescan
<1>3. CASE ReadRegion
  BY <1>3 DEF ReadRegion, Findfast, WalkInv
<1>4. CASE Finish
  BY <1>4 DEF Finish, WalkInv
<1>5. CASE Compare
  BY <1>5 DEF Compare, WalkInv
<1>6. CASE Returned
  BY <1>6 DEF Returned, Findfast, WalkInv
<1>7. CASE Remap
  BY <1>7 DEF Remap, WalkInv
<1>8. CASE UNCHANGED vars
  BY <1>8 DEF vars, scanVars, WalkInv
<1>9. QED
  BY <1>1, <1>2, <1>3, <1>4, <1>5, <1>6, <1>7, <1>8 DEF Next, Step

\* The regions of a search ascend, do not overlap and end below kernelBase,
\* however the target remaps its memory, so that no byte is searched or
\* reported twice.  The width of the address type is needed: without
\* WidthAssumption the sum may come back to a page that is listed already.
THEOREM RegionsNeverOverlap == Spec => []RegionsApart
<1>1. Init => WalkInv
  BY TopAssumption DEF Init, ScanInit, WalkInv
<1>2. WalkInv => RegionsApart
  <2> SUFFICES ASSUME WalkInv PROVE RegionsApart
    OBVIOUS
  <2>1. ASSUME NEW k \in DOMAIN m_Regions PROVE PagesOf(m_Regions[k]) \subseteq 0..(KernelPage - 1)
    <3>1. m_Regions[k].base \in Nat /\ m_Regions[k].size \in Nat
      BY ListedRegion DEF WalkInv
    <3>2. m_Regions[k].base + m_Regions[k].size <= KernelPage
      BY DEF WalkInv
    <3>3. QED
      BY <3>1, <3>2, TopAssumption DEF PagesOf
  <2>2. QED
    BY <2>1 DEF WalkInv, RegionsApart
<1>3. QED
  BY <1>1, <1>2, WalkNext, PTL DEF Spec
-----------------------------------------------------------------------------
\* Every page that was writable all the time and lies behind the walk is in
\* the list, if it is below kernelBase.
CoverInv ==
  /\ steady \subseteq writable /\ writable \subseteq Page
  /\ pc = "rescan" => \A p \in steady : p < address /\ p < KernelPage =>
       \E k \in DOMAIN m_Regions : p \in PagesOf(m_Regions[k])

\* A query puts the pages it steps over into the list, or finds that none of
\* them is writable now, so none is steady.
LEMMA QueryKeepsCoverInv ==
  ASSUME WalkInv, CoverInv, Query
  PROVE  CoverInv'
<1> USE TopAssumption DEF CoverInv
<1>0. address \in 0..Top /\ \A p \in steady : p \in 0..(Top - 1)
  BY DEF WalkInv, Page
<1>1. CASE QueryNothing
  BY <1>1 DEF QueryNothing, Scanned, Forgotten
<1>2. ASSUME pc = "rescan", address < Top, NEW n \in RegionSize(address), QueryOther(n)
      PROVE  CoverInv'
  <2>1. /\ n \in 1..(Top - address)
        /\ address..(address + n - 1) \subseteq writable \/ address..(address + n - 1) \cap writable = {}
    BY DEF RegionSize
  <2>2. address' = address + n /\ UNCHANGED <<pc, writable, m_Regions, steady>>
    BY <1>2, <2>1, <1>0, NextAddressExact DEF QueryOther
  <2>3. address..(address + n - 1) \cap writable = {}
    BY <1>0, <1>2, <2>1 DEF QueryOther
  <2>4. \A p \in steady : p < address' => p < address
    BY <1>0, <2>1, <2>2, <2>3
  <2>5. QED
    BY <1>2, <2>2, <2>4
<1>3. ASSUME pc = "rescan", address < Top, NEW n \in RegionSize(address), QueryWritable(n)
      PROVE  CoverInv'
  <2>1. CASE ~(address < KernelPage)
    BY <1>3, <2>1 DEF QueryWritable, Scanned, Forgotten
  <2>2. CASE address < KernelPage
    <3> DEFINE new == [base |-> address, size |-> n]
    <3>1. n \in 1..(Top - address)
      BY DEF RegionSize
    <3>2. /\ address' = address + n /\ m_Regions' = Append(m_Regions, new)
          /\ UNCHANGED <<pc, writable, steady>>
      BY <1>0, <1>3, <2>2, <3>1, NextAddressExact DEF QueryWritable, Listed
    <3>3. new \in Region
      BY <1>0, <2>2, <3>1 DEF Region, Page
    <3>4. /\ DOMAIN m_Regions' = DOMAIN m_Regions \cup {Len(m_Regions) + 1}
          /\ m_Regions'[Len(m_Regions) + 1] = new
          /\ \A k \in DOMAIN m_Regions : m_Regions'[k] = m_Regions[k]
      BY <3>2, <3>3, AppendedRegion DEF WalkInv
    <3>5. PagesOf(new) = address..(address + n - 1)
      BY DEF PagesOf
    <3>6. ASSUME NEW p \in steady', p < address', p < KernelPage
          PROVE  \E k \in DOMAIN m_Regions' : p \in PagesOf(m_Regions'[k])
      <4>1. CASE p < address
        <5>1. PICK k \in DOMAIN m_Regions : p \in PagesOf(m_Regions[k])
          BY <1>3, <3>2, <3>6, <4>1
        <5>2. QED
          BY <5>1, <3>4
      <4>2. CASE ~(p < address)
        <5>1. p \in PagesOf(new)
          BY <1>0, <3>1, <3>2, <3>5, <3>6, <4>2
        <5>2. QED
          BY <5>1, <3>4
      <4>3. QED
        BY <4>1, <4>2
    <3>7. QED
      BY <3>2, <3>6
  <2>3. QED
    BY <2>1, <2>2
<1>4. QED
  BY <1>1, <1>2, <1>3 DEF Query

\* Remap takes a page that it unmaps out of steady; nothing else disturbs it.
LEMMA CoverNext == WalkInv /\ CoverInv /\ [Next]_vars => CoverInv'
<1> SUFFICES ASSUME WalkInv, CoverInv, [Next]_vars PROVE CoverInv'
  OBVIOUS
<1>1. CASE Search
  BY <1>1, TopAssumption DEF Search, Begin, CoverInv, Page
<1>2. CASE Rescan
  BY <1>2, QueryKeepsCoverInv DEF Rescan
<1>3. CASE ReadRegion
  BY <1>3 DEF ReadRegion, Findfast, CoverInv
<1>4. CASE Finish
  BY <1>4 DEF Finish, CoverInv
<1>5. CASE Compare
  BY <1>5 DEF Compare, CoverInv
<1>6. CASE Returned
  BY <1>6 DEF Returned, Findfast, CoverInv
<1>7. CASE Remap
  BY <1>7 DEF Remap, CoverInv
<1>8. CASE UNCHANGED vars
  BY <1>8 DEF vars, scanVars, CoverInv
<1>9. QED
  BY <1>1, <1>2, <1>3, <1>4, <1>5, <1>6, <1>7, <1>8 DEF Next, Step

\* A walk ends behind the last page, or at one above kernelBase; all steady
\* pages below are then in the list.
LEMMA EndOfWalk ==
  ASSUME WalkInv, CoverInv, [Next]_vars, pc = "rescan", pc' = "scanned",
         NEW p \in steady, p < KernelPage
  PROVE  \E k \in DOMAIN m_Regions' : p \in PagesOf(m_Regions'[k])
<1> USE TopAssumption
<1>1. Query
  BY DEF Next, Step, Search, Begin, Rescan, ReadRegion, Finish, Compare, Returned, Remap, vars, scanVars
<1>2. p \in 0..(Top - 1) /\ address \in 0..Top
  BY DEF CoverInv, WalkInv, Page
<1>3. p < address /\ UNCHANGED m_Regions
  <2>1. CASE QueryNothing
    BY <2>1, <1>2 DEF QueryNothing
  <2>2. ASSUME NEW n \in RegionSize(address), QueryOther(n) PROVE FALSE
    BY <2>2 DEF QueryOther
  <2>3. ASSUME NEW n \in RegionSize(address), QueryWritable(n) PROVE p < address /\ UNCHANGED m_Regions
    BY <2>3, <1>2 DEF QueryWritable
  <2>4. QED
    BY <1>1, <2>1, <2>2, <2>3 DEF Query
<1>4. QED
  BY <1>3 DEF CoverInv

\* RescanRegions finds every page below kernelBase that is writable during all
\* of the walk, for any way the target maps and unmaps the other pages and
\* the system cuts memory into regions.
THEOREM SteadyPagesAreListed == Spec => SteadyPagesListed
<1>1. Init => WalkInv /\ CoverInv
  BY TopAssumption DEF Init, ScanInit, WalkInv, CoverInv, Page
<1>2. WalkInv /\ CoverInv /\ [Next]_vars =>
        [pc = "rescan" /\ pc' = "scanned" =>
           \A p \in steady : p < KernelPage => \E k \in DOMAIN m_Regions' : p \in PagesOf(m_Regions'[k])]_scanVars
  BY EndOfWalk
<1>3. QED
  BY <1>1, <1>2, WalkNext, CoverNext, PTL DEF Spec, SteadyPagesListed
-----------------------------------------------------------------------------
(* findfast.                                                                *)

Window == i - j    \* where the try begins, in the rest of the buffer

\* The try lies before the end of the rest, or is the first one and the rest
\* is as long as the pattern, or shorter by one.
Within ==
  \/ Window + patlen < buflen
  \/ Window = 0 /\ buflen = patlen
  \/ Window = 0 /\ buflen = patlen - 1 /\ j = patlen - 1

\* No occurrence before the try is missing, and the end of the pattern, behind
\* j, fits what there is at the try.
Tried == \A o \in Matches : o < d + Window => o \in found
Compared == \A k \in (j + 1)..(patlen - 1) : d + Window + k \in DOMAIN v => v[d + Window + k] = value[k]

\* What findfast returned is the next occurrence, or there is none but one at
\* the very end.
Result ==
  IF IsMatch THEN d + t \in Matches /\ (\A o \in Matches : o < d + t => o \in found)
             ELSE Matches \ found \subseteq {d + buflen - patlen}

Inside == pc \in {"findfast", "returned"}
FindInv ==
  /\ pc \in {"idle", "rescan", "scanned", "findfast", "returned"}
  /\ value \in [0..(patlen - 1) -> Byte] /\ i \in Int /\ j \in -1..(patlen - 1)
  /\ pc # "idle" => region \in Nat \ {0}
  /\ ~Inside => found = {}
  /\ Inside => /\ d \in Nat /\ buflen \in Nat /\ patlen - 1 <= buflen /\ d + buflen < DWordRange
               /\ DOMAIN v = 0..(d + buflen - 1) /\ found \subseteq Matches
  /\ pc = "findfast" => j >= 0 /\ Window >= 0 /\ Within /\ Tried /\ Compared
  /\ pc = "returned" => t \in Nat /\ Result

LEMMA MatchOf ==
  ASSUME NEW n \in Nat, DOMAIN v = 0..(n - 1), NEW o
  PROVE  o \in Matches <=> /\ o \in Nat /\ o + patlen <= n
                           /\ \A k \in 0..(patlen - 1) : o + k \in DOMAIN v /\ v[o + k] = value[k]
<1>1. Cardinality(0..(n - 1)) = n
  <2>1. Cardinality(0..(n - 1)) = IF 0 > n - 1 THEN 0 ELSE (n - 1) - 0 + 1
    BY FS_Interval
  <2>2. QED
    BY <2>1
<1>2. Matches = {x \in 0..(n - patlen) : \A k \in 0..(patlen - 1) : v[x + k] = value[k]}
  BY <1>1 DEF Matches
<1>3. patlen = 4
  BY DEF patlen
<1>4. QED
  BY <1>2, <1>3

LEMMA MatchIs ==
  ASSUME d \in Nat, buflen \in Nat, DOMAIN v = 0..(d + buflen - 1), NEW o
  PROVE  o \in Matches <=> /\ o \in Nat /\ o + 4 <= d + buflen
                           /\ \A k \in 0..3 : o + k \in DOMAIN v /\ v[o + k] = value[k]
<1> DEFINE n == d + buflen
<1>1. n \in Nat /\ DOMAIN v = 0..(n - 1) /\ patlen = 4
  BY DEF patlen
<1> HIDE DEF n
<1>2. o \in Matches <=> /\ o \in Nat /\ o + patlen <= n
                        /\ \A k \in 0..(patlen - 1) : o + k \in DOMAIN v /\ v[o + k] = value[k]
  BY <1>1, MatchOf
<1>3. QED
  BY <1>1, <1>2 DEF n

LEMMA DWordExact == ASSUME NEW n \in 0..(DWordRange - 1) PROVE DWord(n) = n
<1>1. DWordRange \in Nat
  BY BytesAssumption, TopAssumption
<1>2. QED
  BY <1>1 DEF DWord

\* What skip gives: the byte is nowhere in that many last bytes of the pattern.
LEMMA SkipOf ==
  ASSUME NEW b
  PROVE  skip(b) \in 0..patlen /\ \A k \in 0..(patlen - 1) : value[k] = b => k <= patlen - 1 - skip(b)
<1> DEFINE hits == {k \in 0..(patlen - 1) : value[k] = b}
<1>1. hits \subseteq 0..3 /\ patlen = 4
  BY DEF patlen
<1>2. skip(b) = IF hits = {} THEN patlen ELSE patlen - 1 - Max(hits)
  BY DEF skip
<1>3. hits # {} => \E x \in hits : \A y \in hits : x >= y
  <2> HIDE DEF hits
  <2> SUFFICES ASSUME hits # {} PROVE \E x \in hits : \A y \in hits : x >= y
    OBVIOUS
  <2>1. CASE 3 \in hits
    BY <1>1, <2>1
  <2>2. CASE 3 \notin hits /\ 2 \in hits
    BY <1>1, <2>2
  <2>3. CASE 3 \notin hits /\ 2 \notin hits /\ 1 \in hits
    BY <1>1, <2>3
  <2>4. CASE 3 \notin hits /\ 2 \notin hits /\ 1 \notin hits
    <3>1. \A y \in hits : y = 0
      BY <1>1, <2>4
    <3>2. QED
      BY <3>1
  <2>5. QED
    BY <2>1, <2>2, <2>3, <2>4
<1>4. hits # {} => Max(hits) \in hits /\ \A y \in hits : Max(hits) >= y
  <2> HIDE DEF hits
  <2> QED
    BY <1>3 DEF Max
<1>5. CASE hits = {}
  BY <1>1, <1>2, <1>5
<1>6. CASE hits # {}
  <2> DEFINE m == Max(hits)
  <2>1. m \in 0..3 /\ (\A y \in hits : m >= y) /\ skip(b) = 3 - m
    BY <1>1, <1>2, <1>4, <1>6
  <2>2. \A k \in 0..(patlen - 1) : value[k] = b => k \in hits
    OBVIOUS
  <2> HIDE DEF m, hits
  <2>3. QED
    BY <1>1, <2>1, <2>2
<1>7. QED
  BY <1>5, <1>6

\* What a mismatch at j says of the tries that are skipped: no occurrence
\* begins before the next try.
LEMMA SkipsNothing ==
  ASSUME FindInv, pc = "findfast", NEW b \in Bytes(i), b # value[j], NEW c \in Bytes(Window + patlen),
         NEW o \in Matches, NEW x \in Nat, x <= skip(c), o <= d + Window + x
  PROVE  o \in found
<1>1. /\ d \in Nat /\ buflen \in Nat /\ DOMAIN v = 0..(d + buflen - 1) /\ Window \in Nat /\ j \in 0..3 /\ patlen = 4
      /\ i = Window + j /\ i \in Int
  BY DEF FindInv, Inside, Window, patlen
<1>2. o \in Nat /\ \A k \in 0..3 : o + k \in DOMAIN v /\ v[o + k] = value[k]
  BY <1>1, MatchIs
<1>3. CASE o < d + Window
  BY <1>3 DEF FindInv, Tried
<1>4. CASE o = d + Window
  <2>1. d + i = o + j
    BY <1>1, <1>4
  <2>2. b = v[d + i]
    BY <1>1, <1>2, <2>1 DEF Bytes
  <2>3. QED
    BY <1>1, <1>2, <2>1, <2>2
<1>5. CASE o > d + Window
  <2> DEFINE k == (d + Window + 4) - o
  <2>1. skip(c) \in 0..4 /\ \A l \in 0..3 : value[l] = c => l <= 3 - skip(c)
    BY <1>1, SkipOf
  <2>2. k \in 0..3 /\ o + k = d + (Window + 4) /\ k > 3 - skip(c)
    BY <1>1, <1>2, <1>5, <2>1
  <2> HIDE DEF k
  <2>3. c = v[o + k] /\ v[o + k] = value[k]
    BY <1>1, <1>2, <2>2 DEF Bytes
  <2>4. QED
    BY <2>1, <2>2, <2>3
<1>6. o \in Nat /\ d + Window \in Nat
  BY <1>1, <1>2
<1>7. o < d + Window \/ o = d + Window \/ o > d + Window
  <2> DEFINE w == d + Window
  <2>1. w \in Nat
    BY <1>6
  <2> HIDE DEF w
  <2>2. o < w \/ o = w \/ o > w
    BY <1>6, <2>1
  <2>3. QED
    BY <2>2 DEF w
<1>8. QED
  BY <1>3, <1>4, <1>5, <1>7

\* buflen - 3 does not wrap.
LEMMA DWordLeft ==
  ASSUME buflen \in Nat, d \in Nat, 3 <= buflen, d + buflen < DWordRange
  PROVE  DWord(buflen - 3) = buflen - 3
<1>1. DWordRange \in Nat /\ buflen - 3 \in 0..(DWordRange - 1)
  BY BytesAssumption
<1>2. QED
  BY <1>1, DWordExact

LEMMA SameMatches == ASSUME UNCHANGED <<v, value>> PROVE Matches' = Matches
BY DEF Matches

\* A turn of the loop whose bytes are equal.
LEMMA EqualStep ==
  ASSUME FindInv, pc = "findfast", NEW b \in Bytes(i), b = value[j], i' = i - 1, j' = j - 1,
         pc' = IF Loops THEN pc ELSE "returned", UNCHANGED <<value, region, v, d, buflen, found>>
  PROVE  FindInv'
<1>1. /\ d \in Nat /\ buflen \in Nat /\ patlen - 1 <= buflen /\ d + buflen < DWordRange
      /\ DOMAIN v = 0..(d + buflen - 1) /\ found \subseteq Matches /\ patlen = 4
      /\ Window \in Nat /\ j \in 0..3 /\ i = Window + j /\ i \in Int
  BY DEF FindInv, Inside, Window, patlen
<1>2. Window' = Window /\ Matches' = Matches /\ j' \in -1..2 /\ i' \in Int
  BY <1>1, SameMatches DEF Window
<1>3. Within /\ Tried /\ Compared
  BY DEF FindInv
<1>4. \A k \in j..3 : d + Window + k \in DOMAIN v => v[d + Window + k] = value[k]
  <2> SUFFICES ASSUME NEW k \in j..3, d + Window + k \in DOMAIN v PROVE v[d + Window + k] = value[k]
    OBVIOUS
  <2>1. CASE k = j
    <3>1. d + Window + k = d + i
      BY <1>1, <2>1
    <3>2. QED
      BY <2>1, <3>1 DEF Bytes
  <2>2. CASE k # j
    <3>1. k \in (j + 1)..(patlen - 1)
      BY <1>1, <2>2
    <3>2. QED
      BY <1>3, <3>1 DEF Compared
  <2>3. QED
    BY <2>1, <2>2
<1>5. CASE Loops
  <2>1. j' >= 0 /\ i' < buflen - 1
    BY <1>5 DEF Loops
  <2>2. Within'
    BY <1>1, <1>2, <1>3, <2>1 DEF Within
  <2>3. Tried' /\ Compared'
    <3>1. j' + 1 = j
      BY <1>1
    <3>2. QED
      BY <1>1, <1>2, <1>3, <1>4, <3>1 DEF Tried, Compared
  <2>4. QED
    BY <1>1, <1>2, <1>5, <2>1, <2>2, <2>3 DEF FindInv, Inside
<1>6. CASE ~Loops
  <2>1. pc' = "returned" /\ t' = i
    BY <1>1, <1>6 DEF t
  <2>2. CASE j = 0
    <3>1. t' = Window /\ Window + 4 <= buflen
      BY <1>1, <1>3, <2>1, <2>2 DEF Within
    <3>2. d + Window \in Matches
      <4>1. d + Window \in Nat /\ d + Window + 4 <= d + buflen
        BY <1>1, <3>1
      <4>2. \A k \in 0..3 : d + Window + k \in DOMAIN v
        BY <1>1, <4>1
      <4>3. \A k \in 0..3 : v[d + Window + k] = value[k]
        BY <1>4, <2>2, <4>2
      <4>4. QED
        BY <1>1, <4>1, <4>2, <4>3, MatchIs
    <3>3. IsMatch'
      <4>1. DWord(buflen - 3) = buflen - 3
        BY <1>1, DWordLeft
      <4>2. QED
        BY <1>1, <3>1, <4>1 DEF IsMatch
    <3>4. Result'
      BY <1>2, <1>3, <3>1, <3>2, <3>3 DEF Result, Tried
    <3>5. QED
      BY <1>1, <1>2, <2>1, <3>1, <3>4 DEF FindInv, Inside
  <2>3. CASE j # 0
    <3>1. Window = 0 /\ buflen = 3 /\ i = 3
      <4>1. ~(i' < buflen - 1)
        BY <1>1, <1>6, <2>3 DEF Loops
      <4>2. QED
        BY <1>1, <1>3, <4>1 DEF Within
    <3>2. ~IsMatch'
      <4>1. DWord(buflen - 3) = buflen - 3
        BY <1>1, DWordLeft
      <4>2. QED
        BY <1>1, <2>1, <3>1, <4>1 DEF IsMatch
    <3>3. \A o \in Matches : o \in found
      <4> SUFFICES ASSUME NEW o \in Matches PROVE o \in found
        OBVIOUS
      <4>1. o \in Nat /\ o + 4 <= d + buflen
        BY <1>1, MatchIs
      <4>2. o < d + Window
        BY <1>1, <3>1, <4>1
      <4>3. QED
        BY <1>3, <4>2 DEF Tried
    <3>4. Result'
      BY <1>2, <3>2, <3>3 DEF Result
    <3>5. QED
      BY <1>1, <1>2, <2>1, <3>1, <3>4 DEF FindInv, Inside
  <2>4. QED
    BY <2>2, <2>3
<1>7. QED
  BY <1>5, <1>6

\* A turn of the loop whose bytes differ.
LEMMA MismatchStep ==
  ASSUME FindInv, pc = "findfast", NEW b \in Bytes(i), b # value[j], Mismatch,
         pc' = IF Loops THEN pc ELSE "returned", UNCHANGED <<value, region, v, d, buflen, found>>
  PROVE  FindInv'
<1>1. /\ d \in Nat /\ buflen \in Nat /\ patlen - 1 <= buflen /\ d + buflen < DWordRange
      /\ DOMAIN v = 0..(d + buflen - 1) /\ found \subseteq Matches /\ patlen = 4
      /\ Window \in Nat /\ j \in 0..3 /\ i = Window + j /\ i \in Int
  BY DEF FindInv, Inside, Window, patlen
<1>2. Matches' = Matches
  BY SameMatches
<1>3. DWord(buflen - 3) = buflen - 3
  BY <1>1, DWordLeft
<1>4. i + patlen - j = Window + 4
  BY <1>1
<1>5. PICK c \in Bytes(Window + 4) :
        i' = IF skip(c) > buflen - 3 THEN Window + 4 + skip(c) - (buflen - 3) ELSE Window + 4
  BY <1>1, <1>3, <1>4 DEF Mismatch
<1>6. j' = 3
  BY <1>1 DEF Mismatch
<1>7. skip(c) \in 0..4
  BY <1>1, SkipOf
<1> DEFINE w == Window  n == i'  w1 == Window'  s == skip(c)
<1>8. /\ w \in Nat /\ n \in Int /\ s \in 0..4 /\ n >= w + 4 /\ (n = w + 4 \/ n - (w + 4) <= s)
      /\ w1 = n - 3
  <2>1. n = IF s > buflen - 3 THEN w + 4 + s - (buflen - 3) ELSE w + 4
    BY <1>5
  <2>2. w1 = n - 3
    BY <1>6 DEF Window
  <2>3. w \in Nat /\ s \in 0..4 /\ buflen \in Nat /\ 3 <= buflen
    BY <1>1, <1>7
  <2> HIDE DEF w, n, w1, s
  <2>4. QED
    BY <2>1, <2>2, <2>3
<1>9. d \in Nat /\ buflen \in Nat /\ 3 <= buflen /\ w1 \in Nat
  <2>1. d \in Nat /\ buflen \in Nat /\ 3 <= buflen
    BY <1>1
  <2> HIDE DEF w, n, w1, s
  <2>2. QED
    BY <1>8, <2>1
<1>10. \A o \in Matches : o < d + w1 => o \in found
  <2> SUFFICES ASSUME NEW o \in Matches, o < d + w1 PROVE o \in found
    OBVIOUS
  <2>1. o \in Nat
    BY <1>1, MatchIs
  <2> DEFINE x == n - (w + 4)
  <2>2. x \in Nat /\ x <= s /\ o <= d + w + x
    <3> HIDE DEF w, n, w1, s
    <3> QED
      BY <1>8, <1>9, <2>1
  <2>3. x \in Nat /\ x <= skip(c) /\ o <= d + Window + x
    BY <2>2
  <2> HIDE DEF x, w, n, w1, s
  <2>4. b \in Bytes(i) /\ b # value[j] /\ c \in Bytes(Window + patlen) /\ o \in Matches
    BY <1>1
  <2>5. QED
    BY <2>3, <2>4, SkipsNothing
<1>11. CASE Loops
  <2>1. n < buflen - 1
    BY <1>11 DEF Loops
  <2>2. w1 + 4 < buflen
    <3> HIDE DEF w, n, w1, s
    <3> QED
      BY <1>8, <1>9, <2>1
  <2>3. Within'
    BY <1>1, <2>2 DEF Within
  <2>4. Tried'
    BY <1>2, <1>10 DEF Tried
  <2>5. Compared'
    <3>1. (j' + 1)..(patlen - 1) = {}
      BY <1>1, <1>6
    <3>2. QED
      BY <3>1 DEF Compared
  <2>6. Window' >= 0 /\ i' \in Int
    <3>1. w1 >= 0 /\ n \in Int
      <4> HIDE DEF w, n, w1, s
      <4> QED
        BY <1>8, <1>9
    <3>2. QED
      BY <3>1
  <2>7. QED
    BY <1>1, <1>2, <1>6, <1>11, <2>3, <2>4, <2>5, <2>6 DEF FindInv, Inside
<1>12. CASE ~Loops
  <2>1. ~(n < buflen - 1) /\ pc' = "returned" /\ t' = n + 1
    BY <1>6, <1>12 DEF Loops, t
  <2>2. ~IsMatch'
    <3>1. ~(n + 1 < buflen - 3) /\ n + 1 \in Nat
      <4> HIDE DEF w, n, w1, s
      <4> QED
        BY <1>8, <1>9, <2>1
    <3>2. DWord(buflen' - 3) = buflen - 3
      BY <1>3
    <3>3. IsMatch' <=> t' < DWord(buflen' - 3)
      BY <1>1 DEF IsMatch
    <3>4. QED
      BY <2>1, <3>1, <3>2, <3>3
  <2>3. ASSUME NEW o \in Matches, o \notin found PROVE o = d + buflen - 4
    <3>1. o \in Nat /\ o + 4 <= d + buflen
      BY <1>1, MatchIs
    <3>2. ~(o < d + w1)
      BY <1>10, <2>3
    <3> HIDE DEF w, n, w1, s
    <3>3. QED
      BY <1>8, <1>9, <2>1, <3>1, <3>2
  <2>4. Result'
    BY <1>1, <1>2, <2>2, <2>3 DEF Result
  <2>5. t' \in Nat /\ i' \in Int
    <3>1. n + 1 \in Nat /\ n \in Int
      <4> HIDE DEF w, n, w1, s
      <4> QED
        BY <1>8, <1>9
    <3>2. QED
      BY <2>1, <3>1
  <2>6. QED
    <3>1. j' \in -1..(patlen - 1) /\ pc # "idle" /\ Inside /\ Inside'
      BY <1>1, <1>6, <2>1 DEF Inside
    <3>2. /\ value \in [0..(patlen - 1) -> Byte] /\ region \in Nat \ {0}
      BY DEF FindInv
    <3>3. QED
      BY <1>1, <1>2, <2>1, <2>4, <2>5, <3>1, <3>2 DEF FindInv
<1>13. QED
  BY <1>11, <1>12

\* A buffer is never empty and its length fits a DWORD.
LEMMA BufferSize ==
  ASSUME WalkInv, region \in Nat \ {0}, region <= Len(m_Regions)
  PROVE  m_Regions[region].size * PageBytes \in 4..(DWordRange - 1)
<1>1. Len(m_Regions) \in Nat /\ DOMAIN m_Regions = 1..Len(m_Regions) /\ m_Regions \in Seq(Region)
  BY LenProperties DEF WalkInv
<1>2. region \in DOMAIN m_Regions
  BY <1>1
<1> DEFINE n == m_Regions[region].size
<1>3. n \in 1..Top
  BY <1>1, <1>2, ListedRegion
<1>4. PageBytes \in Nat /\ PageBytes >= 4 /\ DWordRange \in Nat /\ DWordRange > Top * PageBytes
  BY BytesAssumption DEF patlen
<1> HIDE DEF n
<1>5. n * PageBytes >= PageBytes /\ n * PageBytes <= Top * PageBytes /\ n * PageBytes \in Nat
  BY <1>3, <1>4, TopAssumption
<1>6. n * PageBytes \in 4..(DWordRange - 1)
  <2> DEFINE m == n * PageBytes  top == Top * PageBytes
  <2>1. m \in Nat /\ top \in Nat /\ 4 <= m /\ m <= top /\ top < DWordRange
    BY <1>4, <1>5, TopAssumption
  <2> HIDE DEF m, top
  <2>2. m \in 4..(DWordRange - 1)
    BY <1>4, <2>1
  <2>3. QED
    BY <2>2 DEF m
<1>7. QED
  BY <1>6 DEF n

LEMMA ReadStep ==
  ASSUME WalkInv, FindInv, ReadRegion
  PROVE  FindInv'
<1>1. pc = "scanned" /\ region \in Nat \ {0} /\ region <= Len(m_Regions) /\ found = {}
  BY DEF ReadRegion, FindInv, Inside
<1> DEFINE size == m_Regions[region].size * PageBytes
<1>2. size \in 4..(DWordRange - 1)
  BY <1>1, BufferSize
<1>3. DWord(size) = size
  <2>1. DWordRange \in Nat
    BY BytesAssumption
  <2>2. size \in 0..(DWordRange - 1)
    <3> HIDE DEF size
    <3> QED
      BY <1>2, <2>1
  <2> HIDE DEF size
  <2>3. QED
    BY <2>2, DWordExact
<1>4. value' = value
  BY DEF ReadRegion
<1>5. CASE /\ v' \in [0..(size - 1) -> Byte] /\ d' = 0 /\ buflen' = DWord(size) /\ found' = {}
           /\ Findfast /\ UNCHANGED region
  <2> HIDE DEF size
  <2>1. /\ i' = 3 /\ j' = 3 /\ pc' = "findfast" /\ buflen' = size /\ d' = 0 /\ found' = {} /\ region' = region
        /\ DOMAIN v' = 0..(size - 1)
    BY <1>3, <1>5 DEF Findfast, patlen
  <2>2. size \in Nat /\ 4 <= size /\ size < DWordRange
    <3>1. DWordRange \in Nat
      BY BytesAssumption
    <3>2. QED
      BY <1>2, <3>1
  <2>3. d' + buflen' = size /\ Window' = 0
    BY <2>1, <2>2 DEF Window
  <2>4. Within'
    BY <2>1, <2>2, <2>3 DEF Within, patlen
  <2>5. Tried'
    <3> SUFFICES ASSUME NEW o \in Matches', o < d' + Window' PROVE FALSE
      BY DEF Tried
    <3>1. \A x : x \in Matches' => x \in Nat
      BY DEF Matches
    <3>2. QED
      BY <2>1, <2>3, <3>1
  <2>6. Compared'
    BY <2>1 DEF Compared, patlen
  <2>7. QED
    BY <1>1, <1>4, <2>1, <2>2, <2>3, <2>4, <2>5, <2>6 DEF FindInv, Inside, patlen
<1>6. CASE region' = region + 1 /\ UNCHANGED <<pc, v, d, buflen, i, j, found>>
  <2>1. region' \in Nat \ {0}
    BY <1>1, <1>6
  <2>2. QED
    BY <1>1, <1>4, <1>6, <2>1 DEF FindInv, Inside
<1>7. QED
  BY <1>5, <1>6 DEF ReadRegion

\* Search goes on behind the byte where the occurrence begins.
LEMMA ReturnedStep ==
  ASSUME FindInv, Returned
  PROVE  FindInv'
<1>1. /\ d \in Nat /\ buflen \in Nat /\ 3 <= buflen /\ d + buflen < DWordRange
      /\ DOMAIN v = 0..(d + buflen - 1) /\ found \subseteq Matches /\ patlen = 4
      /\ t \in Nat /\ Result /\ value' = value /\ region \in Nat \ {0} /\ pc = "returned"
  BY DEF FindInv, Inside, Returned, patlen
<1>2. CASE IsMatch
  <2>1. /\ found' = found \cup {d + t} /\ buflen' = DWord(buflen - (t + 1)) /\ d' = d + t + 1
        /\ i' = 3 /\ j' = 3 /\ pc' = "findfast" /\ v' = v /\ region' = region
    BY <1>2 DEF Returned, Advance, Findfast, patlen
  <2>2. t < buflen - 3
    BY <1>1, <1>2, DWordLeft DEF IsMatch
  <2>3. d + t \in Matches /\ \A o \in Matches : o < d + t => o \in found
    BY <1>1, <1>2 DEF Result
  <2>4. Matches' = Matches
    BY <1>1, <2>1, SameMatches
  <2>5. buflen' = buflen - (t + 1)
    <3>1. DWordRange \in Nat
      BY BytesAssumption
    <3> DEFINE n == t
    <3>2. n \in Nat /\ n < buflen - 3
      BY <1>1, <2>2
    <3> HIDE DEF n
    <3>3. buflen - (n + 1) \in 0..(DWordRange - 1)
      BY <1>1, <3>1, <3>2
    <3>4. DWord(buflen - (n + 1)) = buflen - (n + 1)
      BY <3>3, DWordExact
    <3>5. QED
      BY <2>1, <3>4 DEF n
  <2> DEFINE n == t  l == buflen'
  <2>6. n \in Nat /\ n < buflen - 3 /\ l = buflen - (n + 1)
    BY <1>1, <2>2, <2>5
  <2>7. l \in Nat /\ 3 <= l /\ (d + n + 1) + l = d + buflen
    <3> HIDE DEF n, l
    <3> QED
      BY <1>1, <2>6
  <2>8. d' \in Nat /\ d' = d + t + 1 /\ d' + buflen' = d + buflen /\ Window' = 0
    BY <1>1, <2>1, <2>7 DEF Window
  <2>9. Within'
    <3>1. 4 < l \/ l = 4 \/ l = 3
      <4> HIDE DEF n, l
      <4> QED
        BY <2>7
    <3>2. QED
      BY <1>1, <2>1, <2>8, <3>1 DEF Within
  <2>10. Tried'
    <3> SUFFICES ASSUME NEW o \in Matches, o < d + t + 1 PROVE o \in found \cup {d + t}
      BY <1>1, <2>1, <2>4, <2>8 DEF Tried
    <3>1. o \in Nat
      BY <1>1, MatchIs
    <3>2. o < d + n \/ o = d + n
      <4>1. o < d + n + 1
        OBVIOUS
      <4> HIDE DEF n, l
      <4> QED
        BY <1>1, <2>6, <3>1, <4>1
    <3>3. QED
      BY <2>3, <3>2
  <2>11. Compared'
    <3>1. (j' + 1)..(patlen - 1) = {}
      BY <1>1, <2>1
    <3>2. QED
      BY <3>1 DEF Compared
  <2>12. found' \subseteq Matches'
    BY <1>1, <2>1, <2>3, <2>4
  <2>13. value' \in [0..(patlen - 1) -> Byte] /\ i' \in Int /\ j' \in -1..(patlen - 1) /\ j' >= 0
    BY <1>1, <2>1 DEF FindInv
  <2>14. QED
    BY <1>1, <2>1, <2>7, <2>8, <2>9, <2>10, <2>11, <2>12, <2>13 DEF FindInv, Inside
<1>3. CASE ~IsMatch
  <2>1. i' = 0 /\ j' = 0 /\ found' = {} /\ region' = region + 1 /\ pc' = "scanned"
    BY <1>3 DEF Returned, NoBuffer
  <2>2. QED
    BY <1>1, <2>1 DEF FindInv, Inside
<1>4. QED
  BY <1>2, <1>3

LEMMA FindNext == WalkInv /\ FindInv /\ [Next]_vars => FindInv'
<1> SUFFICES ASSUME WalkInv, FindInv, [Next]_vars PROVE FindInv'
  OBVIOUS
<1>1. CASE Search
  BY <1>1 DEF Search, Begin, FindInv, Inside
<1>2. CASE Rescan
  <2>1. pc = "rescan" /\ pc' \in {"rescan", "scanned"} /\ UNCHANGED searchVars
    BY <1>2 DEF Rescan, Query, QueryNothing, QueryOther, QueryWritable, Scanned
  <2>2. QED
    BY <2>1 DEF FindInv, Inside, searchVars
<1>3. CASE ReadRegion
  BY <1>3, ReadStep
<1>4. CASE Finish
  BY <1>4 DEF Finish, FindInv, Inside
<1>5. CASE Compare
  <2>1. PICK b \in Bytes(i) : IF b = value[j] THEN i' = i - 1 /\ j' = j - 1 ELSE Mismatch
    BY <1>5 DEF Compare
  <2>2. /\ pc = "findfast" /\ pc' = IF Loops THEN pc ELSE "returned"
        /\ UNCHANGED <<value, region, v, d, buflen, found>>
    BY <1>5 DEF Compare
  <2>3. QED
    BY <2>1, <2>2, EqualStep, MismatchStep
<1>6. CASE Returned
  BY <1>6, ReturnedStep
<1>7. CASE Remap /\ UNCHANGED searchVars
  BY <1>7 DEF Remap, FindInv, Inside, searchVars
<1>8. CASE UNCHANGED vars
  <2>1. Matches' = Matches /\ UNCHANGED <<pc, value, region, v, d, buflen, i, j, found>>
    BY <1>8, SameMatches DEF vars, scanVars, searchVars
  <2>2. UNCHANGED <<Window, Within, Tried, Compared, t, Result>>
    BY <2>1 DEF Window, Within, Tried, Compared, t, IsMatch, Result
  <2>3. QED
    BY <2>1, <2>2 DEF FindInv, Inside
<1>9. QED
  BY <1>1, <1>2, <1>3, <1>4, <1>5, <1>6, <1>7, <1>8 DEF Next, Step

LEMMA Invariants == Spec => [](WalkInv /\ CoverInv /\ FindInv)
<1>1. Init => WalkInv /\ CoverInv /\ FindInv
  BY TopAssumption DEF Init, ScanInit, WalkInv, CoverInv, FindInv, Inside, Page, patlen
<1>2. QED
  BY <1>1, WalkNext, CoverNext, FindNext, PTL DEF Spec

\* The variables have their types; buflen - 3 never wraps; and findfast reads
\* behind the buffer only where no more than a pattern is left, and then at
\* most two bytes.
THEOREM TypeCorrect == Spec => []TypeOK
<1>1. WalkInv /\ CoverInv /\ FindInv => TypeOK
  <2> SUFFICES ASSUME WalkInv, CoverInv, FindInv PROVE TypeOK
    OBVIOUS
  <2>1. ScanTypeOK
    BY DEF WalkInv, CoverInv, ScanTypeOK, Region
  <2>2. ASSUME pc = "findfast", i + patlen - j >= buflen
        PROVE  buflen <= patlen /\ i + patlen - j <= buflen + 5 - patlen
    <3>1. /\ buflen \in Nat /\ j \in -1..3 /\ i \in Int /\ patlen = 4 /\ Window >= 0 /\ Within
          /\ Window = i - j
      BY <2>2 DEF FindInv, Inside, patlen, Window
    <3>2. QED
      BY <2>2, <3>1 DEF Within
  <2>3. QED
    BY <2>1, <2>2 DEF TypeOK, FindInv, Inside
<1>2. QED
  BY <1>1, Invariants, PTL

\* Whatever the pattern, the length of the buffer and the bytes behind it,
\* findfast reports occurrences only, and misses none of a region but one at
\* the very end of its buffer.
THEOREM ReportsRight == Spec => []ReportsAreMatches
<1>1. FindInv => ReportsAreMatches
  <2> SUFFICES ASSUME FindInv PROVE ReportsAreMatches
    OBVIOUS
  <2>1. found \subseteq Matches
    BY DEF FindInv, Inside
  <2>2. ASSUME pc = "returned", ~IsMatch PROVE Matches \ found \subseteq {d + buflen - patlen}
    BY <2>2 DEF FindInv, Inside, Result
  <2>3. QED
    BY <2>1, <2>2 DEF ReportsAreMatches
<1>2. QED
  BY <1>1, Invariants, PTL
=============================================================================
