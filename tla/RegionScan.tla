----------------------------- MODULE RegionScan -----------------------------
(***************************************************************************)
(* CProcess::RescanRegions (src/process_util.cpp): one VirtualQueryEx      *)
(* after another walks up the address space of a process that maps and     *)
(* unmaps memory in between.  Addresses are page numbers.                  *)
(*                                                                         *)
(* The memory map is looked at only during the walk.  What it is when the  *)
(* walk begins is open, and it is forgotten when the walk is over.         *)
(***************************************************************************)
EXTENDS Integers, FiniteSets, SequencesExt

CONSTANTS Top,          \* queries fail from this page on
          KernelPage,   \* the page of kernelBase
          Wrap          \* pages that an unsigned long can address

ASSUME TopAssumption == Top \in Nat \ {0} /\ KernelPage \in 0..Top
\* A 32 bit build; an address that reached Wrap would be 0 again.
ASSUME WidthAssumption == Wrap \in Nat /\ Top < Wrap

VARIABLES
  pc,          \* "idle", "rescan", "scanned", or a step of the caller
  writable,    \* pages committed with an AllocationProtect that the switch lists
  address,     \* what is queried next
  m_Regions,   \* [base, size], in the order they were found
  steady       \* ghost: pages that were writable all through the walk

scanVars == <<pc, writable, address, m_Regions, steady>>

Page == 0..(Top - 1)
Forgotten == writable' = {} /\ steady' = {} /\ address' = 0

ScanInit ==
  pc = "idle" /\ writable = {} /\ address = 0 /\ m_Regions = <<>> /\ steady = {}
-----------------------------------------------------------------------------
\* The target maps or unmaps a page.
Remap ==
  /\ pc = "rescan"
  /\ \E p \in Page : writable' = IF p \in writable THEN writable \ {p} ELSE writable \cup {p}
  /\ steady' = steady \cap writable'
  /\ UNCHANGED <<pc, address, m_Regions>>

\* RescanRegions starts with an empty list at address 0.
BeginWithoutClear ==
  /\ pc = "idle" /\ pc' = "rescan"
  /\ writable' \in SUBSET Page /\ steady' = writable'
  /\ address' = 0 /\ UNCHANGED m_Regions
Begin ==
  /\ pc = "idle" /\ pc' = "rescan"
  /\ writable' \in SUBSET Page /\ steady' = writable'
  /\ address' = 0 /\ m_Regions' = <<>>

\* The sizes VirtualQueryEx may give for the region that starts at a: pages of
\* one kind, all or some of them, because an allocation ends where another
\* begins.  None goes across kernelBase, where one begins.
RegionSize(a) ==
  {n \in 1..(Top - a) :
     /\ a..(a + n - 1) \subseteq writable \/ a..(a + n - 1) \cap writable = {}
     /\ KernelPage \notin (a + 1)..(a + n - 1)}

\* The sum of two unsigned longs; the narrow one is what a 64 bit build has.
NextAddressHalfWidth(a, n) == (a + n) % (Wrap \div 2)
NextAddress(a, n) == (a + n) % Wrap

Listed(a, n) == m_Regions' = Append(m_Regions, [base |-> a, size |-> n])
Scanned == pc' = "scanned" /\ Forgotten

\* The query fails.
QueryNothing ==
  /\ pc = "rescan" /\ address >= Top
  /\ Scanned /\ UNCHANGED m_Regions

\* Memory of no interest is stepped over.
QueryOther(n) ==
  /\ address \notin writable
  /\ address' = NextAddress(address, n)
  /\ UNCHANGED <<pc, writable, m_Regions, steady>>

\* The walk ends at the first writable memory at or above kernelBase.
QueryWritableStopsAtEdge(n) ==
  /\ address \in writable
  /\ IF address + n < KernelPage
     THEN Listed(address, n) /\ address' = NextAddress(address, n) /\ UNCHANGED <<pc, writable, steady>>
     ELSE Scanned /\ UNCHANGED m_Regions
QueryWritable(n) ==
  /\ address \in writable
  /\ IF address < KernelPage
     THEN Listed(address, n) /\ address' = NextAddress(address, n) /\ UNCHANGED <<pc, writable, steady>>
     ELSE Scanned /\ UNCHANGED m_Regions

Query ==
  \/ QueryNothing
  \/ /\ pc = "rescan" /\ address < Top
     /\ \E n \in RegionSize(address) : QueryOther(n) \/ QueryWritable(n)
-----------------------------------------------------------------------------
ScanTypeOK ==
  /\ writable \subseteq Page /\ steady \subseteq writable /\ address \in 0..Top
  /\ m_Regions \in Seq([base : Page, size : 1..Top])

PagesOf(region) == region.base..(region.base + region.size - 1)

\* The regions ascend, do not overlap and end below kernelBase, although the
\* map changes between the queries and m_Regions is used again (192, 223, 245).
RegionsApart ==
  /\ \A k, l \in DOMAIN m_Regions :
       k < l => m_Regions[k].base + m_Regions[k].size <= m_Regions[l].base
  /\ \A k \in DOMAIN m_Regions : PagesOf(m_Regions[k]) \subseteq 0..(KernelPage - 1)

\* A walk that ends has listed every page below kernelBase that was writable
\* all the time, whatever was mapped and unmapped around it (196-247).
SteadyPagesListed ==
  [][pc = "rescan" /\ pc' = "scanned" =>
       \A p \in steady : p < KernelPage => \E k \in DOMAIN m_Regions' : p \in PagesOf(m_Regions'[k])]_scanVars
=============================================================================
