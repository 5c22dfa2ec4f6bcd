-------------------------------- MODULE Vmem --------------------------------
(***************************************************************************)
(* VirtualMemory (src/vmem.cc): physical frames are handed out in order,   *)
(* one per virtual page and one per PTES page-table pages, and never taken *)
(* back.  A virtual address counts words of PTE_BYTES, so vaddr >> shamt   *)
(* is a division; at level 0 the unsigned level - 1 wraps round and the    *)
(* shift is LOG2_PAGE_SIZE - lg2(RADIX), which Upper gives as well.        *)
(***************************************************************************)
EXTENDS Integers, FiniteSets

CONSTANTS Cpus,
          Addresses,      \* virtual addresses in use, in words
          pt_levels,
          RADIX,          \* pte_page_size / PTE_BYTES
          PTES,           \* PAGE_SIZE / pte_page_size
          FirstPage,      \* VMEM_RESERVE_CAPACITY, as a frame number
          last_ppage      \* the first frame that does not exist

ASSUME VmemAssumption ==
  /\ pt_levels \in Nat \ {0} /\ RADIX \in Nat \ {0, 1} /\ PTES \in Nat \ {0}
  /\ FirstPage \in Nat \ {0} /\ last_ppage \in Nat /\ FirstPage < last_ppage /\ Addresses \subseteq Nat

VARIABLES vpage_to_ppage_map,   \* <<cpu, virtual page>> -> frame
          page_table,           \* <<cpu, upper address bits, level>> -> PTE page
          next_pte_page,        \* the PTE page handed out next, or NoPage
          next_ppage            \* the frame handed out next
vmem == <<vpage_to_ppage_map, page_table, next_pte_page, next_ppage>>

Upper(a, level) == a \div (PTES * RADIX ^ level)
VPage(a) == a \div (PTES * RADIX)
get_offset(a, level) == Upper(a, level) % RADIX

PtePage == [frame : Nat, slot : 0..(PTES - 1)]
NoPage == [frame |-> 0, slot |-> 0]

available_ppages == last_ppage - next_ppage

\* (mutant) insert_or_assign
Assign(f, k, v) == [x \in DOMAIN f \cup {k} |-> IF x = k THEN v ELSE f[x]]
\* std::map::insert leaves an existing entry alone.
Insert(f, k, v) == IF k \in DOMAIN f THEN f
                   ELSE [x \in DOMAIN f \cup {k} |-> IF x = k THEN v ELSE f[x]]

MapKey(cpu, a) == <<cpu, VPage(a)>>
Faults(cpu, a) == MapKey(cpu, a) \notin DOMAIN vpage_to_ppage_map

\* (mutant) the frame is popped for every translation but the faulting ones
PopOnHit(cpu, a) == IF Faults(cpu, a) THEN 0 ELSE 1
Popped(cpu, a) == IF Faults(cpu, a) THEN 1 ELSE 0

\* ppage_front() asserts that a frame is left, even for a page that has one.
va_to_pa(cpu, a) ==
  /\ available_ppages > 0
  /\ vpage_to_ppage_map' = Insert(vpage_to_ppage_map, MapKey(cpu, a), next_ppage)
  /\ next_ppage' = next_ppage + Popped(cpu, a)
  /\ UNCHANGED <<page_table, next_pte_page>>

PteKey(cpu, a, level) == <<cpu, Upper(a, level), level>>
PteFaults(cpu, a, level) == PteKey(cpu, a, level) \notin DOMAIN page_table

\* The page a new PTE would get; the very first one needs a frame.
FrontPte == IF next_pte_page = NoPage THEN [frame |-> next_ppage, slot |-> 0] ELSE next_pte_page
Free  == IF next_pte_page = NoPage THEN next_ppage + 1 ELSE next_ppage
\* (mutant) the last PTE page of a frame is not noticed
NeverLastSlot == FALSE
LastSlot == FrontPte.slot + 1 = PTES

\* A new PTE takes the front page; behind the last page of a frame comes the
\* next frame.  Every ppage_front() on the way asserts that a frame is left.
get_pte_pa(cpu, a, level) ==
  /\ Free <= last_ppage
  /\ page_table' = Insert(page_table, PteKey(cpu, a, level), FrontPte)
  /\ IF PteFaults(cpu, a, level) /\ LastSlot
     THEN /\ Free < last_ppage
          /\ next_pte_page' = [frame |-> Free, slot |-> 0] /\ next_ppage' = Free + 1
     ELSE /\ next_pte_page' = IF PteFaults(cpu, a, level)
                              THEN [FrontPte EXCEPT !.slot = @ + 1] ELSE FrontPte
          /\ next_ppage' = Free
  /\ UNCHANGED vpage_to_ppage_map

VmemInit == /\ vpage_to_ppage_map = <<>> /\ page_table = <<>>
            /\ next_pte_page = NoPage /\ next_ppage = FirstPage
VmemNext == \E cpu \in Cpus, a \in Addresses :
              \/ va_to_pa(cpu, a)
              \/ \E level \in 1..pt_levels : get_pte_pa(cpu, a, level)
VmemSpec == VmemInit /\ [][VmemNext]_vmem
-----------------------------------------------------------------------------
VmemTypeOK ==
  /\ DOMAIN vpage_to_ppage_map \subseteq Cpus \X Nat
  /\ \A k \in DOMAIN vpage_to_ppage_map : vpage_to_ppage_map[k] \in Nat
  /\ \A k \in DOMAIN page_table :
       k[1] \in Cpus /\ k[3] \in 1..pt_levels /\ page_table[k] \in PtePage
  /\ next_pte_page \in PtePage
  /\ next_ppage \in FirstPage..last_ppage

\* No frame is used twice: not for two virtual pages (of one or of two cores), not
\* for two PTE pages at one place in it, and not for both.
PagesNeverShared ==
  /\ \A k, m \in DOMAIN vpage_to_ppage_map :
       k # m => vpage_to_ppage_map[k] # vpage_to_ppage_map[m]
  /\ \A k, m \in DOMAIN page_table : k # m => page_table[k] # page_table[m]
  /\ \A k \in DOMAIN vpage_to_ppage_map, m \in DOMAIN page_table :
       vpage_to_ppage_map[k] # page_table[m].frame

\* A page keeps its frame, and a PTE its page, for good: TLBs and PSCLs cache them
\* and are never told of a change.
MappingsAreKept ==
  [][/\ \A k \in DOMAIN vpage_to_ppage_map :
          k \in DOMAIN vpage_to_ppage_map' /\ vpage_to_ppage_map'[k] = vpage_to_ppage_map[k]
     /\ \A k \in DOMAIN page_table :
          k \in DOMAIN page_table' /\ page_table'[k] = page_table[k]]_vmem
=============================================================================
