----------------------------- MODULE Ptw_proofs -----------------------------
(***************************************************************************)
(* Proofs about the virtual memory, and about the page table walker of one *)
(* core that asks it, for any number of cores, addresses, frames, upper    *)
(* levels, loads, page-table levels and PSCL ways.                         *)
(*                                                                         *)
(* That no frame is used twice follows from a bound: every frame in use is *)
(* below next_ppage, and the PTE page handed out next lies behind every    *)
(* PTE page of its frame.                                                  *)
(*                                                                         *)
(* WalkerInv says what a walk may be at each stage as the set its queue    *)
(* draws from: a walk in MSHR reads a block that is asked for, a walk in   *)
(* finished carries the PTE page its level has in the page table, a walk   *)
(* in completed the frame of its page.  A page table that only grows makes *)
(* those sets grow too, whoever changes it.                                *)
(***************************************************************************)
EXTENDS Ptw, FiniteSetTheorems, WellFoundedInduction, NaturalsInduction, TLAPS

(* The virtual memory *)

\* Everything handed out so far is below the frame that comes next.
Below == /\ \A k \in DOMAIN vpage_to_ppage_map : vpage_to_ppage_map[k] < next_ppage
         /\ \A k \in DOMAIN page_table : page_table[k].frame < next_ppage
         /\ next_pte_page.frame < next_ppage

\* The next PTE page is in no use: not as a data frame, and behind the PTE pages
\* of its own frame.
NextIsFree ==
  /\ next_pte_page.frame = 0 => next_pte_page = NoPage /\ DOMAIN page_table = {}
  /\ \A k \in DOMAIN vpage_to_ppage_map : vpage_to_ppage_map[k] # next_pte_page.frame
  /\ \A k \in DOMAIN page_table :
       page_table[k].frame = next_pte_page.frame => page_table[k].slot < next_pte_page.slot

Positive == \A k \in DOMAIN vpage_to_ppage_map : vpage_to_ppage_map[k] > 0

IInv == VmemTypeOK /\ PagesNeverShared /\ Below /\ NextIsFree /\ Positive
-----------------------------------------------------------------------------
LEMMA InsertFacts ==
  ASSUME NEW f, NEW k, NEW v
  PROVE  /\ DOMAIN Insert(f, k, v) = DOMAIN f \cup {k}
         /\ \A x \in DOMAIN f : Insert(f, k, v)[x] = f[x]
         /\ k \notin DOMAIN f => Insert(f, k, v)[k] = v
BY DEF Insert

LEMMA MapKeyType == \A cpu \in Cpus, a \in Addresses : MapKey(cpu, a) \in Cpus \X Nat
<1>1. PTES * RADIX \in Nat \ {0} BY VmemAssumption
<1>2. \A a \in Addresses : a \div (PTES * RADIX) \in Nat BY <1>1, VmemAssumption
<1> QED BY <1>2 DEF MapKey, VPage

LEMMA Initially == VmemInit => IInv
<1> SUFFICES ASSUME VmemInit PROVE IInv OBVIOUS
<1>1. DOMAIN vpage_to_ppage_map = {} /\ DOMAIN page_table = {} BY DEF VmemInit
<1>2. FirstPage \in Nat \ {0} /\ last_ppage \in Nat /\ FirstPage < last_ppage /\ PTES \in Nat \ {0}
  BY VmemAssumption
<1>3. NoPage \in PtePage /\ NoPage.frame = 0 BY <1>2 DEF NoPage, PtePage
<1> QED BY <1>1, <1>2, <1>3
        DEF VmemInit, IInv, VmemTypeOK, PagesNeverShared, Below, NextIsFree, Positive

\* A translation: a new virtual page takes the frame next_ppage.
LEMMA VaToPaKeeps ==
  ASSUME IInv, NEW cpu \in Cpus, NEW a \in Addresses, va_to_pa(cpu, a)
  PROVE  IInv'
<1> DEFINE key == MapKey(cpu, a)
<1>1. key \in Cpus \X Nat BY MapKeyType
<1>2. next_ppage \in Nat /\ last_ppage \in Nat /\ next_ppage < last_ppage
      /\ FirstPage \in Nat \ {0} /\ FirstPage <= next_ppage
  BY VmemAssumption DEF IInv, VmemTypeOK, va_to_pa, available_ppages
<1>3. page_table' = page_table /\ next_pte_page' = next_pte_page BY DEF va_to_pa
<1>4. CASE key \in DOMAIN vpage_to_ppage_map
  <2>1. vpage_to_ppage_map' = vpage_to_ppage_map BY <1>4 DEF va_to_pa, Insert
  <2>2. next_ppage' = next_ppage BY <1>2, <1>4 DEF va_to_pa, Popped, Faults
  <2> QED BY <2>1, <2>2, <1>3 DEF IInv, VmemTypeOK, PagesNeverShared, Below, NextIsFree, Positive
<1>5. CASE key \notin DOMAIN vpage_to_ppage_map
  <2>1. /\ DOMAIN vpage_to_ppage_map' = DOMAIN vpage_to_ppage_map \cup {key}
        /\ \A x \in DOMAIN vpage_to_ppage_map : vpage_to_ppage_map'[x] = vpage_to_ppage_map[x]
        /\ vpage_to_ppage_map'[key] = next_ppage
    <3>1. vpage_to_ppage_map' = Insert(vpage_to_ppage_map, key, next_ppage) BY DEF va_to_pa
    <3> HIDE DEF key
    <3>2. /\ DOMAIN Insert(vpage_to_ppage_map, key, next_ppage)
               = DOMAIN vpage_to_ppage_map \cup {key}
          /\ \A x \in DOMAIN vpage_to_ppage_map :
               Insert(vpage_to_ppage_map, key, next_ppage)[x] = vpage_to_ppage_map[x]
          /\ Insert(vpage_to_ppage_map, key, next_ppage)[key] = next_ppage
      BY <1>5, InsertFacts
    <3> QED BY <3>1, <3>2, Zenon
  <2>2. next_ppage' = next_ppage + 1 BY <1>5 DEF va_to_pa, Popped, Faults
  <2>3. VmemTypeOK' BY <1>1, <1>2, <1>3, <2>1, <2>2 DEF IInv, VmemTypeOK
  <2>4. PagesNeverShared'
    BY <1>2, <1>3, <2>1 DEF IInv, VmemTypeOK, PtePage, PagesNeverShared, Below
  <2>5. Below' BY <1>2, <1>3, <2>1, <2>2 DEF IInv, VmemTypeOK, PtePage, Below
  <2>6. NextIsFree' BY <1>2, <1>3, <2>1 DEF IInv, VmemTypeOK, PtePage, Below, NextIsFree
  <2>7. Positive' BY <1>2, <2>1 DEF IInv, Positive
  <2> QED BY <2>3, <2>4, <2>5, <2>6, <2>7 DEF IInv
<1> QED BY <1>4, <1>5

\* The page a PTE would get is in no use.
LEMMA FrontIsFree ==
  ASSUME IInv, Free <= last_ppage
  PROVE  /\ FrontPte \in PtePage /\ FrontPte.frame > 0 /\ FrontPte.frame < Free
         /\ Free \in FirstPage..last_ppage /\ next_ppage <= Free
         /\ \A k \in DOMAIN vpage_to_ppage_map : vpage_to_ppage_map[k] # FrontPte.frame
         /\ \A k \in DOMAIN page_table :
              page_table[k].frame = FrontPte.frame => page_table[k].slot < FrontPte.slot
<1>1. next_ppage \in Nat /\ last_ppage \in Nat /\ FirstPage \in Nat \ {0}
      /\ FirstPage <= next_ppage /\ PTES \in Nat \ {0}
  BY VmemAssumption DEF IInv, VmemTypeOK
<1>2. CASE next_pte_page = NoPage
  <2>1. FrontPte = [frame |-> next_ppage, slot |-> 0] /\ Free = next_ppage + 1 BY <1>2 DEF FrontPte, Free
  <2>2. FrontPte.frame = next_ppage /\ FrontPte \in PtePage BY <1>1, <2>1 DEF PtePage
  <2> QED BY <1>1, <2>1, <2>2 DEF IInv, VmemTypeOK, PtePage, Below
<1>3. CASE next_pte_page # NoPage
  <2>1. FrontPte = next_pte_page /\ Free = next_ppage BY <1>3 DEF FrontPte, Free
  <2>2. next_pte_page.frame # 0 BY <1>3 DEF IInv, NextIsFree
  <2> QED BY <1>1, <2>1, <2>2 DEF IInv, VmemTypeOK, PtePage, Below, NextIsFree
<1> QED BY <1>2, <1>3

\* A page-table walk step: a new PTE takes the front page, and the page after it
\* is either the next slot of that frame or the first one of a new frame.
LEMMA GetPtePaKeeps ==
  ASSUME IInv, NEW cpu \in Cpus, NEW a \in Addresses, NEW level \in 1..pt_levels,
         get_pte_pa(cpu, a, level)
  PROVE  IInv'
<1> DEFINE key == PteKey(cpu, a, level)
<1>1. /\ FrontPte \in PtePage /\ FrontPte.frame > 0 /\ FrontPte.frame < Free
      /\ Free \in FirstPage..last_ppage /\ next_ppage <= Free
      /\ \A k \in DOMAIN vpage_to_ppage_map : vpage_to_ppage_map[k] # FrontPte.frame
      /\ \A k \in DOMAIN page_table :
           page_table[k].frame = FrontPte.frame => page_table[k].slot < FrontPte.slot
  BY FrontIsFree DEF get_pte_pa
<1>2. next_ppage \in Nat /\ last_ppage \in Nat /\ FirstPage \in Nat \ {0}
      /\ FirstPage <= next_ppage /\ PTES \in Nat \ {0} /\ Free \in Nat
      /\ FrontPte.frame \in Nat /\ FrontPte.slot \in 0..(PTES - 1)
  BY <1>1, VmemAssumption DEF IInv, VmemTypeOK, PtePage
<1>3. vpage_to_ppage_map' = vpage_to_ppage_map BY DEF get_pte_pa
<1>4. key[1] \in Cpus /\ key[3] \in 1..pt_levels BY DEF PteKey
<1>5. CASE key \in DOMAIN page_table
  <2>1. page_table' = page_table BY <1>5 DEF get_pte_pa, Insert
  <2>2. next_pte_page' = FrontPte /\ next_ppage' = Free BY <1>5 DEF get_pte_pa, PteFaults
  <2>3. VmemTypeOK' BY <1>1, <1>2, <1>3, <2>1, <2>2 DEF IInv, VmemTypeOK
  <2>4. PagesNeverShared' BY <1>3, <2>1 DEF IInv, PagesNeverShared
  <2>5. Below' BY <1>1, <1>2, <1>3, <2>1, <2>2 DEF IInv, VmemTypeOK, PtePage, Below
  <2>6. NextIsFree' BY <1>1, <1>2, <1>3, <2>1, <2>2 DEF IInv, NextIsFree
  <2>7. Positive' BY <1>3 DEF IInv, Positive
  <2> QED BY <2>3, <2>4, <2>5, <2>6, <2>7 DEF IInv
<1>6. CASE key \notin DOMAIN page_table
  <2>1. /\ DOMAIN page_table' = DOMAIN page_table \cup {key}
        /\ \A x \in DOMAIN page_table : page_table'[x] = page_table[x]
        /\ page_table'[key] = FrontPte
    <3>1. page_table' = Insert(page_table, key, FrontPte) BY DEF get_pte_pa
    <3> HIDE DEF key
    <3>2. /\ DOMAIN Insert(page_table, key, FrontPte) = DOMAIN page_table \cup {key}
          /\ \A x \in DOMAIN page_table : Insert(page_table, key, FrontPte)[x] = page_table[x]
          /\ Insert(page_table, key, FrontPte)[key] = FrontPte
      BY <1>6, InsertFacts
    <3> QED BY <3>1, <3>2, Zenon
  <2>2. /\ Free <= next_ppage' /\ next_ppage' \in FirstPage..last_ppage
        /\ next_pte_page' \in PtePage /\ next_pte_page'.frame > 0
        /\ next_pte_page'.frame < next_ppage'
        /\ \/ next_pte_page'.frame = FrontPte.frame /\ next_pte_page'.slot = FrontPte.slot + 1
           \/ next_pte_page'.frame = Free
    <3>1. CASE LastSlot
      <4>1. /\ Free < last_ppage /\ next_ppage' = Free + 1
            /\ next_pte_page' = [frame |-> Free, slot |-> 0]
        BY <1>6, <3>1 DEF get_pte_pa, PteFaults
      <4> QED BY <4>1, <1>1, <1>2 DEF PtePage
    <3>2. CASE ~LastSlot
      <4>1. next_pte_page' = [FrontPte EXCEPT !.slot = @ + 1] /\ next_ppage' = Free
        BY <1>6, <3>2 DEF get_pte_pa, PteFaults
      <4>2. FrontPte.slot + 1 \in 0..(PTES - 1) BY <1>2, <3>2 DEF LastSlot
      <4> QED BY <4>1, <4>2, <1>1, <1>2 DEF PtePage
    <3> QED BY <3>1, <3>2
  <2>3. VmemTypeOK' BY <1>1, <1>3, <1>4, <2>1, <2>2 DEF IInv, VmemTypeOK
  <2>4. PagesNeverShared' BY <1>1, <1>2, <1>3, <2>1 DEF IInv, VmemTypeOK, PtePage, PagesNeverShared
  <2>5. Below' BY <1>1, <1>2, <1>3, <2>1, <2>2 DEF IInv, VmemTypeOK, PtePage, Below
  <2>6. NextIsFree'
    <3>1. next_pte_page'.frame # 0 BY <1>2, <2>2 DEF PtePage
    <3>2. \A k \in DOMAIN vpage_to_ppage_map' : vpage_to_ppage_map'[k] # next_pte_page'.frame
      BY <1>1, <1>2, <1>3, <2>2 DEF IInv, VmemTypeOK, Below
    <3>3. \A k \in DOMAIN page_table' :
            page_table'[k].frame = next_pte_page'.frame
              => page_table'[k].slot < next_pte_page'.slot
      BY <1>1, <1>2, <2>1, <2>2 DEF IInv, VmemTypeOK, PtePage, Below
    <3> QED BY <3>1, <3>2, <3>3 DEF NextIsFree
  <2>7. Positive' BY <1>3 DEF IInv, Positive
  <2> QED BY <2>3, <2>4, <2>5, <2>6, <2>7 DEF IInv
<1> QED BY <1>5, <1>6

LEMMA Inductive == IInv /\ [VmemNext]_vmem => IInv'
<1> SUFFICES ASSUME IInv, [VmemNext]_vmem PROVE IInv' OBVIOUS
<1>1. CASE VmemNext
  <2>1. PICK cpu \in Cpus, a \in Addresses :
          va_to_pa(cpu, a) \/ \E level \in 1..pt_levels : get_pte_pa(cpu, a, level)
    BY <1>1 DEF VmemNext
  <2>2. CASE va_to_pa(cpu, a) BY <2>2, VaToPaKeeps
  <2>3. CASE \E level \in 1..pt_levels : get_pte_pa(cpu, a, level)
    <3>1. PICK level \in 1..pt_levels : get_pte_pa(cpu, a, level) BY <2>3
    <3> QED BY <3>1, GetPtePaKeeps
  <2> QED BY <2>1, <2>2, <2>3
<1>2. CASE UNCHANGED vmem
  BY <1>2 DEF vmem, IInv, VmemTypeOK, PagesNeverShared, Below, NextIsFree, Positive
<1> QED BY <1>1, <1>2
-----------------------------------------------------------------------------
\* Every state VirtualMemory reaches satisfies the inductive invariant.
THEOREM Invariance == VmemSpec => []IInv
<1> QED BY Initially, Inductive, PTL DEF VmemSpec

\* The maps hold frames and PTE pages that exist, and next_ppage stays within the
\* frames the constructor laid out.
THEOREM TypeCorrect == VmemSpec => []VmemTypeOK
<1>1. IInv => VmemTypeOK BY DEF IInv
<1> QED BY Invariance, <1>1, PTL

\* va_to_pa and get_pte_pa never give one frame to two owners.
THEOREM NoPageShared == VmemSpec => []PagesNeverShared
<1>1. IInv => PagesNeverShared BY DEF IInv
<1> QED BY Invariance, <1>1, PTL

\* std::map::insert never replaces a mapping, so no translation ever changes.
LEMMA MapsGrow ==
  VmemNext => /\ \A k \in DOMAIN vpage_to_ppage_map :
                   k \in DOMAIN vpage_to_ppage_map' /\ vpage_to_ppage_map'[k] = vpage_to_ppage_map[k]
              /\ \A k \in DOMAIN page_table :
                   k \in DOMAIN page_table' /\ page_table'[k] = page_table[k]
<1>1. ASSUME NEW f, NEW k, NEW v
      PROVE  \A x \in DOMAIN f : x \in DOMAIN Insert(f, k, v) /\ Insert(f, k, v)[x] = f[x]
  BY DEF Insert
<1> SUFFICES ASSUME NEW cpu \in Cpus, NEW a \in Addresses,
                    va_to_pa(cpu, a) \/ \E level \in 1..pt_levels : get_pte_pa(cpu, a, level)
             PROVE  /\ \A k \in DOMAIN vpage_to_ppage_map :
                         /\ k \in DOMAIN vpage_to_ppage_map'
                         /\ vpage_to_ppage_map'[k] = vpage_to_ppage_map[k]
                    /\ \A k \in DOMAIN page_table :
                         k \in DOMAIN page_table' /\ page_table'[k] = page_table[k]
  BY DEF VmemNext
<1>2. CASE va_to_pa(cpu, a)
  <2>1. /\ vpage_to_ppage_map' = Insert(vpage_to_ppage_map, MapKey(cpu, a), next_ppage)
        /\ page_table' = page_table
    BY <1>2 DEF va_to_pa
  <2> QED BY <1>1, <2>1, Zenon
<1>3. CASE \E level \in 1..pt_levels : get_pte_pa(cpu, a, level)
  <2>1. PICK level \in 1..pt_levels : get_pte_pa(cpu, a, level) BY <1>3
  <2>2. /\ page_table' = Insert(page_table, PteKey(cpu, a, level), FrontPte)
        /\ vpage_to_ppage_map' = vpage_to_ppage_map
    BY <2>1 DEF get_pte_pa
  <2> QED BY <1>1, <2>2, Zenon
<1> QED BY <1>2, <1>3

\* A page keeps its frame and a PTE its page, for good.
THEOREM MappingsKept == VmemSpec => MappingsAreKept
BY MapsGrow, PTL DEF VmemSpec, MappingsAreKept
-----------------------------------------------------------------------------
(* What the walker holds *)

ReadPte(p, v, level) ==
  LET key == PteKey(Cpu, v, level)
  IN key \in DOMAIN page_table /\ p = PteAddr(page_table[key], v, level)
ReadFrame(p, v) ==
  LET key == MapKey(Cpu, v)
  IN key \in DOMAIN vpage_to_ppage_map /\ p = vpage_to_ppage_map[key]

InReach == ToSet(asked) \cup ToSet(returned)
AskedWalks == {m \in mshr_type : BlockOf(m.address) \in InReach}
StepWalks == {m \in mshr_type : /\ m.translation_level # 0
                                /\ ReadPte(m.data, m.v_address, m.translation_level)}
DoneWalks == {m \in mshr_type : ReadFrame(m.data, m.v_address)}
EntryType(i) == [vaddr : Addresses, ptw_addr : Nat, level : {Steps - i}]
Entries(i) == {e \in EntryType(i) : ReadPte(e.ptw_addr, e.vaddr, e.level + 1)}

StageOK == /\ pc \in {"construct", "idle", "finish", "complete", "fill", "read"}
           /\ bw \in 0..(MAX_READ + MAX_FILL) /\ ul \in 1..(NumUppers + 1)
           /\ warmup \in BOOLEAN /\ CR3_addr \in Nat
QueuesOK == /\ RQ \in [Uppers -> Seq(Request)]
            /\ asked \in Seq(Nat) /\ returned \in Seq(Nat)
            /\ waiting \in [Loads -> Wanted \cup {None}]
WalksOK == /\ MSHR \in Seq(AskedWalks)
           /\ finished \in Seq(StepWalks)
           /\ completed \in Seq(DoneWalks)
PsclsOK == DOMAIN pscl = 1..Steps /\ \A i \in 1..Steps : pscl[i] \in Seq(Entries(i))

WalkerInv == StageOK /\ QueuesOK /\ WalksOK /\ PsclsOK
-----------------------------------------------------------------------------
(* Sequences and least elements *)

LEMMA SeqGrows == ASSUME NEW S, NEW T, S \subseteq T, NEW s \in Seq(S) PROVE s \in Seq(T)
OBVIOUS

LEMMA ConcatAt ==
  ASSUME NEW S, NEW a \in Seq(S), NEW b \in Seq(S), NEW n \in 1..Len(b)
  PROVE  (a \o b)[Len(a) + n] = b[n]
OBVIOUS

LEMMA RemoveAtFacts ==
  ASSUME NEW S, NEW s \in Seq(S), NEW i \in DOMAIN s
  PROVE  /\ RemoveAt(s, i) \in Seq(S)
         /\ Len(RemoveAt(s, i)) = Len(s) - 1
         /\ \A j \in 1..(Len(s) - 1) : RemoveAt(s, i)[j] = s[IF j < i THEN j ELSE j + 1]
<1>1. Len(s) \in Nat /\ i \in 1..Len(s) OBVIOUS
<1>2. SubSeq(s, 1, i - 1) \in Seq(S) /\ Len(SubSeq(s, 1, i - 1)) = i - 1
      /\ \A j \in 1..(i - 1) : SubSeq(s, 1, i - 1)[j] = s[j]
  BY <1>1
<1>3. SubSeq(s, i + 1, Len(s)) \in Seq(S) /\ Len(SubSeq(s, i + 1, Len(s))) = Len(s) - i
      /\ \A j \in 1..(Len(s) - i) : SubSeq(s, i + 1, Len(s))[j] = s[i + j]
  BY <1>1
<1> DEFINE a == SubSeq(s, 1, i - 1)  b == SubSeq(s, i + 1, Len(s))
<1>4. RemoveAt(s, i) = a \o b BY DEF RemoveAt
<1> HIDE DEF a, b
<1>5. /\ a \in Seq(S) /\ Len(a) = i - 1 /\ \A j \in 1..(i - 1) : a[j] = s[j]
      /\ b \in Seq(S) /\ Len(b) = Len(s) - i /\ \A j \in 1..(Len(s) - i) : b[j] = s[i + j]
  BY <1>2, <1>3 DEF a, b
<1>6. a \o b \in Seq(S) /\ Len(a \o b) = Len(s) - 1 BY <1>1, <1>5
<1>7. ASSUME NEW j \in 1..(Len(s) - 1) PROVE (a \o b)[j] = s[IF j < i THEN j ELSE j + 1]
  <2>1. CASE j < i BY <1>1, <1>5, <2>1
  <2>2. CASE ~(j < i)
    <3>1. PICK n : n = j - (i - 1) OBVIOUS
    <3>2. n \in 1..(Len(s) - i) /\ j = (i - 1) + n /\ i + n = j + 1 BY <1>1, <2>2, <3>1
    <3>3. a \in Seq(S) /\ b \in Seq(S) /\ n \in 1..Len(b) BY <1>5, <3>2
    <3>4. (a \o b)[Len(a) + n] = b[n] BY <3>3, ConcatAt
    <3>5. Len(a) + n = j /\ b[n] = s[i + n] BY <1>5, <3>2
    <3> QED BY <2>2, <3>2, <3>4, <3>5
  <2> QED BY <2>1, <2>2
<1> QED BY <1>4, <1>6, <1>7

\* Only the element that is removed can be missing afterwards.
LEMMA RemovedOne ==
  ASSUME NEW S, NEW s \in Seq(S), NEW i \in DOMAIN s
  PROVE  ToSet(s) \subseteq ToSet(RemoveAt(s, i)) \cup {s[i]}
<1> SUFFICES ASSUME NEW j \in DOMAIN s, j # i PROVE s[j] \in ToSet(RemoveAt(s, i))
  BY DEF ToSet
<1>1. Len(s) \in Nat /\ i \in 1..Len(s) /\ j \in 1..Len(s) OBVIOUS
<1>2. /\ RemoveAt(s, i) \in Seq(S) /\ Len(RemoveAt(s, i)) = Len(s) - 1
      /\ \A k \in 1..(Len(s) - 1) : RemoveAt(s, i)[k] = s[IF k < i THEN k ELSE k + 1]
  BY RemoveAtFacts
<1>3. DOMAIN RemoveAt(s, i) = 1..(Len(s) - 1) BY <1>2
<1>4. CASE j < i
  <2>1. j \in 1..(Len(s) - 1) /\ RemoveAt(s, i)[j] = s[j] BY <1>1, <1>2, <1>4
  <2> QED BY <1>3, <2>1 DEF ToSet
<1>5. CASE j > i
  <2>1. j - 1 \in 1..(Len(s) - 1) /\ ~(j - 1 < i) /\ (j - 1) + 1 = j BY <1>1, <1>5
  <2>2. RemoveAt(s, i)[j - 1] = s[j] BY <1>2, <2>1
  <2> QED BY <1>3, <2>1, <2>2 DEF ToSet
<1> QED BY <1>1, <1>4, <1>5

LEMMA LeastOf ==
  ASSUME NEW R, IsWellFoundedOn(R, Nat), \A x, y \in Nat : <<y, x>> \in R <=> y < x,
         NEW S \in SUBSET Nat, S # {}
  PROVE  \E m \in S : \A n \in S : m <= n
<1>1. PICK m \in S : \A y \in S : ~ (<<y, m>> \in R) BY WFMin
<1>2. ASSUME NEW n \in S PROVE m <= n
  <2>1. m \in Nat /\ n \in Nat OBVIOUS
  <2>2. ~(n < m) BY <1>1, <2>1
  <2> QED BY <2>1, <2>2
<1> QED BY <1>2

LEMMA MinIsMember == ASSUME NEW S \in SUBSET Nat, S # {} PROVE Min(S) \in S
<1>1. IsWellFoundedOn(OpToRel(<, Nat), Nat) BY NatLessThanWellFounded
<1>2. \A x, y \in Nat : <<y, x>> \in OpToRel(<, Nat) <=> y < x BY DEF OpToRel
<1>3. \E m \in S : \A n \in S : m <= n BY <1>1, <1>2, LeastOf
<1> QED BY <1>3 DEF Min

LEMMA MaxIsMember ==
  ASSUME NEW n \in Nat, NEW S \in SUBSET (1..n), S # {} PROVE Max(S) \in S
<1> DEFINE Bounds == {b \in Nat : \A x \in S : x <= b}
<1>1. n \in Bounds OBVIOUS
<1>2. PICK m \in Bounds : \A b \in Bounds : m <= b
  <2>1. IsWellFoundedOn(OpToRel(<, Nat), Nat) BY NatLessThanWellFounded
  <2>2. \A x, y \in Nat : <<y, x>> \in OpToRel(<, Nat) <=> y < x BY DEF OpToRel
  <2>3. Bounds \in SUBSET Nat /\ Bounds # {} BY <1>1
  <2> HIDE DEF Bounds
  <2> QED BY <2>1, <2>2, <2>3, LeastOf
<1>3. m \in S
  <2> SUFFICES ASSUME m \notin S PROVE FALSE OBVIOUS
  <2>1. PICK x \in S : TRUE OBVIOUS
  <2>2. m \in Nat /\ x \in Nat /\ 1 <= x /\ x <= m BY <2>1
  <2>3. \A y \in S : y \in Nat /\ y <= m - 1 OBVIOUS
  <2>4. m - 1 \in Bounds BY <2>2, <2>3
  <2> QED BY <1>2, <2>2, <2>4
<1>4. \A y \in S : m >= y OBVIOUS
<1> QED BY <1>3, <1>4 DEF Max
-----------------------------------------------------------------------------
(* The virtual memory *)

LEMMA OffsetType == \A v \in Addresses, level \in Nat : get_offset(v, level) \in Nat
<1>1. ASSUME NEW v \in Nat, NEW level \in Nat, NEW p \in Nat \ {0}, NEW r \in Nat \ {0}
      PROVE  (v \div (p * r ^ level)) % r \in Nat
  OBVIOUS
<1> QED BY <1>1, VmemAssumption DEF get_offset, Upper

LEMMA PteAddrType ==
  ASSUME NEW page \in PtePage, NEW v \in Addresses, NEW level \in Nat
  PROVE  PteAddr(page, v, level) \in Nat
<1>1. get_offset(v, level) \in Nat BY OffsetType, VmemAssumption
<1>2. page.frame \in Nat /\ page.slot \in Nat BY VmemAssumption DEF PtePage
<1>3. PTES \in Nat /\ RADIX \in Nat BY VmemAssumption
<1>4. \A f, s, p, r, o \in Nat : f * (p * r) + s * r + o \in Nat OBVIOUS
<1> QED BY <1>1, <1>2, <1>3, <1>4 DEF PteAddr, PAGE

\* A PTE page that a walk has read, and a frame, stay what they are.
LEMMA ReadsStayTrue ==
  ASSUME [VmemNext]_vmem
  PROVE  /\ \A p, v, level : ReadPte(p, v, level) => ReadPte(p, v, level)'
         /\ \A p, v : ReadFrame(p, v) => ReadFrame(p, v)'
<1>1. /\ \A k \in DOMAIN vpage_to_ppage_map :
            k \in DOMAIN vpage_to_ppage_map' /\ vpage_to_ppage_map'[k] = vpage_to_ppage_map[k]
      /\ \A k \in DOMAIN page_table :
            k \in DOMAIN page_table' /\ page_table'[k] = page_table[k]
  BY MapsGrow DEF vmem
<1> QED BY <1>1 DEF ReadPte, ReadFrame

LEMMA WalksGrow ==
  ASSUME [VmemNext]_vmem
  PROVE  /\ StepWalks \subseteq StepWalks' /\ DoneWalks \subseteq DoneWalks'
         /\ \A i \in 1..Steps : Entries(i) \subseteq Entries(i)'
BY ReadsStayTrue DEF StepWalks, DoneWalks, Entries

\* What get_pte_pa and va_to_pa return is what the maps say afterwards.
LEMMA ReadsThePte ==
  ASSUME NEW v \in Addresses, NEW level \in 1..pt_levels, NEW p, p = get_pte(v, level),
         VmemTypeOK, IInv, get_pte_pa(Cpu, v, level)
  PROVE  p \in Nat /\ ReadPte(p, v, level)'
<1> DEFINE key == PteKey(Cpu, v, level)
           page == IF key \notin DOMAIN page_table THEN FrontPte ELSE page_table[key]
<1>1. page_table' = Insert(page_table, key, FrontPte) BY DEF get_pte_pa
<1>2. p = PteAddr(page, v, level) BY DEF get_pte, PteFaults
<1>3. FrontPte \in PtePage BY FrontIsFree DEF get_pte_pa
<1>4. page \in PtePage BY <1>3 DEF VmemTypeOK
<1>5. level \in Nat BY VmemAssumption
<1>6. p \in Nat BY <1>2, <1>4, <1>5, PteAddrType
<1>7. key \in DOMAIN page_table' /\ page_table'[key] = page
  <2> HIDE DEF key
  <2>1. DOMAIN Insert(page_table, key, FrontPte) = DOMAIN page_table \cup {key} BY InsertFacts
  <2>2. key \in DOMAIN page_table => Insert(page_table, key, FrontPte)[key] = page_table[key]
    BY DEF Insert
  <2>3. key \notin DOMAIN page_table => Insert(page_table, key, FrontPte)[key] = FrontPte
    BY DEF Insert
  <2> QED BY <1>1, <2>1, <2>2, <2>3
<1> QED BY <1>2, <1>6, <1>7 DEF ReadPte

LEMMA ReadsTheFrame ==
  ASSUME NEW v \in Addresses, NEW p, p = get_pa(v), VmemTypeOK, va_to_pa(Cpu, v)
  PROVE  p \in Nat /\ ReadFrame(p, v)'
<1> DEFINE key == MapKey(Cpu, v)
           frame == IF key \notin DOMAIN vpage_to_ppage_map THEN next_ppage ELSE vpage_to_ppage_map[key]
<1>1. vpage_to_ppage_map' = Insert(vpage_to_ppage_map, key, next_ppage) BY DEF va_to_pa
<1>2. p = frame BY DEF get_pa, Faults
<1>3. p \in Nat BY <1>2, VmemAssumption DEF VmemTypeOK
<1>4. key \in DOMAIN vpage_to_ppage_map' /\ vpage_to_ppage_map'[key] = frame
  <2> HIDE DEF key
  <2>1. DOMAIN Insert(vpage_to_ppage_map, key, next_ppage) = DOMAIN vpage_to_ppage_map \cup {key}
    BY DEF Insert
  <2>2. key \in DOMAIN vpage_to_ppage_map
          => Insert(vpage_to_ppage_map, key, next_ppage)[key] = vpage_to_ppage_map[key]
    BY DEF Insert
  <2>3. key \notin DOMAIN vpage_to_ppage_map
          => Insert(vpage_to_ppage_map, key, next_ppage)[key] = next_ppage
    BY DEF Insert
  <2> QED BY <1>1, <2>1, <2>2, <2>3
<1> QED BY <1>2, <1>3, <1>4 DEF ReadFrame

\* The walker and the other cores ask the virtual memory for addresses and levels
\* it knows.
LEMMA WalkerUsesVmem ==
  ASSUME WalkerInv, [Next]_vars
  PROVE  [VmemNext]_vmem
<1> USE VmemAssumption, PtwAssumption
<1>1. ASSUME NEW a \in Addresses, NEW level \in 1..pt_levels, get_pte_pa(Cpu, a, level)
      PROVE  VmemNext
  BY <1>1 DEF VmemNext
<1>2. ASSUME NEW a \in Addresses, va_to_pa(Cpu, a) PROVE VmemNext BY <1>2 DEF VmemNext
<1>3. CASE Construct BY <1>3, <1>1 DEF Construct
<1>4. ASSUME NEW i \in DOMAIN MSHR, FinishStep(i) PROVE VmemNext
  <2>1. MSHR[i] \in mshr_type BY DEF WalkerInv, WalksOK, AskedWalks
  <2>2. MSHR[i].v_address \in Addresses /\ MSHR[i].translation_level \in 0..Steps
    BY <2>1 DEF mshr_type
  <2>3. MSHR[i].translation_level # 0 BY <1>4 DEF FinishStep, LastStep
  <2>4. MSHR[i].translation_level \in 1..pt_levels BY <2>2, <2>3 DEF Steps
  <2> QED BY <1>4, <2>2, <2>4, <1>1 DEF FinishStep
<1>5. ASSUME NEW i \in DOMAIN MSHR, FinishLastStep(i) PROVE VmemNext
  <2>1. MSHR[i] \in mshr_type BY DEF WalkerInv, WalksOK, AskedWalks
  <2>2. MSHR[i].v_address \in Addresses BY <2>1 DEF mshr_type
  <2> QED BY <1>5, <2>2, <1>2 DEF FinishLastStep
<1>6. CASE OtherCores
  <2>1. PICK cpu \in Cpus, v \in OtherAddresses : OtherCore(cpu, v) BY <1>6 DEF OtherCores
  <2>2. v \in Addresses OBVIOUS
  <2>3. 1..Steps \subseteq 1..pt_levels BY DEF Steps
  <2> QED BY <2>1, <2>2, <2>3 DEF OtherCore, VmemNext
<1>7. Arrive => UNCHANGED vmem BY DEF Arrive, AddRq, AddRqNoResponse
<1>8. LowerLevel => UNCHANGED vmem BY DEF LowerLevel, LowerAnswers
<1>9. EndWarmup => UNCHANGED vmem BY DEF EndWarmup
<1>10. StartCycle \/ PacketDone \/ EndFinish => UNCHANGED vmem
  BY DEF StartCycle, PacketDone, EndFinish
<1>11. Complete \/ EndComplete \/ Fill \/ FillRefused \/ EndFill => UNCHANGED vmem
  BY DEF Complete, EndComplete, Fill, FillRefused, EndFill
<1>12. Read \/ ReadRefused \/ NextUpper \/ Tick => UNCHANGED vmem
  BY DEF Read, ReadRefused, NextUpper, Tick
<1>13. UNCHANGED vars => UNCHANGED vmem BY DEF vars
<1> QED BY <1>3, <1>4, <1>5, <1>6, <1>7, <1>8, <1>9, <1>10, <1>11, <1>12, <1>13
        DEF Next, Operate
-----------------------------------------------------------------------------
(* The stages *)

LEMMA WalkerInitially == Init => WalkerInv
<1> SUFFICES ASSUME Init PROVE WalkerInv OBVIOUS
<1> USE VmemAssumption, PtwAssumption DEF Init
<1>1. NumUppers \in Nat \ {0} /\ MAX_READ \in Nat /\ MAX_FILL \in Nat OBVIOUS
<1>2. StageOK BY <1>1 DEF StageOK
<1>3. QueuesOK
  <2>1. RQ \in [Uppers -> Seq(Request)] OBVIOUS
  <2>2. asked \in Seq(Nat) /\ returned \in Seq(Nat) OBVIOUS
  <2>3. waiting \in [Loads -> Wanted \cup {None}] OBVIOUS
  <2> QED BY <2>1, <2>2, <2>3 DEF QueuesOK
<1>4. WalksOK BY DEF WalksOK
<1>5. PsclsOK BY DEF PsclsOK
<1> QED BY <1>2, <1>3, <1>4, <1>5 DEF WalkerInv

LEMMA WalksKept ==
  ASSUME WalksOK, [VmemNext]_vmem, UNCHANGED walks, InReach \subseteq InReach'
  PROVE  WalksOK'
<1>1. MSHR' = MSHR /\ finished' = finished /\ completed' = completed BY DEF walks
<1>2. AskedWalks \subseteq AskedWalks' BY DEF AskedWalks
<1>3. StepWalks \subseteq StepWalks' /\ DoneWalks \subseteq DoneWalks' BY WalksGrow
<1>4. MSHR \in Seq(AskedWalks') BY <1>2, SeqGrows DEF WalksOK
<1>5. finished \in Seq(StepWalks') BY <1>3, SeqGrows DEF WalksOK
<1>6. completed \in Seq(DoneWalks') BY <1>3, SeqGrows DEF WalksOK
<1> QED BY <1>1, <1>4, <1>5, <1>6 DEF WalksOK

LEMMA PsclsKept ==
  ASSUME PsclsOK, [VmemNext]_vmem, UNCHANGED pscl
  PROVE  PsclsOK'
<1>1. \A i \in 1..Steps : Entries(i) \subseteq Entries(i)' BY WalksGrow
<1>2. ASSUME NEW i \in 1..Steps PROVE pscl[i] \in Seq(Entries(i)')
  BY <1>1, SeqGrows DEF PsclsOK
<1> QED BY <1>2 DEF PsclsOK

LEMMA OthersType ==
  ASSUME NEW S, NEW i, NEW v, pscl[i] \in Seq(S)
  PROVE  Others(i, v) \in Seq(S)
<1>1. CASE Hits(i, v) = {} BY <1>1 DEF Others
<1>2. CASE Hits(i, v) # {}
  <2>1. Hits(i, v) \in SUBSET Nat BY DEF Hits
  <2>2. Min(Hits(i, v)) \in DOMAIN pscl[i] BY <1>2, <2>1, MinIsMember DEF Hits
  <2> QED BY <1>2, <2>2, RemoveAtFacts DEF Others
<1> QED BY <1>1, <1>2

LEMMA NewestType ==
  ASSUME NEW S, NEW q \in Seq(S), NEW n \in Nat
  PROVE  Newest(q, n) \in Seq(S)
<1> DEFINE k == Min({Len(q), n})
<1>1. {Len(q), n} \in SUBSET Nat /\ {Len(q), n} # {} OBVIOUS
<1>2. k \in {Len(q), n} BY <1>1, MinIsMember
<1>3. k <= Len(q)
  <2>1. \E m \in {Len(q), n} : \A x \in {Len(q), n} : m <= x OBVIOUS
  <2> QED BY <2>1 DEF Min
<1> HIDE DEF k
<1>4. SubSeq(q, 1, k) \in Seq(S) BY <1>2, <1>3
<1> QED BY <1>4 DEF Newest, k

\* What goes into a PSCL was read from the page table, one level above.
LEMMA FillPsclKeeps ==
  ASSUME PsclsOK, UNCHANGED vmem, NEW m \in StepWalks, FillPscl(m)
  PROVE  PsclsOK'
<1> DEFINE i == Steps - m.translation_level + 1
           e == [vaddr |-> m.v_address, ptw_addr |-> m.data, level |-> m.translation_level - 1]
           rest == Newest(Others(i, e.vaddr), PSCL_WAY - 1)
<1>1. /\ Steps \in Nat /\ m.translation_level \in 1..Steps /\ m.v_address \in Addresses
      /\ m.data \in Nat /\ ReadPte(m.data, m.v_address, m.translation_level)
  BY VmemAssumption DEF StepWalks, mshr_type, Steps
<1>2. i \in 1..Steps /\ Steps - i = m.translation_level - 1
      /\ (m.translation_level - 1) + 1 = m.translation_level
  BY <1>1
<1>3. e \in Entries(i)
  <2>1. e.ptw_addr = m.data /\ e.vaddr = m.v_address /\ e.level = m.translation_level - 1
    OBVIOUS
  <2>2. e \in EntryType(i) BY <1>1, <1>2 DEF EntryType
  <2>3. ReadPte(e.ptw_addr, e.vaddr, e.level + 1) BY <1>1, <1>2, <2>1
  <2> QED BY <2>2, <2>3 DEF Entries
<1>4. pscl' = [pscl EXCEPT ![i] = <<e>> \o rest] BY DEF FillPscl, PsclFill
<1> HIDE DEF e, i
<1>5. <<e>> \o rest \in Seq(Entries(i))
  <2>1. Others(i, e.vaddr) \in Seq(Entries(i)) BY <1>2, OthersType DEF PsclsOK
  <2>2. PSCL_WAY - 1 \in Nat BY PtwAssumption
  <2>3. rest \in Seq(Entries(i)) BY <2>1, <2>2, NewestType
  <2>4. <<e>> \in Seq(Entries(i)) BY <1>3
  <2> HIDE DEF rest
  <2> QED BY <2>3, <2>4
<1> HIDE DEF rest
<1>6. ASSUME NEW j \in 1..Steps PROVE pscl'[j] \in Seq(Entries(j))
  BY <1>2, <1>4, <1>5 DEF PsclsOK
<1>7. \A j \in 1..Steps : Entries(j) \subseteq Entries(j)' BY WalksGrow
<1>8. \A j \in 1..Steps : pscl'[j] \in Seq(Entries(j)') BY <1>6, <1>7, SeqGrows
<1> QED BY <1>4, <1>8 DEF PsclsOK

LEMMA TouchKeeps ==
  ASSUME PsclsOK, UNCHANGED vmem, NEW v, Touch(v)
  PROVE  PsclsOK'
<1>1. ASSUME NEW i \in 1..Steps PROVE pscl'[i] \in Seq(Entries(i))
  <2>1. pscl[i] \in Seq(Entries(i)) BY DEF PsclsOK
  <2>2. pscl'[i] = IF Hits(i, v) = {} THEN pscl[i] ELSE <<Hit(i, v)>> \o Others(i, v)
    BY DEF Touch
  <2>3. CASE Hits(i, v) = {} BY <2>1, <2>2, <2>3
  <2>4. CASE Hits(i, v) # {}
    <3>1. Hits(i, v) \in SUBSET Nat BY <2>1 DEF Hits
    <3> Min(Hits(i, v)) \in DOMAIN pscl[i] BY <2>4, <3>1, MinIsMember DEF Hits
    <3>2. Hit(i, v) \in Entries(i) BY <2>1 DEF Hit
    <3>3. <<Hit(i, v)>> \in Seq(Entries(i)) BY <3>2
    <3>4. Others(i, v) \in Seq(Entries(i)) BY <2>1, OthersType
    <3> QED BY <2>2, <2>4, <3>3, <3>4
  <2> QED BY <2>3, <2>4
<1>2. \A j \in 1..Steps : Entries(j) \subseteq Entries(j)' BY WalksGrow
<1>3. \A j \in 1..Steps : pscl'[j] \in Seq(Entries(j)') BY <1>1, <1>2, SeqGrows
<1>4. DOMAIN pscl' = 1..Steps BY DEF Touch
<1> QED BY <1>3, <1>4 DEF PsclsOK

\* Stages move within a cycle, and never with more bandwidth than the two bounds.
LEMMA StageKeeps == ASSUME IInv, WalkerInv, [Next]_vars PROVE StageOK'
<1> USE VmemAssumption, PtwAssumption DEF GoTo
<1>1. StageOK BY DEF WalkerInv
<1>2. NumUppers \in Nat \ {0} /\ MAX_READ \in Nat /\ MAX_FILL \in Nat OBVIOUS
<1>3. CASE Construct
  <2>1. get_pte_pa(Cpu, 0, pt_levels) /\ CR3_addr' = get_pte(0, pt_levels) BY <1>3 DEF Construct
  <2>2. CR3_addr' \in Nat
    <3>1. pt_levels \in 1..pt_levels /\ VmemTypeOK BY DEF IInv
    <3>2. \A p : p = get_pte(0, pt_levels) => p \in Nat BY <2>1, <3>1, ReadsThePte
    <3> QED BY <2>1, <3>2
  <2> QED BY <1>1, <1>2, <1>3, <2>2 DEF Construct, StageOK
<1>4. CASE UNCHANGED <<pc, bw, ul, warmup, CR3_addr>> BY <1>4, <1>1 DEF StageOK
<1>5. CASE StartCycle \/ EndFinish \/ EndFill \/ FillRefused \/ Tick
  <2>1. PICK stage \in {"finish", "complete", "read", "idle"}, n \in {0, MAX_FILL, MAX_READ} :
          pc' = stage /\ bw' = n /\ ul' = 1
    BY <1>5 DEF StartCycle, EndFinish, EndFill, FillRefused, Tick
  <2>2. n \in 0..(MAX_READ + MAX_FILL) /\ 1 \in 1..(NumUppers + 1) BY <1>2
  <2>3. UNCHANGED <<warmup, CR3_addr>>
    BY <1>5 DEF StartCycle, EndFinish, EndFill, FillRefused, Tick
  <2> QED BY <1>1, <2>1, <2>2, <2>3 DEF StageOK
<1>6. CASE EndComplete BY <1>1, <1>2, <1>6 DEF EndComplete, StageOK
<1>7. CASE Complete \/ Fill \/ Read
  <2>1. bw > 0 /\ bw' = bw - 1 /\ UNCHANGED <<pc, ul, warmup, CR3_addr>>
    BY <1>7 DEF Complete, Fill, Filling, Read, Reading
  <2> QED BY <1>1, <1>2, <2>1 DEF StageOK
<1>8. CASE ReadRefused \/ NextUpper
  <2>1. ul \in 1..NumUppers /\ ul' = ul + 1 /\ UNCHANGED <<pc, bw, warmup, CR3_addr>>
    BY <1>8 DEF ReadRefused, NextUpper, Reading, Uppers
  <2> QED BY <1>1, <1>2, <2>1 DEF StageOK
<1>9. CASE EndWarmup BY <1>1, <1>9 DEF EndWarmup, StageOK
<1>10. CASE Arrive BY <1>4, <1>10 DEF Arrive, AddRq, AddRqNoResponse
<1>11. CASE LowerLevel BY <1>4, <1>11 DEF LowerLevel, LowerAnswers
<1>12. CASE OtherCores BY <1>4, <1>12 DEF OtherCores, OtherCore
<1>13. CASE \E i \in DOMAIN MSHR : FinishStep(i) \/ FinishLastStep(i)
  BY <1>4, <1>13 DEF FinishStep, FinishLastStep
<1>14. CASE PacketDone BY <1>4, <1>14 DEF PacketDone
<1>15. CASE UNCHANGED vars BY <1>4, <1>15 DEF vars
<1> QED BY <1>3, <1>5, <1>6, <1>7, <1>8, <1>9, <1>10, <1>11, <1>12, <1>13, <1>14, <1>15
        DEF Next, Operate

\* The walk that handle_fill sends on, and the one that handle_read starts.
LEMMA NextWalkType ==
  ASSUME NEW m \in StepWalks
  PROVE  [m EXCEPT !.address = m.data, !.translation_level = NextLevel(m)] \in mshr_type
<1>1. m \in mshr_type /\ m.translation_level # 0 BY DEF StepWalks
<1>2. Steps \in Nat BY VmemAssumption DEF Steps
<1>3. NextLevel(m) \in 0..Steps BY <1>1, <1>2 DEF mshr_type, NextLevel
<1> QED BY <1>1, <1>3 DEF mshr_type

LEMMA NewWalkType ==
  ASSUME WalkerInv, ul \in Uppers, NEW r \in Request
  PROVE  NewWalk(r) \in mshr_type
<1> DEFINE v == r.v_address  init == WalkInit(v)
<1>1. v \in Addresses /\ r.instr_depend_on_me \in SUBSET Loads BY DEF Request
<1>2. Steps \in Nat BY VmemAssumption DEF Steps
<1>3. init.level \in 0..Steps /\ init.ptw_addr \in Nat
  <2>1. CASE HitPscls(v) = {}
    BY <1>2, <2>1 DEF WalkInit, WalkerInv, StageOK
  <2>2. CASE HitPscls(v) # {}
    <3> DEFINE i == Max(HitPscls(v))
    <3>1. HitPscls(v) \in SUBSET (1..Steps) BY DEF HitPscls
    <3>2. i \in HitPscls(v) BY <1>2, <2>2, <3>1, MaxIsMember
    <3>3. i \in 1..Steps /\ Hits(i, v) # {} BY <3>2 DEF HitPscls
    <3>4. init = Hit(i, v) BY <2>2 DEF WalkInit
    <3> HIDE DEF i, v, init
    <3>5. pscl[i] \in Seq(Entries(i)) BY <3>3 DEF WalkerInv, PsclsOK
    <3>6. Hits(i, v) \in SUBSET Nat BY <3>5 DEF Hits
    <3>7. Min(Hits(i, v)) \in DOMAIN pscl[i] BY <3>3, <3>6, MinIsMember DEF Hits
    <3>8. init \in EntryType(i) BY <3>4, <3>5, <3>7 DEF Hit, Entries
    <3> QED BY <1>2, <3>3, <3>8 DEF EntryType
  <2> QED BY <2>1, <2>2
<1> DEFINE o == get_offset(v, init.level)
<1>4. o \in Nat BY <1>1, <1>3, OffsetType
<1>5. Splice(init.ptw_addr, o) \in Nat
  <2>1. \A p, q \in Nat \ {0} : p * q \in Nat \ {0} OBVIOUS
  <2>2. PAGE \in Nat \ {0} BY <2>1, VmemAssumption DEF PAGE
  <2>3. init.ptw_addr \div PAGE \in Nat BY <1>3, <2>2
  <2> HIDE DEF o, init
  <2> QED BY <1>4, <2>2, <2>3 DEF Splice
<1>6. ReturnTo(r) \in SUBSET Uppers BY DEF ReturnTo
<1> QED BY <1>1, <1>3, <1>5, <1>6 DEF NewWalk, mshr_type

\* Requests, the traffic with the cache below, and who waits.
LEMMA QueuesKeep == ASSUME WalkerInv, [Next]_vars PROVE QueuesOK'
<1> USE VmemAssumption, PtwAssumption
<1>1. QueuesOK BY DEF WalkerInv
<1>2. ASSUME NEW u \in Uppers, NEW v \in Addresses, NEW resp \in BOOLEAN, NEW deps \in SUBSET Loads,
             Add(u, v, resp, deps)
      PROVE  RQ' \in [Uppers -> Seq(Request)]
  <2> DEFINE r == [v_address |-> v, response_requested |-> resp, instr_depend_on_me |-> deps]
  <2>1. r \in Request BY DEF Request
  <2>2. RQ' = [RQ EXCEPT ![u] = Append(@, r)] BY <1>2 DEF Add
  <2> HIDE DEF r
  <2>3. RQ[u] \in Seq(Request) BY <1>1 DEF QueuesOK
  <2>4. Append(RQ[u], r) \in Seq(Request) BY <2>1, <2>3
  <2> QED BY <1>1, <2>2, <2>4 DEF QueuesOK
<1>3. CASE Arrive
  <2>1. PICK u \in Uppers, v \in Addresses : AddRqNoResponse(u, v) \/ \E l \in Loads : AddRq(u, l, v)
    BY <1>3 DEF Arrive
  <2>2. CASE AddRqNoResponse(u, v)
    <3>1. Add(u, v, FALSE, {}) BY <2>2 DEF AddRqNoResponse
    <3>2. FALSE \in BOOLEAN /\ {} \in SUBSET Loads OBVIOUS
    <3>3. RQ' \in [Uppers -> Seq(Request)] BY <1>2, <3>1, <3>2, Zenon
    <3> QED BY <1>1, <2>2, <3>3 DEF AddRqNoResponse, QueuesOK, lower
  <2>3. ASSUME NEW l \in Loads, AddRq(u, l, v) PROVE QueuesOK'
    <3>1. Add(u, v, TRUE, {l}) BY <2>3 DEF AddRq
    <3> TRUE \in BOOLEAN /\ {l} \in SUBSET Loads OBVIOUS
    <3>2. RQ' \in [Uppers -> Seq(Request)] BY <1>2, <3>1, Zenon
    <3>3. [upper |-> u, v_address |-> v] \in Wanted BY DEF Wanted
    <3>4. waiting' \in [Loads -> Wanted \cup {None}] BY <1>1, <2>3, <3>3 DEF AddRq, QueuesOK
    <3> QED BY <1>1, <2>3, <3>4, <3>2 DEF AddRq, QueuesOK, lower
  <2> QED BY <2>1, <2>2, <2>3
<1>4. ASSUME NEW i \in DOMAIN asked, LowerAnswers(i) PROVE QueuesOK'
  <2>1. asked' \in Seq(Nat)
    <3>1. asked \in Seq(Nat) /\ asked' = RemoveAt(asked, i) BY <1>1, <1>4 DEF LowerAnswers, QueuesOK
    <3> QED BY <3>1, RemoveAtFacts
  <2>2. asked[i] \in Nat
    <3>1. asked \in Seq(Nat) BY <1>1 DEF QueuesOK
    <3> QED BY <3>1
  <2>3. returned' = Append(returned, asked[i]) \/ returned' = returned BY <1>4 DEF LowerAnswers
  <2>4. returned \in Seq(Nat) /\ Append(returned, asked[i]) \in Seq(Nat) BY <1>1, <2>2 DEF QueuesOK
  <2>5. returned' \in Seq(Nat) BY <2>3, <2>4
  <2>6. RQ' = RQ /\ waiting' = waiting BY <1>4 DEF LowerAnswers
  <2> QED BY <1>1, <2>1, <2>5, <2>6 DEF QueuesOK
<1>5. CASE UNCHANGED <<RQ, lower, waiting>> BY <1>1, <1>5 DEF QueuesOK, lower
<1>6. CASE PacketDone BY <1>1, <1>6 DEF PacketDone, QueuesOK
<1>7. CASE Complete
  <2>1. waiting' \in [Loads -> Wanted \cup {None}] BY <1>1, <1>7 DEF Complete, QueuesOK
  <2> QED BY <1>1, <1>7, <2>1 DEF Complete, QueuesOK, lower
<1>8. ASSUME NEW m \in mshr_type, Ask(m) PROVE asked' \in Seq(Nat)
  <2>1. m.address \in Nat /\ BLOCK \in Nat \ {0} BY DEF mshr_type
  <2>2. BlockOf(m.address) \in Nat BY <2>1 DEF BlockOf
  <2> QED BY <1>1, <1>8, <2>2 DEF Ask, QueuesOK
<1>9. CASE Fill
  <2> finished # <<>> BY <1>9 DEF Fill, Filling, Due
  <2>1. finished[1] \in StepWalks BY DEF WalkerInv, WalksOK
  <2>2. PICK m : m = [finished[1] EXCEPT !.address = finished[1].data,
                                        !.translation_level = NextLevel(finished[1])]
    OBVIOUS
  <2>3. m \in mshr_type BY <2>1, <2>2, NextWalkType
  <2>4. asked' \in Seq(Nat) BY <1>8, <1>9, <2>2, <2>3 DEF Fill
  <2> QED BY <1>1, <1>9, <2>4 DEF Fill, QueuesOK
<1>10. CASE Read
  <2>1. ul \in Uppers /\ RQ[ul] \in Seq(Request) /\ RQ[ul] # <<>>
    BY <1>1, <1>10 DEF Read, Reading, QueuesOK
  <2>2. RQ[ul][1] \in Request /\ Tail(RQ[ul]) \in Seq(Request) BY <2>1
  <2>3. PICK m : m = NewWalk(RQ[ul][1]) OBVIOUS
  <2>4. m \in mshr_type BY <2>1, <2>2, <2>3, NewWalkType
  <2>5. asked' \in Seq(Nat) BY <1>8, <1>10, <2>3, <2>4 DEF Read
  <2>6. RQ' \in [Uppers -> Seq(Request)] BY <1>1, <1>10, <2>1, <2>2 DEF Read, QueuesOK
  <2> QED BY <1>1, <1>10, <2>5, <2>6 DEF Read, QueuesOK
<1>11. CASE OtherCores BY <1>5, <1>11 DEF OtherCores, OtherCore
<1>12. CASE Construct \/ EndWarmup \/ StartCycle \/ EndFinish \/ EndComplete
  BY <1>5, <1>12 DEF Construct, EndWarmup, StartCycle, EndFinish, EndComplete
<1>13. CASE \E i \in DOMAIN MSHR : FinishStep(i) \/ FinishLastStep(i)
  BY <1>5, <1>13 DEF FinishStep, FinishLastStep
<1>14. CASE FillRefused \/ EndFill \/ ReadRefused \/ NextUpper \/ Tick
  BY <1>5, <1>14 DEF FillRefused, EndFill, ReadRefused, NextUpper, Tick
<1>15. CASE UNCHANGED vars BY <1>5, <1>15 DEF vars
<1>16. CASE LowerLevel BY <1>4, <1>16 DEF LowerLevel
<1> QED BY <1>3, <1>6, <1>7, <1>9, <1>10, <1>11, <1>12, <1>13, <1>14, <1>15, <1>16
        DEF Next, Operate

LEMMA AppendSet ==
  ASSUME NEW S, NEW s \in Seq(S), NEW e
  PROVE  ToSet(s) \cup {e} \subseteq ToSet(Append(s, e))
<1>1. Append(s, e)[Len(s) + 1] = e /\ Len(s) + 1 \in DOMAIN Append(s, e) OBVIOUS
<1>2. \A i \in DOMAIN s : i \in DOMAIN Append(s, e) /\ Append(s, e)[i] = s[i] OBVIOUS
<1> QED BY <1>1, <1>2 DEF ToSet

LEMMA AppendAt ==
  ASSUME NEW S, NEW s \in Seq(S), NEW y, NEW i \in DOMAIN Append(s, y)
  PROVE  Append(s, y)[i] = y \/ (i \in DOMAIN s /\ Append(s, y)[i] = s[i])
OBVIOUS

LEMMA TailSet ==
  ASSUME NEW S, NEW s \in Seq(S), s # <<>>
  PROVE  ToSet(s) \subseteq ToSet(Tail(s)) \cup {s[1]}
<1> SUFFICES ASSUME NEW i \in DOMAIN s, i # 1 PROVE s[i] \in ToSet(Tail(s)) BY DEF ToSet
<1>1. i - 1 \in DOMAIN Tail(s) /\ Tail(s)[i - 1] = s[i] OBVIOUS
<1> QED BY <1>1 DEF ToSet

\* A request that the cache below answers or merges stays in reach of its walks.
LEMMA LowerKeepsReach ==
  ASSUME QueuesOK, NEW i \in DOMAIN asked, LowerAnswers(i)
  PROVE  InReach \subseteq InReach'
<1>1. asked \in Seq(Nat) /\ returned \in Seq(Nat) BY DEF QueuesOK
<1>2. ToSet(asked) \subseteq ToSet(asked') \cup {asked[i]}
  BY <1>1, RemovedOne DEF LowerAnswers
<1>3. CASE returned' = Append(returned, asked[i])
  <2>1. ToSet(returned) \cup {asked[i]} \subseteq ToSet(returned') BY <1>1, <1>3, AppendSet
  <2> QED BY <1>2, <2>1 DEF InReach
<1>4. CASE asked[i] \in ToSet(asked') /\ UNCHANGED returned BY <1>2, <1>4 DEF InReach
<1> QED BY <1>3, <1>4 DEF LowerAnswers

\* A walk is put into MSHR only with its request.
LEMMA AskKeeps ==
  ASSUME QueuesOK, WalksOK, NEW m \in mshr_type, Ask(m), UNCHANGED returned
  PROVE  MSHR' \in Seq(AskedWalks')
<1>1. asked' = Append(asked, BlockOf(m.address)) /\ MSHR' = Append(MSHR, m) BY DEF Ask
<1>2. ToSet(asked) \cup {BlockOf(m.address)} \subseteq ToSet(asked')
  BY <1>1, AppendSet DEF QueuesOK
<1>3. AskedWalks \subseteq AskedWalks' BY <1>2 DEF AskedWalks, InReach
<1>4. m \in AskedWalks' BY <1>2 DEF AskedWalks, InReach
<1>5. MSHR \in Seq(AskedWalks') BY <1>3, SeqGrows DEF WalksOK
<1> QED BY <1>1, <1>4, <1>5

LEMMA SoonerType ==
  /\ \A q \in Seq(StepWalks) : Sooner(q) \in Seq(StepWalks)
  /\ \A q \in Seq(DoneWalks) : Sooner(q) \in Seq(DoneWalks)
<1> DEFINE Next1(m) == [m EXCEPT !.left = IF @ > 0 THEN @ - 1 ELSE 0]
<1>1. ASSUME NEW m \in mshr_type
      PROVE  /\ Next1(m) \in mshr_type /\ Next1(m).v_address = m.v_address
             /\ Next1(m).data = m.data /\ Next1(m).translation_level = m.translation_level
  BY DEF mshr_type
<1>2. \A m \in StepWalks : Next1(m) \in StepWalks BY <1>1 DEF StepWalks
<1>3. \A m \in DoneWalks : Next1(m) \in DoneWalks BY <1>1 DEF DoneWalks
<1>4. \A q : Sooner(q) = [i \in DOMAIN q |-> Next1(q[i])] BY DEF Sooner
<1> HIDE DEF Next1
<1> QED BY <1>2, <1>3, <1>4

\* A step whose PTE page is known: finish_packet's first half.
LEMMA FinishStepKeeps ==
  ASSUME IInv, WalkerInv, [VmemNext]_vmem, NEW i \in DOMAIN MSHR, FinishStep(i)
  PROVE  WalksOK'
<1>1. MSHR \in Seq(AskedWalks) /\ finished \in Seq(StepWalks) /\ completed \in Seq(DoneWalks)
  BY DEF WalkerInv, WalksOK
<1>2. PICK m : m = MSHR[i] OBVIOUS
<1>3. m \in mshr_type /\ m.translation_level # 0
  BY <1>1, <1>2 DEF AskedWalks, FinishStep, LastStep
<1>4. PICK p : p = get_pte(m.v_address, m.translation_level) OBVIOUS
<1>5. PICK left : left = Penalty(PteFaults(Cpu, m.v_address, m.translation_level)) OBVIOUS
<1>6. left \in Nat BY <1>5, PtwAssumption DEF Penalty
<1>7. /\ m.v_address \in Addresses /\ m.translation_level \in 1..pt_levels
  BY <1>3, VmemAssumption DEF mshr_type, Steps
<1>8. get_pte_pa(Cpu, m.v_address, m.translation_level) BY <1>2 DEF FinishStep
<1>9. p \in Nat /\ ReadPte(p, m.v_address, m.translation_level)'
  BY <1>4, <1>7, <1>8, ReadsThePte DEF IInv
<1>10. PICK n : n = [m EXCEPT !.data = p, !.left = left] OBVIOUS
<1>11. /\ n \in mshr_type /\ n.data = p /\ n.v_address = m.v_address
       /\ n.translation_level = m.translation_level
  BY <1>3, <1>6, <1>9, <1>10 DEF mshr_type
<1>12. n \in StepWalks' BY <1>3, <1>9, <1>11 DEF StepWalks
<1>13. finished' = Append(finished, n) BY <1>2, <1>4, <1>5, <1>10 DEF FinishStep
<1>14. finished \in Seq(StepWalks') /\ completed \in Seq(DoneWalks')
  BY <1>1, WalksGrow, SeqGrows
<1>15. MSHR' \in Seq(AskedWalks) BY <1>1, RemoveAtFacts DEF FinishStep, Erased
<1>16. AskedWalks' = AskedWalks /\ completed' = completed
  BY DEF FinishStep, lower, AskedWalks, InReach
<1> QED BY <1>12, <1>13, <1>14, <1>15, <1>16 DEF WalksOK

\* The last step, whose frame is known: its second half.
LEMMA FinishLastStepKeeps ==
  ASSUME IInv, WalkerInv, [VmemNext]_vmem, NEW i \in DOMAIN MSHR, FinishLastStep(i)
  PROVE  WalksOK'
<1>1. MSHR \in Seq(AskedWalks) /\ finished \in Seq(StepWalks) /\ completed \in Seq(DoneWalks)
  BY DEF WalkerInv, WalksOK
<1>2. PICK m : m = MSHR[i] OBVIOUS
<1>3. m \in mshr_type BY <1>1, <1>2 DEF AskedWalks
<1>4. PICK p : p = get_pa(m.v_address) OBVIOUS
<1>5. PICK left : left = Penalty(Faults(Cpu, m.v_address)) OBVIOUS
<1>6. left \in Nat BY <1>5, PtwAssumption DEF Penalty
<1>7. m.v_address \in Addresses BY <1>3 DEF mshr_type
<1>8. va_to_pa(Cpu, m.v_address) BY <1>2 DEF FinishLastStep
<1>9. p \in Nat /\ ReadFrame(p, m.v_address)'
  BY <1>4, <1>7, <1>8, ReadsTheFrame DEF IInv
<1>10. PICK n : n = [m EXCEPT !.data = p, !.left = left] OBVIOUS
<1>11. n \in mshr_type /\ n.data = p /\ n.v_address = m.v_address
  BY <1>3, <1>6, <1>9, <1>10 DEF mshr_type
<1>12. n \in DoneWalks' BY <1>9, <1>11 DEF DoneWalks
<1>13. completed' = Append(completed, n) BY <1>2, <1>4, <1>5, <1>10 DEF FinishLastStep
<1>14. finished \in Seq(StepWalks') /\ completed \in Seq(DoneWalks')
  BY <1>1, WalksGrow, SeqGrows
<1>15. MSHR' \in Seq(AskedWalks) BY <1>1, RemoveAtFacts DEF FinishLastStep, Erased
<1>16. AskedWalks' = AskedWalks /\ finished' = finished
  BY DEF FinishLastStep, lower, AskedWalks, InReach
<1> QED BY <1>12, <1>13, <1>14, <1>15, <1>16 DEF WalksOK

\* An answer is dropped only when no walk reads its block any more.
LEMMA PacketDoneKeeps ==
  ASSUME WalkerInv, [VmemNext]_vmem, PacketDone
  PROVE  WalksOK'
<1>1. returned \in Seq(Nat) /\ returned # <<>> /\ returned' = Tail(returned)
  BY DEF PacketDone, WalkerInv, QueuesOK
<1>2. ToSet(returned) \subseteq ToSet(returned') \cup {returned[1]} BY <1>1, TailSet
<1>3. MSHR \in Seq(AskedWalks) /\ finished \in Seq(StepWalks) /\ completed \in Seq(DoneWalks)
  BY DEF WalkerInv, WalksOK
<1>4. ASSUME NEW i \in DOMAIN MSHR PROVE MSHR[i] \in AskedWalks'
  <2>1. MSHR[i] \in mshr_type /\ BlockOf(MSHR[i].address) \in InReach BY <1>3 DEF AskedWalks
  <2>2. BlockOf(MSHR[i].address) # returned[1] BY DEF PacketDone, ReadsBlock
  <2>3. asked' = asked BY DEF PacketDone
  <2>4. BlockOf(MSHR[i].address) \in InReach' BY <1>2, <2>1, <2>2, <2>3 DEF InReach
  <2>5. PICK m : m = MSHR[i] OBVIOUS
  <2>6. m \in AskedWalks' BY <2>1, <2>4, <2>5 DEF AskedWalks
  <2> QED BY <2>5, <2>6
<1>5. MSHR \in Seq(AskedWalks') BY <1>3, <1>4
<1>6. finished \in Seq(StepWalks') /\ completed \in Seq(DoneWalks')
  BY <1>3, WalksGrow, SeqGrows
<1>7. MSHR' = MSHR /\ finished' = finished /\ completed' = completed BY DEF PacketDone, walks
<1> QED BY <1>5, <1>6, <1>7 DEF WalksOK

LEMMA WalksKeep ==
  ASSUME IInv, WalkerInv, [Next]_vars
  PROVE  WalksOK'
<1>1. [VmemNext]_vmem BY WalkerUsesVmem
<1>2. QueuesOK /\ WalksOK BY DEF WalkerInv
<1>3. CASE UNCHANGED <<walks, lower>>
  <2>1. InReach' = InReach BY <1>3 DEF lower, InReach
  <2> QED BY <1>1, <1>2, <1>3, <2>1, WalksKept
<1>4. CASE LowerLevel
  <2>1. PICK i \in DOMAIN asked : LowerAnswers(i) BY <1>4 DEF LowerLevel
  <2>2. UNCHANGED walks BY <2>1 DEF LowerAnswers
  <2> QED BY <1>1, <1>2, <2>1, <2>2, LowerKeepsReach, WalksKept
<1>5. CASE \E i \in DOMAIN MSHR : FinishStep(i) \/ FinishLastStep(i)
  BY <1>1, <1>5, FinishStepKeeps, FinishLastStepKeeps
<1>6. CASE PacketDone BY <1>1, <1>6, PacketDoneKeeps
<1>7. CASE Complete
  <2>1. completed \in Seq(DoneWalks) /\ completed # <<>>
    BY <1>2, <1>7 DEF WalksOK, Complete, Due
  <2>2. completed' = Tail(completed) /\ MSHR' = MSHR /\ finished' = finished BY <1>7 DEF Complete
  <2>3. UNCHANGED vmem /\ UNCHANGED lower BY <1>7 DEF Complete
  <2>4. completed' \in Seq(DoneWalks) BY <2>1, <2>2
  <2>5. DoneWalks' = DoneWalks BY <2>3 DEF DoneWalks, ReadFrame, vmem
  <2>6. StepWalks' = StepWalks BY <2>3 DEF StepWalks, ReadPte, vmem
  <2>7. AskedWalks' = AskedWalks BY <2>3 DEF AskedWalks, InReach, lower
  <2> QED BY <1>2, <2>2, <2>4, <2>5, <2>6, <2>7 DEF WalksOK
<1>8. CASE Fill
  <2> finished # <<>> BY <1>8 DEF Fill, Filling, Due
  <2>1. finished \in Seq(StepWalks) /\ finished[1] \in StepWalks BY <1>2 DEF WalksOK
  <2>2. PICK m : m = [finished[1] EXCEPT !.address = finished[1].data,
                                        !.translation_level = NextLevel(finished[1])]
    OBVIOUS
  <2>3. m \in mshr_type BY <2>1, <2>2, NextWalkType
  <2>4. Ask(m) /\ UNCHANGED returned /\ UNCHANGED vmem BY <1>8, <2>2 DEF Fill
  <2>5. MSHR' \in Seq(AskedWalks') BY <1>2, <2>3, <2>4, AskKeeps
  <2>6. finished' = Tail(finished) /\ completed' = completed BY <1>8 DEF Fill
  <2>7. finished' \in Seq(StepWalks) BY <2>1, <2>6
  <2>8. StepWalks' = StepWalks /\ DoneWalks' = DoneWalks
    BY <2>4 DEF StepWalks, DoneWalks, ReadPte, ReadFrame, vmem
  <2> QED BY <1>2, <2>5, <2>6, <2>7, <2>8 DEF WalksOK
<1>9. CASE Read
  <2> ul \in Uppers /\ RQ[ul] # <<>> BY <1>9 DEF Read, Reading
  <2>1. RQ[ul][1] \in Request BY <1>2 DEF QueuesOK
  <2>2. PICK m : m = NewWalk(RQ[ul][1]) OBVIOUS
  <2>3. m \in mshr_type BY <2>1, <2>2, NewWalkType
  <2>4. Ask(m) /\ UNCHANGED returned /\ UNCHANGED vmem BY <1>9, <2>2 DEF Read
  <2>5. MSHR' \in Seq(AskedWalks') BY <1>2, <2>3, <2>4, AskKeeps
  <2>6. finished' = finished /\ completed' = completed BY <1>9 DEF Read
  <2>7. StepWalks' = StepWalks /\ DoneWalks' = DoneWalks
    BY <2>4 DEF StepWalks, DoneWalks, ReadPte, ReadFrame, vmem
  <2> QED BY <1>2, <2>5, <2>6, <2>7 DEF WalksOK
<1>10. CASE Tick
  <2>1. finished' = Sooner(finished) /\ completed' = Sooner(completed) /\ MSHR' = MSHR
    BY <1>10 DEF Tick
  <2>2. UNCHANGED vmem /\ UNCHANGED lower BY <1>10 DEF Tick
  <2>3. finished' \in Seq(StepWalks) /\ completed' \in Seq(DoneWalks)
    BY <1>2, <2>1, SoonerType DEF WalksOK
  <2>4. StepWalks' = StepWalks /\ DoneWalks' = DoneWalks
    BY <2>2 DEF StepWalks, DoneWalks, ReadPte, ReadFrame, vmem
  <2>5. AskedWalks' = AskedWalks BY <2>2 DEF AskedWalks, InReach, lower
  <2> QED BY <1>2, <2>1, <2>3, <2>4, <2>5 DEF WalksOK
<1>11. CASE Arrive BY <1>3, <1>11 DEF Arrive, AddRq, AddRqNoResponse
<1>12. CASE OtherCores BY <1>3, <1>12 DEF OtherCores, OtherCore
<1>13. CASE Construct \/ EndWarmup \/ StartCycle \/ EndFinish \/ EndComplete
  BY <1>3, <1>13 DEF Construct, EndWarmup, StartCycle, EndFinish, EndComplete
<1>14. CASE FillRefused \/ EndFill \/ ReadRefused \/ NextUpper
  BY <1>3, <1>14 DEF FillRefused, EndFill, ReadRefused, NextUpper
<1>15. CASE UNCHANGED vars BY <1>3, <1>15 DEF vars
<1> QED BY <1>4, <1>5, <1>6, <1>7, <1>8, <1>9, <1>10, <1>11, <1>12, <1>13, <1>14, <1>15
        DEF Next, Operate

LEMMA PsclsKeep ==
  ASSUME WalkerInv, [Next]_vars
  PROVE  PsclsOK'
<1>1. [VmemNext]_vmem BY WalkerUsesVmem
<1>2. PsclsOK /\ WalksOK BY DEF WalkerInv
<1>3. CASE UNCHANGED pscl BY <1>1, <1>2, <1>3, PsclsKept
<1>4. CASE Fill \/ FillRefused
  <2> finished # <<>> BY <1>4 DEF Fill, FillRefused, Filling, Due
  <2>1. PICK m : m = finished[1] OBVIOUS
  <2>2. m \in StepWalks BY <1>2, <2>1 DEF WalksOK
  <2>3. FillPscl(m) /\ UNCHANGED vmem BY <1>4, <2>1 DEF Fill, FillRefused
  <2> QED BY <1>2, <2>2, <2>3, FillPsclKeeps
<1>5. CASE Read \/ ReadRefused
  <2>1. PICK v : v = RQ[ul][1].v_address OBVIOUS
  <2>2. Touch(v) /\ UNCHANGED vmem BY <1>5, <2>1 DEF Read, ReadRefused
  <2> QED BY <1>2, <2>2, TouchKeeps
<1>6. CASE Arrive BY <1>3, <1>6 DEF Arrive, AddRq, AddRqNoResponse
<1>7. CASE LowerLevel BY <1>3, <1>7 DEF LowerLevel, LowerAnswers
<1>8. CASE OtherCores BY <1>3, <1>8 DEF OtherCores, OtherCore
<1>9. CASE \E i \in DOMAIN MSHR : FinishStep(i) \/ FinishLastStep(i)
  BY <1>3, <1>9 DEF FinishStep, FinishLastStep
<1>10. CASE Construct \/ EndWarmup \/ StartCycle \/ EndFinish \/ PacketDone
  BY <1>3, <1>10 DEF Construct, EndWarmup, StartCycle, EndFinish, PacketDone
<1>11. CASE Complete \/ EndComplete \/ EndFill \/ NextUpper \/ Tick
  BY <1>3, <1>11 DEF Complete, EndComplete, EndFill, NextUpper, Tick
<1>12. CASE UNCHANGED vars BY <1>3, <1>12 DEF vars
<1> QED BY <1>4, <1>5, <1>6, <1>7, <1>8, <1>9, <1>10, <1>11, <1>12 DEF Next, Operate
-----------------------------------------------------------------------------
\* The walker and the other cores use the virtual memory as Vmem says: every
\* address and level they ask for is one it has.
THEOREM WalkerImplementsVmem == Spec => UsesVmem
<1>1. Init => VmemInit BY DEF Init
<1>2. WalkerInv /\ [Next]_vars => [VmemNext]_vmem BY WalkerUsesVmem
<1>3. Init => WalkerInv BY WalkerInitially
<1>4. Init => IInv BY <1>1, Initially
<1>5. IInv /\ WalkerInv /\ [Next]_vars => IInv' BY <1>2, Inductive
<1>6. IInv /\ WalkerInv /\ [Next]_vars => WalkerInv'
  BY StageKeeps, QueuesKeep, WalksKeep, PsclsKeep DEF WalkerInv
<1> QED BY <1>1, <1>2, <1>3, <1>4, <1>5, <1>6, PTL DEF Spec, UsesVmem, VmemSpec

\* Every state the walker reaches satisfies its invariant.
THEOREM WalkerInvariance == Spec => []WalkerInv
<1>1. IInv /\ WalkerInv /\ [Next]_vars => WalkerInv'
  BY StageKeeps, QueuesKeep, WalksKeep, PsclsKeep DEF WalkerInv
<1>2. Spec => []IInv BY WalkerImplementsVmem, Invariance, PTL DEF UsesVmem
<1> QED BY <1>1, <1>2, WalkerInitially, PTL DEF Spec

\* The frames the walker and the other cores are handed are never shared.
THEOREM WalkerSharesNoPage == Spec => []PagesNeverShared
BY WalkerImplementsVmem, NoPageShared, PTL DEF UsesVmem

\* A mapping the walker has seen is never changed, by itself or by another core.
THEOREM WalkerKeepsMappings == Spec => MappingsAreKept
BY WalkerImplementsVmem, MappingsKept, PTL DEF UsesVmem

\* What the walks and the PSCLs hold is what the page table says, and every walk
\* has its block asked for: AnswersAreCurrent, for every instance.
THEOREM AnswersStayCurrent == Spec => []AnswersAreCurrent
<1>1. IInv /\ WalkerInv => TypeOK
  <2> SUFFICES ASSUME IInv, WalkerInv PROVE TypeOK OBVIOUS
  <2>1. AskedWalks \subseteq mshr_type /\ StepWalks \subseteq mshr_type /\ DoneWalks \subseteq mshr_type
    BY DEF AskedWalks, StepWalks, DoneWalks
  <2>2. {MSHR, finished, completed} \subseteq Seq(mshr_type)
    BY <2>1, SeqGrows DEF WalkerInv, WalksOK
  <2>3. \A i \in 1..Steps : Entries(i) \subseteq EntryType(i) BY DEF Entries
  <2>4. \A i \in 1..Steps : pscl[i] \in Seq(EntryType(i)) BY <2>3, SeqGrows DEF WalkerInv, PsclsOK
  <2> QED BY <2>2, <2>4 DEF WalkerInv, StageOK, QueuesOK, IInv, EntryType, TypeOK
<1>2. WalkerInv => WalksAreAsked
  BY DEF WalkerInv, WalksOK, AskedWalks, InReach, WalksAreAsked
<1>3. WalkerInv => \A i \in DOMAIN completed : ReadFrame(completed[i].data, completed[i].v_address)
  BY DEF WalkerInv, WalksOK, DoneWalks
<1>4. WalkerInv => \A i \in 1..Steps : \A k \in DOMAIN pscl[i] :
                     ReadPte(pscl[i][k].ptw_addr, pscl[i][k].vaddr, pscl[i][k].level + 1)
  <2> SUFFICES ASSUME WalkerInv, NEW i \in 1..Steps, NEW k \in DOMAIN pscl[i]
               PROVE  ReadPte(pscl[i][k].ptw_addr, pscl[i][k].vaddr, pscl[i][k].level + 1)
    OBVIOUS
  <2>1. pscl[i] \in Seq(Entries(i)) BY DEF WalkerInv, PsclsOK
  <2>2. pscl[i][k] \in Entries(i) BY <2>1
  <2> QED BY <2>2 DEF Entries
<1>5. IInv /\ WalkerInv => AnswersAreCurrent
  BY <1>1, <1>2, <1>3, <1>4 DEF AnswersAreCurrent, ReadFrame, ReadPte
<1>6. Spec => []IInv BY WalkerImplementsVmem, Invariance, PTL DEF UsesVmem
<1> QED BY <1>5, <1>6, WalkerInvariance, PTL
-----------------------------------------------------------------------------
(* Every load is held by one request or walk, and by no other, until it is *)
(* answered: the refinement of LoadPort                                    *)

Lines == 1..(NumUppers + 3)
MshrLine == NumUppers + 1
FinishedLine == NumUppers + 2
CompletedLine == NumUppers + 3
Layout(rq, m, f, c) == [k \in Lines |-> IF k \in Uppers THEN rq[k]
                                        ELSE IF k = MshrLine THEN m
                                        ELSE IF k = FinishedLine THEN f ELSE c]
Queues == Layout(RQ, MSHR, finished, completed)

Never(Q, l) == \A k \in Lines : \A i \in DOMAIN Q[k] : l \notin Q[k][i].instr_depend_on_me
Once(Q, l) == \E k \in Lines : \E i \in DOMAIN Q[k] :
                /\ l \in Q[k][i].instr_depend_on_me
                /\ \A k2 \in Lines : \A j \in DOMAIN Q[k2] :
                     l \in Q[k2][j].instr_depend_on_me => k2 = k /\ j = i

HeldOnce == \A l \in Loads : IF waiting[l] = None THEN Never(Queues, l) ELSE Once(Queues, l)
RequestsServe ==
  \A u \in Uppers : \A i \in DOMAIN RQ[u] : \A l \in RQ[u][i].instr_depend_on_me :
    RQ[u][i].response_requested /\ waiting[l] = [upper |-> u, v_address |-> RQ[u][i].v_address]
Serves(m) == \A l \in m.instr_depend_on_me :
               /\ waiting[l] \in Wanted
               /\ waiting[l].upper \in m.to_return /\ m.v_address = waiting[l].v_address
WalksServe == /\ \A i \in DOMAIN MSHR : Serves(MSHR[i])
              /\ \A i \in DOMAIN finished : Serves(finished[i])
              /\ \A i \in DOMAIN completed : Serves(completed[i])
PortInv == HeldOnce /\ RequestsServe /\ WalksServe

\* One item goes from the place i of line k to the end of line k2, its loads with it.
Moved(Q, P, k, i, k2, y) ==
  /\ k \in Lines /\ k2 \in Lines /\ k # k2 /\ i \in DOMAIN Q[k]
  /\ y.instr_depend_on_me = Q[k][i].instr_depend_on_me
  /\ P[k] = RemoveAt(Q[k], i) /\ P[k2] = Append(Q[k2], y)
  /\ \A n \in Lines : n # k /\ n # k2 => P[n] = Q[n]
LEMMA MoveFacts ==
  ASSUME NEW S, NEW Q \in [Lines -> Seq(S)], NEW P \in [Lines -> Seq(S)],
         NEW k, NEW k2, NEW i, NEW y \in S, Moved(Q, P, k, i, k2, y), NEW l
  PROVE  (Never(Q, l) => Never(P, l)) /\ (Once(Q, l) => Once(P, l))
<1> SUFFICES ASSUME k \in Lines, k2 \in Lines, k # k2, i \in DOMAIN Q[k],
                    y.instr_depend_on_me = Q[k][i].instr_depend_on_me,
                    P[k] = RemoveAt(Q[k], i), P[k2] = Append(Q[k2], y),
                    \A n \in Lines : n # k /\ n # k2 => P[n] = Q[n]
             PROVE  (Never(Q, l) => Never(P, l)) /\ (Once(Q, l) => Once(P, l))
  BY DEF Moved
<1> DEFINE Old(j) == IF j < i THEN j ELSE j + 1
           New(j) == IF j < i THEN j ELSE j - 1
<1>1. Q[k] \in Seq(S) /\ Q[k2] \in Seq(S) /\ Len(Q[k]) \in Nat /\ Len(Q[k2]) \in Nat
      /\ i \in 1..Len(Q[k])
  OBVIOUS
<1>2. /\ RemoveAt(Q[k], i) \in Seq(S) /\ Len(RemoveAt(Q[k], i)) = Len(Q[k]) - 1
      /\ \A j \in 1..(Len(Q[k]) - 1) : RemoveAt(Q[k], i)[j] = Q[k][IF j < i THEN j ELSE j + 1]
  BY <1>1, RemoveAtFacts
<1>3. DOMAIN P[k] = 1..(Len(Q[k]) - 1) BY <1>2
<1>4. ASSUME NEW j \in DOMAIN P[k]
      PROVE  Old(j) \in DOMAIN Q[k] /\ Old(j) # i /\ P[k][j] = Q[k][Old(j)]
  <2>1. j \in 1..(Len(Q[k]) - 1) BY <1>3
  <2>2. Old(j) \in 1..Len(Q[k]) /\ Old(j) # i BY <1>1, <2>1
  <2>3. P[k][j] = Q[k][Old(j)] BY <1>2, <2>1
  <2> QED BY <2>2, <2>3
<1>5. ASSUME NEW j \in DOMAIN Q[k], j # i
      PROVE  New(j) \in DOMAIN P[k] /\ Old(New(j)) = j
  BY <1>1, <1>3, <1>5
<1>6. /\ DOMAIN P[k2] = 1..(Len(Q[k2]) + 1) /\ DOMAIN Q[k2] = 1..Len(Q[k2])
      /\ P[k2][Len(Q[k2]) + 1] = y /\ \A j \in DOMAIN Q[k2] : P[k2][j] = Q[k2][j]
  BY <1>1
<1>7. ASSUME NEW a, NEW b, a \in DOMAIN P[k], b \in DOMAIN P[k], Old(a) = Old(b) PROVE a = b
  BY <1>1, <1>3, <1>7
<1> DEFINE end == Len(Q[k2]) + 1
<1>8. end \in DOMAIN P[k2] /\ end \notin DOMAIN Q[k2] BY <1>1, <1>6
<1>9. \A j \in DOMAIN P[k2] : j = end \/ j \in DOMAIN Q[k2] BY <1>1, <1>6
<1> HIDE DEF Old, New, end
\* Where an item of P comes from.
<1>10. ASSUME NEW n \in Lines, NEW j \in DOMAIN P[n]
       PROVE  \/ n = k /\ Old(j) \in DOMAIN Q[k] /\ Old(j) # i /\ P[k][j] = Q[k][Old(j)]
              \/ n = k2 /\ j = end /\ P[n][j].instr_depend_on_me = Q[k][i].instr_depend_on_me
              \/ n # k /\ j \in DOMAIN Q[n] /\ P[n][j] = Q[n][j] /\ (n = k2 => j # end)
  <2>1. CASE n = k BY <2>1, <1>4
  <2>2. CASE n = k2 /\ j = end BY <2>2, <1>6 DEF end
  <2>3. CASE n = k2 /\ j # end BY <2>3, <1>6, <1>9
  <2>4. CASE n # k /\ n # k2 BY <2>4
  <2> QED BY <2>1, <2>2, <2>3, <2>4
<1>11. Never(Q, l) => Never(P, l)
  <2> SUFFICES ASSUME Never(Q, l), NEW n \in Lines, NEW j \in DOMAIN P[n]
               PROVE  l \notin P[n][j].instr_depend_on_me
    BY DEF Never
  <2>1. \A n3 \in Lines : \A j3 \in DOMAIN Q[n3] : l \notin Q[n3][j3].instr_depend_on_me
    BY DEF Never
  <2>2. \/ n = k /\ Old(j) \in DOMAIN Q[k] /\ Old(j) # i /\ P[k][j] = Q[k][Old(j)]
        \/ n = k2 /\ j = end /\ P[n][j].instr_depend_on_me = Q[k][i].instr_depend_on_me
        \/ n # k /\ j \in DOMAIN Q[n] /\ P[n][j] = Q[n][j] /\ (n = k2 => j # end)
    BY <1>10, Zenon
  <2> QED BY <1>1, <2>1, <2>2
<1>12. ASSUME Once(Q, l) PROVE Once(P, l)
  <2>1. PICK n \in Lines : \E j \in DOMAIN Q[n] :
               /\ l \in Q[n][j].instr_depend_on_me
               /\ \A k3 \in Lines : \A j3 \in DOMAIN Q[k3] :
                    l \in Q[k3][j3].instr_depend_on_me => k3 = n /\ j3 = j
    BY <1>12 DEF Once
  <2>2. PICK j \in DOMAIN Q[n] :
               /\ l \in Q[n][j].instr_depend_on_me
               /\ \A k3 \in Lines : \A j3 \in DOMAIN Q[k3] :
                    l \in Q[k3][j3].instr_depend_on_me => k3 = n /\ j3 = j
    BY <2>1
  <2>3. CASE n = k /\ j = i
    <3>1. l \in P[k2][end].instr_depend_on_me BY <2>2, <2>3, <1>6 DEF end
    <3>2. ASSUME NEW k3 \in Lines, NEW j3 \in DOMAIN P[k3], l \in P[k3][j3].instr_depend_on_me
          PROVE  k3 = k2 /\ j3 = end
      BY <1>10, <2>2, <2>3, <3>2
    <3> QED BY <1>8, <3>1, <3>2 DEF Once
  <2>4. CASE n = k /\ j # i
    <3>1. New(j) \in DOMAIN P[k] /\ Old(New(j)) = j BY <1>5, <2>4
    <3>2. l \in P[k][New(j)].instr_depend_on_me BY <1>4, <2>2, <2>4, <3>1
    <3>3. ASSUME NEW k3 \in Lines, NEW j3 \in DOMAIN P[k3], l \in P[k3][j3].instr_depend_on_me
          PROVE  k3 = k /\ j3 = New(j)
      <4>1. \/ k3 = k /\ Old(j3) \in DOMAIN Q[k] /\ Old(j3) # i /\ P[k][j3] = Q[k][Old(j3)]
            \/ k3 = k2 /\ j3 = end /\ P[k3][j3].instr_depend_on_me = Q[k][i].instr_depend_on_me
            \/ k3 # k /\ j3 \in DOMAIN Q[k3] /\ P[k3][j3] = Q[k3][j3] /\ (k3 = k2 => j3 # end)
        BY <1>10, Zenon
      <4>2. l \notin Q[k][i].instr_depend_on_me BY <2>2, <2>4
      <4>3. k3 = k /\ Old(j3) \in DOMAIN Q[k] /\ l \in Q[k][Old(j3)].instr_depend_on_me
        BY <2>2, <2>4, <3>3, <4>1, <4>2
      <4>4. Old(j3) = j BY <2>2, <4>3
      <4> QED BY <1>7, <3>1, <4>3, <4>4
    <3> QED BY <3>1, <3>2, <3>3 DEF Once
  <2>5. CASE n # k
    <3>1. j \in DOMAIN P[n] /\ P[n][j] = Q[n][j] /\ (n = k2 => j # end)
      <4>1. CASE n = k2
        <5>1. j \in DOMAIN Q[k2] BY <4>1
        <5>2. j \in DOMAIN P[k2] /\ P[k2][j] = Q[k2][j] BY <1>1, <1>6, <5>1
        <5> QED BY <4>1, <1>8, <5>1, <5>2
      <4>2. CASE n # k2 BY <4>2, <2>5
      <4> QED BY <4>1, <4>2
    <3>2. l \in P[n][j].instr_depend_on_me BY <2>2, <3>1
    <3>3. ASSUME NEW k3 \in Lines, NEW j3 \in DOMAIN P[k3], l \in P[k3][j3].instr_depend_on_me
          PROVE  k3 = n /\ j3 = j
      <4>1. \/ k3 = k /\ Old(j3) \in DOMAIN Q[k] /\ Old(j3) # i /\ P[k][j3] = Q[k][Old(j3)]
            \/ k3 = k2 /\ j3 = end /\ P[k3][j3].instr_depend_on_me = Q[k][i].instr_depend_on_me
            \/ k3 # k /\ j3 \in DOMAIN Q[k3] /\ P[k3][j3] = Q[k3][j3] /\ (k3 = k2 => j3 # end)
        BY <1>10, Zenon
      <4>2. \A m \in DOMAIN Q[k] : l \notin Q[k][m].instr_depend_on_me BY <2>2, <2>5
      <4>3. k3 # k /\ j3 \in DOMAIN Q[k3] /\ l \in Q[k3][j3].instr_depend_on_me
        BY <3>3, <4>1, <4>2
      <4> QED BY <2>2, <4>3
    <3> QED BY <3>1, <3>2, <3>3 DEF Once
  <2> QED BY <2>3, <2>4, <2>5
<1> QED BY <1>11, <1>12

\* One item comes, at the end of line k.
Added(Q, P, k, y) ==
  k \in Lines /\ P[k] = Append(Q[k], y) /\ \A n \in Lines : n # k => P[n] = Q[n]

LEMMA AddFacts ==
  ASSUME NEW S, NEW Q \in [Lines -> Seq(S)], NEW P \in [Lines -> Seq(S)],
         NEW k, NEW y \in S, Added(Q, P, k, y), NEW l
  PROVE  /\ Never(Q, l) /\ l \notin y.instr_depend_on_me => Never(P, l)
         /\ Never(Q, l) /\ l \in y.instr_depend_on_me => Once(P, l)
         /\ Once(Q, l) /\ l \notin y.instr_depend_on_me => Once(P, l)
<1> SUFFICES ASSUME k \in Lines, P[k] = Append(Q[k], y), \A n \in Lines : n # k => P[n] = Q[n]
             PROVE  /\ Never(Q, l) /\ l \notin y.instr_depend_on_me => Never(P, l)
                    /\ Never(Q, l) /\ l \in y.instr_depend_on_me => Once(P, l)
                    /\ Once(Q, l) /\ l \notin y.instr_depend_on_me => Once(P, l)
  BY DEF Added
<1> DEFINE end == Len(Q[k]) + 1
<1>1. Q[k] \in Seq(S) /\ Len(Q[k]) \in Nat OBVIOUS
<1>2. /\ DOMAIN P[k] = 1..(Len(Q[k]) + 1) /\ DOMAIN Q[k] = 1..Len(Q[k])
      /\ P[k][Len(Q[k]) + 1] = y /\ \A j \in DOMAIN Q[k] : P[k][j] = Q[k][j]
  BY <1>1
<1>3. end \in DOMAIN P[k] /\ end \notin DOMAIN Q[k] /\ P[k][end] = y BY <1>1, <1>2
<1>4. \A j \in DOMAIN P[k] : j = end \/ j \in DOMAIN Q[k] BY <1>1, <1>2
<1>5. \A j \in DOMAIN Q[k] : j \in DOMAIN P[k] BY <1>1, <1>2
<1> HIDE DEF end
<1>6. ASSUME NEW n \in Lines, NEW j \in DOMAIN P[n]
      PROVE  \/ n = k /\ j = end /\ P[n][j] = y
             \/ j \in DOMAIN Q[n] /\ P[n][j] = Q[n][j] /\ (n = k => j # end)
  <2>1. CASE n = k /\ j = end BY <2>1, <1>3
  <2>2. CASE n = k /\ j # end BY <2>2, <1>2, <1>4
  <2>3. CASE n # k BY <2>3
  <2> QED BY <2>1, <2>2, <2>3
<1>7. ASSUME NEW n \in Lines, NEW j \in DOMAIN Q[n]
      PROVE  j \in DOMAIN P[n] /\ P[n][j] = Q[n][j]
  <2>1. CASE n = k BY <2>1, <1>2, <1>5
  <2>2. CASE n # k BY <2>2
  <2> QED BY <2>1, <2>2
<1>8. Never(Q, l) /\ l \notin y.instr_depend_on_me => Never(P, l)
  <2> SUFFICES ASSUME Never(Q, l), l \notin y.instr_depend_on_me,
                      NEW n \in Lines, NEW j \in DOMAIN P[n]
               PROVE  l \notin P[n][j].instr_depend_on_me
    BY DEF Never
  <2> QED BY <1>6 DEF Never
<1>9. ASSUME Never(Q, l), l \in y.instr_depend_on_me PROVE Once(P, l)
  <2>1. ASSUME NEW k3 \in Lines, NEW j3 \in DOMAIN P[k3], l \in P[k3][j3].instr_depend_on_me
        PROVE  k3 = k /\ j3 = end
    BY <1>6, <1>9, <2>1 DEF Never
  <2> QED BY <1>3, <1>9, <2>1 DEF Once
<1>10. ASSUME Once(Q, l), l \notin y.instr_depend_on_me PROVE Once(P, l)
  <2>1. PICK n \in Lines : \E j \in DOMAIN Q[n] :
               /\ l \in Q[n][j].instr_depend_on_me
               /\ \A k3 \in Lines : \A j3 \in DOMAIN Q[k3] :
                    l \in Q[k3][j3].instr_depend_on_me => k3 = n /\ j3 = j
    BY <1>10 DEF Once
  <2>2. PICK j \in DOMAIN Q[n] :
               /\ l \in Q[n][j].instr_depend_on_me
               /\ \A k3 \in Lines : \A j3 \in DOMAIN Q[k3] :
                    l \in Q[k3][j3].instr_depend_on_me => k3 = n /\ j3 = j
    BY <2>1
  <2>3. j \in DOMAIN P[n] /\ l \in P[n][j].instr_depend_on_me BY <1>7, <2>2
  <2>4. ASSUME NEW k3 \in Lines, NEW j3 \in DOMAIN P[k3], l \in P[k3][j3].instr_depend_on_me
        PROVE  k3 = n /\ j3 = j
    <3>1. \/ k3 = k /\ j3 = end /\ P[k3][j3] = y
          \/ j3 \in DOMAIN Q[k3] /\ P[k3][j3] = Q[k3][j3] /\ (k3 = k => j3 # end)
      BY <1>6, Zenon
    <3> QED BY <1>10, <2>2, <2>4, <3>1
  <2> QED BY <2>3, <2>4 DEF Once
<1> QED BY <1>8, <1>9, <1>10

\* The first item of line k goes.
Dropped(Q, P, k) ==
  /\ k \in Lines /\ Q[k] # <<>> /\ P[k] = Tail(Q[k])
  /\ \A n \in Lines : n # k => P[n] = Q[n]

LEMMA DropFacts ==
  ASSUME NEW S, NEW Q \in [Lines -> Seq(S)], NEW P \in [Lines -> Seq(S)],
         NEW k, Dropped(Q, P, k), NEW l
  PROVE  /\ Never(Q, l) => Never(P, l)
         /\ Once(Q, l) /\ l \in Q[k][1].instr_depend_on_me => Never(P, l)
         /\ Once(Q, l) /\ l \notin Q[k][1].instr_depend_on_me => Once(P, l)
<1> SUFFICES ASSUME k \in Lines, Q[k] # <<>>, P[k] = Tail(Q[k]),
                    \A n \in Lines : n # k => P[n] = Q[n]
             PROVE  /\ Never(Q, l) => Never(P, l)
                    /\ Once(Q, l) /\ l \in Q[k][1].instr_depend_on_me => Never(P, l)
                    /\ Once(Q, l) /\ l \notin Q[k][1].instr_depend_on_me => Once(P, l)
  BY DEF Dropped
<1> DEFINE Old(n, j) == IF n = k THEN j + 1 ELSE j
           New(n, j) == IF n = k THEN j - 1 ELSE j
<1>1. Q[k] \in Seq(S) /\ Len(Q[k]) \in Nat \ {0} /\ DOMAIN Q[k] = 1..Len(Q[k])
      /\ 1 \in DOMAIN Q[k]
  OBVIOUS
<1>2. /\ DOMAIN P[k] = 1..(Len(Q[k]) - 1)
      /\ \A j \in 1..(Len(Q[k]) - 1) : P[k][j] = Q[k][j + 1]
  BY <1>1
<1>3. ASSUME NEW n \in Lines, NEW j \in DOMAIN P[n]
      PROVE  /\ Old(n, j) \in DOMAIN Q[n] /\ P[n][j] = Q[n][Old(n, j)]
             /\ ~(n = k /\ Old(n, j) = 1) /\ j = New(n, Old(n, j))
  <2>1. CASE n = k BY <2>1, <1>1, <1>2
  <2>2. CASE n # k BY <2>2
  <2> QED BY <2>1, <2>2
<1>4. ASSUME NEW n \in Lines, NEW j \in DOMAIN Q[n], ~(n = k /\ j = 1)
      PROVE  New(n, j) \in DOMAIN P[n] /\ P[n][New(n, j)] = Q[n][j]
  <2>1. CASE n = k
    <3>1. j - 1 \in 1..(Len(Q[k]) - 1) /\ (j - 1) + 1 = j BY <2>1, <1>1, <1>4
    <3> QED BY <2>1, <3>1, <1>2
  <2>2. CASE n # k BY <2>2
  <2> QED BY <2>1, <2>2
<1> HIDE DEF Old, New
<1>5. Never(Q, l) => Never(P, l)
  <2> SUFFICES ASSUME Never(Q, l), NEW n \in Lines, NEW j \in DOMAIN P[n]
               PROVE  l \notin P[n][j].instr_depend_on_me
    BY DEF Never
  <2> QED BY <1>3 DEF Never
<1>6. ASSUME Once(Q, l)
      PROVE  /\ l \in Q[k][1].instr_depend_on_me => Never(P, l)
             /\ l \notin Q[k][1].instr_depend_on_me => Once(P, l)
  <2>1. PICK n \in Lines : \E j \in DOMAIN Q[n] :
               /\ l \in Q[n][j].instr_depend_on_me
               /\ \A k3 \in Lines : \A j3 \in DOMAIN Q[k3] :
                    l \in Q[k3][j3].instr_depend_on_me => k3 = n /\ j3 = j
    BY <1>6 DEF Once
  <2>2. PICK j \in DOMAIN Q[n] :
               /\ l \in Q[n][j].instr_depend_on_me
               /\ \A k3 \in Lines : \A j3 \in DOMAIN Q[k3] :
                    l \in Q[k3][j3].instr_depend_on_me => k3 = n /\ j3 = j
    BY <2>1
  <2>3. ASSUME l \in Q[k][1].instr_depend_on_me PROVE Never(P, l)
    <3>1. n = k /\ j = 1 BY <1>1, <2>2, <2>3
    <3> SUFFICES ASSUME NEW a \in Lines, NEW b \in DOMAIN P[a] PROVE l \notin P[a][b].instr_depend_on_me
      BY DEF Never
    <3> QED BY <1>3, <2>2, <3>1
  <2>4. ASSUME l \notin Q[k][1].instr_depend_on_me PROVE Once(P, l)
    <3>1. ~(n = k /\ j = 1) BY <2>2, <2>4
    <3>2. New(n, j) \in DOMAIN P[n] /\ l \in P[n][New(n, j)].instr_depend_on_me
      BY <1>4, <2>2, <3>1
    <3>3. ASSUME NEW a \in Lines, NEW b \in DOMAIN P[a], l \in P[a][b].instr_depend_on_me
          PROVE  a = n /\ b = New(n, j)
      BY <1>3, <2>2, <3>3
    <3> QED BY <3>2, <3>3 DEF Once
  <2> QED BY <2>3, <2>4
<1> QED BY <1>5, <1>6

LEMMA LinesAre ==
  /\ Uppers \subseteq Lines /\ {MshrLine, FinishedLine, CompletedLine} \subseteq Lines
  /\ MshrLine \notin Uppers /\ FinishedLine \notin Uppers /\ CompletedLine \notin Uppers
  /\ MshrLine # FinishedLine /\ MshrLine # CompletedLine /\ FinishedLine # CompletedLine
  /\ Lines = Uppers \cup {MshrLine, FinishedLine, CompletedLine}
<1>1. NumUppers \in Nat BY PtwAssumption
<1> QED BY <1>1 DEF Uppers, Lines, MshrLine, FinishedLine, CompletedLine

LEMMA LayoutFacts ==
  ASSUME NEW rq, NEW m, NEW f, NEW c
  PROVE  /\ DOMAIN Layout(rq, m, f, c) = Lines
         /\ \A u \in Uppers : Layout(rq, m, f, c)[u] = rq[u]
         /\ Layout(rq, m, f, c)[MshrLine] = m
         /\ Layout(rq, m, f, c)[FinishedLine] = f
         /\ Layout(rq, m, f, c)[CompletedLine] = c
BY LinesAre DEF Layout

Item == Request \cup mshr_type

LEMMA LayoutType ==
  ASSUME NEW rq \in [Uppers -> Seq(Request)],
         NEW m \in Seq(mshr_type), NEW f \in Seq(mshr_type), NEW c \in Seq(mshr_type)
  PROVE  Layout(rq, m, f, c) \in [Lines -> Seq(Item)]
<1>1. m \in Seq(Item) /\ f \in Seq(Item) /\ c \in Seq(Item) BY SeqGrows DEF Item
<1>2. \A u \in Uppers : rq[u] \in Seq(Item) BY SeqGrows DEF Item
<1> QED BY <1>1, <1>2 DEF Layout

LEMMA QueuesType == ASSUME WalkerInv PROVE Queues \in [Lines -> Seq(Item)]
<1>1. AskedWalks \subseteq mshr_type /\ StepWalks \subseteq mshr_type /\ DoneWalks \subseteq mshr_type
  BY DEF AskedWalks, StepWalks, DoneWalks
<1>2. MSHR \in Seq(mshr_type) /\ finished \in Seq(mshr_type) /\ completed \in Seq(mshr_type)
  BY <1>1, SeqGrows DEF WalkerInv, WalksOK
<1>3. RQ \in [Uppers -> Seq(Request)] BY DEF WalkerInv, QueuesOK
<1> QED BY <1>2, <1>3, LayoutType DEF Queues

LEMMA TailIsRemoveAt ==
  ASSUME NEW S, NEW s \in Seq(S), s # <<>>
  PROVE  1 \in DOMAIN s /\ Tail(s) = RemoveAt(s, 1)
<1>1. 1 \in DOMAIN s /\ Len(s) \in Nat \ {0} OBVIOUS
<1>2. /\ RemoveAt(s, 1) \in Seq(S) /\ Len(RemoveAt(s, 1)) = Len(s) - 1
      /\ \A j \in 1..(Len(s) - 1) : RemoveAt(s, 1)[j] = s[IF j < 1 THEN j ELSE j + 1]
  BY <1>1, RemoveAtFacts
<1>3. \A j \in 1..(Len(s) - 1) : ~(j < 1) /\ RemoveAt(s, 1)[j] = s[j + 1] BY <1>1, <1>2
<1>4. Tail(s) \in Seq(S) /\ Len(Tail(s)) = Len(s) - 1
      /\ \A j \in 1..(Len(s) - 1) : Tail(s)[j] = s[j + 1]
  BY <1>1
<1>5. \A j \in 1..Len(Tail(s)) : Tail(s)[j] = RemoveAt(s, 1)[j] BY <1>3, <1>4
<1>6. Len(Tail(s)) = Len(RemoveAt(s, 1)) BY <1>2, <1>4
<1>7. \A a, b \in Seq(S) : Len(a) = Len(b) /\ (\A j \in 1..Len(a) : a[j] = b[j]) => a = b OBVIOUS
<1> QED BY <1>1, <1>2, <1>4, <1>5, <1>6, <1>7

\* The queues after a step, as a value of their own.
LEMMA HeldAfter ==
  ASSUME NEW P, P = Layout(RQ', MSHR', finished', completed'),
         \A l \in Loads : IF waiting'[l] = None THEN Never(P, l) ELSE Once(P, l)
  PROVE  HeldOnce'
<1>1. P = Queues' BY DEF Queues, Layout
<1> QED BY <1>1 DEF HeldOnce, Never, Once

LEMMA TypeAfter ==
  ASSUME WalkerInv', NEW P, P = Layout(RQ', MSHR', finished', completed')
  PROVE  P \in [Lines -> Seq(Item)]
<1>1. AskedWalks' \subseteq mshr_type /\ StepWalks' \subseteq mshr_type /\ DoneWalks' \subseteq mshr_type
  BY DEF AskedWalks, StepWalks, DoneWalks
<1>2. MSHR' \in Seq(AskedWalks') /\ finished' \in Seq(StepWalks') /\ completed' \in Seq(DoneWalks')
  BY DEF WalkerInv, WalksOK
<1>3. MSHR' \in Seq(mshr_type) /\ finished' \in Seq(mshr_type) /\ completed' \in Seq(mshr_type)
  BY <1>1, <1>2, SeqGrows
<1>4. RQ' \in [Uppers -> Seq(Request)] BY DEF WalkerInv, QueuesOK
<1> QED BY <1>3, <1>4, LayoutType

\* A request or walk that moves on still holds its loads.
LEMMA MoveHeld ==
  ASSUME WalkerInv, WalkerInv', HeldOnce, waiting' = waiting,
         NEW P, P = Layout(RQ', MSHR', finished', completed'),
         NEW k, NEW k2, NEW i, NEW y \in Item, Moved(Queues, P, k, i, k2, y)
  PROVE  HeldOnce'
<1>1. Queues \in [Lines -> Seq(Item)] BY QueuesType
<1>2. P \in [Lines -> Seq(Item)] BY TypeAfter
<1>3. \A l : (Never(Queues, l) => Never(P, l)) /\ (Once(Queues, l) => Once(P, l))
  BY <1>1, <1>2, MoveFacts
<1>4. \A l \in Loads : IF waiting'[l] = None THEN Never(P, l) ELSE Once(P, l)
  BY <1>3 DEF HeldOnce
<1> QED BY <1>4, HeldAfter

LEMMA FinishStepPort ==
  ASSUME WalkerInv, WalkerInv', PortInv, NEW i \in DOMAIN MSHR, FinishStep(i) \/ FinishLastStep(i)
  PROVE  PortInv'
<1>1. PICK n : /\ n.instr_depend_on_me = MSHR[i].instr_depend_on_me
               /\ n.to_return = MSHR[i].to_return /\ n.v_address = MSHR[i].v_address
               /\ MSHR' = RemoveAt(MSHR, i) /\ RQ' = RQ /\ waiting' = waiting
               /\ \/ finished' = Append(finished, n) /\ completed' = completed
                  \/ completed' = Append(completed, n) /\ finished' = finished
               /\ n \in mshr_type
  <2>1. MSHR[i] \in mshr_type /\ MSHR \in Seq(AskedWalks) BY DEF WalkerInv, WalksOK, AskedWalks
  <2>2. CASE FinishStep(i)
    <3>1. PICK n : n = [MSHR[i] EXCEPT !.data = get_pte(MSHR[i].v_address, MSHR[i].translation_level),
             !.left = Penalty(PteFaults(Cpu, MSHR[i].v_address, MSHR[i].translation_level))]
      OBVIOUS
    <3>2. /\ n.instr_depend_on_me = MSHR[i].instr_depend_on_me
          /\ n.to_return = MSHR[i].to_return /\ n.v_address = MSHR[i].v_address
      BY <2>1, <3>1 DEF mshr_type
    <3>3. finished' = Append(finished, n) BY <2>2, <3>1 DEF FinishStep
    <3>4. MSHR' = RemoveAt(MSHR, i) /\ RQ' = RQ /\ waiting' = waiting /\ completed' = completed
      BY <2>2 DEF FinishStep, Erased
    <3>5. n \in mshr_type
      <4>1. finished \in Seq(StepWalks) /\ finished' \in Seq(StepWalks')
        BY DEF WalkerInv, WalksOK
      <4>2. finished'[Len(finished) + 1] = n /\ Len(finished) + 1 \in DOMAIN finished'
        BY <3>3, <4>1
      <4>3. n \in StepWalks' BY <4>1, <4>2
      <4> QED BY <4>3 DEF StepWalks
    <3> QED BY <3>2, <3>3, <3>4, <3>5
  <2>3. CASE FinishLastStep(i)
    <3>1. PICK n : n = [MSHR[i] EXCEPT !.data = get_pa(MSHR[i].v_address),
                                      !.left = Penalty(Faults(Cpu, MSHR[i].v_address))]
      OBVIOUS
    <3>2. /\ n.instr_depend_on_me = MSHR[i].instr_depend_on_me
          /\ n.to_return = MSHR[i].to_return /\ n.v_address = MSHR[i].v_address
      BY <2>1, <3>1 DEF mshr_type
    <3>3. completed' = Append(completed, n) BY <2>3, <3>1 DEF FinishLastStep
    <3>4. MSHR' = RemoveAt(MSHR, i) /\ RQ' = RQ /\ waiting' = waiting /\ finished' = finished
      BY <2>3 DEF FinishLastStep, Erased
    <3>5. n \in mshr_type
      <4>1. completed \in Seq(DoneWalks) /\ completed' \in Seq(DoneWalks')
        BY DEF WalkerInv, WalksOK
      <4>2. completed'[Len(completed) + 1] = n /\ Len(completed) + 1 \in DOMAIN completed'
        BY <3>3, <4>1
      <4>3. n \in DoneWalks' BY <4>1, <4>2
      <4> QED BY <4>3 DEF DoneWalks
    <3> QED BY <3>2, <3>3, <3>4, <3>5
  <2> QED BY <2>2, <2>3
<1>2. PICK P : P = Layout(RQ', MSHR', finished', completed') OBVIOUS
<1>3. HeldOnce'
  <2>1. /\ Queues[MshrLine] = MSHR /\ P[MshrLine] = MSHR'
        /\ Queues[FinishedLine] = finished /\ P[FinishedLine] = finished'
        /\ Queues[CompletedLine] = completed /\ P[CompletedLine] = completed'
        /\ \A u \in Uppers : Queues[u] = RQ[u] /\ P[u] = RQ'[u]
    BY <1>2, LayoutFacts DEF Queues
  <2>2. n \in Item BY <1>1 DEF Item
  <2>3. CASE finished' = Append(finished, n) /\ completed' = completed
    <3>1. \A k \in Lines : k # MshrLine /\ k # FinishedLine => P[k] = Queues[k]
      BY <1>1, <2>1, <2>3, LinesAre
    <3>2. Moved(Queues, P, MshrLine, i, FinishedLine, n)
      BY <1>1, <2>1, <2>3, <3>1, LinesAre DEF Moved
    <3> QED BY <1>1, <1>2, <2>2, <3>2, MoveHeld DEF PortInv
  <2>4. CASE completed' = Append(completed, n) /\ finished' = finished
    <3>1. \A k \in Lines : k # MshrLine /\ k # CompletedLine => P[k] = Queues[k]
      BY <1>1, <2>1, <2>4, LinesAre
    <3>2. Moved(Queues, P, MshrLine, i, CompletedLine, n)
      BY <1>1, <2>1, <2>4, <3>1, LinesAre DEF Moved
    <3> QED BY <1>1, <1>2, <2>2, <3>2, MoveHeld DEF PortInv
  <2> QED BY <1>1, <2>3, <2>4
<1>4. RequestsServe' BY <1>1 DEF PortInv, RequestsServe
<1>5. WalksServe'
  <2>1. PICK S : S = {m \in mshr_type : Serves(m)} OBVIOUS
  <2>2. MSHR \in Seq(S) /\ finished \in Seq(S) /\ completed \in Seq(S)
    BY <2>1 DEF PortInv, WalksServe, WalkerInv, WalksOK, AskedWalks, StepWalks, DoneWalks
  <2>3. n \in S BY <1>1, <2>1, <2>2 DEF Serves
  <2>4. MSHR' \in Seq(S) BY <1>1, <2>2, RemoveAtFacts
  <2>5. finished' \in Seq(S) /\ completed' \in Seq(S)
    <3>1. Append(finished, n) \in Seq(S) /\ Append(completed, n) \in Seq(S) BY <2>2, <2>3
    <3> QED BY <1>1, <2>2, <3>1
  <2>6. \A m \in S : Serves(m)' BY <1>1, <2>1 DEF Serves
  <2> QED BY <2>4, <2>5, <2>6 DEF WalksServe
<1> QED BY <1>3, <1>4, <1>5 DEF PortInv

LEMMA LinesNow ==
  ASSUME NEW P, P = Layout(RQ', MSHR', finished', completed')
  PROVE  /\ Queues[MshrLine] = MSHR /\ P[MshrLine] = MSHR'
         /\ Queues[FinishedLine] = finished /\ P[FinishedLine] = finished'
         /\ Queues[CompletedLine] = completed /\ P[CompletedLine] = completed'
         /\ \A u \in Uppers : Queues[u] = RQ[u] /\ P[u] = RQ'[u]
BY LayoutFacts DEF Queues

\* A new request: its load is new, and waits for what it asks for.
LEMMA ArrivePort ==
  ASSUME WalkerInv, WalkerInv', PortInv, Arrive
  PROVE  PortInv'
<1>1. PICK u \in Uppers, v \in Addresses : AddRqNoResponse(u, v) \/ \E l \in Loads : AddRq(u, l, v)
  BY DEF Arrive
<1>2. PICK P : P = Layout(RQ', MSHR', finished', completed') OBVIOUS
<1>3. Queues \in [Lines -> Seq(Item)] /\ P \in [Lines -> Seq(Item)]
  BY <1>2, QueuesType, TypeAfter
<1>4. RQ \in [Uppers -> Seq(Request)] BY DEF WalkerInv, QueuesOK
<1>5. ASSUME NEW y \in Request, RQ' = [RQ EXCEPT ![u] = Append(@, y)], UNCHANGED walks
      PROVE  Added(Queues, P, u, y)
  <2>1. MSHR' = MSHR /\ finished' = finished /\ completed' = completed BY <1>5 DEF walks
  <2>2. RQ'[u] = Append(RQ[u], y) /\ \A w \in Uppers : w # u => RQ'[w] = RQ[w] BY <1>4, <1>5
  <2>3. P[u] = Append(Queues[u], y) BY <1>2, <2>2, LinesNow
  <2>4. \A n \in Lines : n # u => P[n] = Queues[n] BY <1>2, <2>1, <2>2, LinesAre, LinesNow
  <2> QED BY <2>3, <2>4, LinesAre DEF Added
<1>6. CASE AddRqNoResponse(u, v)
  <2>1. PICK y : y = [v_address |-> v, response_requested |-> FALSE, instr_depend_on_me |-> {}]
    OBVIOUS
  <2>2. y \in Request /\ y.instr_depend_on_me = {} BY <2>1 DEF Request
  <2>3. /\ RQ' = [RQ EXCEPT ![u] = Append(@, y)] /\ UNCHANGED walks /\ waiting' = waiting
    BY <1>6, <2>1 DEF AddRqNoResponse, Add
  <2>4. y \in Item /\ Added(Queues, P, u, y) BY <1>5, <2>2, <2>3 DEF Item
  <2>5. HeldOnce'
    <3>1. \A l : (Never(Queues, l) => Never(P, l)) /\ (Once(Queues, l) => Once(P, l))
      BY <1>3, <2>2, <2>4, AddFacts
    <3>2. \A l \in Loads : IF waiting'[l] = None THEN Never(P, l) ELSE Once(P, l)
      BY <2>3, <3>1 DEF PortInv, HeldOnce
    <3> QED BY <1>2, <3>2, HeldAfter
  <2>6. RequestsServe'
    <3>1. ASSUME NEW w \in Uppers, NEW i \in DOMAIN RQ'[w]
          PROVE  \/ RQ'[w][i].instr_depend_on_me = {}
                 \/ i \in DOMAIN RQ[w] /\ RQ'[w][i] = RQ[w][i]
      <4>1. CASE w # u BY <1>4, <2>3, <4>1
      <4>2. CASE w = u
        <5>1. RQ'[w] = Append(RQ[w], y) /\ RQ[w] \in Seq(Request) BY <1>4, <2>3, <4>2
        <5> QED BY <2>2, <5>1, AppendAt
      <4> QED BY <4>1, <4>2
    <3>2. RequestsServe BY DEF PortInv
    <3> QED BY <2>3, <3>1, <3>2 DEF RequestsServe
  <2>7. WalksServe' BY <2>3 DEF PortInv, WalksServe, Serves, walks
  <2> QED BY <2>5, <2>6, <2>7 DEF PortInv
<1>7. ASSUME NEW l \in Loads, AddRq(u, l, v) PROVE PortInv'
  <2>1. PICK y : y = [v_address |-> v, response_requested |-> TRUE, instr_depend_on_me |-> {l}]
    OBVIOUS
  <2>2. y \in Request /\ y.instr_depend_on_me = {l} /\ y.v_address = v /\ y.response_requested
    BY <2>1 DEF Request
  <2>3. /\ RQ' = [RQ EXCEPT ![u] = Append(@, y)] /\ UNCHANGED walks
        /\ waiting[l] = None /\ waiting' = [waiting EXCEPT ![l] = [upper |-> u, v_address |-> v]]
    BY <1>7, <2>1 DEF AddRq, Add
  <2>4. y \in Item /\ Added(Queues, P, u, y) BY <1>5, <2>2, <2>3 DEF Item
  <2>5. PICK w0 : w0 = [upper |-> u, v_address |-> v] OBVIOUS
  <2>6. w0 \in Wanted /\ w0 # None BY <2>5, PtwAssumption DEF Wanted
  <2>7. waiting'[l] = w0 /\ \A k \in Loads : k # l => waiting'[k] = waiting[k]
    BY <2>3, <2>5 DEF WalkerInv, QueuesOK
  <2>8. Never(Queues, l) BY <2>3 DEF PortInv, HeldOnce
  <2>9. HeldOnce'
    <3>1. ASSUME NEW k
          PROVE  /\ Never(Queues, k) /\ k # l => Never(P, k)
                 /\ Never(Queues, k) /\ k = l => Once(P, k)
                 /\ Once(Queues, k) /\ k # l => Once(P, k)
      BY <1>3, <2>2, <2>4, AddFacts
    <3>2. \A k \in Loads : IF waiting'[k] = None THEN Never(P, k) ELSE Once(P, k)
      BY <2>6, <2>7, <2>8, <3>1 DEF PortInv, HeldOnce
    <3> QED BY <1>2, <3>2, HeldAfter
  <2>10. RequestsServe'
    <3>1. ASSUME NEW w \in Uppers, NEW i \in DOMAIN RQ'[w]
          PROVE  \/ w = u /\ RQ'[w][i] = y
                 \/ i \in DOMAIN RQ[w] /\ RQ'[w][i] = RQ[w][i]
      <4>1. CASE w # u BY <1>4, <2>3, <4>1
      <4>2. CASE w = u
        <5>1. RQ'[w] = Append(RQ[w], y) /\ RQ[w] \in Seq(Request) BY <1>4, <2>3, <4>2
        <5> QED BY <4>2, <5>1, AppendAt
      <4> QED BY <4>1, <4>2
    <3>2. ASSUME NEW w \in Uppers, NEW i \in DOMAIN RQ[w], NEW k \in RQ[w][i].instr_depend_on_me
          PROVE  k \in Loads /\ k # l
      <4>1. RQ[w][i] \in Request BY <1>4
      <4>2. Queues[w][i] = RQ[w][i] /\ i \in DOMAIN Queues[w] /\ w \in Lines
        BY <1>2, LinesNow, LinesAre
      <4> QED BY <2>8, <4>1, <4>2 DEF Request, Never
    <3> SUFFICES ASSUME NEW w \in Uppers, NEW i \in DOMAIN RQ'[w],
                        NEW k \in RQ'[w][i].instr_depend_on_me
                 PROVE  /\ RQ'[w][i].response_requested
                        /\ waiting'[k] = [upper |-> w, v_address |-> RQ'[w][i].v_address]
      BY DEF RequestsServe
    <3>3. CASE w = u /\ RQ'[w][i] = y BY <2>2, <2>5, <2>7, <3>3
    <3>4. CASE i \in DOMAIN RQ[w] /\ RQ'[w][i] = RQ[w][i]
      <4>1. k \in Loads /\ waiting'[k] = waiting[k] BY <2>7, <3>2, <3>4
      <4>2. /\ RQ[w][i].response_requested
            /\ waiting[k] = [upper |-> w, v_address |-> RQ[w][i].v_address]
        BY <3>4 DEF PortInv, RequestsServe
      <4> QED BY <3>4, <4>1, <4>2
    <3> QED BY <3>1, <3>3, <3>4
  <2>11. WalksServe'
    <3>1. \A k \in {MshrLine, FinishedLine, CompletedLine} : \A i \in DOMAIN Queues[k] :
            l \notin Queues[k][i].instr_depend_on_me
      BY <2>8, LinesAre DEF Never
    <3>2. MSHR' = MSHR /\ finished' = finished /\ completed' = completed BY <2>3 DEF walks
    <3>3. ASSUME NEW m \in mshr_type, Serves(m), l \notin m.instr_depend_on_me PROVE Serves(m)'
      BY <2>7, <3>3 DEF Serves, mshr_type
    <3>4. MSHR \in Seq(mshr_type) /\ finished \in Seq(mshr_type) /\ completed \in Seq(mshr_type)
      BY DEF WalkerInv, WalksOK, AskedWalks, StepWalks, DoneWalks
    <3>5. /\ \A i \in DOMAIN MSHR : l \notin MSHR[i].instr_depend_on_me
          /\ \A i \in DOMAIN finished : l \notin finished[i].instr_depend_on_me
          /\ \A i \in DOMAIN completed : l \notin completed[i].instr_depend_on_me
      BY <1>2, <3>1, LinesNow
    <3>6. PICK S : S = {m \in mshr_type : Serves(m) /\ l \notin m.instr_depend_on_me} OBVIOUS
    <3>7. MSHR \in Seq(S) /\ finished \in Seq(S) /\ completed \in Seq(S)
      <4>1. /\ \A i \in DOMAIN MSHR : MSHR[i] \in S
            /\ \A i \in DOMAIN finished : finished[i] \in S
            /\ \A i \in DOMAIN completed : completed[i] \in S
        BY <3>4, <3>5, <3>6 DEF PortInv, WalksServe
      <4> QED BY <3>4, <4>1
    <3>8. \A m \in S : Serves(m)' BY <3>3, <3>6
    <3> QED BY <3>2, <3>7, <3>8 DEF WalksServe
  <2> QED BY <2>9, <2>10, <2>11 DEF PortInv
<1> QED BY <1>1, <1>6, <1>7

\* A walk that is over is answered: all it holds is waited for, and held nowhere
\* else.
LEMMA CompletePort ==
  ASSUME WalkerInv, WalkerInv', PortInv, Complete
  PROVE  PortInv'
<1>1. PICK P : P = Layout(RQ', MSHR', finished', completed') OBVIOUS
<1>2. Queues \in [Lines -> Seq(Item)] /\ P \in [Lines -> Seq(Item)]
  BY <1>1, QueuesType, TypeAfter
<1>3. /\ completed # <<>> /\ completed' = Tail(completed)
      /\ RQ' = RQ /\ MSHR' = MSHR /\ finished' = finished
  BY DEF Complete, Due
<1>4. completed \in Seq(mshr_type) /\ MSHR \in Seq(mshr_type) /\ finished \in Seq(mshr_type)
      /\ RQ \in [Uppers -> Seq(Request)]
  BY DEF WalkerInv, WalksOK, QueuesOK, AskedWalks, StepWalks, DoneWalks
<1>5. PICK m : m = completed[1] OBVIOUS
<1>6. m \in mshr_type /\ Serves(m) BY <1>3, <1>4, <1>5 DEF PortInv, WalksServe
<1>7. Dropped(Queues, P, CompletedLine)
  <2>1. \A n \in Lines : n # CompletedLine => P[n] = Queues[n] BY <1>1, <1>3, LinesAre, LinesNow
  <2> QED BY <1>1, <1>3, <2>1, LinesAre, LinesNow DEF Dropped
<1>8. ASSUME NEW l
      PROVE  /\ Never(Queues, l) => Never(P, l)
             /\ Once(Queues, l) /\ l \in m.instr_depend_on_me => Never(P, l)
             /\ Once(Queues, l) /\ l \notin m.instr_depend_on_me => Once(P, l)
  <2>1. Queues[CompletedLine][1] = m BY <1>1, <1>5, LinesNow
  <2> QED BY <1>2, <1>7, <2>1, DropFacts
<1>9. ASSUME NEW l \in Loads
      PROVE  /\ l \in m.instr_depend_on_me => waiting[l] # None /\ waiting'[l] = None
             /\ l \notin m.instr_depend_on_me => waiting'[l] = waiting[l]
  <2>1. waiting'[l] = IF /\ l \in m.instr_depend_on_me /\ waiting[l] # None
                         /\ waiting[l].upper \in m.to_return
                      THEN None ELSE waiting[l]
    BY <1>5 DEF Complete
  <2>2. l \in m.instr_depend_on_me => waiting[l] # None /\ waiting[l].upper \in m.to_return
    BY <1>6, PtwAssumption DEF Serves, Wanted
  <2> QED BY <2>1, <2>2
<1>10. \A l \in Loads : IF waiting'[l] = None THEN Never(P, l) ELSE Once(P, l)
  BY <1>8, <1>9 DEF PortInv, HeldOnce
<1>11. HeldOnce' BY <1>1, <1>10, HeldAfter
<1>12. ASSUME NEW l \in m.instr_depend_on_me PROVE Never(P, l)
  <2>1. l \in Loads BY <1>6 DEF mshr_type
  <2> QED BY <1>9, <1>10, <2>1
<1>13. RequestsServe'
  <2> SUFFICES ASSUME NEW w \in Uppers, NEW i \in DOMAIN RQ[w], NEW l \in RQ[w][i].instr_depend_on_me
               PROVE  /\ RQ[w][i].response_requested
                      /\ waiting'[l] = [upper |-> w, v_address |-> RQ[w][i].v_address]
    BY <1>3 DEF RequestsServe
  <2>1. RQ[w][i] \in Request BY <1>4
  <2>2. l \in Loads BY <2>1 DEF Request
  <2>3. P[w] = RQ[w] /\ w \in Lines BY <1>1, <1>3, LinesNow, LinesAre
  <2>4. l \notin m.instr_depend_on_me BY <1>12, <2>3 DEF Never
  <2> QED BY <1>9, <2>2, <2>4 DEF PortInv, RequestsServe
<1>14. WalksServe'
  <2>1. ASSUME NEW n \in mshr_type, Serves(n), \A l \in n.instr_depend_on_me : ~Never(P, l)
        PROVE  Serves(n)'
    <3>1. ASSUME NEW l \in n.instr_depend_on_me PROVE l \in Loads /\ waiting'[l] = waiting[l]
      <4>1. l \in Loads BY DEF mshr_type
      <4> QED BY <1>9, <1>12, <2>1, <4>1
    <3> QED BY <2>1, <3>1 DEF Serves
  <2>2. PICK S : S = {n \in mshr_type : Serves(n) /\ \A l \in n.instr_depend_on_me : ~Never(P, l)}
    OBVIOUS
  <2>3. ASSUME NEW k \in {MshrLine, FinishedLine, CompletedLine}, NEW i \in DOMAIN P[k]
        PROVE  \A l \in P[k][i].instr_depend_on_me : ~Never(P, l)
    BY LinesAre DEF Never
  <2>4. MSHR \in Seq(S) /\ finished \in Seq(S)
    <3>1. /\ \A i \in DOMAIN MSHR : \A l \in MSHR[i].instr_depend_on_me : ~Never(P, l)
          /\ \A i \in DOMAIN finished : \A l \in finished[i].instr_depend_on_me : ~Never(P, l)
      BY <1>1, <1>3, <2>3, LinesNow
    <3>2. /\ \A i \in DOMAIN MSHR : MSHR[i] \in S
          /\ \A i \in DOMAIN finished : finished[i] \in S
      BY <1>4, <2>2, <3>1 DEF PortInv, WalksServe
    <3> QED BY <1>4, <3>2
  <2>5. completed' \in Seq(S)
    <3>1. completed' \in Seq(mshr_type) BY <1>3, <1>4
    <3>2. \A i \in DOMAIN completed' : completed'[i] \in mshr_type /\ Serves(completed'[i])
      BY <1>3, <1>4 DEF PortInv, WalksServe
    <3>3. \A i \in DOMAIN completed' : \A l \in completed'[i].instr_depend_on_me : ~Never(P, l)
      BY <1>1, <2>3, LinesNow
    <3>4. \A i \in DOMAIN completed' : completed'[i] \in S BY <2>2, <3>2, <3>3
    <3> QED BY <3>1, <3>4
  <2>6. \A n \in S : Serves(n)' BY <2>1, <2>2
  <2> QED BY <1>3, <2>4, <2>5, <2>6 DEF WalksServe
<1> QED BY <1>11, <1>13, <1>14 DEF PortInv

\* A step that is over goes back to MSHR for the next one.
LEMMA FillPort ==
  ASSUME WalkerInv, WalkerInv', PortInv, Fill
  PROVE  PortInv'
<1>1. PICK P : P = Layout(RQ', MSHR', finished', completed') OBVIOUS
<1>2. MSHR \in Seq(mshr_type) /\ finished \in Seq(StepWalks) /\ completed \in Seq(mshr_type)
  BY DEF WalkerInv, WalksOK, AskedWalks, StepWalks, DoneWalks
<1>3. finished # <<>> /\ finished' = Tail(finished) /\ UNCHANGED <<RQ, completed, waiting>>
  BY DEF Fill, Filling, Due
<1>4. PICK y : y = [finished[1] EXCEPT !.address = finished[1].data,
                                      !.translation_level = NextLevel(finished[1])]
  OBVIOUS
<1>5. MSHR' = Append(MSHR, y) BY <1>4 DEF Fill, Ask
<1>6. finished[1] \in StepWalks /\ finished[1] \in mshr_type BY <1>2, <1>3 DEF StepWalks
<1>7. y \in mshr_type BY <1>4, <1>6, NextWalkType
<1>8. /\ y.instr_depend_on_me = finished[1].instr_depend_on_me
      /\ y.to_return = finished[1].to_return /\ y.v_address = finished[1].v_address
  BY <1>4, <1>6 DEF mshr_type
<1>9. HeldOnce'
  <2>1. 1 \in DOMAIN finished /\ finished' = RemoveAt(finished, 1) BY <1>2, <1>3, TailIsRemoveAt
  <2>2. \A n \in Lines : n # FinishedLine /\ n # MshrLine => P[n] = Queues[n]
    BY <1>1, <1>3, LinesAre, LinesNow
  <2>3. Moved(Queues, P, FinishedLine, 1, MshrLine, y)
    BY <1>1, <1>5, <1>8, <2>1, <2>2, LinesAre, LinesNow DEF Moved
  <2>4. y \in Item BY <1>7 DEF Item
  <2> QED BY <1>1, <1>3, <2>3, <2>4, MoveHeld DEF PortInv
<1>10. RequestsServe' BY <1>3 DEF PortInv, RequestsServe
<1>11. WalksServe'
  <2>1. PICK S : S = {m \in mshr_type : Serves(m)} OBVIOUS
  <2>2. finished \in Seq(mshr_type) BY <1>2 DEF StepWalks
  <2>3. MSHR \in Seq(S) /\ finished \in Seq(S) /\ completed \in Seq(S)
    BY <1>2, <2>1, <2>2 DEF PortInv, WalksServe
  <2>4. y \in S
    <3>1. finished[1] \in S BY <1>3, <2>3
    <3> QED BY <1>7, <1>8, <2>1, <3>1 DEF Serves
  <2>5. MSHR' \in Seq(S) /\ finished' \in Seq(S) /\ completed' \in Seq(S)
    BY <1>3, <1>5, <2>3, <2>4
  <2>6. \A m \in S : Serves(m)' BY <1>3, <2>1 DEF Serves
  <2> QED BY <2>5, <2>6 DEF WalksServe
<1> QED BY <1>9, <1>10, <1>11 DEF PortInv

\* A request becomes a walk of the upper level that sent it.
LEMMA ReadPort ==
  ASSUME WalkerInv, WalkerInv', PortInv, Read
  PROVE  PortInv'
<1>1. PICK P : P = Layout(RQ', MSHR', finished', completed') OBVIOUS
<1>2. /\ MSHR \in Seq(mshr_type) /\ finished \in Seq(mshr_type) /\ completed \in Seq(mshr_type)
      /\ RQ \in [Uppers -> Seq(Request)]
  BY DEF WalkerInv, WalksOK, QueuesOK, AskedWalks, StepWalks, DoneWalks
<1>3. /\ ul \in Uppers /\ RQ[ul] # <<>> /\ RQ' = [RQ EXCEPT ![ul] = Tail(@)]
      /\ UNCHANGED <<finished, completed, waiting>>
  BY DEF Read, Reading
<1>4. RQ[ul] \in Seq(Request) /\ RQ[ul][1] \in Request /\ 1 \in DOMAIN RQ[ul] BY <1>2, <1>3
<1>5. PICK r \in Request : r = RQ[ul][1] BY <1>4
<1>6. PICK y : y = NewWalk(r) OBVIOUS
<1>7. y \in mshr_type BY <1>3, <1>6, NewWalkType
<1>8. MSHR' = Append(MSHR, y) BY <1>5, <1>6 DEF Read, Ask
<1>9. /\ y.instr_depend_on_me = r.instr_depend_on_me
      /\ y.to_return = ReturnTo(r) /\ y.v_address = r.v_address
  BY <1>6 DEF NewWalk
<1>10. RQ'[ul] = Tail(RQ[ul]) /\ \A w \in Uppers : w # ul => RQ'[w] = RQ[w] BY <1>2, <1>3
<1>11. HeldOnce'
  <2>1. Tail(RQ[ul]) = RemoveAt(RQ[ul], 1) BY <1>3, <1>4, TailIsRemoveAt
  <2>2. \A n \in Lines : n # ul /\ n # MshrLine => P[n] = Queues[n]
    BY <1>1, <1>3, <1>10, LinesAre, LinesNow, ZenonT(40)
  <2>3. PICK u \in Uppers : u = ul BY <1>3
  <2>4. P[u] = RemoveAt(Queues[u], 1) /\ 1 \in DOMAIN Queues[u] /\ Queues[u][1] = r
    BY <1>1, <1>4, <1>5, <1>10, <2>1, <2>3, LinesNow
  <2>5. Moved(Queues, P, u, 1, MshrLine, y)
    BY <1>1, <1>8, <1>9, <2>2, <2>3, <2>4, LinesAre, LinesNow DEF Moved
  <2>6. y \in Item BY <1>7 DEF Item
  <2> QED BY <1>1, <1>3, <2>5, <2>6, MoveHeld DEF PortInv
<1>12. RequestsServe'
  <2> SUFFICES ASSUME NEW w \in Uppers, NEW i \in DOMAIN RQ'[w], NEW l \in RQ'[w][i].instr_depend_on_me
               PROVE  /\ RQ'[w][i].response_requested
                      /\ waiting[l] = [upper |-> w, v_address |-> RQ'[w][i].v_address]
    BY <1>3 DEF RequestsServe
  <2>1. PICK j \in DOMAIN RQ[w] : RQ'[w][i] = RQ[w][j]
    <3>1. CASE w # ul BY <1>10, <3>1
    <3>2. CASE w = ul
      <4>1. RQ'[w] = Tail(RQ[w]) /\ RQ[w] \in Seq(Request) /\ RQ[w] # <<>>
        BY <1>3, <1>4, <1>10, <3>2
      <4>2. i + 1 \in DOMAIN RQ[w] /\ RQ'[w][i] = RQ[w][i + 1] BY <4>1
      <4> QED BY <4>2
    <3> QED BY <3>1, <3>2
  <2> QED BY <2>1 DEF PortInv, RequestsServe
<1>13. WalksServe'
  <2>1. PICK S : S = {m \in mshr_type : Serves(m)} OBVIOUS
  <2>2. MSHR \in Seq(S) /\ finished \in Seq(S) /\ completed \in Seq(S)
    BY <1>2, <2>1 DEF PortInv, WalksServe
  <2>3. y \in S
    <3> SUFFICES ASSUME NEW l \in y.instr_depend_on_me
                 PROVE  /\ waiting[l] \in Wanted /\ waiting[l].upper \in y.to_return
                        /\ y.v_address = waiting[l].v_address
      BY <1>7, <2>1 DEF Serves
    <3>1. r.response_requested /\ waiting[l] = [upper |-> ul, v_address |-> r.v_address]
      BY <1>3, <1>4, <1>5, <1>9 DEF PortInv, RequestsServe
    <3>2. y.to_return = {ul} BY <1>9, <3>1 DEF ReturnTo
    <3>3. r.v_address \in Addresses BY DEF Request
    <3>4. waiting[l] \in Wanted BY <1>3, <3>1, <3>3 DEF Wanted
    <3> QED BY <1>9, <3>1, <3>2, <3>4
  <2>4. MSHR' \in Seq(S) /\ finished' \in Seq(S) /\ completed' \in Seq(S)
    BY <1>3, <1>8, <2>2, <2>3
  <2>5. \A m \in S : Serves(m)' BY <1>3, <2>1 DEF Serves
  <2> QED BY <2>4, <2>5 DEF WalksServe
<1> QED BY <1>11, <1>12, <1>13 DEF PortInv

LEMMA TickPort ==
  ASSUME WalkerInv, PortInv, Tick
  PROVE  PortInv'
<1>1. PICK P : P = Layout(RQ', MSHR', finished', completed') OBVIOUS
<1>2. /\ finished' = Sooner(finished) /\ completed' = Sooner(completed)
      /\ RQ' = RQ /\ MSHR' = MSHR /\ waiting' = waiting
  BY DEF Tick
<1>3. finished \in Seq(mshr_type) /\ completed \in Seq(mshr_type)
  BY DEF WalkerInv, WalksOK, StepWalks, DoneWalks
<1>4. ASSUME NEW q \in Seq(mshr_type)
      PROVE  /\ DOMAIN Sooner(q) = DOMAIN q
             /\ \A i \in DOMAIN q : /\ Sooner(q)[i].instr_depend_on_me = q[i].instr_depend_on_me
                                    /\ Sooner(q)[i].to_return = q[i].to_return
                                    /\ Sooner(q)[i].v_address = q[i].v_address
  <2> DEFINE Next1(m) == [m EXCEPT !.left = IF @ > 0 THEN @ - 1 ELSE 0]
  <2>1. \A m \in mshr_type : /\ Next1(m).instr_depend_on_me = m.instr_depend_on_me
                             /\ Next1(m).to_return = m.to_return /\ Next1(m).v_address = m.v_address
    BY DEF mshr_type
  <2>2. Sooner(q) = [i \in DOMAIN q |-> Next1(q[i])] BY DEF Sooner
  <2> HIDE DEF Next1
  <2> QED BY <2>1, <2>2
<1>5. ASSUME NEW n \in Lines
      PROVE  /\ DOMAIN P[n] = DOMAIN Queues[n]
             /\ \A i \in DOMAIN P[n] : P[n][i].instr_depend_on_me = Queues[n][i].instr_depend_on_me
  BY <1>1, <1>2, <1>3, <1>4, LinesAre, LinesNow
<1>6. \A l : (Never(Queues, l) => Never(P, l)) /\ (Once(Queues, l) => Once(P, l))
  <2> SUFFICES ASSUME NEW l
               PROVE  (Never(Queues, l) => Never(P, l)) /\ (Once(Queues, l) => Once(P, l))
    OBVIOUS
  <2>1. Never(Queues, l) => Never(P, l) BY <1>5 DEF Never
  <2>2. ASSUME Once(Queues, l) PROVE Once(P, l)
    <3>1. PICK n \in Lines : \E j \in DOMAIN Queues[n] :
                 /\ l \in Queues[n][j].instr_depend_on_me
                 /\ \A k3 \in Lines : \A j3 \in DOMAIN Queues[k3] :
                      l \in Queues[k3][j3].instr_depend_on_me => k3 = n /\ j3 = j
      BY <2>2 DEF Once
    <3>2. PICK j \in DOMAIN Queues[n] :
                 /\ l \in Queues[n][j].instr_depend_on_me
                 /\ \A k3 \in Lines : \A j3 \in DOMAIN Queues[k3] :
                      l \in Queues[k3][j3].instr_depend_on_me => k3 = n /\ j3 = j
      BY <3>1
    <3>3. j \in DOMAIN P[n] /\ l \in P[n][j].instr_depend_on_me BY <1>5, <3>2
    <3>4. ASSUME NEW k3 \in Lines, NEW j3 \in DOMAIN P[k3], l \in P[k3][j3].instr_depend_on_me
          PROVE  k3 = n /\ j3 = j
      BY <1>5, <3>2, <3>4
    <3> QED BY <3>3, <3>4 DEF Once
  <2> QED BY <2>1, <2>2
<1>7. HeldOnce'
  <2>1. \A l \in Loads : IF waiting'[l] = None THEN Never(P, l) ELSE Once(P, l)
    BY <1>2, <1>6 DEF PortInv, HeldOnce
  <2> QED BY <1>1, <2>1, HeldAfter
<1>8. RequestsServe' BY <1>2 DEF PortInv, RequestsServe
<1>9. WalksServe' BY <1>2, <1>3, <1>4 DEF PortInv, WalksServe, Serves
<1> QED BY <1>7, <1>8, <1>9 DEF PortInv

LEMMA PortInitially == Init => PortInv
<1> SUFFICES ASSUME Init PROVE PortInv OBVIOUS
<1>1. /\ \A u \in Uppers : RQ[u] = <<>> /\ Queues[u] = <<>>
      /\ MSHR = <<>> /\ finished = <<>> /\ completed = <<>>
      /\ \A l \in Loads : waiting[l] = None
  BY LayoutFacts DEF Init, Queues
<1>2. \A n \in Lines : Queues[n] = <<>> BY <1>1, LinesAre, LayoutFacts DEF Queues
<1> QED BY <1>1, <1>2 DEF PortInv, HeldOnce, Never, RequestsServe, WalksServe

LEMMA PortKeeps ==
  ASSUME WalkerInv, WalkerInv', PortInv, [Next]_vars
  PROVE  PortInv'
<1>1. CASE UNCHANGED <<RQ, walks, waiting>>
  BY <1>1 DEF walks, PortInv, HeldOnce, Queues, Layout, Never, Once, RequestsServe, WalksServe, Serves
<1>2. CASE Arrive BY <1>2, ArrivePort
<1>3. CASE \E i \in DOMAIN MSHR : FinishStep(i) \/ FinishLastStep(i) BY <1>3, FinishStepPort
<1>4. CASE Complete BY <1>4, CompletePort
<1>5. CASE Fill BY <1>5, FillPort
<1>6. CASE Read BY <1>6, ReadPort
<1>7. CASE Tick BY <1>7, TickPort
<1>8. CASE LowerLevel BY <1>1, <1>8 DEF LowerLevel, LowerAnswers
<1>9. CASE OtherCores BY <1>1, <1>9 DEF OtherCores, OtherCore
<1>10. CASE Construct \/ EndWarmup \/ StartCycle \/ EndFinish \/ PacketDone \/ EndComplete
  BY <1>1, <1>10 DEF Construct, EndWarmup, StartCycle, EndFinish, PacketDone, EndComplete
<1>11. CASE FillRefused \/ EndFill \/ ReadRefused \/ NextUpper
  BY <1>1, <1>11 DEF FillRefused, EndFill, ReadRefused, NextUpper
<1>12. CASE UNCHANGED vars BY <1>1, <1>12 DEF vars
<1> QED BY <1>2, <1>3, <1>4, <1>5, <1>6, <1>7, <1>8, <1>9, <1>10, <1>11, <1>12 DEF Next, Operate

\* A set of places is counted as none only when it is empty.
LEMMA CountPlaces ==
  ASSUME NEW S, NEW q \in Seq(S), NEW T \in SUBSET (DOMAIN q)
  PROVE  Cardinality(T) \in Nat /\ (Cardinality(T) > 0 <=> T # {})
<1>1. DOMAIN q = 1..Len(q) /\ Len(q) \in Nat OBVIOUS
<1>2. IsFiniteSet(1..Len(q)) BY <1>1, FS_Interval
<1>3. IsFiniteSet(T) BY <1>1, <1>2, FS_Subset
<1>4. Cardinality(T) \in Nat BY <1>3, FS_CardinalityType
<1>5. Cardinality(T) = 0 <=> T = {} BY <1>3, FS_EmptySet
<1> QED BY <1>4, <1>5

\* What the walker remembers of a load is what the load waits for.
HeldIsWaiting == Held = waiting
LEMMA HoldsWhatIsWaited == ASSUME WalkerInv, PortInv PROVE HeldIsWaiting
<1>1. waiting \in [Loads -> Wanted \cup {None}] BY DEF WalkerInv, QueuesOK
<1>2. /\ MSHR \in Seq(mshr_type) /\ finished \in Seq(mshr_type) /\ completed \in Seq(mshr_type)
      /\ RQ \in [Uppers -> Seq(Request)]
  BY DEF WalkerInv, WalksOK, QueuesOK, AskedWalks, StepWalks, DoneWalks
<1>3. ASSUME NEW l, NEW w \in Wanted
      PROVE  /\ Queued(RQ[w.upper], l, w) \in Nat
             /\ Queued(RQ[w.upper], l, w) > 0 <=>
                  \E i \in DOMAIN RQ[w.upper] :
                     /\ l \in RQ[w.upper][i].instr_depend_on_me /\ RQ[w.upper][i].response_requested
                     /\ RQ[w.upper][i].v_address = w.v_address
  <2> DEFINE q == RQ[w.upper]
             T == {i \in Has(q, l) : q[i].response_requested /\ q[i].v_address = w.v_address}
  <2>1. w.upper \in Uppers BY DEF Wanted
  <2>2. q \in Seq(Request) BY <1>2, <2>1
  <2>3. T \in SUBSET (DOMAIN q) BY DEF Has
  <2>4. Cardinality(T) \in Nat /\ (Cardinality(T) > 0 <=> T # {})
    <3> HIDE DEF T, q
    <3> QED BY <2>2, <2>3, CountPlaces
  <2>5. Queued(q, l, w) = Cardinality(T) BY DEF Queued
  <2>6. T # {} <=> \E i \in DOMAIN q : /\ l \in q[i].instr_depend_on_me
                                       /\ q[i].response_requested /\ q[i].v_address = w.v_address
    BY DEF Has
  <2> QED BY <2>4, <2>5, <2>6
<1>4. ASSUME NEW l, NEW w \in Wanted, NEW q \in Seq(mshr_type)
      PROVE  /\ Piped(q, l, w) \in Nat
             /\ Piped(q, l, w) > 0 <=>
                  \E i \in DOMAIN q : /\ l \in q[i].instr_depend_on_me
                                      /\ w.upper \in q[i].to_return /\ q[i].v_address = w.v_address
  <2> DEFINE T == {i \in Has(q, l) : w.upper \in q[i].to_return /\ q[i].v_address = w.v_address}
  <2>1. T \in SUBSET (DOMAIN q) BY DEF Has
  <2>2. Cardinality(T) \in Nat /\ (Cardinality(T) > 0 <=> T # {})
    <3> HIDE DEF T
    <3> QED BY <2>1, CountPlaces
  <2>3. Piped(q, l, w) = Cardinality(T) BY DEF Piped
  <2>4. T # {} <=> \E i \in DOMAIN q : /\ l \in q[i].instr_depend_on_me
                                       /\ w.upper \in q[i].to_return /\ q[i].v_address = w.v_address
    BY DEF Has
  <2> QED BY <2>2, <2>3, <2>4
<1>5. ASSUME NEW l, NEW w \in Wanted
      PROVE  Places(l, w) > 0 <=>
               \/ Queued(RQ[w.upper], l, w) > 0 \/ Piped(MSHR, l, w) > 0
               \/ Piped(finished, l, w) > 0 \/ Piped(completed, l, w) > 0
  <2>1. Queued(RQ[w.upper], l, w) \in Nat BY <1>3
  <2>2. /\ Piped(MSHR, l, w) \in Nat /\ Piped(finished, l, w) \in Nat
        /\ Piped(completed, l, w) \in Nat
    BY <1>2, <1>4
  <2> QED BY <2>1, <2>2 DEF Places
<1>6. PICK P : P = Queues OBVIOUS
<1>7. /\ P[MshrLine] = MSHR /\ P[FinishedLine] = finished /\ P[CompletedLine] = completed
      /\ \A u \in Uppers : P[u] = RQ[u]
  BY <1>6, LayoutFacts DEF Queues
<1>8. ASSUME NEW l \in Loads, waiting[l] = None PROVE HeldFor(l) = {}
  <2>1. Never(P, l) BY <1>6, <1>8 DEF PortInv, HeldOnce
  <2>2. /\ \A i \in DOMAIN MSHR : l \notin MSHR[i].instr_depend_on_me
        /\ \A i \in DOMAIN finished : l \notin finished[i].instr_depend_on_me
        /\ \A i \in DOMAIN completed : l \notin completed[i].instr_depend_on_me
        /\ \A u \in Uppers : \A i \in DOMAIN RQ[u] : l \notin RQ[u][i].instr_depend_on_me
    BY <1>7, <2>1, LinesAre DEF Never
  <2>3. ASSUME NEW w \in Wanted PROVE ~(Places(l, w) > 0)
    <3>1. w.upper \in Uppers BY DEF Wanted
    <3>2. ~(Queued(RQ[w.upper], l, w) > 0) BY <1>3, <2>2, <3>1
    <3>3. ~(Piped(MSHR, l, w) > 0) BY <1>2, <1>4, <2>2
    <3>4. ~(Piped(finished, l, w) > 0) BY <1>2, <1>4, <2>2
    <3>5. ~(Piped(completed, l, w) > 0) BY <1>2, <1>4, <2>2
    <3> QED BY <1>5, <3>2, <3>3, <3>4, <3>5
  <2> QED BY <2>3 DEF HeldFor
<1>9. ASSUME NEW l \in Loads, waiting[l] # None PROVE waiting[l] \in HeldFor(l)
  <2>1. PICK w \in Wanted : w = waiting[l] BY <1>1, <1>9
  <2>2. PICK n \in Lines : \E i \in DOMAIN P[n] : l \in P[n][i].instr_depend_on_me
    BY <1>6, <1>9 DEF PortInv, HeldOnce, Once
  <2>3. PICK i \in DOMAIN P[n] : l \in P[n][i].instr_depend_on_me BY <2>2
  <2>4. CASE n \in Uppers
    <3>1. P[n] = RQ[n] BY <1>7, <2>4
    <3>2. /\ RQ[n][i].response_requested
          /\ w = [upper |-> n, v_address |-> RQ[n][i].v_address]
      BY <2>1, <2>3, <2>4, <3>1 DEF PortInv, RequestsServe
    <3>3. w.upper = n /\ w.v_address = RQ[n][i].v_address BY <3>2
    <3>4. Queued(RQ[w.upper], l, w) > 0 BY <1>3, <2>3, <3>1, <3>2, <3>3
    <3> QED BY <1>5, <2>1, <3>4 DEF HeldFor
  <2>5. CASE n = MshrLine
    <3>1. w.upper \in MSHR[i].to_return /\ MSHR[i].v_address = w.v_address
      BY <1>7, <2>1, <2>3, <2>5 DEF PortInv, WalksServe, Serves
    <3>2. Piped(MSHR, l, w) > 0 BY <1>2, <1>4, <1>7, <2>3, <2>5, <3>1
    <3> QED BY <1>5, <2>1, <3>2 DEF HeldFor
  <2>6. CASE n = FinishedLine
    <3>1. w.upper \in finished[i].to_return /\ finished[i].v_address = w.v_address
      BY <1>7, <2>1, <2>3, <2>6 DEF PortInv, WalksServe, Serves
    <3>2. Piped(finished, l, w) > 0 BY <1>2, <1>4, <1>7, <2>3, <2>6, <3>1
    <3> QED BY <1>5, <2>1, <3>2 DEF HeldFor
  <2>7. CASE n = CompletedLine
    <3>1. w.upper \in completed[i].to_return /\ completed[i].v_address = w.v_address
      BY <1>7, <2>1, <2>3, <2>7 DEF PortInv, WalksServe, Serves
    <3>2. Piped(completed, l, w) > 0 BY <1>2, <1>4, <1>7, <2>3, <2>7, <3>1
    <3> QED BY <1>5, <2>1, <3>2 DEF HeldFor
  <2> QED BY <2>4, <2>5, <2>6, <2>7, LinesAre
<1>10. ASSUME NEW l \in Loads PROVE Held[l] = waiting[l]
  <2>1. CASE waiting[l] = None
    <3>1. None \notin HeldFor(l) BY <1>8, <2>1
    <3> QED BY <1>8, <2>1, <3>1 DEF Held
  <2>2. CASE waiting[l] # None BY <1>9, <2>2 DEF Held
  <2> QED BY <2>1, <2>2
<1>11. DOMAIN Held = Loads /\ Held = [l \in Loads |-> Held[l]] BY DEF Held
<1> QED BY <1>1, <1>10, <1>11 DEF HeldIsWaiting

\* A step of the walker is one of the port, or none of it.
LEMMA PortStep ==
  ASSUME WalkerInv, [Next]_vars, HeldIsWaiting, HeldIsWaiting'
  PROVE  [Port!Next]_<<waiting, Held>>
<1> SUFFICES ASSUME Held = waiting, Held' = waiting' PROVE [Port!Next]_<<waiting, Held>>
  BY DEF HeldIsWaiting
<1>1. waiting \in [Loads -> Wanted \cup {None}] BY DEF WalkerInv, QueuesOK
<1>2. CASE UNCHANGED waiting BY <1>2
<1>3. ASSUME NEW u \in Uppers, NEW v \in Addresses, NEW l \in Loads, AddRq(u, l, v)
      PROVE  Port!Next
  <2>1. PICK w \in Wanted : w = [upper |-> u, v_address |-> v] BY DEF Wanted
  <2>2. waiting[l] = None /\ waiting' = [waiting EXCEPT ![l] = w] BY <1>3, <2>1 DEF AddRq
  <2>3. Port!Issue(w, l) BY <2>2 DEF Port!Issue
  <2> QED BY <2>3 DEF Port!Next
<1>4. CASE Arrive
  <2>1. PICK u \in Uppers, v \in Addresses : AddRqNoResponse(u, v) \/ \E l \in Loads : AddRq(u, l, v)
    BY <1>4 DEF Arrive
  <2>2. CASE AddRqNoResponse(u, v) BY <1>2, <2>2 DEF AddRqNoResponse
  <2> QED BY <1>3, <2>1, <2>2
<1>5. CASE Complete
  <2>1. PICK m : m = completed[1] OBVIOUS
  <2>2. PICK S \in SUBSET Loads :
          S = {l \in Loads : /\ l \in m.instr_depend_on_me /\ waiting[l] # None
                             /\ waiting[l].upper \in m.to_return}
    OBVIOUS
  <2>3. waiting' = [l \in Loads |-> IF l \in S THEN None ELSE waiting[l]]
    BY <1>5, <2>1, <2>2 DEF Complete
  <2>4. CASE S = {} BY <1>1, <1>2, <2>3, <2>4
  <2>5. CASE S # {}
    <3>1. Port!Answer(S) BY <2>2, <2>3, <2>5 DEF Port!Answer
    <3> QED BY <3>1 DEF Port!Next
  <2> QED BY <2>4, <2>5
<1>6. CASE LowerLevel BY <1>2, <1>6 DEF LowerLevel, LowerAnswers
<1>7. CASE OtherCores BY <1>2, <1>7 DEF OtherCores, OtherCore
<1>8. CASE \E i \in DOMAIN MSHR : FinishStep(i) \/ FinishLastStep(i)
  BY <1>2, <1>8 DEF FinishStep, FinishLastStep
<1>9. CASE Construct \/ EndWarmup \/ StartCycle \/ EndFinish \/ PacketDone \/ EndComplete
  BY <1>2, <1>9 DEF Construct, EndWarmup, StartCycle, EndFinish, PacketDone, EndComplete
<1>10. CASE Fill \/ FillRefused \/ EndFill
  BY <1>2, <1>10 DEF Fill, FillRefused, EndFill
<1>11. CASE Read \/ ReadRefused \/ NextUpper \/ Tick
  BY <1>2, <1>11 DEF Read, ReadRefused, NextUpper, Tick
<1>12. CASE UNCHANGED vars BY <1>2, <1>12 DEF vars
<1> QED BY <1>4, <1>5, <1>6, <1>7, <1>8, <1>9, <1>10, <1>11, <1>12 DEF Next, Operate
-----------------------------------------------------------------------------
\* The walker implements LoadPort: a load is pending from its add_rq to its answer,
\* is remembered all that time, in one place, and is answered once.
THEOREM WalkerImplementsLoadPort == Spec => ImplementsLoadPort
<1>1. Spec => []WalkerInv BY WalkerInvariance
<1>2. WalkerInv /\ WalkerInv' /\ PortInv /\ [Next]_vars => PortInv' BY PortKeeps
<1>3. Init => PortInv BY PortInitially
<1>4. WalkerInv /\ PortInv => HeldIsWaiting BY HoldsWhatIsWaited
<1>5. WalkerInv /\ [Next]_vars /\ HeldIsWaiting /\ HeldIsWaiting' => [Port!Next]_<<waiting, Held>>
  BY PortStep
<1>6. Init /\ HeldIsWaiting => Port!Init BY DEF Init, HeldIsWaiting, Port!Init
<1> QED BY <1>1, <1>2, <1>3, <1>4, <1>5, <1>6, PTL DEF Spec, ImplementsLoadPort, Port!Spec, Port!vars
=============================================================================
