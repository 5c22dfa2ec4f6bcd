---------------------------- MODULE Basic_proofs ----------------------------
(***************************************************************************)
(* Proofs about three parts of the basic simulator.                        *)
(*                                                                         *)
(* The main loop, for every number of cores, pages and frames and every    *)
(* latency that keeps the order of the code's.  Its three invariants rest  *)
(* on different parts of the state and are proved one after the other: the *)
(* page tables, the translations (which need the tables), and the phases   *)
(* of the simulation.                                                      *)
(*                                                                         *)
(* The DRAM controller, for every set of blocks, every address mapping,    *)
(* every size of the queues and every timing.  Its two invariants are      *)
(* inductive together with what ties a bank to its request: the request is *)
(* one of this bank, its row is the one the bank opens, and the bank has   *)
(* activated it by the time the request may be due.                        *)
(*                                                                         *)
(* The core, for every trace, every set of registers and words and every   *)
(* size of the reorder buffer, the scheduler and the two queues.  Its two  *)
(* invariants need each other's support: what a slot's counters say is     *)
(* right only while the store queue is a ring in program order, and that   *)
(* only while STA lists the stores that are not in it; a load's producer   *)
(* is the youngest older store only while every store that it waits for    *)
(* knows of it.  CoreInv holds all of them, and each step has a lemma.     *)
(***************************************************************************)
EXTENDS BasicMain, BasicDram, BasicCore, FiniteSetTheorems, SequenceTheorems, WellFoundedInduction, TLAPS

(***************************************************************************)
(* Facts about the helpers.                                                *)
(***************************************************************************)

\* A set of numbers has a least element.
LEMMA LeastOf ==
  ASSUME NEW R, IsWellFoundedOn(R, Nat), \A x, y \in Nat : <<y, x>> \in R <=> y < x,
         NEW S \in SUBSET Nat, S # {}
  PROVE  \E m \in S : \A n \in S : m <= n
<1>1. PICK m \in S : \A y \in S : ~ (<<y, m>> \in R) BY WFMin
<1>2. ASSUME NEW n \in S PROVE m <= n
  <2>1. m \in Nat /\ n \in Nat OBVIOUS
  <2>2. ~(n < m) BY <1>1, <2>1
  <2> QED BY <2>1, <2>2
<1> QED BY <1>2

LEMMA Least ==
  ASSUME NEW S \in SUBSET Nat, S # {}
  PROVE  \E m \in S : \A n \in S : m <= n
<1>1. IsWellFoundedOn(OpToRel(<, Nat), Nat) BY NatLessThanWellFounded
<1>2. \A x, y \in Nat : <<y, x>> \in OpToRel(<, Nat) <=> y < x BY DEF OpToRel
<1> QED BY <1>1, <1>2, LeastOf

\* The victim of a swap is one of the pages.
LEMMA FirstIsOne ==
  ASSUME NEW pages \in SUBSET (Nat \X Nat), pages # {}
  PROVE  First(pages) \in pages
<1> DEFINE Cs == {p[1] : p \in pages}
<1>1. PICK c \in Cs : \A n \in Cs : c <= n
  <2>1. Cs \in SUBSET Nat /\ Cs # {} OBVIOUS
  <2> HIDE DEF Cs
  <2> QED BY <2>1, Least
<1> DEFINE Vs == {p[2] : p \in {q \in pages : q[1] = c}}
<1>2. PICK v \in Vs : \A n \in Vs : v <= n
  <2>1. Vs \in SUBSET Nat /\ Vs # {} OBVIOUS
  <2> HIDE DEF Vs
  <2> QED BY <2>1, Least
<1>3. PICK p \in pages : p[1] = c /\ p[2] = v OBVIOUS
<1>4. ASSUME NEW q \in pages
      PROVE  p[1] < q[1] \/ (p[1] = q[1] /\ p[2] <= q[2])
  <2>1. p[1] \in Nat /\ p[2] \in Nat /\ q[1] \in Nat /\ q[2] \in Nat OBVIOUS
  <2>2. c <= q[1] BY <1>1
  <2>3. q[1] = c => v <= q[2] BY <1>2
  <2> QED BY <1>3, <2>1, <2>2, <2>3
<1>5. \E x \in pages : \A q \in pages : x[1] < q[1] \/ (x[1] = q[1] /\ x[2] <= q[2])
  BY <1>4
<1> QED BY <1>5 DEF First

\* A map with one more key, and with one less.
LEMMA WithFacts ==
  ASSUME NEW f, NEW k, NEW v
  PROVE  /\ DOMAIN With(f, k, v) = DOMAIN f \cup {k}
         /\ With(f, k, v)[k] = v
         /\ \A x \in DOMAIN f \ {k} : With(f, k, v)[x] = f[x]
BY DEF With

LEMMA WithoutFacts ==
  ASSUME NEW f, NEW k
  PROVE  /\ DOMAIN Without(f, k) = DOMAIN f \ {k}
         /\ \A x \in DOMAIN f \ {k} : Without(f, k)[x] = f[x]
BY DEF Without

\* One cycle less, as long as there are some.
LEMMA SoonerFacts == \A n \in Nat : Sooner(n) = IF n > 0 THEN n - 1 ELSE 0
<1> TAKE n \in Nat
<1> DEFINE S == {0, n - 1}
           m == IF n > 0 THEN n - 1 ELSE 0
<1>1. m \in S /\ \A y \in S : m >= y OBVIOUS
<1>2. \A x \in S : (\A y \in S : x >= y) => x = m OBVIOUS
<1>3. Max(S) = m BY <1>1, <1>2 DEF Max
<1> QED BY <1>3 DEF Sooner

\* The cores are numbers, as many as there are.
LEMMA CpuFacts == /\ NUM_CPUS \in Nat \ {0} /\ 0 \in Cpus /\ Cpus \subseteq Nat
                  /\ IsFiniteSet(Cpus) /\ Cardinality(Cpus) = NUM_CPUS
                  /\ Pages \subseteq Nat \X Nat
<1>1. NUM_CPUS \in Nat \ {0} /\ VPages \subseteq Nat BY MainAssumption
<1>2. IsFiniteSet(Cpus) /\ Cardinality(Cpus) = NUM_CPUS BY <1>1, FS_Interval DEF Cpus
<1>3. 0 \in Cpus /\ Cpus \subseteq Nat BY <1>1 DEF Cpus
<1>4. Pages \subseteq Nat \X Nat BY <1>1, <1>3 DEF Pages
<1> QED BY <1>1, <1>2, <1>3, <1>4

(***************************************************************************)
(* The page tables.                                                        *)
(***************************************************************************)

TablesOK == /\ IsFiniteSet(DOMAIN page_table) /\ DOMAIN page_table \subseteq Pages
            /\ \A p \in DOMAIN page_table : page_table[p] \in Frames
            /\ IsFiniteSet(DOMAIN inverse_table)
            /\ num_adjacent_page \in Int
TableInv == TablesOK /\ TablesAgree

\* A page gets a frame that no page has.
LEMMA AllocateKeeps ==
  ASSUME TableInv, NEW page \in Pages, NEW frame, page \notin DOMAIN page_table,
         allocated_pages < DRAM_PAGES, Allocate(page, frame)
  PROVE  TableInv' /\ page \in DOMAIN page_table' /\ page_table'[page] = frame
         /\ frame \in Frames /\ DOMAIN page_table' = DOMAIN page_table \cup {page}
         /\ (\A p \in DOMAIN page_table : page_table'[p] = page_table[p]) /\ taken' = taken
<1>1. TablesOK /\ TablesAgree BY DEF TableInv
<1>2. /\ frame \in Frames /\ frame \notin DOMAIN inverse_table /\ taken' = taken
      /\ page_table' = With(page_table, page, frame)
      /\ inverse_table' = With(inverse_table, frame, page)
  BY DEF Allocate
<1>3. /\ DOMAIN page_table' = DOMAIN page_table \cup {page} /\ page_table'[page] = frame
      /\ \A p \in DOMAIN page_table : page_table'[p] = page_table[p]
  <2>1. /\ DOMAIN With(page_table, page, frame) = DOMAIN page_table \cup {page}
        /\ With(page_table, page, frame)[page] = frame
        /\ \A p \in DOMAIN page_table : With(page_table, page, frame)[p] = page_table[p]
    BY DEF With
  <2> QED BY <1>2, <2>1, Zenon
<1>4. /\ DOMAIN inverse_table' = DOMAIN inverse_table \cup {frame}
      /\ inverse_table'[frame] = page
      /\ \A f \in DOMAIN inverse_table : inverse_table'[f] = inverse_table[f]
  <2>1. /\ DOMAIN With(inverse_table, frame, page) = DOMAIN inverse_table \cup {frame}
        /\ With(inverse_table, frame, page)[frame] = page
        /\ \A f \in DOMAIN inverse_table :
             With(inverse_table, frame, page)[f] = inverse_table[f]
    BY <1>2 DEF With
  <2> QED BY <1>2, <2>1, Zenon
<1>5. num_adjacent_page' \in Nat
  <2>1. num_adjacent_page \in Int /\ Adjacent \subseteq Nat \ {0}
    BY <1>1, MainAssumption DEF TablesOK
  <2>2. \/ num_adjacent_page' \in Adjacent
        \/ num_adjacent_page > 0 /\ num_adjacent_page' = num_adjacent_page - 1
    <3> DEFINE adjacent == num_adjacent_page > 0 /\ previous_ppage + 1 \notin DOMAIN inverse_table
    <3>1. NextAdjacent(~adjacent) BY DEF Allocate
    <3> QED BY <3>1 DEF NextAdjacent
  <2>3. CASE num_adjacent_page' \in Adjacent BY <2>1, <2>3
  <2>4. CASE num_adjacent_page > 0 /\ num_adjacent_page' = num_adjacent_page - 1
    BY <2>1, <2>4
  <2> QED BY <2>2, <2>3, <2>4
<1>6. /\ IsFiniteSet(DOMAIN page_table') /\ IsFiniteSet(DOMAIN inverse_table')
      /\ Cardinality(DOMAIN page_table') = Cardinality(DOMAIN page_table) + 1
      /\ Cardinality(DOMAIN inverse_table') = Cardinality(DOMAIN inverse_table) + 1
      /\ Cardinality(DOMAIN page_table) \in Nat
  BY <1>1, <1>2, <1>3, <1>4, FS_AddElement, FS_CardinalityType DEF TablesOK
<1>7. TablesOK' BY <1>1, <1>2, <1>3, <1>5, <1>6 DEF TablesOK
<1>8. TablesAgree'
  <2>1. ASSUME NEW p \in DOMAIN page_table'
        PROVE  page_table'[p] \in DOMAIN inverse_table' /\ inverse_table'[page_table'[p]] = p
    <3>1. CASE p = page BY <1>3, <1>4, <3>1
    <3>2. CASE p \in DOMAIN page_table
      BY <1>1, <1>3, <1>4, <3>2 DEF TablesAgree
    <3> QED BY <1>3, <3>1, <3>2
  <2>2. allocated_pages' <= DRAM_PAGES
    BY <1>6, MainAssumption DEF allocated_pages
  <2>3. Cardinality(DOMAIN inverse_table') = allocated_pages'
    BY <1>1, <1>6 DEF allocated_pages, TablesAgree
  <2> QED BY <1>5, <2>1, <2>2, <2>3 DEF TablesAgree
<1> QED BY <1>2, <1>3, <1>7, <1>8 DEF TableInv

\* A page takes the frame of another one.
LEMMA SwapKeeps ==
  ASSUME TableInv, NEW page \in Pages, page \notin DOMAIN page_table,
         allocated_pages >= DRAM_PAGES, Swap(page)
  PROVE  /\ TableInv' /\ page \in DOMAIN page_table'
         /\ NRU_vpage \in DOMAIN page_table /\ NRU_vpage # page
         /\ page_table'[page] \in Frames
         /\ DOMAIN page_table' = (DOMAIN page_table \ {NRU_vpage}) \cup {page}
         /\ \A p \in DOMAIN page_table \ {NRU_vpage} : page_table'[p] = page_table[p]
<1>1. TablesOK /\ TablesAgree BY DEF TableInv
<1>2. NRU_vpage \in DOMAIN page_table
  <2>1. Cardinality(DOMAIN page_table) >= DRAM_PAGES /\ DRAM_PAGES \in Nat \ {0}
    BY MainAssumption DEF allocated_pages
  <2>2. DOMAIN page_table # {} BY <2>1, FS_EmptySet
  <2>3. DOMAIN page_table \subseteq Nat \X Nat BY <1>1, CpuFacts DEF TablesOK
  <2> QED BY <2>2, <2>3, FirstIsOne DEF NRU_vpage
<1> DEFINE old == NRU_vpage
           frame == page_table[old]
<1>3. /\ page_table' = With(Without(page_table, old), page, frame)
      /\ inverse_table' = With(inverse_table, frame, page)
      /\ num_adjacent_page' = num_adjacent_page
  BY DEF Swap, Renamed
<1> HIDE DEF old
<1>4. frame \in Frames /\ frame \in DOMAIN inverse_table /\ inverse_table[frame] = old
  BY <1>1, <1>2 DEF TablesOK, TablesAgree, old
<1> HIDE DEF frame
<1>5. old # page /\ old \in DOMAIN page_table BY <1>2 DEF old
<1>6. /\ DOMAIN page_table' = (DOMAIN page_table \ {old}) \cup {page}
      /\ page_table'[page] = frame
      /\ \A p \in DOMAIN page_table \ {old} : page_table'[p] = page_table[p]
  <2> DEFINE rest == Without(page_table, old)
  <2>1. /\ DOMAIN rest = DOMAIN page_table \ {old}
        /\ \A p \in DOMAIN page_table \ {old} : rest[p] = page_table[p]
    BY DEF Without
  <2>2. page_table' = With(rest, page, frame) BY <1>3
  <2> HIDE DEF rest
  <2>3. /\ DOMAIN With(rest, page, frame) = DOMAIN rest \cup {page}
        /\ With(rest, page, frame)[page] = frame
        /\ \A p \in DOMAIN rest \ {page} : With(rest, page, frame)[p] = rest[p]
    BY DEF With
  <2>4. page \notin DOMAIN rest BY <2>1
  <2>5. /\ DOMAIN page_table' = DOMAIN rest \cup {page} /\ page_table'[page] = frame
        /\ \A p \in DOMAIN rest : page_table'[p] = rest[p]
    BY <2>2, <2>3, <2>4, Zenon
  <2> QED BY <2>1, <2>5
<1>7. /\ DOMAIN inverse_table' = DOMAIN inverse_table
      /\ inverse_table'[frame] = page
      /\ \A f \in DOMAIN inverse_table \ {frame} : inverse_table'[f] = inverse_table[f]
  <2>1. /\ DOMAIN With(inverse_table, frame, page) = DOMAIN inverse_table \cup {frame}
        /\ With(inverse_table, frame, page)[frame] = page
        /\ \A f \in DOMAIN inverse_table \ {frame} :
             With(inverse_table, frame, page)[f] = inverse_table[f]
    BY DEF With
  <2>2. DOMAIN inverse_table \cup {frame} = DOMAIN inverse_table BY <1>4
  <2> QED BY <1>3, <2>1, <2>2, Zenon
<1>8. /\ IsFiniteSet(DOMAIN page_table')
      /\ Cardinality(DOMAIN page_table') = Cardinality(DOMAIN page_table)
  <2>1. /\ IsFiniteSet(DOMAIN page_table \ {old})
        /\ Cardinality(DOMAIN page_table \ {old}) = Cardinality(DOMAIN page_table) - 1
        /\ Cardinality(DOMAIN page_table) \in Nat
    BY <1>1, <1>5, FS_RemoveElement, FS_CardinalityType DEF TablesOK
  <2> DEFINE rest == DOMAIN page_table \ {old}
  <2>2. page \notin rest OBVIOUS
  <2> HIDE DEF rest
  <2>3. IsFiniteSet(rest \cup {page}) /\ Cardinality(rest \cup {page}) = Cardinality(rest) + 1
    <3>1. IsFiniteSet(rest) BY <2>1 DEF rest
    <3> QED BY <2>2, <3>1, FS_AddElement
  <2> QED BY <1>6, <2>1, <2>3 DEF rest
<1>9. TablesOK' BY <1>1, <1>3, <1>4, <1>6, <1>7, <1>8 DEF TablesOK
<1>10. TablesAgree'
  <2>1. ASSUME NEW p \in DOMAIN page_table'
        PROVE  page_table'[p] \in DOMAIN inverse_table' /\ inverse_table'[page_table'[p]] = p
    <3>1. CASE p = page BY <1>4, <1>6, <1>7, <3>1
    <3>2. CASE p \in DOMAIN page_table \ {old}
      <4>1. /\ page_table'[p] = page_table[p] /\ page_table[p] \in DOMAIN inverse_table
            /\ inverse_table[page_table[p]] = p
        BY <1>1, <1>6, <3>2 DEF TablesAgree
      <4>2. page_table[p] # frame BY <1>4, <3>2, <4>1
      <4> QED BY <1>7, <4>1, <4>2
    <3> QED BY <1>6, <3>1, <3>2
  <2>2. /\ allocated_pages' = allocated_pages
        /\ Cardinality(DOMAIN inverse_table') = Cardinality(DOMAIN inverse_table)
    BY <1>7, <1>8 DEF allocated_pages
  <2> QED BY <1>1, <1>3, <2>1, <2>2 DEF TablesAgree
<1> QED BY <1>4, <1>5, <1>6, <1>9, <1>10 DEF TableInv, old

\* The turn goes around the cores.
TurnInv == turn \in Cpus

LEMMA TurnKeeps == TurnInv /\ [Next]_vars => TurnInv'
<1> SUFFICES ASSUME TurnInv, [Next]_vars PROVE turn' \in Cpus BY DEF TurnInv
<1>1. turn' = turn \/ turn' = (turn + 1) % NUM_CPUS
  BY DEF Next, Loop, NextCycle, Stalled, Run, CheckWarmup, CheckSimulation, Done, vars
<1>2. NUM_CPUS \in Nat \ {0} BY MainAssumption
<1> QED BY <1>1, <1>2 DEF TurnInv, Cpus

\* The STLB's walk of a core is the only step that changes the tables.
LEMMA TablesKeep == TurnInv /\ TableInv /\ [Next]_vars => TableInv'
<1> SUFFICES ASSUME TurnInv, TableInv, [Next]_vars PROVE TableInv'
  OBVIOUS
<1>1. CASE UNCHANGED tables
  BY <1>1 DEF tables, TableInv, TablesOK, TablesAgree, allocated_pages
<1>2. ASSUME NEW n \in 0..RETIRE_WIDTH, Run(n) PROVE TableInv'
  <2>1. PICK tlb \in FilledTlbs(turn) :
          \/ NoWalk(turn, tlb)
          \/ \E v \in VPages : Found(turn, v, tlb) \/ MinorFault(turn, v, tlb) \/ MajorFault(turn, v, tlb)
    BY <1>2 DEF Run, OperateSTLB
  <2>2. \A v \in VPages : <<turn, v>> \in Pages BY DEF TurnInv, Pages
  <2>3. CASE NoWalk(turn, tlb) BY <1>1, <2>3 DEF NoWalk
  <2>4. ASSUME NEW v \in VPages, Found(turn, v, tlb) PROVE TableInv'
    BY <1>1, <2>4 DEF Found
  <2>5. ASSUME NEW v \in VPages, MinorFault(turn, v, tlb) PROVE TableInv'
    BY <2>2, <2>5, AllocateKeeps DEF MinorFault
  <2>6. ASSUME NEW v \in VPages, MajorFault(turn, v, tlb) PROVE TableInv'
    BY <2>2, <2>6, SwapKeeps DEF MajorFault
  <2> QED BY <2>1, <2>3, <2>4, <2>5, <2>6
<1>3. CASE NextCycle \/ Stalled \/ CheckWarmup \/ CheckSimulation \/ Done \/ UNCHANGED vars
  <2>1. UNCHANGED tables
    BY <1>3 DEF NextCycle, Stalled, CheckWarmup, CheckSimulation, Done, vars
  <2> QED BY <1>1, <2>1
<1> QED BY <1>2, <1>3 DEF Next, Loop

LEMMA TablesInitially == Init => TurnInv /\ TableInv
<1> SUFFICES ASSUME Init PROVE TurnInv /\ TableInv OBVIOUS
<1>1. turn = 0 /\ num_adjacent_page = 0 /\ page_table = << >> /\ inverse_table = << >> BY DEF Init
<1>2. DOMAIN page_table = {} /\ DOMAIN inverse_table = {} BY <1>1
<1>3. TablesOK BY <1>1, <1>2, FS_EmptySet DEF TablesOK
<1>4. allocated_pages = 0 /\ DRAM_PAGES \in Nat BY <1>2, FS_EmptySet, MainAssumption DEF allocated_pages
<1>5. TablesAgree BY <1>1, <1>2, <1>4, FS_EmptySet DEF TablesAgree
<1> QED BY <1>1, <1>3, <1>5, CpuFacts DEF TurnInv, TableInv

LEMMA TablesInvariance == Spec => [](TurnInv /\ TableInv)
<1> QED BY TablesInitially, TurnKeeps, TablesKeep, PTL DEF Spec

\* va_to_pa keeps its two tables inverse to each other, no more pages in use than there
\* are, and its count of adjacent pages from wrapping below 0.
THEOREM TablesAlwaysAgree == Spec => []TablesAgree
<1>1. TableInv => TablesAgree BY DEF TableInv
<1> QED BY <1>1, TablesInvariance, PTL
-----------------------------------------------------------------------------
(***************************************************************************)
(* The translations.  A core has at most one miss of its STLB under way,   *)
(* and it is not called again before the answer is due.                    *)
(***************************************************************************)

Miss == [vpage: VPages, ppage: Frames, left: Nat]
OneMiss == /\ DOMAIN STLB = Cpus /\ DOMAIN MSHR = Cpus /\ stall \in [Cpus -> Nat]
           /\ \A c \in Cpus : \/ MSHR[c] = << >>
                              \/ \E m \in Miss : MSHR[c] = <<m>> /\ m.left <= stall[c]

\* v is in the frame f, or another core has swapped it out.
Current(v, f) == <<0, v>> \notin taken => <<0, v>> \in DOMAIN page_table /\ page_table[<<0, v>>] = f
MissIsCurrent == MSHR[0] # << >> => Current(Head(MSHR[0]).vpage, Head(MSHR[0]).ppage)

TranslationInv == OneMiss /\ TranslationsAreCurrent /\ MissIsCurrent

\* A core that is called has no miss under way after the fill of this cycle.
LEMMA NoMissAfterFill ==
  ASSUME OneMiss, NEW c \in Cpus, stall[c] = 0
  PROVE  /\ AfterFill(c) = << >>
         /\ ~Due(c) => MSHR[c] = << >>
<1>1. CASE MSHR[c] = << >> BY <1>1 DEF AfterFill, Due
<1>2. ASSUME NEW m \in Miss, MSHR[c] = <<m>>, m.left <= stall[c]
      PROVE  Due(c) /\ AfterFill(c) = << >>
  <2>1. m.left = 0 BY <1>2 DEF Miss
  <2>2. Head(<<m>>) = m /\ Tail(<<m>>) = << >> /\ <<m>> # << >> OBVIOUS
  <2> QED BY <1>2, <2>1, <2>2 DEF AfterFill, Due
<1> QED BY <1>1, <1>2 DEF OneMiss

\* What the fill leaves in the STLB of core 0 is current.
LEMMA FilledIsCurrent ==
  ASSUME TranslationInv, NEW tlb \in FilledTlbs(0), NEW v \in DOMAIN tlb
  PROVE  Current(v, tlb[v])
<1>1. \A w \in DOMAIN STLB[0] : Current(w, STLB[0][w])
  BY DEF TranslationInv, TranslationsAreCurrent, Current
<1>2. CASE ~Due(0) BY <1>1, <1>2 DEF FilledTlbs
<1>3. CASE Due(0)
  <2> DEFINE m == Head(MSHR[0])
             kept == DOMAIN STLB[0] \ {m.vpage}
  <2>1. Current(m.vpage, m.ppage) BY <1>3 DEF Due, TranslationInv, MissIsCurrent
  <2>2. PICK k \in SUBSET kept : tlb = With(Restrict(STLB[0], k), m.vpage, m.ppage)
    BY <1>3 DEF FilledTlbs
  <2> HIDE DEF m
  <2>3. /\ DOMAIN tlb = k \cup {m.vpage} /\ tlb[m.vpage] = m.ppage
        /\ \A w \in k : tlb[w] = STLB[0][w]
    BY <2>2 DEF With, Restrict
  <2>4. CASE v = m.vpage BY <2>1, <2>3, <2>4
  <2>5. CASE v \in k BY <1>1, <2>3, <2>5
  <2> QED BY <2>3, <2>4, <2>5
<1> QED BY <1>2, <1>3

\* A new frame for another page does not touch what is current.
LEMMA MinorFaultKeepsCurrent ==
  ASSUME TableInv, NEW page \in Pages, NEW frame, page \notin DOMAIN page_table,
         allocated_pages < DRAM_PAGES, Allocate(page, frame),
         NEW v, NEW f, Current(v, f), <<0, v>> # page
  PROVE  Current(v, f)'
<1>1. /\ DOMAIN page_table' = DOMAIN page_table \cup {page} /\ taken' = taken
      /\ \A p \in DOMAIN page_table : page_table'[p] = page_table[p]
  BY AllocateKeeps
<1> QED BY <1>1 DEF Current

\* Nor does a swap, when the victim is another page or another core's doing.
LEMMA SwapKeepsCurrent ==
  ASSUME TableInv, NEW page \in Pages, page \notin DOMAIN page_table,
         allocated_pages >= DRAM_PAGES, Swap(page),
         NEW v, NEW f, Current(v, f), <<0, v>> # page,
         <<0, v>> # NRU_vpage \/ page[1] # 0
  PROVE  Current(v, f)'
<1>1. /\ DOMAIN page_table' = (DOMAIN page_table \ {NRU_vpage}) \cup {page}
      /\ \A p \in DOMAIN page_table \ {NRU_vpage} : page_table'[p] = page_table[p]
  BY SwapKeeps
<1>2. taken' = (taken \cup (IF NRU_vpage[1] # page[1] THEN {NRU_vpage} ELSE {})) \ {page}
  BY DEF Swap
<1>3. CASE <<0, v>> = NRU_vpage
  <2>1. NRU_vpage[1] # page[1] BY <1>3
  <2>2. <<0, v>> \in taken' BY <1>2, <1>3, <2>1
  <2> QED BY <2>2 DEF Current
<1>4. CASE <<0, v>> # NRU_vpage
  <2>1. <<0, v>> \in taken => <<0, v>> \in taken' BY <1>2
  <2> QED BY <1>1, <1>4, <2>1 DEF Current
<1> QED BY <1>3, <1>4

\* What is left in the STLB of the core that swaps.
LEMMA InvalidatedFacts ==
  ASSUME NEW tlb, NEW page \in Pages
  PROVE  /\ DOMAIN Invalidated(tlb, page) \subseteq DOMAIN tlb
         /\ \A v \in DOMAIN Invalidated(tlb, page) :
              Invalidated(tlb, page)[v] = tlb[v] /\ <<0, v>> # page
<1>1. page = <<page[1], page[2]>> BY DEF Pages
<1>2. CASE page[1] = 0
  <2>1. Invalidated(tlb, page) = Without(tlb, page[2]) BY <1>2 DEF Invalidated
  <2>2. /\ DOMAIN Without(tlb, page[2]) = DOMAIN tlb \ {page[2]}
        /\ \A v \in DOMAIN tlb \ {page[2]} : Without(tlb, page[2])[v] = tlb[v]
    BY DEF Without
  <2>3. \A v \in DOMAIN tlb \ {page[2]} : <<0, v>> # page BY <1>1
  <2> QED BY <2>1, <2>2, <2>3
<1>3. CASE page[1] # 0
  <2>1. Invalidated(tlb, page) = tlb BY <1>3 DEF Invalidated
  <2> QED BY <1>3, <2>1
<1> QED BY <1>2, <1>3

\* What all walks have in common.
Walked(c, v, cycles, tlb) ==
  /\ MSHR' = Answer(c, v) /\ page_table'[<<c, v>>] \in Frames /\ Stall(c, cycles)
  /\ STLB' = [STLB EXCEPT ![c] = tlb]

\* The answer of a walk is the only miss of its core, and is due before the stall ends.
LEMMA AnswerKeepsOneMiss ==
  ASSUME OneMiss, NEW c \in Cpus, stall[c] = 0, NEW v \in VPages,
         NEW cycles \in {PAGE_TABLE_LATENCY, SWAP_LATENCY}, NEW tlb, Walked(c, v, cycles, tlb)
  PROVE  /\ OneMiss' /\ STLB'[c] = tlb
         /\ \A d \in Cpus \ {c} : STLB'[d] = STLB[d] /\ MSHR'[d] = MSHR[d]
         /\ MSHR'[c] # << >> /\ Head(MSHR'[c]).vpage = v
         /\ Head(MSHR'[c]).ppage = page_table'[<<c, v>>]
<1> DEFINE m == [vpage |-> v, ppage |-> page_table'[<<c, v>>], left |-> Latency(STLB_LATENCY)]
<1>1. MSHR' = [MSHR EXCEPT ![c] = <<m>>]
  <2>1. AfterFill(c) = << >> BY NoMissAfterFill
  <2>2. MSHR' = [MSHR EXCEPT ![c] = Append(AfterFill(c), m)] BY DEF Walked, Answer
  <2> HIDE DEF m
  <2>3. Append(<< >>, m) = <<m>> OBVIOUS
  <2> QED BY <2>1, <2>2, <2>3
<1>2. /\ Latency(STLB_LATENCY) \in Nat /\ Latency(cycles) \in Nat
      /\ Latency(STLB_LATENCY) <= Latency(cycles)
  <2>1. STLB_LATENCY \in Nat /\ cycles \in Nat /\ STLB_LATENCY <= cycles
    BY MainAssumption, LatencyAssumption
  <2> QED BY <2>1 DEF Latency
<1>3. m \in Miss BY <1>2 DEF Walked, Miss
<1>4. m.left <= Latency(cycles) /\ m.vpage = v /\ m.ppage = page_table'[<<c, v>>] BY <1>2
<1> HIDE DEF m
<1>5. /\ stall' \in [Cpus -> Nat] /\ stall'[c] = Latency(cycles)
      /\ \A d \in Cpus \ {c} : stall'[d] = stall[d]
  BY <1>2 DEF Walked, Stall, OneMiss
<1>6. /\ DOMAIN STLB' = Cpus /\ DOMAIN MSHR' = Cpus /\ STLB'[c] = tlb /\ MSHR'[c] = <<m>>
      /\ \A d \in Cpus \ {c} : STLB'[d] = STLB[d] /\ MSHR'[d] = MSHR[d]
  BY <1>1 DEF Walked, OneMiss
<1>7. ASSUME NEW d \in Cpus
      PROVE  MSHR'[d] = << >> \/ \E n \in Miss : MSHR'[d] = <<n>> /\ n.left <= stall'[d]
  <2>1. CASE d = c BY <1>3, <1>4, <1>5, <1>6, <2>1
  <2>2. CASE d # c BY <1>5, <1>6, <2>2 DEF OneMiss
  <2> QED BY <2>1, <2>2
<1>8. Head(<<m>>) = m /\ <<m>> # << >> OBVIOUS
<1> QED BY <1>4, <1>5, <1>6, <1>7, <1>8 DEF OneMiss

\* A core walks: its own STLB follows the tables, and the other cores' are excused.
LEMMA WalkKeeps ==
  ASSUME TableInv, TranslationInv, NEW c \in Cpus, stall[c] = 0,
         NEW tlb \in FilledTlbs(c), NEW v \in VPages, Misses(c, v, tlb),
         Found(c, v, tlb) \/ MinorFault(c, v, tlb) \/ MajorFault(c, v, tlb)
  PROVE  TranslationInv'
<1>1. OneMiss /\ 0 \in Cpus BY CpuFacts DEF TranslationInv
<1> DEFINE page == <<c, v>>
<1>2. page \in Pages BY DEF Pages
<1>3. MSHR' = Answer(c, v)
  BY DEF Found, MinorFault, MajorFault
<1>4. PICK left : /\ STLB' = [STLB EXCEPT ![c] = left]
                  /\ \/ left = tlb /\ ~MajorFault(c, v, tlb)
                     \/ left = Invalidated(tlb, NRU_vpage) /\ MajorFault(c, v, tlb)
  BY DEF Found, MinorFault, MajorFault
<1>5. /\ page \in DOMAIN page_table' /\ page_table'[page] \in Frames
      /\ MajorFault(c, v, tlb) => NRU_vpage \in Pages
  <2>1. CASE Found(c, v, tlb)
    <3>1. ~MajorFault(c, v, tlb) BY <2>1 DEF Found, MajorFault
    <3> QED BY <2>1, <3>1 DEF Found, tables, TableInv, TablesOK
  <2>2. CASE MinorFault(c, v, tlb)
    <3>1. allocated_pages \in Nat /\ DRAM_PAGES \in Nat
      BY FS_CardinalityType, MainAssumption DEF TableInv, TablesOK, allocated_pages
    <3>2. ~MajorFault(c, v, tlb) BY <2>2, <3>1 DEF MinorFault, MajorFault
    <3> QED BY <1>2, <2>2, <3>2, AllocateKeeps DEF MinorFault
  <2>3. CASE MajorFault(c, v, tlb)
    <3>1. page \in DOMAIN page_table' /\ page_table'[page] \in Frames /\ NRU_vpage \in DOMAIN page_table
      BY <1>2, <2>3, SwapKeeps DEF MajorFault
    <3> QED BY <3>1 DEF TableInv, TablesOK
  <2> QED BY <2>1, <2>2, <2>3
<1>6. PICK cycles \in {PAGE_TABLE_LATENCY, SWAP_LATENCY} : Stall(c, cycles)
  BY DEF Found, MinorFault, MajorFault
<1>7. /\ OneMiss' /\ STLB'[c] = left
      /\ \A d \in Cpus \ {c} : STLB'[d] = STLB[d] /\ MSHR'[d] = MSHR[d]
      /\ MSHR'[c] # << >> /\ Head(MSHR'[c]).vpage = v
      /\ Head(MSHR'[c]).ppage = page_table'[page]
  <2>1. Walked(c, v, cycles, left) BY <1>3, <1>4, <1>5, <1>6 DEF Walked
  <2> QED BY <1>1, <2>1, AnswerKeepsOneMiss
<1>8. ASSUME NEW w, NEW f, Current(w, f), <<0, w>> # page,
             MajorFault(c, v, tlb) => <<0, w>> # NRU_vpage \/ c # 0
      PROVE  Current(w, f)'
  <2>1. CASE Found(c, v, tlb)
    BY <1>8, <2>1 DEF Found, tables, Current
  <2>2. CASE MinorFault(c, v, tlb)
    BY <1>2, <1>8, <2>2, MinorFaultKeepsCurrent DEF MinorFault
  <2>3. CASE MajorFault(c, v, tlb)
    <3>1. page[1] = c OBVIOUS
    <3> QED BY <1>2, <1>8, <2>3, <3>1, SwapKeepsCurrent DEF MajorFault
  <2> QED BY <2>1, <2>2, <2>3
<1>9. TranslationsAreCurrent'
  <2> SUFFICES ASSUME NEW w \in DOMAIN STLB'[0], NEW f, f = STLB'[0][w]
               PROVE  Current(w, f)'
    BY DEF TranslationsAreCurrent, Current
  <2>1. CASE c # 0
    <3>1. STLB'[0] = STLB[0] BY <1>1, <1>7, <2>1
    <3>2. Current(w, f) BY <3>1 DEF TranslationInv, TranslationsAreCurrent, Current
    <3>3. <<0, w>> # page BY <2>1
    <3> QED BY <1>8, <2>1, <3>2, <3>3
  <2>2. CASE c = 0
    <3>1. w \in DOMAIN left /\ f = left[w] BY <1>7, <2>2
    <3>2. w \in DOMAIN tlb /\ left[w] = tlb[w] /\ (MajorFault(c, v, tlb) => <<0, w>> # NRU_vpage)
      BY <1>4, <1>5, <3>1, InvalidatedFacts
    <3>3. Current(w, f) BY <2>2, <3>1, <3>2, FilledIsCurrent
    <3>4. <<0, w>> # page BY <2>2, <3>2 DEF Misses
    <3> QED BY <1>8, <3>2, <3>3, <3>4
  <2> QED BY <2>1, <2>2
<1>10. MissIsCurrent'
  <2>1. CASE c # 0
    <3>1. MSHR'[0] = MSHR[0] BY <1>1, <1>7, <2>1
    <3>2. SUFFICES ASSUME MSHR[0] # << >>
                   PROVE  Current(Head(MSHR[0]).vpage, Head(MSHR[0]).ppage)'
      BY <3>1 DEF MissIsCurrent, Current
    <3>3. Current(Head(MSHR[0]).vpage, Head(MSHR[0]).ppage)
      BY <3>2 DEF TranslationInv, MissIsCurrent
    <3> QED BY <1>8, <2>1, <3>1, <3>3 DEF Current
  <2>2. CASE c = 0 BY <1>5, <1>7, <2>2 DEF MissIsCurrent, Current
  <2> QED BY <2>1, <2>2
<1> QED BY <1>7, <1>9, <1>10 DEF TranslationInv

\* A cycle of the STLB without a walk fills at most.
LEMMA NoWalkKeeps ==
  ASSUME TranslationInv, NEW c \in Cpus, stall[c] = 0, NEW tlb \in FilledTlbs(c), NoWalk(c, tlb)
  PROVE  TranslationInv'
<1>1. OneMiss /\ 0 \in Cpus BY CpuFacts DEF TranslationInv
<1>2. AfterFill(c) = << >> BY <1>1, NoMissAfterFill
<1>3. /\ STLB' = [STLB EXCEPT ![c] = tlb] /\ MSHR' = [MSHR EXCEPT ![c] = << >>]
      /\ UNCHANGED <<page_table, taken, stall>>
  BY <1>2 DEF NoWalk, tables
<1>4. /\ DOMAIN STLB' = Cpus /\ DOMAIN MSHR' = Cpus /\ STLB'[c] = tlb /\ MSHR'[c] = << >>
      /\ \A d \in Cpus \ {c} : STLB'[d] = STLB[d] /\ MSHR'[d] = MSHR[d]
  BY <1>1, <1>3 DEF OneMiss
<1>5. OneMiss'
  <2>1. ASSUME NEW d \in Cpus
        PROVE  MSHR'[d] = << >> \/ \E n \in Miss : MSHR'[d] = <<n>> /\ n.left <= stall'[d]
    <3>1. CASE d = c BY <1>4, <3>1
    <3>2. CASE d # c BY <1>1, <1>3, <1>4, <3>2 DEF OneMiss
    <3> QED BY <3>1, <3>2
  <2> QED BY <1>1, <1>3, <1>4, <2>1 DEF OneMiss
<1>6. TranslationsAreCurrent'
  <2> SUFFICES ASSUME NEW w \in DOMAIN STLB'[0], NEW f, f = STLB'[0][w]
               PROVE  Current(w, f)'
    BY DEF TranslationsAreCurrent, Current
  <2>1. Current(w, f) => Current(w, f)' BY <1>3 DEF Current
  <2>2. CASE c # 0
    <3>1. STLB'[0] = STLB[0] BY <1>1, <1>4, <2>2
    <3>2. Current(w, f) BY <3>1 DEF TranslationInv, TranslationsAreCurrent, Current
    <3> QED BY <2>1, <3>2
  <2>3. CASE c = 0
    <3>1. STLB'[0] = tlb BY <1>4, <2>3
    <3>2. Current(w, f) BY <2>3, <3>1, FilledIsCurrent
    <3> QED BY <2>1, <3>2
  <2> QED BY <2>2, <2>3
<1>7. MissIsCurrent'
  <2>1. CASE c = 0 BY <1>4, <2>1 DEF MissIsCurrent
  <2>2. CASE c # 0
    <3>1. MSHR'[0] = MSHR[0] BY <1>1, <1>4, <2>2
    <3> QED BY <1>3, <3>1 DEF TranslationInv, MissIsCurrent, Current
  <2> QED BY <2>1, <2>2
<1> QED BY <1>5, <1>6, <1>7 DEF TranslationInv

\* The clock moves for the stall and for the miss alike.
LEMMA NextCycleKeeps ==
  ASSUME TurnInv, TranslationInv, NextCycle
  PROVE  TranslationInv'
<1>1. OneMiss /\ turn \in Cpus /\ 0 \in Cpus BY CpuFacts DEF TurnInv, TranslationInv
<1>2. /\ UNCHANGED <<page_table, taken, STLB>>
      /\ stall' = [stall EXCEPT ![turn] = Sooner(stall[turn])]
      /\ MSHR' = [MSHR EXCEPT ![turn] = Aged(turn)]
  BY DEF NextCycle, tables
<1>3. Sooner(stall[turn]) \in Nat BY <1>1, SoonerFacts DEF OneMiss
<1>4. /\ DOMAIN MSHR' = Cpus /\ MSHR'[turn] = Aged(turn)
      /\ \A d \in Cpus \ {turn} : MSHR'[d] = MSHR[d] /\ stall'[d] = stall[d]
      /\ stall' \in [Cpus -> Nat] /\ stall'[turn] = Sooner(stall[turn])
  BY <1>1, <1>2, <1>3 DEF OneMiss
<1>5. ASSUME NEW m \in Miss, MSHR[turn] = <<m>>, m.left <= stall[turn]
      PROVE  \E n \in Miss : /\ Aged(turn) = <<n>> /\ n.left <= Sooner(stall[turn])
                             /\ n.vpage = m.vpage /\ n.ppage = m.ppage
  <2> DEFINE n == [m EXCEPT !.left = Sooner(m.left)]
  <2>1. m.left \in Nat /\ stall[turn] \in Nat BY <1>1 DEF Miss, OneMiss
  <2>2. Sooner(m.left) \in Nat /\ Sooner(m.left) <= Sooner(stall[turn])
    BY <1>5, <2>1, SoonerFacts
  <2>3. n \in Miss /\ n.left = Sooner(m.left) /\ n.vpage = m.vpage /\ n.ppage = m.ppage
    BY <2>2 DEF Miss
  <2>4. Aged(turn) = [k \in DOMAIN <<m>> |-> [(<<m>>)[k] EXCEPT !.left = Sooner(@)]]
    BY <1>5 DEF Aged
  <2>5. DOMAIN <<m>> = {1} /\ (<<m>>)[1] = m OBVIOUS
  <2>6. Aged(turn) = [k \in {1} |-> n] BY <2>4, <2>5
  <2> HIDE DEF n
  <2>7. Aged(turn) = <<n>> BY <2>6
  <2> QED BY <2>2, <2>3, <2>7
<1>6. MSHR[turn] = << >> => Aged(turn) = << >> BY DEF Aged
<1>7. OneMiss'
  <2>1. ASSUME NEW d \in Cpus
        PROVE  MSHR'[d] = << >> \/ \E n \in Miss : MSHR'[d] = <<n>> /\ n.left <= stall'[d]
    <3>1. CASE d = turn
      <4>1. CASE MSHR[turn] = << >> BY <1>4, <1>6, <3>1, <4>1
      <4>2. ASSUME NEW m \in Miss, MSHR[turn] = <<m>>, m.left <= stall[turn]
            PROVE  \E n \in Miss : MSHR'[d] = <<n>> /\ n.left <= stall'[d]
        BY <1>4, <1>5, <3>1, <4>2
      <4> QED BY <1>1, <4>1, <4>2 DEF OneMiss
    <3>2. CASE d # turn BY <1>1, <1>4, <3>2 DEF OneMiss
    <3> QED BY <3>1, <3>2
  <2> QED BY <1>1, <1>2, <1>4, <2>1 DEF OneMiss
<1>8. TranslationsAreCurrent' BY <1>2 DEF TranslationInv, TranslationsAreCurrent
<1>9. MissIsCurrent'
  <2>1. CASE turn # 0
    <3>1. MSHR'[0] = MSHR[0] BY <1>1, <1>4, <2>1
    <3> QED BY <1>2, <3>1 DEF TranslationInv, MissIsCurrent, Current
  <2>2. CASE turn = 0
    <3>1. CASE MSHR[0] = << >> BY <1>4, <1>6, <2>2, <3>1 DEF MissIsCurrent
    <3>2. ASSUME NEW m \in Miss, MSHR[0] = <<m>>, m.left <= stall[0]
          PROVE  MissIsCurrent'
      <4>1. PICK n \in Miss : /\ MSHR'[0] = <<n>> /\ n.vpage = m.vpage /\ n.ppage = m.ppage
        BY <1>4, <1>5, <2>2, <3>2
      <4>2. Head(<<m>>) = m /\ Head(<<n>>) = n /\ <<m>> # << >> OBVIOUS
      <4>3. Current(m.vpage, m.ppage) BY <3>2, <4>2 DEF TranslationInv, MissIsCurrent
      <4> QED BY <1>2, <4>1, <4>2, <4>3 DEF MissIsCurrent, Current
    <3> QED BY <1>1, <3>1, <3>2 DEF OneMiss
  <2> QED BY <2>1, <2>2
<1> QED BY <1>7, <1>8, <1>9 DEF TranslationInv

LEMMA TranslationsKeep == TurnInv /\ TableInv /\ TranslationInv /\ [Next]_vars => TranslationInv'
<1> SUFFICES ASSUME TurnInv, TableInv, TranslationInv, [Next]_vars PROVE TranslationInv'
  OBVIOUS
<1>1. CASE UNCHANGED <<tables, tlbs, stall>>
  <2>1. UNCHANGED <<page_table, taken, STLB, MSHR, stall>> BY <1>1 DEF tables, tlbs
  <2>2. OneMiss' BY <2>1 DEF TranslationInv, OneMiss
  <2>3. TranslationsAreCurrent' /\ MissIsCurrent'
    BY <2>1 DEF TranslationInv, TranslationsAreCurrent, MissIsCurrent, Current
  <2> QED BY <2>2, <2>3 DEF TranslationInv
<1>2. ASSUME NEW n \in 0..RETIRE_WIDTH, Run(n) PROVE TranslationInv'
  <2>1. turn \in Cpus /\ stall[turn] = 0 BY <1>2 DEF Run, TurnInv
  <2>2. PICK tlb \in FilledTlbs(turn) :
          \/ NoWalk(turn, tlb)
          \/ \E v \in VPages : /\ Misses(turn, v, tlb)
                               /\ Found(turn, v, tlb) \/ MinorFault(turn, v, tlb) \/ MajorFault(turn, v, tlb)
    BY <1>2 DEF Run, OperateSTLB
  <2> QED BY <2>1, <2>2, NoWalkKeeps, WalkKeeps
<1>3. CASE NextCycle BY <1>3, NextCycleKeeps
<1>4. CASE Stalled \/ CheckWarmup \/ CheckSimulation \/ Done \/ UNCHANGED vars
  <2>1. UNCHANGED <<tables, tlbs, stall>>
    BY <1>4 DEF Stalled, CheckWarmup, CheckSimulation, Done, vars
  <2> QED BY <1>1, <2>1
<1> QED BY <1>2, <1>3, <1>4 DEF Next, Loop

LEMMA TranslationsInitially == Init => TranslationInv
<1> SUFFICES ASSUME Init PROVE TranslationInv OBVIOUS
<1>1. 0 \in Cpus BY CpuFacts
<1>2. /\ STLB = [c \in Cpus |-> << >>] /\ MSHR = [c \in Cpus |-> << >>]
      /\ stall = [c \in Cpus |-> 0]
  BY DEF Init
<1>3. STLB[0] = << >> /\ MSHR[0] = << >> BY <1>1, <1>2
<1>4. DOMAIN STLB[0] = {} BY <1>3
<1> QED BY <1>2, <1>3, <1>4 DEF TranslationInv, OneMiss, TranslationsAreCurrent, MissIsCurrent

LEMMA TranslationsInvariance == Spec => []TranslationInv
<1> QED BY TranslationsInitially, TranslationsKeep, TablesInvariance, PTL DEF Spec

\* Of the pages that no other core has swapped out, the STLB of core 0 knows the frame
\* they have now, although invalidate_entry does not look at the misses under way.
THEOREM TranslationsAreAlwaysCurrent == Spec => []TranslationsAreCurrent
<1>1. TranslationInv => TranslationsAreCurrent BY DEF TranslationInv
<1> QED BY <1>1, TranslationsInvariance, PTL
-----------------------------------------------------------------------------
(***************************************************************************)
(* The phases.  The counters count the cores that are warm and those that  *)
(* are done; a core that is measured and not done has retired less than    *)
(* its share, but for the cycle in which it is about to be checked.        *)
(***************************************************************************)

Warm == {c \in Cpus : warmup_complete[c]}
Simulated == {c \in Cpus : simulation_complete[c]}
Measuring == all_warmup_complete > NUM_CPUS

PhasesOK ==
  /\ num_retired \in [Cpus -> Nat] /\ begin_sim_instr \in [Cpus -> Nat]
  /\ finish_sim_instr \in [Cpus -> Int]
  /\ DOMAIN warmup_complete = Cpus /\ simulation_complete \in [Cpus -> BOOLEAN]
  /\ all_warmup_complete \in Nat /\ all_simulation_complete \in Nat
  /\ turn \in Cpus

WarmAreCounted ==
  /\ ~Measuring => all_warmup_complete = Cardinality(Warm)
  /\ \A c \in Warm : num_retired[c] > warmup_instructions
SimulatedAreCounted == all_simulation_complete = Cardinality(Simulated)

\* What a core may have retired more than its share.
Excess(c) == IF c = turn /\ pc \in {"check", "simulated"} THEN RETIRE_WIDTH ELSE 0
SharesAreKept ==
  Measuring => \A c \in Cpus \ Simulated :
                 num_retired[c] < begin_sim_instr[c] + simulation_instructions + Excess(c)

PhaseInv == PhasesOK /\ WarmAreCounted /\ SimulatedAreCounted /\ SharesAreKept /\ CoresAreMeasuredAlike

\* The constants that the phases depend on.
LEMMA PhaseConstants ==
  /\ NUM_CPUS \in Nat \ {0} /\ simulation_instructions \in Nat \ {0} /\ RETIRE_WIDTH \in Nat \ {0}
  /\ warmup_instructions \in Nat
BY MainAssumption

\* All the cores are counted when NUM_CPUS are.
LEMMA AllCounted ==
  ASSUME NEW S \in SUBSET Cpus
  PROVE  /\ IsFiniteSet(S) /\ Cardinality(S) \in Nat /\ Cardinality(S) <= NUM_CPUS
         /\ Cardinality(S) = NUM_CPUS => S = Cpus
         /\ \A c \in Cpus : Cardinality(S \cup {c}) = IF c \in S THEN Cardinality(S) ELSE Cardinality(S) + 1
<1>1. IsFiniteSet(Cpus) /\ Cardinality(Cpus) = NUM_CPUS BY CpuFacts
<1>2. /\ IsFiniteSet(S) /\ Cardinality(S) <= Cardinality(Cpus)
      /\ Cardinality(Cpus) = Cardinality(S) => Cpus = S
  BY <1>1, FS_Subset
<1>3. Cardinality(S) \in Nat BY <1>2, FS_CardinalityType
<1>4. \A c \in Cpus : Cardinality(S \cup {c}) = IF c \in S THEN Cardinality(S) ELSE Cardinality(S) + 1
  BY <1>2, FS_AddElement
<1> QED BY <1>1, <1>2, <1>3, <1>4

LEMMA PhasesInitially == Init => PhaseInv
<1> SUFFICES ASSUME Init PROVE PhaseInv OBVIOUS
<1>1. PhasesOK BY CpuFacts, PhaseConstants DEF Init, PhasesOK
<1>2. Warm = {} /\ Simulated = {} /\ ~Measuring
  BY PhaseConstants DEF Init, Warm, Simulated, Measuring
<1>3. WarmAreCounted BY <1>2, FS_EmptySet DEF Init, WarmAreCounted
<1>4. SimulatedAreCounted BY <1>2, FS_EmptySet DEF Init, SimulatedAreCounted
<1>5. SharesAreKept BY <1>2 DEF SharesAreKept
<1>6. CoresAreMeasuredAlike BY <1>2 DEF Init, CoresAreMeasuredAlike, Measuring
<1> QED BY <1>1, <1>3, <1>4, <1>5, <1>6 DEF PhaseInv

\* A core runs.
LEMMA RunKeepsPhases ==
  ASSUME PhaseInv, NEW n \in 0..RETIRE_WIDTH, Run(n)
  PROVE  PhaseInv'
<1>1. PhasesOK /\ WarmAreCounted /\ SimulatedAreCounted /\ SharesAreKept /\ CoresAreMeasuredAlike
  BY DEF PhaseInv
<1>2. /\ pc = "run" /\ pc' = "check" /\ turn' = turn
      /\ UNCHANGED <<begin_sim_instr, finish_sim_instr, warmup_complete, all_warmup_complete,
                     simulation_complete, all_simulation_complete, run_simulation>>
      /\ num_retired' = [num_retired EXCEPT ![turn] = num_retired[turn] + n]
  BY DEF Run, phases, Retire
<1>3. n \in Nat /\ n <= RETIRE_WIDTH BY PhaseConstants
<1>4. /\ num_retired' \in [Cpus -> Nat] /\ num_retired'[turn] = num_retired[turn] + n
      /\ \A c \in Cpus \ {turn} : num_retired'[c] = num_retired[c]
      /\ \A c \in Cpus : num_retired[c] \in Nat
  BY <1>1, <1>2, <1>3 DEF PhasesOK
<1>5. Warm' = Warm /\ Simulated' = Simulated /\ Measuring' = Measuring
  BY <1>2 DEF Warm, Simulated, Measuring
<1>6. PhasesOK' BY <1>1, <1>2, <1>4 DEF PhasesOK
<1>7. WarmAreCounted'
  <2>1. \A c \in Warm : num_retired'[c] > warmup_instructions
    BY <1>1, <1>3, <1>4, PhaseConstants DEF WarmAreCounted, Warm
  <2> QED BY <1>1, <1>2, <1>5, <2>1 DEF WarmAreCounted
<1>8. SharesAreKept'
  <2> SUFFICES ASSUME Measuring, NEW c \in Cpus \ Simulated
               PROVE  num_retired'[c] < begin_sim_instr[c] + simulation_instructions + Excess(c)'
    BY <1>2, <1>5 DEF SharesAreKept
  <2>1. num_retired[c] < begin_sim_instr[c] + simulation_instructions + Excess(c)
    BY <1>1 DEF SharesAreKept
  <2>2. Excess(c) = 0 /\ Excess(c)' = (IF c = turn THEN RETIRE_WIDTH ELSE 0)
    BY <1>2 DEF Excess
  <2>3. begin_sim_instr[c] \in Nat BY <1>1 DEF PhasesOK
  <2> QED BY <1>3, <1>4, <2>1, <2>2, <2>3, PhaseConstants
<1>9. CoresAreMeasuredAlike' BY <1>1, <1>2 DEF CoresAreMeasuredAlike
<1>10. SimulatedAreCounted' BY <1>1, <1>2, <1>5 DEF SimulatedAreCounted
<1> QED BY <1>6, <1>7, <1>8, <1>9, <1>10 DEF PhaseInv

\* The check for the end of the warmup: the last core begins the measurement of all.
LEMMA CheckWarmupKeepsPhases ==
  ASSUME PhaseInv, CheckWarmup
  PROVE  PhaseInv'
<1>1. PhasesOK /\ WarmAreCounted /\ SimulatedAreCounted /\ SharesAreKept /\ CoresAreMeasuredAlike
  BY DEF PhaseInv
<1>2. /\ pc = "check" /\ pc' = "simulated"
      /\ UNCHANGED <<turn, num_retired, finish_sim_instr, simulation_complete,
                     all_simulation_complete, run_simulation>>
      /\ warmup_complete' = [warmup_complete EXCEPT ![turn] = @ \/ WarmNow]
      /\ \/ /\ NowWarm = NUM_CPUS /\ all_warmup_complete' = NUM_CPUS + 1
            /\ begin_sim_instr' = num_retired
         \/ /\ NowWarm # NUM_CPUS /\ all_warmup_complete' = NowWarm
            /\ begin_sim_instr' = begin_sim_instr
  BY DEF CheckWarmup, BeginAll
<1> DEFINE one == ~warmup_complete[turn] /\ WarmNow
<1>3. Warm' = IF one THEN Warm \cup {turn} ELSE Warm
  BY <1>1, <1>2 DEF Warm, PhasesOK
<1>4. one => turn \notin Warm /\ num_retired[turn] > warmup_instructions
  BY DEF Warm, WarmNow
<1>5. NowWarm = all_warmup_complete + IF one THEN 1 ELSE 0 BY DEF NowWarm
<1> HIDE DEF one
<1>6. Simulated' = Simulated /\ Excess(turn)' = Excess(turn) /\ \A c \in Cpus : Excess(c)' = Excess(c)
  BY <1>1, <1>2 DEF Simulated, Excess, PhasesOK
<1>7. Warm \subseteq Cpus /\ Warm' \subseteq Cpus /\ turn \in Cpus
  BY <1>1, <1>3 DEF Warm, PhasesOK
<1>8. \A c \in Warm' : num_retired[c] > warmup_instructions
  BY <1>1, <1>3, <1>4 DEF WarmAreCounted
<1>9. /\ num_retired \in [Cpus -> Nat] /\ all_warmup_complete \in Nat /\ NUM_CPUS \in Nat
      /\ NowWarm \in Nat /\ all_warmup_complete <= NowWarm
  BY <1>1, <1>5, PhaseConstants DEF PhasesOK
<1>10. ~Measuring => NowWarm = Cardinality(Warm') /\ NowWarm <= NUM_CPUS
  <2> SUFFICES ASSUME ~Measuring PROVE NowWarm = Cardinality(Warm') /\ NowWarm <= NUM_CPUS
    OBVIOUS
  <2>1. all_warmup_complete = Cardinality(Warm) BY <1>1 DEF WarmAreCounted
  <2>2. Cardinality(Warm') = Cardinality(Warm) + IF one THEN 1 ELSE 0
    <3>1. CASE one
      <4>1. Cardinality(Warm \cup {turn}) = Cardinality(Warm) + 1
        BY <1>4, <1>7, <3>1, AllCounted
      <4> QED BY <1>3, <3>1, <4>1
    <3>2. CASE ~one BY <1>3, <1>7, <3>2, AllCounted
    <3> QED BY <3>1, <3>2
  <2>3. Cardinality(Warm') <= NUM_CPUS BY <1>7, AllCounted
  <2> QED BY <1>5, <2>1, <2>2, <2>3
<1>11. PhasesOK'
  <2>1. all_warmup_complete' \in Nat BY <1>2, <1>9
  <2>2. begin_sim_instr' \in [Cpus -> Nat] BY <1>1, <1>2 DEF PhasesOK
  <2>3. DOMAIN warmup_complete' = Cpus BY <1>1, <1>2 DEF PhasesOK
  <2> QED BY <1>1, <1>2, <2>1, <2>2, <2>3 DEF PhasesOK
<1>12. SimulatedAreCounted' BY <1>1, <1>2, <1>6 DEF SimulatedAreCounted
<1>13. CASE NowWarm = NUM_CPUS
  <2>1. ~Measuring BY <1>9, <1>13 DEF Measuring
  <2>2. Warm' = Cpus BY <1>7, <1>10, <1>13, <2>1, AllCounted
  <2>3. Measuring' /\ begin_sim_instr' = num_retired BY <1>2, <1>9, <1>13 DEF Measuring
  <2>4. WarmAreCounted' BY <1>2, <1>8, <2>3 DEF WarmAreCounted
  <2>5. SharesAreKept'
    <3> SUFFICES ASSUME NEW c \in Cpus
                 PROVE  num_retired[c] < num_retired[c] + simulation_instructions + Excess(c)'
      BY <1>2, <2>3 DEF SharesAreKept
    <3>1. Excess(c)' \in Nat BY PhaseConstants DEF Excess
    <3> QED BY <1>9, <3>1, PhaseConstants
  <2>6. CoresAreMeasuredAlike' BY <1>1, <1>2, <1>8, <2>2, <2>3 DEF CoresAreMeasuredAlike
  <2> QED BY <1>11, <1>12, <2>4, <2>5, <2>6 DEF PhaseInv
<1>14. CASE NowWarm # NUM_CPUS
  <2>1. all_warmup_complete' = NowWarm /\ begin_sim_instr' = begin_sim_instr BY <1>2, <1>14
  <2>2. Measuring' <=> Measuring BY <1>9, <1>10, <2>1 DEF Measuring
  <2>3. WarmAreCounted' BY <1>2, <1>8, <1>10, <2>1, <2>2 DEF WarmAreCounted
  <2>4. SharesAreKept' BY <1>1, <1>2, <1>6, <2>1, <2>2 DEF SharesAreKept
  <2>5. CoresAreMeasuredAlike' BY <1>1, <1>2, <2>1, <2>2 DEF CoresAreMeasuredAlike, Measuring
  <2> QED BY <1>11, <1>12, <2>3, <2>4, <2>5 DEF PhaseInv
<1> QED BY <1>13, <1>14

\* The check for the end of the simulation: a core that has retired its share is done.
LEMMA CheckSimulationKeepsPhases ==
  ASSUME PhaseInv, CheckSimulation
  PROVE  PhaseInv'
<1>1. PhasesOK /\ WarmAreCounted /\ SimulatedAreCounted /\ SharesAreKept /\ CoresAreMeasuredAlike
  BY DEF PhaseInv
<1>2. /\ pc = "simulated" /\ turn' = (turn + 1) % NUM_CPUS /\ pc' \in {"done", "cycle"}
      /\ UNCHANGED <<num_retired, begin_sim_instr, warmup_complete, all_warmup_complete>>
      /\ run_simulation' = (run_simulation /\ all_simulation_complete' # NUM_CPUS)
  BY DEF CheckSimulation
<1>3. turn \in Cpus /\ turn' \in Cpus BY <1>1, <1>2, PhaseConstants DEF PhasesOK, Cpus
<1>4. Warm' = Warm /\ Measuring' = Measuring /\ \A c \in Cpus : Excess(c)' = 0
  BY <1>2 DEF Warm, Measuring, Excess
<1>5. WarmAreCounted' BY <1>1, <1>2, <1>4 DEF WarmAreCounted
<1>6. \A c \in Cpus : num_retired[c] \in Nat /\ begin_sim_instr[c] \in Nat BY <1>1 DEF PhasesOK
<1>7. \A c \in Cpus \ {turn} : Excess(c) = 0 BY DEF Excess
<1>8. Simulated \subseteq Cpus /\ Simulated' \subseteq Cpus BY DEF Simulated
<1>9. CASE Completes
  <2>1. /\ simulation_complete' = [simulation_complete EXCEPT ![turn] = TRUE]
        /\ finish_sim_instr' = [finish_sim_instr EXCEPT ![turn] = num_retired[turn] - begin_sim_instr[turn]]
        /\ all_simulation_complete' = all_simulation_complete + 1
    BY <1>9 DEF CheckSimulation, Finish
  <2>2. /\ Measuring /\ turn \notin Simulated
        /\ num_retired[turn] >= begin_sim_instr[turn] + simulation_instructions
    BY <1>9 DEF Completes, Measuring, Simulated
  <2>3. Simulated' = Simulated \cup {turn} BY <1>1, <1>3, <2>1 DEF Simulated, PhasesOK
  <2>4. num_retired[turn] < begin_sim_instr[turn] + simulation_instructions + RETIRE_WIDTH
    <3>1. Excess(turn) = RETIRE_WIDTH BY <1>2 DEF Excess
    <3> QED BY <1>1, <1>3, <2>2, <3>1 DEF SharesAreKept
  <2>5. num_retired[turn] - begin_sim_instr[turn] \in
          simulation_instructions..simulation_instructions + RETIRE_WIDTH - 1
    BY <1>3, <1>6, <2>2, <2>4, PhaseConstants
  <2>6. PhasesOK' BY <1>1, <1>2, <1>3, <1>6, <2>1 DEF PhasesOK
  <2>7. SimulatedAreCounted' BY <1>1, <1>3, <1>8, <2>1, <2>2, <2>3, AllCounted DEF SimulatedAreCounted
  <2>8. SharesAreKept'
    <3> SUFFICES ASSUME Measuring, NEW c \in Cpus \ Simulated'
                 PROVE  num_retired[c] < begin_sim_instr[c] + simulation_instructions + 0
      BY <1>2, <1>4 DEF SharesAreKept
    <3> QED BY <1>1, <1>7, <2>3 DEF SharesAreKept
  <2>9. CoresAreMeasuredAlike'
    <3>1. ASSUME NEW c \in Cpus, simulation_complete'[c]
          PROVE  finish_sim_instr'[c] \in
                   simulation_instructions..simulation_instructions + RETIRE_WIDTH - 1
      <4>1. CASE c = turn BY <1>1, <2>1, <2>5, <4>1 DEF PhasesOK
      <4>2. CASE c # turn
        <5>1. simulation_complete[c] /\ finish_sim_instr'[c] = finish_sim_instr[c]
          BY <1>1, <2>1, <3>1, <4>2 DEF PhasesOK
        <5> QED BY <1>1, <5>1 DEF CoresAreMeasuredAlike
      <4> QED BY <4>1, <4>2
    <3>2. ASSUME NEW c \in Cpus, ~run_simulation' PROVE simulation_complete'[c]
      <4>1. CASE ~run_simulation BY <1>1, <2>1, <4>1 DEF CoresAreMeasuredAlike, PhasesOK
      <4>2. CASE all_simulation_complete' = NUM_CPUS
        <5>1. Simulated' = Cpus BY <1>8, <2>7, <4>2, AllCounted DEF SimulatedAreCounted
        <5> QED BY <5>1 DEF Simulated
      <4> QED BY <1>2, <3>2, <4>1, <4>2
    <3> QED BY <1>1, <1>2, <3>1, <3>2 DEF CoresAreMeasuredAlike
  <2> QED BY <1>5, <2>6, <2>7, <2>8, <2>9 DEF PhaseInv
<1>10. CASE ~Completes
  <2>1. UNCHANGED <<simulation_complete, finish_sim_instr, all_simulation_complete>>
    BY <1>10 DEF CheckSimulation
  <2>2. Simulated' = Simulated BY <2>1 DEF Simulated
  <2>3. PhasesOK' BY <1>1, <1>2, <1>3, <2>1 DEF PhasesOK
  <2>4. SimulatedAreCounted' BY <1>1, <2>1, <2>2 DEF SimulatedAreCounted
  <2>5. SharesAreKept'
    <3> SUFFICES ASSUME Measuring, NEW c \in Cpus \ Simulated
                 PROVE  num_retired[c] < begin_sim_instr[c] + simulation_instructions + 0
      BY <1>2, <1>4, <2>2 DEF SharesAreKept
    <3>1. CASE c = turn
      <4>1. ~(num_retired[c] >= begin_sim_instr[c] + simulation_instructions)
        BY <1>10, <3>1 DEF Completes, Measuring, Simulated
      <4> QED BY <1>6, <4>1, PhaseConstants
    <3>2. CASE c # turn BY <1>1, <1>7, <3>2 DEF SharesAreKept
    <3> QED BY <3>1, <3>2
  <2>6. CoresAreMeasuredAlike'
    <3>1. ASSUME NEW c \in Cpus, ~run_simulation' PROVE simulation_complete[c]
      <4>1. CASE ~run_simulation BY <1>1, <4>1 DEF CoresAreMeasuredAlike
      <4>2. CASE all_simulation_complete = NUM_CPUS
        <5>1. Simulated = Cpus BY <1>1, <1>8, <4>2, AllCounted DEF SimulatedAreCounted
        <5> QED BY <5>1 DEF Simulated
      <4> QED BY <1>2, <2>1, <3>1, <4>1, <4>2
    <3> QED BY <1>1, <1>2, <2>1, <3>1 DEF CoresAreMeasuredAlike
  <2> QED BY <1>5, <2>3, <2>4, <2>5, <2>6 DEF PhaseInv
<1> QED BY <1>9, <1>10

\* A step without a phase leaves at most the excess of the cycle that has been run.
LEMMA IdleKeepsPhases ==
  ASSUME PhaseInv, UNCHANGED <<num_retired, phases, turn>>,
         pc' = pc \/ (pc = "cycle" /\ pc' = "run") \/ (pc = "run" /\ pc' = "check")
  PROVE  PhaseInv'
<1>1. UNCHANGED <<num_retired, begin_sim_instr, finish_sim_instr, warmup_complete,
                  all_warmup_complete, simulation_complete, all_simulation_complete,
                  run_simulation, turn>>
  BY DEF phases
<1>2. Warm' = Warm /\ Simulated' = Simulated /\ Measuring' = Measuring
  BY <1>1 DEF Warm, Simulated, Measuring
<1>3. PhasesOK' /\ WarmAreCounted' /\ SimulatedAreCounted' /\ CoresAreMeasuredAlike'
  BY <1>1, <1>2 DEF PhaseInv, PhasesOK, WarmAreCounted, SimulatedAreCounted, CoresAreMeasuredAlike
<1>4. SharesAreKept'
  <2> SUFFICES ASSUME Measuring, NEW c \in Cpus \ Simulated
               PROVE  num_retired[c] < begin_sim_instr[c] + simulation_instructions + Excess(c)'
    BY <1>1, <1>2 DEF SharesAreKept
  <2>1. num_retired[c] < begin_sim_instr[c] + simulation_instructions + Excess(c)
    BY DEF PhaseInv, SharesAreKept
  <2>2. num_retired[c] \in Nat /\ begin_sim_instr[c] \in Nat BY DEF PhaseInv, PhasesOK
  <2>3. Excess(c)' = Excess(c) \/ (Excess(c) = 0 /\ Excess(c)' = RETIRE_WIDTH)
    BY <1>1 DEF Excess
  <2> QED BY <2>1, <2>2, <2>3, PhaseConstants
<1> QED BY <1>3, <1>4 DEF PhaseInv

LEMMA PhasesKeep == PhaseInv /\ [Next]_vars => PhaseInv'
<1> SUFFICES ASSUME PhaseInv, [Next]_vars PROVE PhaseInv'
  OBVIOUS
<1>1. CASE NextCycle \/ Stalled \/ Done \/ UNCHANGED vars
  <2>1. /\ UNCHANGED <<num_retired, phases, turn>>
        /\ pc' = pc \/ (pc = "cycle" /\ pc' = "run") \/ (pc = "run" /\ pc' = "check")
    BY <1>1 DEF NextCycle, Stalled, Done, vars
  <2> QED BY <2>1, IdleKeepsPhases
<1> QED
  BY <1>1, RunKeepsPhases, CheckWarmupKeepsPhases, CheckSimulationKeepsPhases DEF Next, Loop

\* Whichever core is last to warm up, every core is measured after its own warmup, over
\* simulation_instructions and less than one cycle's retirements more.
THEOREM CoresAreAlwaysMeasuredAlike == Spec => []CoresAreMeasuredAlike
<1>1. PhaseInv => CoresAreMeasuredAlike BY DEF PhaseInv
<1> QED BY <1>1, PhasesInitially, PhasesKeep, PTL DEF Spec
-----------------------------------------------------------------------------
(***************************************************************************)
(* The DRAM controller.                                                    *)
(***************************************************************************)

Rows == {RowOf[a] : a \in Blocks}
Bank == [request: Blocks \cup {None}, direction: Queues, open_row: Rows \cup {None},
         hit: BOOLEAN, left: Nat]

TypeOK ==
  /\ stage \in {"mode", "schedule", "process", "tick"}
  /\ warmup \in BOOLEAN /\ write_mode \in BOOLEAN
  /\ queue \in [Queues -> SUBSET Blocks] /\ \A q \in Queues : IsFiniteSet(queue[q])
  /\ scheduled \in [Queues -> SUBSET Blocks] /\ count \in [Queues -> Int]
  /\ bank \in [Banks -> Bank]
  /\ dbus \in Int
  /\ charged \in [Banks -> Rows \cup {None}]

\* A bank works on a request of its own, and opens the row of that request.
OwnRequests ==
  \A k \in Banks : bank[k].request # None => /\ BankOf[bank[k].request] = k
                                             /\ bank[k].open_row = RowOf[bank[k].request]

\* The row is activated once no more than the column access is left, as seen at the
\* start of a cycle, and at any time once the request is due.
Settled(k) == \/ bank[k].left = 0
              \/ bank[k].left <= tCAS /\ stage \in {"mode", "schedule"}
RowsAreActivated ==
  \A k \in Banks : bank[k].request # None /\ Settled(k) => charged[k] = RowOf[bank[k].request]

\* A bank that does not work is no hit.
OnlyRequestsHit == \A k \in Banks : bank[k].hit => bank[k].request # None

\* The LLC waits for the reads in the queue and for no others.
QueueIsAwaited == waiting = queue["RQ"]

IInv == /\ TypeOK /\ BanksMatchQueues /\ RowHitsAreReal
        /\ OwnRequests /\ RowsAreActivated /\ OnlyRequestsHit /\ QueueIsAwaited
-----------------------------------------------------------------------------
(***************************************************************************)
(* Facts about the helpers.                                                *)
(***************************************************************************)

\* A row is a number, so never the mark of a closed bank; nor is a block.
LEMMA NoneIsNoRow == None \notin Rows /\ None \notin Blocks
<1>1. ASSUME NEW a \in Blocks PROVE RowOf[a] \in Nat
  <2> DEFINE d == DRAM_CHANNELS * DRAM_BANKS * DRAM_COLUMNS * DRAM_RANKS
  <2>1. d \in Nat \ {0}
    <3>1. DRAM_CHANNELS * DRAM_BANKS \in Nat \ {0} BY AddressAssumption
    <3>2. DRAM_CHANNELS * DRAM_BANKS * DRAM_COLUMNS \in Nat \ {0} BY <3>1, AddressAssumption
    <3> QED BY <3>2, AddressAssumption
  <2>2. a \in Nat /\ DRAM_ROWS \in Nat \ {0} BY AddressAssumption
  <2>3. dram_get_row(a) = (a \div d) % DRAM_ROWS BY DEF dram_get_row
  <2> HIDE DEF d
  <2>4. a \div d \in Nat BY <2>1, <2>2
  <2>5. dram_get_row(a) \in Nat BY <2>2, <2>3, <2>4
  <2> QED BY <2>5 DEF RowOf
<1> QED BY <1>1, AddressAssumption DEF Rows

\* The bank of a block is a bank, and its row a row.
LEMMA AddressTypes == \A a \in Blocks : BankOf[a] \in Banks /\ RowOf[a] \in Rows
BY DEF Banks, Rows

\* An idle bank is a bank.
LEMMA IdleType ==
  \A row \in Rows \cup {None} : /\ Idle(row) \in Bank
                                /\ Idle(row).request = None /\ Idle(row).open_row = row
                                /\ Idle(row).hit = FALSE
BY DEF Idle, Bank, Queues

\* The fields of a bank.
LEMMA BankFields ==
  ASSUME NEW b \in Bank
  PROVE  /\ b.request \in Blocks \cup {None} /\ b.direction \in Queues
         /\ b.open_row \in Rows \cup {None} /\ b.hit \in BOOLEAN /\ b.left \in Nat
         /\ \A n \in Nat : /\ [b EXCEPT !.left = n] \in Bank
                           /\ [b EXCEPT !.left = n].request = b.request
                           /\ [b EXCEPT !.left = n].direction = b.direction
                           /\ [b EXCEPT !.left = n].open_row = b.open_row
                           /\ [b EXCEPT !.left = n].hit = b.hit
                           /\ [b EXCEPT !.left = n].left = n
BY DEF Bank

\* A scheduled request counts for one bank: as many banks are given back when the
\* mode changes as there are scheduled requests.
LEMMA OneBankEach ==
  ASSUME NEW S \in SUBSET Blocks, IsFiniteSet(S), \A a \in S : bank[BankOf[a]].request = a
  PROVE  Cardinality({BankOf[a] : a \in S}) = Cardinality(S)
<1> DEFINE T == {BankOf[a] : a \in S}
           f == [a \in S |-> BankOf[a]]
<1>1. f \in Bijection(S, T)
  BY DEF Bijection, Injection, Surjection, IsInjective
<1>2. ExistsBijection(S, T) BY <1>1 DEF ExistsBijection
<1> QED BY <1>2, FS_Bijection

\* What the mode and the bank of a scheduled request are.
LEMMA ScheduledFacts ==
  ASSUME IInv
  PROVE  /\ Mode \in Queues /\ (Mode = "WQ" <=> write_mode)
         /\ \A q \in Queues : q # Mode => scheduled[q] = {}
         /\ \A q \in Queues : IsFiniteSet(scheduled[q]) /\ Cardinality(scheduled[q]) = count[q]
         /\ \A k \in Banks : bank[k].request # None =>
              /\ bank[k].direction = Mode /\ bank[k].request \in scheduled[Mode]
              /\ bank[k].request \in queue[Mode] /\ bank[k].request \in Blocks
<1>1. Mode \in Queues /\ (Mode = "WQ" <=> write_mode) BY DEF Mode, Queues
<1>2. TypeOK /\ BanksMatchQueues BY DEF IInv
<1>3. \A q \in Queues : q # Mode => scheduled[q] = {} BY <1>2 DEF BanksMatchQueues
<1>4. ASSUME NEW q \in Queues PROVE IsFiniteSet(scheduled[q]) /\ Cardinality(scheduled[q]) = count[q]
  <2>1. IsFiniteSet(queue[q]) /\ scheduled[q] \subseteq queue[q] BY <1>2 DEF TypeOK, BanksMatchQueues
  <2> QED BY <1>2, <2>1, FS_Subset DEF BanksMatchQueues
<1>5. ASSUME NEW k \in Banks, bank[k].request # None
      PROVE  /\ bank[k].direction = Mode /\ bank[k].request \in scheduled[Mode]
             /\ bank[k].request \in queue[Mode] /\ bank[k].request \in Blocks
  <2>1. bank[k] \in Bank BY <1>2 DEF TypeOK
  <2>2. bank[k].direction \in Queues /\ bank[k].request \in Blocks BY <1>5, <2>1, BankFields
  <2>3. bank[k].request \in scheduled[bank[k].direction] BY <1>2, <1>5 DEF BanksMatchQueues
  <2>4. bank[k].direction = Mode BY <1>3, <2>2, <2>3
  <2> QED BY <1>1, <1>2, <2>2, <2>3, <2>4 DEF BanksMatchQueues
<1> QED BY <1>1, <1>3, <1>4, <1>5

\* What a bank keeps unchanged keeps the invariant.
LEMMA BanksUntouched ==
  ASSUME IInv, UNCHANGED <<scheduled, count, bank, write_mode>>,
         \A q \in Queues : queue[q] \subseteq queue'[q]
  PROVE  BanksMatchQueues' /\ OwnRequests' /\ OnlyRequestsHit'
<1> USE DEF IInv
<1>1. BanksMatchQueues' BY DEF BanksMatchQueues, Mode
<1>2. OwnRequests' /\ OnlyRequestsHit' BY DEF OwnRequests, OnlyRequestsHit
<1> QED BY <1>1, <1>2

LEMMA Initially == DramInit => IInv
<1> SUFFICES ASSUME DramInit PROVE IInv OBVIOUS
<1>1. \A q \in Queues : queue[q] = {} /\ scheduled[q] = {} /\ count[q] = 0 BY DEF DramInit
<1>2. \A k \in Banks : bank[k] = Idle(None) /\ charged[k] = None BY DEF DramInit
<1>3. \A k \in Banks : bank[k].request = None /\ bank[k].open_row = None /\ bank[k].hit = FALSE
  BY <1>2, IdleType
<1>4. TypeOK
  <2>1. queue \in [Queues -> SUBSET Blocks] /\ scheduled \in [Queues -> SUBSET Blocks]
        /\ count \in [Queues -> Int] /\ charged \in [Banks -> Rows \cup {None}]
    BY DEF DramInit
  <2>2. bank \in [Banks -> Bank] BY IdleType DEF DramInit
  <2>3. \A q \in Queues : IsFiniteSet(queue[q]) BY <1>1, FS_EmptySet
  <2>4. stage \in {"mode", "schedule", "process", "tick"} /\ dbus \in Int BY DEF DramInit
  <2>5. warmup \in BOOLEAN BY DEF DramInit
  <2>6. write_mode \in BOOLEAN BY DEF DramInit
  <2> QED BY <2>1, <2>2, <2>3, <2>4, <2>5, <2>6 DEF TypeOK
<1>5. BanksMatchQueues BY <1>1, <1>3, FS_EmptySet DEF BanksMatchQueues
<1>6. RowHitsAreReal /\ OwnRequests /\ RowsAreActivated /\ OnlyRequestsHit
  BY <1>3 DEF RowHitsAreReal, OwnRequests, RowsAreActivated, OnlyRequestsHit
<1>7. QueueIsAwaited BY <1>1 DEF DramInit, QueueIsAwaited, Queues
<1> QED BY <1>4, <1>5, <1>6, <1>7 DEF IInv

\* The LLC asks for a block, or writes one: it joins a queue, or no queue.
LEMMA AddKeeps ==
  ASSUME IInv, NEW q \in Queues, NEW a \in Blocks,
         \/ queue' = queue /\ waiting' = waiting
         \/ /\ queue' = [queue EXCEPT ![q] = @ \cup {a}]
            /\ waiting' = IF q = "RQ" THEN waiting \cup {a} ELSE waiting,
         UNCHANGED <<stage, warmup, scheduled, count, bank, write_mode, dbus, charged>>
  PROVE  IInv'
<1>1. TypeOK /\ QueueIsAwaited /\ RowHitsAreReal /\ RowsAreActivated BY DEF IInv
<1>2. queue' \in [Queues -> SUBSET Blocks] BY <1>1 DEF TypeOK
<1>3. \A d \in Queues : IsFiniteSet(queue'[d])
  <2> TAKE d \in Queues
  <2>1. IsFiniteSet(queue[d]) BY <1>1 DEF TypeOK
  <2>2. queue'[d] = queue[d] \/ queue'[d] = queue[d] \cup {a} BY <1>1 DEF TypeOK
  <2> QED BY <2>1, <2>2, FS_AddElement
<1>4. TypeOK' BY <1>1, <1>2, <1>3 DEF TypeOK
<1>5. \A d \in Queues : queue[d] \subseteq queue'[d] BY <1>1 DEF TypeOK
<1>6. BanksMatchQueues' /\ OwnRequests' /\ OnlyRequestsHit' BY <1>5, BanksUntouched
<1>7. RowHitsAreReal' /\ RowsAreActivated' BY <1>1 DEF RowHitsAreReal, RowsAreActivated, Settled
<1>8. QueueIsAwaited' BY <1>1 DEF TypeOK, QueueIsAwaited, Queues
<1> QED BY <1>4, <1>6, <1>7, <1>8 DEF IInv

\* The scheduled requests are given back: no bank works, and none is left with a row
\* that it has not activated.
LEMMA ResetFacts ==
  ASSUME IInv, stage = "mode", ResetRemainRequests(Mode)
  PROVE  /\ bank' \in [Banks -> Bank] /\ count' \in [Queues -> Int]
         /\ \A q \in Queues : scheduled'[q] = {} /\ count'[q] = 0
         /\ scheduled' \in [Queues -> SUBSET Blocks]
         /\ \A k \in Banks : /\ bank'[k].request = None /\ bank'[k].hit = FALSE
                             /\ bank'[k].open_row \in {None, charged[k]}
<1> DEFINE given == {BankOf[a] : a \in scheduled[Mode]}
<1>1. TypeOK /\ BanksMatchQueues BY DEF IInv
<1>2. /\ bank' = [k \in Banks |-> IF k \in given THEN Idle(RowKept(bank[k])) ELSE bank[k]]
      /\ count' = [d \in Queues |-> count[d] - Cardinality({k \in given : bank[k].direction = d})]
      /\ scheduled' = [scheduled EXCEPT ![Mode] = {}]
  BY DEF ResetRemainRequests
<1>3. Mode \in Queues /\ \A q \in Queues : q # Mode => scheduled[q] = {} BY ScheduledFacts
<1>4. \A q \in Queues : scheduled'[q] = {} BY <1>1, <1>2, <1>3 DEF TypeOK
<1>5. scheduled' \in [Queues -> SUBSET Blocks] BY <1>1, <1>2 DEF TypeOK
<1>6. scheduled[Mode] \subseteq Blocks BY <1>1, <1>3 DEF TypeOK
<1>7. \A k \in given : k \in Banks /\ bank[k].direction = Mode /\ bank[k].request # None
  BY <1>1, <1>3, <1>6, AddressTypes, NoneIsNoRow DEF BanksMatchQueues
<1>8. ASSUME NEW d \in Queues PROVE count'[d] = 0
  <2>1. count'[d] = count[d] - Cardinality({k \in given : bank[k].direction = d}) BY <1>2
  <2>2. IsFiniteSet(scheduled[d]) /\ Cardinality(scheduled[d]) = count[d] /\ count[d] \in Int
    BY <1>1, ScheduledFacts DEF TypeOK
  <2>3. CASE d = Mode
    <3>1. {k \in given : bank[k].direction = d} = given BY <1>7, <2>3
    <3>2. \A a \in scheduled[Mode] : bank[BankOf[a]].request = a BY <1>1, <1>3 DEF BanksMatchQueues
    <3>3. Cardinality(given) = Cardinality(scheduled[Mode])
      BY <1>6, <2>2, <2>3, <3>2, OneBankEach
    <3>4. count'[d] = count[d] - Cardinality(given) BY <2>1, <3>1, Zenon
    <3> HIDE DEF given
    <3> QED BY <2>2, <2>3, <3>3, <3>4
  <2>4. CASE d # Mode
    <3>1. {k \in given : bank[k].direction = d} = {} BY <1>7, <2>4
    <3>2. count[d] = 0 BY <1>3, <2>2, <2>4, FS_EmptySet
    <3>3. count'[d] = count[d] - Cardinality({}) BY <2>1, <3>1, Zenon
    <3> QED BY <3>2, <3>3, FS_EmptySet
  <2> QED BY <2>3, <2>4
<1>9. count' \in [Queues -> Int]
  <2>1. DOMAIN count' = Queues /\ count' = [d \in Queues |-> count'[d]] BY <1>2
  <2> QED BY <1>8, <2>1
<1>10. ASSUME NEW k \in Banks
       PROVE  /\ bank'[k] \in Bank /\ bank'[k].request = None /\ bank'[k].hit = FALSE
              /\ bank'[k].open_row \in {None, charged[k]}
  <2>1. bank[k] \in Bank BY <1>1 DEF TypeOK
  <2>2. CASE k \in given
    <3>1. bank'[k] = Idle(RowKept(bank[k])) BY <1>2, <2>2
    <3>2. bank[k].request # None /\ bank[k].request \in Blocks BY <1>7, <2>1, <2>2, BankFields
    <3>3. bank[k].left <= tCAS => charged[k] = RowOf[bank[k].request]
      BY <3>2 DEF IInv, RowsAreActivated, Settled
    <3>4. RowKept(bank[k]) \in {None, charged[k]} /\ RowKept(bank[k]) \in Rows \cup {None}
      BY <3>2, <3>3, AddressTypes DEF RowKept, RowLeft
    <3> QED BY <3>1, <3>4, IdleType
  <2>3. CASE k \notin given
    <3>1. bank'[k] = bank[k] BY <1>2, <2>3
    <3>2. bank[k].request = None
      <4>1. bank[k].request # None => bank[k].request \in scheduled[Mode] BY ScheduledFacts
      <4>2. bank[k].request # None => BankOf[bank[k].request] = k BY DEF IInv, OwnRequests
      <4> QED BY <2>3, <4>1, <4>2
    <3>3. ~bank[k].hit /\ bank[k].open_row \in {None, charged[k]}
      BY <3>2 DEF IInv, OnlyRequestsHit, RowHitsAreReal
    <3>4. bank[k].hit = FALSE BY <2>1, <3>3, BankFields
    <3> QED BY <2>1, <3>1, <3>2, <3>3, <3>4
  <2> QED BY <2>2, <2>3
<1>11. bank' \in [Banks -> Bank]
  <2>1. bank' = [k \in Banks |-> bank'[k]] BY <1>2
  <2> QED BY <1>10, <2>1
<1> QED BY <1>4, <1>5, <1>8, <1>9, <1>10, <1>11

LEMMA ChangeModeKeeps ==
  ASSUME IInv, ChangeMode
  PROVE  IInv'
<1>1. TypeOK BY DEF IInv
<1>2. UNCHANGED <<warmup, queue, waiting, charged>> /\ stage = "mode" /\ stage' = "schedule"
  BY DEF ChangeMode
<1>3. QueueIsAwaited' BY <1>2 DEF IInv, QueueIsAwaited
<1>4. CASE /\ write_mode' = ~write_mode /\ dbus' = dbus + TURN_AROUND
           /\ ResetRemainRequests(Mode)
  <2>1. /\ bank' \in [Banks -> Bank] /\ count' \in [Queues -> Int]
        /\ \A q \in Queues : scheduled'[q] = {} /\ count'[q] = 0
        /\ scheduled' \in [Queues -> SUBSET Blocks]
        /\ \A k \in Banks : /\ bank'[k].request = None /\ bank'[k].hit = FALSE
                            /\ bank'[k].open_row \in {None, charged[k]}
    BY <1>2, <1>4, ResetFacts
  <2>2. dbus' \in Int BY <1>1, <1>4, TimeAssumption DEF TypeOK
  <2>3. write_mode' \in BOOLEAN BY <1>4
  <2>4. TypeOK' BY <1>1, <1>2, <2>1, <2>2, <2>3 DEF TypeOK
  <2>5. BanksMatchQueues' BY <2>1, FS_EmptySet DEF BanksMatchQueues
  <2>6. RowHitsAreReal' /\ OwnRequests' /\ RowsAreActivated' /\ OnlyRequestsHit'
    BY <1>2, <2>1 DEF RowHitsAreReal, OwnRequests, RowsAreActivated, OnlyRequestsHit
  <2> QED BY <1>3, <2>4, <2>5, <2>6 DEF IInv
<1>5. CASE UNCHANGED <<write_mode, bank, count, scheduled, dbus>>
  <2>1. TypeOK' BY <1>1, <1>2, <1>5 DEF TypeOK
  <2>2. BanksMatchQueues' /\ OwnRequests' /\ OnlyRequestsHit' BY <1>2, <1>5, BanksUntouched
  <2>3. RowHitsAreReal' /\ RowsAreActivated'
    BY <1>2, <1>5 DEF IInv, RowHitsAreReal, RowsAreActivated, Settled
  <2> QED BY <1>3, <2>1, <2>2, <2>3 DEF IInv
<1> QED BY <1>4, <1>5 DEF ChangeMode, Mode

\* The scheduler gives a request to an idle bank of its address.
LEMMA ScheduleKeeps ==
  ASSUME IInv, Schedule
  PROVE  IInv'
<1>1. TypeOK /\ BanksMatchQueues /\ RowHitsAreReal /\ OwnRequests /\ OnlyRequestsHit
      /\ RowsAreActivated
  BY DEF IInv
<1>2. /\ UNCHANGED <<warmup, queue, write_mode, dbus, waiting>>
      /\ stage = "schedule" /\ stage' = "process" /\ Mode' = Mode
  BY DEF Schedule, Mode
<1>3. QueueIsAwaited' BY <1>2 DEF IInv, QueueIsAwaited
<1>4. CASE UNCHANGED <<scheduled, count, bank, charged>>
  <2>1. TypeOK' BY <1>1, <1>2, <1>4 DEF TypeOK
  <2>2. BanksMatchQueues' /\ OwnRequests' /\ OnlyRequestsHit' BY <1>2, <1>4, BanksUntouched
  <2>3. RowHitsAreReal' /\ RowsAreActivated'
    BY <1>1, <1>2, <1>4 DEF RowHitsAreReal, RowsAreActivated, Settled
  <2> QED BY <1>3, <2>1, <2>2, <2>3 DEF IInv
<1>5. ASSUME NEW a \in Candidates, NEW k, k = BankOf[a], NEW hit \in BOOLEAN, hit = (RowHits # {}),
             bank' = [bank EXCEPT ![k] =
               [request |-> a, direction |-> Mode, open_row |-> RowOf[a], hit |-> hit,
                left |-> IF hit THEN tCAS ELSE tMISS + tCAS]],
             scheduled' = [scheduled EXCEPT ![Mode] = @ \cup {a}],
             count' = [count EXCEPT ![Mode] = @ + 1],
             charged' = IF hit THEN charged ELSE [charged EXCEPT ![k] = None]
      PROVE  IInv'
  <2>1. /\ a \in queue[Mode] /\ a \notin scheduled[Mode] /\ bank[k].request = None
        /\ hit => bank[k].open_row = RowOf[a]
    BY <1>5 DEF Candidates, RowHits, Ready, Unscheduled
  <2>2. Mode \in Queues /\ (\A q \in Queues : q # Mode => scheduled[q] = {}) BY ScheduledFacts
  <2>3. a \in Blocks /\ k \in Banks /\ RowOf[a] \in Rows /\ a # None /\ RowOf[a] # None
    BY <1>1, <1>5, <2>1, <2>2, AddressTypes, NoneIsNoRow DEF TypeOK
  <2>4. hit => charged[k] = RowOf[a] BY <1>1, <2>1, <2>3 DEF RowHitsAreReal
  <2> DEFINE new == [request |-> a, direction |-> Mode, open_row |-> RowOf[a], hit |-> hit,
                     left |-> IF hit THEN tCAS ELSE tMISS + tCAS]
  <2>5. (IF hit THEN tCAS ELSE tMISS + tCAS) \in Nat \ {0} BY <1>5, TimeAssumption
  <2>6. new \in Bank BY <1>5, <2>2, <2>3, <2>5 DEF Bank
  <2>7. /\ new.request = a /\ new.direction = Mode /\ new.open_row = RowOf[a]
        /\ new.hit = hit /\ new.left # 0
    BY <2>5
  <2>8. bank' = [bank EXCEPT ![k] = new] BY <1>5
  <2> HIDE DEF new
  <2>9. /\ bank' \in [Banks -> Bank] /\ bank'[k] = new
        /\ \A j \in Banks \ {k} : bank'[j] = bank[j]
    BY <1>1, <2>3, <2>6, <2>8 DEF TypeOK
  <2>10. /\ scheduled' \in [Queues -> SUBSET Blocks]
         /\ scheduled'[Mode] = scheduled[Mode] \cup {a}
         /\ \A q \in Queues : q # Mode => scheduled'[q] = {}
    BY <1>1, <1>5, <2>2, <2>3 DEF TypeOK
  <2>11. /\ count' \in [Queues -> Int] /\ count'[Mode] = count[Mode] + 1
         /\ \A q \in Queues : q # Mode => count'[q] = count[q]
    BY <1>1, <1>5, <2>2 DEF TypeOK
  <2>12. /\ charged' \in [Banks -> Rows \cup {None}]
         /\ \A j \in Banks \ {k} : charged'[j] = charged[j]
         /\ hit => charged'[k] = charged[k]
    BY <1>1, <1>5, <2>3 DEF TypeOK
  <2>13. TypeOK' BY <1>1, <1>2, <2>9, <2>10, <2>11, <2>12 DEF TypeOK
  <2>14. \A q \in Queues : count'[q] = Cardinality(scheduled'[q])
    <3> TAKE q \in Queues
    <3>1. IsFiniteSet(scheduled[q]) /\ Cardinality(scheduled[q]) = count[q] BY ScheduledFacts
    <3>2. CASE q = Mode BY <2>1, <2>10, <2>11, <3>1, <3>2, FS_AddElement
    <3>3. CASE q # Mode BY <2>2, <2>10, <2>11, <3>1, <3>3
    <3> QED BY <3>2, <3>3
  <2>15. \A j \in Banks : bank[j].request # None =>
                          bank[j].direction = Mode /\ bank[j].request \in scheduled[Mode]
    BY ScheduledFacts
  <2>16. BanksMatchQueues'
    <3>1. \A q \in Queues : scheduled'[q] \subseteq queue'[q]
      BY <1>1, <1>2, <2>1, <2>10 DEF BanksMatchQueues
    <3>2. ASSUME NEW b \in scheduled'[Mode]
          PROVE  bank'[BankOf[b]].request = b /\ bank'[BankOf[b]].direction = Mode
      <4>1. CASE b = a BY <1>5, <2>7, <2>9, <4>1
      <4>2. CASE b \in scheduled[Mode]
        <5>1. bank[BankOf[b]].request = b /\ bank[BankOf[b]].direction = Mode
          BY <1>1, <2>2, <4>2 DEF BanksMatchQueues
        <5>2. b \in Blocks /\ BankOf[b] \in Banks BY <1>1, <2>2, <4>2, AddressTypes DEF TypeOK
        <5>3. BankOf[b] # k BY <2>1, <5>1, <5>2, NoneIsNoRow
        <5> QED BY <2>9, <5>1, <5>2, <5>3
      <4> QED BY <2>10, <4>1, <4>2
    <3>3. ASSUME NEW j \in Banks, bank'[j].request # None
          PROVE  bank'[j].request \in scheduled'[bank'[j].direction]
      BY <2>7, <2>9, <2>10, <2>15, <3>3
    <3> QED BY <1>2, <2>10, <2>14, <3>1, <3>2, <3>3 DEF BanksMatchQueues
  <2>17. RowHitsAreReal' BY <1>1, <2>3, <2>4, <2>7, <2>9, <2>12 DEF RowHitsAreReal
  <2>18. OwnRequests' BY <1>1, <1>5, <2>7, <2>9 DEF OwnRequests
  <2>19. RowsAreActivated'
    BY <1>1, <1>2, <2>7, <2>9, <2>12 DEF RowsAreActivated, Settled
  <2>20. OnlyRequestsHit' BY <1>1, <2>3, <2>7, <2>9 DEF OnlyRequestsHit
  <2> QED BY <1>3, <2>13, <2>16, <2>17, <2>18, <2>19, <2>20 DEF IInv
<1> QED BY <1>4, <1>5 DEF Schedule

\* A bank is done: its request leaves the queue, and nothing else of the queues changes.
LEMMA FinishFacts ==
  ASSUME IInv, NEW k \in DueBanks, FinishRequest(k)
  PROVE  /\ k \in Banks /\ bank[k].request \in Blocks
         /\ bank' \in [Banks -> Bank] /\ bank'[k] = Idle(bank[k].open_row)
         /\ \A j \in Banks \ {k} : bank'[j] = bank[j]
         /\ queue' = [queue EXCEPT ![Mode] = @ \ {bank[k].request}]
         /\ queue' \in [Queues -> SUBSET Blocks] /\ \A q \in Queues : IsFiniteSet(queue'[q])
         /\ scheduled' \in [Queues -> SUBSET Blocks]
         /\ scheduled'[Mode] = scheduled[Mode] \ {bank[k].request}
         /\ \A q \in Queues : q # Mode => scheduled'[q] = {}
         /\ count' \in [Queues -> Int]
         /\ \A q \in Queues : count'[q] = Cardinality(scheduled'[q])
<1>1. TypeOK BY DEF IInv
<1>2. k \in Banks /\ bank[k].request # None BY DEF DueBanks
<1>3. Mode \in Queues /\ (\A q \in Queues : q # Mode => scheduled[q] = {}) BY ScheduledFacts
<1>4. bank[k].request \in scheduled[Mode] /\ bank[k].request \in Blocks BY <1>2, ScheduledFacts
<1> DEFINE r == bank[k].request
           row == bank[k].open_row
<1>5. /\ bank' = [bank EXCEPT ![k] = Idle(row)] /\ count' = [count EXCEPT ![Mode] = @ - 1]
      /\ queue' = [queue EXCEPT ![Mode] = @ \ {r}]
      /\ scheduled' = [scheduled EXCEPT ![Mode] = @ \ {r}]
  BY DEF FinishRequest, Release
<1>6. Idle(row) \in Bank
  <2>1. bank[k] \in Bank BY <1>1, <1>2 DEF TypeOK
  <2> QED BY <2>1, BankFields, IdleType
<1>7. /\ bank' \in [Banks -> Bank] /\ bank'[k] = Idle(row)
      /\ \A j \in Banks \ {k} : bank'[j] = bank[j]
  BY <1>1, <1>2, <1>5, <1>6 DEF TypeOK
<1> HIDE DEF r, row
<1>8. /\ queue' \in [Queues -> SUBSET Blocks]
      /\ \A q \in Queues : queue'[q] = queue[q] \/ queue'[q] = queue[q] \ {r}
  BY <1>1, <1>3, <1>5 DEF TypeOK
<1>9. \A q \in Queues : IsFiniteSet(queue'[q])
  <2> TAKE q \in Queues
  <2>1. IsFiniteSet(queue[q]) BY <1>1 DEF TypeOK
  <2> QED BY <1>8, <2>1, FS_RemoveElement
<1>10. /\ scheduled' \in [Queues -> SUBSET Blocks] /\ scheduled'[Mode] = scheduled[Mode] \ {r}
       /\ \A q \in Queues : q # Mode => scheduled'[q] = {}
  BY <1>1, <1>3, <1>5 DEF TypeOK
<1>11. /\ count' \in [Queues -> Int] /\ count'[Mode] = count[Mode] - 1
       /\ \A q \in Queues : q # Mode => count'[q] = count[q]
  BY <1>1, <1>3, <1>5 DEF TypeOK
<1>12. \A q \in Queues : count'[q] = Cardinality(scheduled'[q])
  <2> TAKE q \in Queues
  <2>1. IsFiniteSet(scheduled[q]) /\ Cardinality(scheduled[q]) = count[q] BY ScheduledFacts
  <2>2. CASE q = Mode
    <3>1. r \in scheduled[Mode] BY <1>4 DEF r
    <3> QED BY <1>10, <1>11, <2>1, <2>2, <3>1, FS_RemoveElement
  <2>3. CASE q # Mode BY <1>3, <1>10, <1>11, <2>1, <2>3
  <2> QED BY <2>2, <2>3
<1> QED BY <1>2, <1>4, <1>5, <1>7, <1>8, <1>9, <1>10, <1>11, <1>12 DEF r, row

\* A request that is due leaves its bank, and a read is answered.
LEMMA ServeKeeps ==
  ASSUME IInv, NEW k \in DueBanks, FinishRequest(k), dbus' = RETURN_TIME,
         stage = "process", stage' = "tick",
         waiting' = IF write_mode THEN waiting ELSE waiting \ {bank[k].request},
         UNCHANGED <<warmup, write_mode, asks, charged>>
  PROVE  IInv'
<1>1. TypeOK /\ BanksMatchQueues /\ RowHitsAreReal /\ OwnRequests /\ OnlyRequestsHit
      /\ RowsAreActivated /\ QueueIsAwaited
  BY DEF IInv
<1> DEFINE r == bank[k].request
<1>2. /\ k \in Banks /\ r \in Blocks /\ r # None
      /\ bank' \in [Banks -> Bank] /\ bank'[k] = Idle(bank[k].open_row)
      /\ \A j \in Banks \ {k} : bank'[j] = bank[j]
      /\ queue' = [queue EXCEPT ![Mode] = @ \ {r}]
      /\ queue' \in [Queues -> SUBSET Blocks] /\ \A q \in Queues : IsFiniteSet(queue'[q])
      /\ scheduled' \in [Queues -> SUBSET Blocks]
      /\ scheduled'[Mode] = scheduled[Mode] \ {r}
      /\ \A q \in Queues : q # Mode => scheduled'[q] = {}
      /\ count' \in [Queues -> Int]
      /\ \A q \in Queues : count'[q] = Cardinality(scheduled'[q])
  BY FinishFacts, NoneIsNoRow
<1>3. Mode' = Mode /\ Mode \in Queues /\ (Mode = "WQ" <=> write_mode) BY ScheduledFacts DEF Mode
<1>4. /\ bank[k].open_row \in Rows \cup {None} /\ bank[k].open_row = RowOf[r]
      /\ charged[k] = RowOf[r] /\ BankOf[r] = k
  <2>1. bank[k] \in Bank BY <1>1, <1>2 DEF TypeOK
  <2>2. bank[k].left = 0 BY DEF DueBanks
  <2> QED BY <1>1, <1>2, <2>1, <2>2, BankFields DEF OwnRequests, RowsAreActivated, Settled
<1>5. bank'[k].request = None /\ bank'[k].open_row = RowOf[r] /\ bank'[k].hit = FALSE
  BY <1>2, <1>4, IdleType
<1>6. \A j \in Banks : bank[j].request # None =>
                       bank[j].direction = Mode /\ bank[j].request \in scheduled[Mode]
  BY ScheduledFacts
<1> HIDE DEF r
<1>7. TypeOK'
  <2>1. dbus' \in Int BY TimeAssumption
  <2>2. warmup' \in BOOLEAN /\ write_mode' \in BOOLEAN BY <1>1 DEF TypeOK
  <2>3. charged' \in [Banks -> Rows \cup {None}] BY <1>1 DEF TypeOK
  <2> QED BY <1>2, <2>1, <2>2, <2>3 DEF TypeOK
<1>8. BanksMatchQueues'
  <2>1. \A q \in Queues : scheduled'[q] \subseteq queue'[q]
    BY <1>1, <1>2, <1>3 DEF TypeOK, BanksMatchQueues
  <2>2. ASSUME NEW b \in scheduled'[Mode]
        PROVE  bank'[BankOf[b]].request = b /\ bank'[BankOf[b]].direction = Mode
    <3>1. b \in scheduled[Mode] /\ b # r BY <1>2
    <3>2. b \in Blocks /\ BankOf[b] \in Banks BY <1>1, <1>3, <3>1, AddressTypes DEF TypeOK
    <3>3. bank[BankOf[b]].request = b /\ bank[BankOf[b]].direction = Mode
      BY <1>1, <1>3, <3>1 DEF BanksMatchQueues
    <3>4. BankOf[b] # k BY <3>1, <3>3 DEF r
    <3> QED BY <1>2, <3>2, <3>3, <3>4
  <2>3. ASSUME NEW j \in Banks, bank'[j].request # None
        PROVE  bank'[j].request \in scheduled'[bank'[j].direction]
    <3>1. j # k /\ bank'[j] = bank[j] BY <1>2, <1>5, <2>3
    <3>2. BankOf[bank[j].request] = j BY <1>1, <2>3, <3>1 DEF OwnRequests
    <3>3. bank[j].request # r BY <1>4, <3>1, <3>2
    <3> QED BY <1>2, <1>6, <2>3, <3>1, <3>3
  <2> QED BY <1>2, <1>3, <2>1, <2>2, <2>3 DEF BanksMatchQueues
<1>9. RowHitsAreReal' BY <1>1, <1>2, <1>4, <1>5 DEF RowHitsAreReal
<1>10. OwnRequests' /\ OnlyRequestsHit' BY <1>1, <1>2, <1>5 DEF OwnRequests, OnlyRequestsHit
<1>11. RowsAreActivated' BY <1>1, <1>2, <1>5 DEF RowsAreActivated, Settled
<1>12. QueueIsAwaited'
  <2>1. waiting' = IF write_mode THEN waiting ELSE waiting \ {r} BY DEF r
  <2> QED BY <1>1, <1>2, <1>3, <2>1 DEF TypeOK, QueueIsAwaited, Queues
<1> QED BY <1>7, <1>8, <1>9, <1>10, <1>11, <1>12 DEF IInv

\* Only the time that a bank needs changes.
LEMMA TimesKeep ==
  ASSUME IInv, bank' \in [Banks -> Bank],
         \A k \in Banks : /\ bank'[k].request = bank[k].request /\ bank'[k].hit = bank[k].hit
                          /\ bank'[k].direction = bank[k].direction
                          /\ bank'[k].open_row = bank[k].open_row,
         UNCHANGED <<queue, scheduled, count, write_mode, waiting>>
  PROVE  BanksMatchQueues' /\ OwnRequests' /\ OnlyRequestsHit' /\ QueueIsAwaited'
<1>1. TypeOK /\ BanksMatchQueues BY DEF IInv
<1>2. Mode' = Mode BY DEF Mode
<1>3. \A q \in Queues : \A a \in scheduled[q] : BankOf[a] \in Banks
  BY <1>1, AddressTypes DEF TypeOK
<1>4. BanksMatchQueues' BY <1>1, <1>2, <1>3 DEF BanksMatchQueues
<1>5. OwnRequests' /\ OnlyRequestsHit' /\ QueueIsAwaited'
  BY DEF IInv, OwnRequests, OnlyRequestsHit, QueueIsAwaited
<1> QED BY <1>4, <1>5

LEMMA ProcessKeeps ==
  ASSUME IInv, Process
  PROVE  IInv'
<1>1. TypeOK /\ RowHitsAreReal /\ RowsAreActivated BY DEF IInv
<1>2. stage = "process" /\ stage' = "tick" /\ UNCHANGED <<warmup, write_mode, asks, charged>>
  BY DEF Process
<1>3. CASE UNCHANGED <<queue, scheduled, count, bank, dbus, waiting>>
  <2>1. TypeOK' BY <1>1, <1>2, <1>3 DEF TypeOK
  <2>2. BanksMatchQueues' /\ OwnRequests' /\ OnlyRequestsHit' BY <1>2, <1>3, BanksUntouched
  <2>3. RowHitsAreReal' /\ RowsAreActivated' /\ QueueIsAwaited'
    BY <1>1, <1>2, <1>3 DEF IInv, RowHitsAreReal, RowsAreActivated, Settled, QueueIsAwaited
  <2> QED BY <2>1, <2>2, <2>3 DEF IInv
<1>4. ASSUME NEW k \in DueBanks, dbus' = RETURN_TIME,
             waiting' = IF write_mode THEN waiting ELSE waiting \ {bank[k].request},
             FinishRequest(k)
      PROVE  IInv'
  BY <1>2, <1>4, ServeKeeps
<1>5. ASSUME NEW k \in DueBanks, dbus > 0, bank' = [bank EXCEPT ![k].left = dbus],
             UNCHANGED <<queue, scheduled, count, dbus, waiting>>
      PROVE  IInv'
  <2>1. k \in Banks /\ bank[k] \in Bank /\ dbus \in Nat \ {0} BY <1>1, <1>5 DEF DueBanks, TypeOK
  <2> DEFINE late == [bank[k] EXCEPT !.left = dbus]
  <2>2. /\ late \in Bank /\ late.request = bank[k].request /\ late.hit = bank[k].hit
        /\ late.direction = bank[k].direction /\ late.open_row = bank[k].open_row
        /\ late.left = dbus
    BY <2>1, BankFields
  <2>3. bank' = [bank EXCEPT ![k] = late] BY <1>5
  <2> HIDE DEF late
  <2>4. /\ bank' \in [Banks -> Bank] /\ bank'[k] = late
        /\ \A j \in Banks \ {k} : bank'[j] = bank[j]
    BY <1>1, <2>1, <2>2, <2>3 DEF TypeOK
  <2>5. TypeOK' BY <1>1, <1>2, <1>5, <2>4 DEF TypeOK
  <2>6. BanksMatchQueues' /\ OwnRequests' /\ OnlyRequestsHit' /\ QueueIsAwaited'
    BY <1>2, <1>5, <2>2, <2>4, TimesKeep
  <2>7. RowHitsAreReal' BY <1>1, <1>2, <2>2, <2>4 DEF RowHitsAreReal
  <2>8. RowsAreActivated' BY <1>1, <1>2, <2>1, <2>2, <2>4 DEF RowsAreActivated, Settled
  <2> QED BY <2>5, <2>6, <2>7, <2>8 DEF IInv
<1> QED BY <1>3, <1>4, <1>5 DEF Process

\* The cycle ends, and the rows whose activation is over are open.
LEMMA TickKeeps ==
  ASSUME IInv, Tick
  PROVE  IInv'
<1>1. TypeOK /\ RowHitsAreReal /\ RowsAreActivated /\ OwnRequests BY DEF IInv
<1>2. /\ stage' = "mode" /\ UNCHANGED <<warmup, queue, scheduled, count, write_mode, waiting, asks>>
      /\ dbus' = IF dbus > -TURN_AROUND THEN dbus - 1 ELSE dbus
  BY DEF Tick
<1>3. ASSUME NEW k \in Banks
      PROVE  /\ bank'[k] \in Bank
             /\ bank'[k].request = bank[k].request /\ bank'[k].hit = bank[k].hit
             /\ bank'[k].direction = bank[k].direction
             /\ bank'[k].open_row = bank[k].open_row
             /\ bank'[k].left = IF bank[k].left > 0 THEN bank[k].left - 1 ELSE 0
  <2>1. bank'[k] = [bank[k] EXCEPT !.left = IF @ > 0 THEN @ - 1 ELSE 0] BY DEF Tick
  <2>2. bank[k] \in Bank /\ bank[k].left \in Nat BY <1>1, BankFields DEF TypeOK
  <2> DEFINE n == IF bank[k].left > 0 THEN bank[k].left - 1 ELSE 0
  <2>3. n \in Nat BY <2>2
  <2>4. bank'[k] = [bank[k] EXCEPT !.left = n] BY <2>1
  <2> HIDE DEF n
  <2>5. /\ [bank[k] EXCEPT !.left = n] \in Bank
        /\ [bank[k] EXCEPT !.left = n].request = bank[k].request
        /\ [bank[k] EXCEPT !.left = n].direction = bank[k].direction
        /\ [bank[k] EXCEPT !.left = n].open_row = bank[k].open_row
        /\ [bank[k] EXCEPT !.left = n].hit = bank[k].hit
        /\ [bank[k] EXCEPT !.left = n].left = n
    BY <2>2, <2>3, BankFields
  <2> QED BY <2>4, <2>5 DEF n
<1>4. bank' \in [Banks -> Bank]
  <2>1. bank' = [k \in Banks |-> bank'[k]] BY DEF Tick
  <2> QED BY <1>3, <2>1
<1>5. /\ charged' \in [Banks -> Rows \cup {None}]
      /\ \A k \in Banks : charged'[k] = IF bank'[k].request # None /\ bank'[k].left <= tCAS
                                        THEN bank'[k].open_row ELSE charged[k]
  <2>1. charged' = [k \in Banks |-> IF bank'[k].request # None /\ bank'[k].left <= tCAS
                                    THEN bank'[k].open_row ELSE charged[k]]
    BY DEF Tick
  <2>2. \A k \in Banks : bank'[k].open_row \in Rows \cup {None} BY <1>3, BankFields
  <2> QED BY <1>1, <2>1, <2>2 DEF TypeOK
<1>6. TypeOK'
  <2>1. dbus' \in Int BY <1>1, <1>2, TimeAssumption DEF TypeOK
  <2> QED BY <1>1, <1>2, <1>4, <1>5, <2>1 DEF TypeOK
<1>7. BanksMatchQueues' /\ OwnRequests' /\ OnlyRequestsHit' /\ QueueIsAwaited'
  BY <1>2, <1>3, <1>4, TimesKeep
<1>8. RowHitsAreReal'
  <2> SUFFICES ASSUME NEW k \in Banks
               PROVE  /\ bank'[k].hit => charged'[k] = RowOf[bank'[k].request]
                      /\ bank'[k].request = None => bank'[k].open_row \in {None, charged'[k]}
    BY DEF RowHitsAreReal
  <2>1. bank'[k].request # None => bank'[k].open_row = RowOf[bank'[k].request]
    BY <1>1, <1>3 DEF OwnRequests
  <2>2. \/ charged'[k] = bank'[k].open_row /\ bank'[k].request # None
        \/ charged'[k] = charged[k]
    BY <1>5
  <2>3. /\ bank[k].hit => charged[k] = RowOf[bank[k].request]
        /\ bank[k].request = None => bank[k].open_row \in {None, charged[k]}
    BY <1>1 DEF RowHitsAreReal
  <2>4. bank'[k].request = bank[k].request /\ bank'[k].hit = bank[k].hit
        /\ bank'[k].open_row = bank[k].open_row
    BY <1>3
  <2>5. bank'[k].hit => charged'[k] = RowOf[bank'[k].request] BY <2>1, <2>2, <2>3, <2>4
  <2>6. bank'[k].request = None => bank'[k].open_row \in {None, charged'[k]}
    BY <2>2, <2>3, <2>4
  <2> QED BY <2>5, <2>6
<1>9. RowsAreActivated'
  <2> SUFFICES ASSUME NEW k \in Banks, bank'[k].request # None, Settled(k)'
               PROVE  charged'[k] = RowOf[bank'[k].request]
    BY DEF RowsAreActivated
  <2>1. bank'[k].left <= tCAS BY <1>3, TimeAssumption DEF Settled
  <2>2. charged'[k] = bank'[k].open_row BY <1>5, <2>1
  <2>3. bank'[k].open_row = RowOf[bank'[k].request] BY <1>1, <1>3 DEF OwnRequests
  <2> QED BY <2>2, <2>3
<1> QED BY <1>6, <1>7, <1>8, <1>9 DEF IInv
-----------------------------------------------------------------------------
(***************************************************************************)
(* The invariants, for every behaviour of the specification.               *)
(***************************************************************************)

LEMMA NextKeeps == IInv /\ [DramNext]_dram_vars => IInv'
<1> SUFFICES ASSUME IInv, [DramNext]_dram_vars PROVE IInv'
  OBVIOUS
<1>1. ASSUME NEW a \in Blocks, AddRq(a) PROVE IInv'
  <2>1. "RQ" \in Queues BY DEF Queues
  <2>2. UNCHANGED <<stage, warmup, scheduled, count, bank, write_mode, dbus, charged>>
    BY <1>1 DEF AddRq
  <2>3. \/ queue' = queue /\ waiting' = waiting
        \/ /\ queue' = [queue EXCEPT !["RQ"] = @ \cup {a}]
           /\ waiting' = waiting \cup {a}
    BY <1>1 DEF AddRq
  <2> QED BY <2>1, <2>2, <2>3, AddKeeps
<1>2. ASSUME NEW a \in Blocks, AddWq(a) PROVE IInv'
  <2>1. "WQ" \in Queues BY DEF Queues
  <2>2. UNCHANGED <<stage, warmup, scheduled, count, bank, write_mode, dbus, charged>>
    BY <1>2 DEF AddWq
  <2>3. waiting' = waiting /\ (queue' = queue \/ queue' = [queue EXCEPT !["WQ"] = @ \cup {a}])
    BY <1>2 DEF AddWq
  <2> QED BY <2>1, <2>2, <2>3, AddKeeps
<1>3. CASE EndWarmup
  <2>1. /\ UNCHANGED <<stage, queue, scheduled, count, bank, write_mode, dbus, charged, waiting>>
        /\ warmup' \in BOOLEAN
    BY <1>3 DEF EndWarmup, dram
  <2>2. TypeOK' BY <2>1 DEF IInv, TypeOK
  <2>3. BanksMatchQueues' /\ OwnRequests' /\ OnlyRequestsHit' BY <2>1, BanksUntouched
  <2>4. RowHitsAreReal' /\ RowsAreActivated' /\ QueueIsAwaited'
    BY <2>1 DEF IInv, RowHitsAreReal, RowsAreActivated, Settled, QueueIsAwaited
  <2> QED BY <2>2, <2>3, <2>4 DEF IInv
<1>4. CASE UNCHANGED dram_vars
  <2>1. UNCHANGED <<stage, warmup, queue, scheduled, count, bank, write_mode, dbus, charged, waiting>>
    BY <1>4 DEF dram_vars, dram
  <2>2. TypeOK' BY <2>1 DEF IInv, TypeOK
  <2>3. BanksMatchQueues' /\ OwnRequests' /\ OnlyRequestsHit' BY <2>1, BanksUntouched
  <2>4. RowHitsAreReal' /\ RowsAreActivated' /\ QueueIsAwaited'
    BY <2>1 DEF IInv, RowHitsAreReal, RowsAreActivated, Settled, QueueIsAwaited
  <2> QED BY <2>2, <2>3, <2>4 DEF IInv
<1> QED
  BY <1>1, <1>2, <1>3, <1>4, ChangeModeKeeps, ScheduleKeeps, ProcessKeeps, TickKeeps DEF DramNext

\* The inductive invariant of the controller holds in every reachable state.
THEOREM DramInvariance == DramSpec => []IInv
<1> QED BY Initially, NextKeeps, PTL DEF DramSpec

\* Banks, counters and queues agree whatever is given back when the mode changes: what
\* the asserts of dram_controller.cc say of scheduled_reads and scheduled_writes.
THEOREM BanksAlwaysMatchQueues == DramSpec => []BanksMatchQueues
<1>1. IInv => BanksMatchQueues BY DEF IInv
<1> QED BY <1>1, DramInvariance, PTL

\* A request is timed as a row buffer hit only when its bank has activated its row,
\* however activations are aborted.
THEOREM RowHitsAreAlwaysReal == DramSpec => []RowHitsAreReal
<1>1. IInv => RowHitsAreReal BY DEF IInv
<1> QED BY <1>1, DramInvariance, PTL

(***************************************************************************)
(* The refinement.                                                         *)
(***************************************************************************)

\* The LLC, in the terms of the port: it asks for a block, or gets one answer.
LEMMA PortAsk ==
  ASSUME NEW a \in Blocks, a \notin waiting, waiting' = waiting \cup {a},
         QueueIsAwaited, QueueIsAwaited'
  PROVE  Port!Next
<1>1. Port!Ask("LLC", a) BY DEF Port!Ask, QueueIsAwaited
<1> QED BY <1>1 DEF Port!Next

LEMMA PortAnswer ==
  ASSUME NEW a \in Blocks, a \in waiting, waiting' = waiting \ {a},
         QueueIsAwaited, QueueIsAwaited'
  PROVE  Port!Next
<1>1. Port!Answer(a, {"LLC"}) BY DEF Port!Answer, QueueIsAwaited
<1>2. {"LLC"} \in SUBSET {"LLC"} OBVIOUS
<1> QED BY <1>1, <1>2 DEF Port!Next

LEMMA PortStutter ==
  ASSUME waiting' = waiting, QueueIsAwaited, QueueIsAwaited'
  PROVE  UNCHANGED Port!vars
BY DEF Port!vars, QueueIsAwaited

\* Every step of the controller is a step of the port, or none.
LEMMA PortStep == IInv /\ IInv' /\ [DramNext]_dram_vars => [Port!Next]_(Port!vars)
<1> SUFFICES ASSUME IInv, IInv', [DramNext]_dram_vars PROVE Port!Next \/ UNCHANGED Port!vars
  OBVIOUS
<1>1. TypeOK /\ QueueIsAwaited /\ QueueIsAwaited' BY DEF IInv
<1>2. ASSUME NEW a \in Blocks, AddRq(a) PROVE Port!Next \/ UNCHANGED Port!vars
  <2>1. a \notin waiting /\ (waiting' = waiting \/ waiting' = waiting \cup {a})
    BY <1>2 DEF AddRq
  <2> QED BY <1>1, <2>1, PortAsk, PortStutter
<1>3. ASSUME NEW a \in Blocks, AddWq(a) PROVE UNCHANGED Port!vars
  <2>1. waiting' = waiting BY <1>3 DEF AddWq
  <2> QED BY <1>1, <2>1, PortStutter
<1>4. CASE Process
  <2>1. \/ waiting' = waiting
        \/ \E k \in DueBanks : waiting' = waiting \ {bank[k].request} /\ ~write_mode
    BY <1>4 DEF Process
  <2>2. ASSUME NEW k \in DueBanks, waiting' = waiting \ {bank[k].request}, ~write_mode
        PROVE  Port!Next
    <3>1. k \in Banks /\ bank[k].request # None BY DEF DueBanks
    <3>2. bank[k].request \in queue[Mode] /\ bank[k].request \in Blocks BY <3>1, ScheduledFacts
    <3>3. Mode = "RQ" BY <2>2 DEF Mode
    <3>4. bank[k].request \in waiting BY <1>1, <3>2, <3>3 DEF QueueIsAwaited
    <3> QED BY <1>1, <2>2, <3>2, <3>4, PortAnswer
  <2> QED BY <1>1, <2>1, <2>2, PortStutter
<1>5. CASE EndWarmup \/ ChangeMode \/ Schedule \/ Tick \/ UNCHANGED dram_vars
  <2>1. waiting' = waiting BY <1>5 DEF EndWarmup, ChangeMode, Schedule, Tick, dram_vars
  <2> QED BY <1>1, <2>1, PortStutter
<1> QED BY <1>2, <1>3, <1>4, <1>5 DEF DramNext

\* The controller is a port of a memory: the LLC gets one answer for each read it asks
\* for, and no other.
THEOREM ControllerImplementsMemPort == DramSpec => ImplementsMemPort
<1>1. DramInit => Port!Init
  <2> SUFFICES ASSUME DramInit PROVE Port!Init OBVIOUS
  <2>1. waiting = {} /\ queue["RQ"] = {} BY DEF DramInit, Queues
  <2> QED BY <2>1 DEF Port!Init
<1>2. IInv /\ IInv' /\ [DramNext]_dram_vars => [Port!Next]_(Port!vars) BY PortStep
<1> QED BY <1>1, <1>2, DramInvariance, PTL DEF DramSpec, ImplementsMemPort, Port!Spec
-----------------------------------------------------------------------------
(***************************************************************************)
(* The core: its inductive invariant.                                      *)
(***************************************************************************)
RobEntry == [id : Nat \cup {Nothing}, i : Instruction, translated : Progress,
             fetched : Progress, scheduled : Progress, executed : Progress,
             reg_ready : BOOLEAN, num_reg_dependent : Int,
             registers_depend : SUBSET (RobIndex \X Registers),
             memory_depend : SUBSET RobIndex, num_mem_ops : Int,
             source_added : BOOLEAN, destination_added : BOOLEAN,
             lq_index : LqIndex \cup {Nothing}, sq_index : SqIndex \cup {Nothing},
             branch_mispredicted : BOOLEAN]
LsqEntry == [id : Nat \cup {Nothing}, virtual_address : Words \cup {Nothing},
             rob_index : RobIndex, producer_id : Nat \cup {Nothing}, fetched : BOOLEAN]

RobTypes == /\ ROB \in [RobIndex -> RobEntry] /\ head \in RobIndex /\ tail \in RobIndex
            /\ occupancy \in 0..ROB_SIZE
            /\ last_read \in RobIndex /\ last_fetch \in RobIndex /\ next_schedule \in RobIndex
            /\ itlb \in SUBSET RobIndex /\ l1i \in SUBSET RobIndex
            /\ RTE0 \in Seq(RobIndex) /\ RTE1 \in Seq(RobIndex)
            /\ inflight_reg_executions \in Int /\ inflight_mem_executions \in Int
            /\ trace \in Seq(Instruction) /\ instr_unique_id \in 0..Len(trace)
            /\ fetch_stall \in {"no", "yes", "resumes"}
LsqTypes == /\ LQ \in [LqIndex -> LsqEntry] /\ SQ \in [SqIndex -> LsqEntry]
            /\ SQ_head \in SqIndex /\ SQ_tail \in SqIndex /\ STA \in Seq(Nat)
            /\ RTS0 \in Seq(SqIndex) /\ RTS1 \in Seq(SqIndex)
            /\ RTL0 \in Seq(LqIndex) /\ RTL1 \in Seq(LqIndex)
            /\ dtlb_load \in SUBSET LqIndex /\ dtlb_store \in SUBSET SqIndex
            /\ l1d \in SUBSET LqIndex
CoreTypes == RobTypes /\ LsqTypes

\* The ring holds the last instructions of the trace that were read, in order.
RobRing == /\ tail = (head + occupancy) % ROB_SIZE /\ occupancy <= instr_unique_id
           /\ \A i \in RobIndex :
                ROB[i].id = IF Age(i) < occupancy
                            THEN instr_unique_id - occupancy + 1 + Age(i) ELSE Nothing

\* What a slot says by itself.
SlotsAreSound ==
  \A i \in RobIndex :
    /\ ~Used(i) => /\ ~IsMemory(i) /\ ROB[i].executed = "no" /\ ROB[i].num_reg_dependent <= 0
                   /\ ~ROB[i].source_added /\ ~ROB[i].destination_added
    /\ ROB[i].num_reg_dependent > 0 => ROB[i].executed = "no"
    /\ ROB[i].reg_ready => ROB[i].num_reg_dependent <= 0
    /\ ROB[i].scheduled = "no" => ROB[i].executed = "no"
    /\ ROB[i].source_added => /\ ROB[i].i.source_memory # Nothing
                              /\ ROB[i].lq_index \in LqIndex
    /\ IF ROB[i].destination_added
       THEN ROB[i].i.destination_memory # Nothing /\ ROB[i].sq_index \in SqIndex
       ELSE ROB[i].sq_index = Nothing

\* An index that waits to execute.
ToExecute(i) == /\ Used(i) /\ ~IsMemory(i) /\ ROB[i].executed = "no"
                /\ ROB[i].scheduled = "completed" /\ ROB[i].num_reg_dependent <= 0
RteInv == /\ IsInjective(RTE0) /\ IsInjective(RTE1) /\ SeqSet(RTE0) \cap SeqSet(RTE1) = {}
          /\ \A i \in SeqSet(RTE0) \cup SeqSet(RTE1) : ToExecute(i)

Stores == {i \in RobIndex : Used(i) /\ ROB[i].destination_added}
Before(i) == {k \in RobIndex : Used(k) /\ ROB[k].id < ROB[i].id}

\* STA lists stores in program order, none of which is in the store queue.
StaInv == /\ \A m, n \in 1..Len(STA) : m < n => STA[m] < STA[n]
          /\ \A n \in 1..Len(STA) : /\ STA[n] <= instr_unique_id
                                    /\ \A i \in Stores : ROB[i].id < STA[n]

\* The store queue and the reorder buffer name each other.
SqLinks == /\ \A i \in Stores : LET s == SQ[ROB[i].sq_index] IN
                /\ s.id = ROB[i].id /\ s.rob_index = i
                /\ s.virtual_address = ROB[i].i.destination_memory
           /\ \A s \in SqIndex : SQ[s].id # Nothing =>
                /\ SQ[s].rob_index \in Stores /\ ROB[SQ[s].rob_index].sq_index = s
SqRing == /\ \A i \in Stores : (ROB[i].sq_index - SQ_head) % SQ_SIZE
                                 = Cardinality(Stores \cap Before(i))
          /\ SQ_tail = (SQ_head + Cardinality(Stores)) % SQ_SIZE

LqLinks == \A l \in LqIndex : LQ[l].id # Nothing =>
             LET e == ROB[LQ[l].rob_index] IN
             /\ e.id = LQ[l].id /\ e.source_added /\ e.lq_index = l
             /\ LQ[l].virtual_address = e.i.source_memory

LoadPlaces == /\ IsInjective(RTL0) /\ IsInjective(RTL1)
              /\ SeqSet(RTL0) \cap dtlb_load = {} /\ SeqSet(RTL0) \cap SeqSet(RTL1) = {}
              /\ SeqSet(RTL0) \cap l1d = {} /\ dtlb_load \cap SeqSet(RTL1) = {}
              /\ dtlb_load \cap l1d = {} /\ SeqSet(RTL1) \cap l1d = {}
              /\ SeqSet(RTL0) \cup dtlb_load \cup SeqSet(RTL1) \cup l1d = LoadsOnTheirWay

ToStore == {s \in SqIndex : SQ[s].id # Nothing /\ ~SQ[s].fetched}
StorePlaces == /\ IsInjective(RTS0) /\ IsInjective(RTS1)
               /\ SeqSet(RTS0) \cap dtlb_store = {} /\ SeqSet(RTS0) \cap SeqSet(RTS1) = {}
               /\ dtlb_store \cap SeqSet(RTS1) = {}
               /\ SeqSet(RTS0) \cup dtlb_store \cup SeqSet(RTS1) \subseteq ToStore

MemOps == \A i \in RobIndex : Used(i) =>
            ROB[i].num_mem_ops = (IF LoadIsLeft(i) THEN 1 ELSE 0) + (IF StoreIsLeft(i) THEN 1 ELSE 0)
NoneIsLeft == \A i \in RobIndex :
                IsMemory(i) /\ ROB[i].executed = "completed" => ROB[i].num_mem_ops = 0

MemExecuting == {i \in RobIndex : /\ IsMemory(i) /\ ROB[i].num_mem_ops = 0
                                  /\ ROB[i].executed # "completed"}
RegExecuting == {i \in RobIndex : ~IsMemory(i) /\ ROB[i].executed = "inflight"}
Counters == /\ inflight_mem_executions = Cardinality(MemExecuting)
            /\ inflight_reg_executions = Cardinality(RegExecuting)

\* The load m waits in the load queue for the store in slot k.
WaitsFor(m, k) == /\ Used(m) /\ ROB[m].source_added
                  /\ ROB[m].i.source_memory = ROB[k].i.destination_memory
                  /\ LQ[ROB[m].lq_index].id = ROB[m].id
                  /\ LQ[ROB[m].lq_index].producer_id = ROB[k].id
Executed(k) == ROB[k].destination_added /\ SQ[ROB[k].sq_index].fetched
DependInv == \A k \in RobIndex : Used(k) /\ ~Executed(k) =>
               \A m \in ROB[k].memory_depend : WaitsFor(m, k)

StoresBefore(i, w) == {k \in Before(i) : ROB[k].i.destination_memory = w}
ProducerInv ==
  \A l \in LqIndex : LQ[l].id # Nothing =>
    LET i == LQ[l].rob_index
        stores == StoresBefore(i, LQ[l].virtual_address)
    IN IF LQ[l].producer_id = Nothing THEN stores = {}
       ELSE \E k \in stores : /\ \A n \in stores : ROB[n].id <= ROB[k].id
                              /\ LQ[l].producer_id = ROB[k].id
                              /\ i \in ROB[k].memory_depend /\ ~Executed(k)

CoreInv == /\ CoreTypes /\ RobRing /\ SlotsAreSound /\ RteInv /\ StaInv
           /\ SqLinks /\ SqRing /\ LqLinks /\ LoadPlaces /\ StorePlaces
           /\ MemOps /\ NoneIsLeft /\ Counters /\ DependInv /\ ProducerInv

(***************************************************************************)
(* Facts about sequences.                                                  *)
(***************************************************************************)
\* What a sequence that has no element twice is after one more.
LEMMA AppendOne ==
  ASSUME NEW S, NEW s \in Seq(S), NEW e \in S, e \notin SeqSet(s), IsInjective(s)
  PROVE  /\ Append(s, e) \in Seq(S) /\ IsInjective(Append(s, e))
         /\ SeqSet(Append(s, e)) = SeqSet(s) \cup {e}
<1> DEFINE t == Append(s, e)
<1>1. /\ t \in Seq(S) /\ Len(t) = Len(s) + 1 /\ DOMAIN t = 1..(Len(s) + 1) /\ t[Len(s) + 1] = e
      /\ \A n \in 1..Len(s) : t[n] = s[n]
  OBVIOUS
<1>2. Len(s) \in Nat /\ DOMAIN s = 1..Len(s) OBVIOUS
<1> HIDE DEF t
<1>3. \A n \in 1..Len(s) : s[n] \in SeqSet(s) BY DEF SeqSet
<1>4. IsInjective(t) BY <1>1, <1>2, <1>3 DEF IsInjective
<1>5. \A x \in SeqSet(t) : x \in SeqSet(s) \cup {e} BY <1>1, <1>2 DEF SeqSet
<1>6. \A x \in SeqSet(s) \cup {e} : x \in SeqSet(t) BY <1>1, <1>2 DEF SeqSet
<1> QED BY <1>1, <1>4, <1>5, <1>6 DEF t

\* What it is without its first element.
LEMMA WithoutHead ==
  ASSUME NEW S, NEW s \in Seq(S), s # <<>>, IsInjective(s)
  PROVE  /\ Tail(s) \in Seq(S) /\ IsInjective(Tail(s)) /\ Head(s) \in S
         /\ Head(s) \in SeqSet(s) /\ SeqSet(Tail(s)) = SeqSet(s) \ {Head(s)}
<1> DEFINE t == Tail(s)
<1>1. /\ Head(s) \in S /\ t \in Seq(S) /\ Len(t) = Len(s) - 1
      /\ \A n \in 1..Len(t) : t[n] = s[n + 1]
  BY HeadTailProperties
<1>2. Len(s) \in Nat /\ Len(s) > 0 /\ DOMAIN s = 1..Len(s) /\ Head(s) = s[1] OBVIOUS
<1>3. Len(t) \in Nat /\ DOMAIN t = 1..Len(t) BY <1>1, <1>2
<1> HIDE DEF t
<1>4. ASSUME NEW a \in DOMAIN t, NEW b \in DOMAIN t, t[a] = t[b] PROVE a = b
  <2>1. a \in Nat /\ b \in Nat /\ a + 1 \in DOMAIN s /\ b + 1 \in DOMAIN s BY <1>1, <1>2, <1>3
  <2>2. s[a + 1] = s[b + 1] BY <1>1, <1>3, <1>4
  <2>3. a + 1 = b + 1 BY <2>1, <2>2 DEF IsInjective
  <2> QED BY <2>1, <2>3
<1>5. ASSUME NEW x \in SeqSet(t) PROVE x \in SeqSet(s) \ {Head(s)}
  <2>1. PICK n \in 1..Len(t) : x = t[n] BY DEF SeqSet
  <2>2. n + 1 \in 1..Len(s) /\ n + 1 # 1 /\ 1 \in 1..Len(s) BY <1>1, <1>2
  <2>3. x = s[n + 1] BY <1>1, <2>1
  <2>4. s[n + 1] # s[1] BY <1>2, <2>2 DEF IsInjective
  <2> QED BY <1>2, <2>2, <2>3, <2>4 DEF SeqSet
<1>6. ASSUME NEW x \in SeqSet(s) \ {Head(s)} PROVE x \in SeqSet(t)
  <2>1. PICK n \in 1..Len(s) : x = s[n] BY DEF SeqSet
  <2>2. n # 1 BY <1>2, <2>1
  <2>3. n - 1 \in 1..Len(t) /\ (n - 1) + 1 = n BY <1>1, <1>2, <2>2
  <2>4. x = t[n - 1] BY <1>1, <2>1, <2>3
  <2> QED BY <2>3, <2>4 DEF SeqSet
<1>7. Head(s) \in SeqSet(s) BY <1>2 DEF SeqSet
<1>8. IsInjective(t) BY <1>4 DEF IsInjective
<1>9. SeqSet(t) = SeqSet(s) \ {Head(s)} BY <1>5, <1>6
<1> QED BY <1>1, <1>7, <1>8, <1>9 DEF t

\* What two of them are together when they share nothing.
LEMMA Together ==
  ASSUME NEW S, NEW s \in Seq(S), NEW t \in Seq(S), IsInjective(s), IsInjective(t),
         SeqSet(s) \cap SeqSet(t) = {}
  PROVE  /\ s \o t \in Seq(S) /\ IsInjective(s \o t)
         /\ SeqSet(s \o t) = SeqSet(s) \cup SeqSet(t)
<1> DEFINE u == s \o t
<1>1. /\ u \in Seq(S) /\ Len(u) = Len(s) + Len(t) /\ DOMAIN u = 1..(Len(s) + Len(t))
      /\ \A n \in 1..(Len(s) + Len(t)) : u[n] = IF n <= Len(s) THEN s[n] ELSE t[n - Len(s)]
  OBVIOUS
<1>2. /\ Len(s) \in Nat /\ DOMAIN s = 1..Len(s) /\ Len(t) \in Nat /\ DOMAIN t = 1..Len(t)
  OBVIOUS
<1> HIDE DEF u
<1>3. \A n \in DOMAIN u : \/ n \in DOMAIN s /\ u[n] = s[n] /\ u[n] \in SeqSet(s)
                          \/ /\ n - Len(s) \in DOMAIN t /\ u[n] = t[n - Len(s)]
                             /\ u[n] \in SeqSet(t)
  BY <1>1, <1>2 DEF SeqSet
<1>4. ASSUME NEW a \in DOMAIN u, NEW b \in DOMAIN u, u[a] = u[b] PROVE a = b
  <2>1. a \in Nat /\ b \in Nat BY <1>1
  <2>2. CASE a \in DOMAIN s /\ u[a] = s[a] /\ u[a] \in SeqSet(s)
    <3>1. b \in DOMAIN s /\ u[b] = s[b] BY <1>3, <1>4, <2>2
    <3> QED BY <1>4, <2>2, <3>1 DEF IsInjective
  <2>3. CASE a - Len(s) \in DOMAIN t /\ u[a] = t[a - Len(s)] /\ u[a] \in SeqSet(t)
    <3>1. b - Len(s) \in DOMAIN t /\ u[b] = t[b - Len(s)] BY <1>3, <1>4, <2>3
    <3>2. a - Len(s) = b - Len(s) BY <1>4, <2>3, <3>1 DEF IsInjective
    <3> QED BY <1>2, <2>1, <3>2
  <2> QED BY <1>3, <2>2, <2>3
<1>5. \A x \in SeqSet(u) : x \in SeqSet(s) \cup SeqSet(t)
  <2>1. \A n \in 1..Len(u) : n \in DOMAIN u BY <1>1
  <2> QED BY <1>3, <2>1 DEF SeqSet
<1>6. \A x \in SeqSet(s) : x \in SeqSet(u) BY <1>1, <1>2 DEF SeqSet
<1>7. ASSUME NEW x \in SeqSet(t) PROVE x \in SeqSet(u)
  <2>1. PICK n \in 1..Len(t) : x = t[n] BY DEF SeqSet
  <2>2. /\ n + Len(s) \in 1..Len(u) /\ (n + Len(s)) - Len(s) = n
        /\ ~ (n + Len(s) <= Len(s))
    BY <1>1, <1>2
  <2>3. u[n + Len(s)] = x BY <1>1, <2>1, <2>2
  <2> QED BY <2>2, <2>3 DEF SeqSet
<1>8. SeqSet(u) = SeqSet(s) \cup SeqSet(t) BY <1>5, <1>6, <1>7
<1>9. IsInjective(u) BY <1>4 DEF IsInjective
<1> QED BY <1>1, <1>8, <1>9 DEF u

\* An order of a finite set has each of its elements, once.
LEMMA OrderOfSet ==
  ASSUME NEW S, IsFiniteSet(S), NEW s \in SetToSeqs(S)
  PROVE  s \in Seq(S) /\ IsInjective(s) /\ SeqSet(s) = S
<1> DEFINE n == Cardinality(S)
<1>1. n \in Nat BY FS_CardinalityType
<1>2. s \in [1..n -> S] /\ \A i, j \in 1..n : i # j => s[i] # s[j] BY DEF SetToSeqs
<1>3. IsInjective(s) BY <1>2 DEF IsInjective
<1>4. s \in Injection(1..n, S) BY <1>2, <1>3 DEF Injection
<1>5. IsFiniteSet(1..n) /\ Cardinality(1..n) = n BY <1>1, FS_Interval
<1>6. s \in Surjection(1..n, S) BY <1>4, <1>5, FS_Injection
<1>7. s \in Seq(S) /\ Len(s) = n BY <1>1, <1>2
<1>8. \A x \in S : \E i \in 1..n : s[i] = x BY <1>6 DEF Surjection
<1>9. SeqSet(s) = S BY <1>2, <1>7, <1>8 DEF SeqSet
<1> QED BY <1>3, <1>7, <1>9

\* A sequence stays one over a larger set, and its elements are in the set.
LEMMA SeqElements ==
  ASSUME NEW S, NEW s \in Seq(S) PROVE SeqSet(s) \subseteq S
BY DEF SeqSet

(***************************************************************************)
(* Facts about the ring and the order of its instructions.                 *)
(***************************************************************************)
LEMMA AgeValue ==
  ASSUME NEW i \in RobIndex, head \in RobIndex
  PROVE  /\ Age(i) = IF i >= head THEN i - head ELSE i - head + ROB_SIZE
         /\ Age(i) \in 0..(ROB_SIZE - 1)
<1>1. ROB_SIZE \in Nat /\ ROB_SIZE > 0 BY CoreAssumption
<1> QED BY <1>1 DEF Age, RobIndex

LEMMA AgesDiffer ==
  ASSUME NEW i \in RobIndex, NEW k \in RobIndex, head \in RobIndex, Age(i) = Age(k)
  PROVE  i = k
<1>1. ROB_SIZE \in Nat /\ head \in 0..(ROB_SIZE - 1) /\ i \in 0..(ROB_SIZE - 1)
      /\ k \in 0..(ROB_SIZE - 1)
  BY CoreAssumption DEF RobIndex
<1>2. IF i >= head THEN Age(i) = i - head ELSE Age(i) = i - head + ROB_SIZE BY AgeValue
<1>3. IF k >= head THEN Age(k) = k - head ELSE Age(k) = k - head + ROB_SIZE BY AgeValue
<1>4. Age(k) \in Int BY AgeValue
<1>5. IF i >= head THEN Age(k) = i - head ELSE Age(k) = i - head + ROB_SIZE BY <1>2
<1> HIDE DEF Age
<1> QED BY <1>1, <1>3, <1>4, <1>5

LEMMA NothingIsNoNumber == Nothing \notin Nat /\ Nothing \notin Words
BY CoreAssumption

\* The ids of the ring, and which slots have one.
LEMMA RingIds ==
  ASSUME RobTypes, RobRing, NEW i \in RobIndex
  PROVE  /\ Used(i) <=> Age(i) < occupancy
         /\ Used(i) => /\ ROB[i].id \in Nat /\ ROB[i].id <= instr_unique_id /\ ROB[i].id > 0
                       /\ ROB[i].id = instr_unique_id - occupancy + 1 + Age(i)
<1>1. occupancy \in Nat /\ instr_unique_id \in Nat /\ occupancy <= instr_unique_id
  BY DEF RobTypes, RobRing
<1>2. Age(i) \in Nat BY AgeValue DEF RobTypes
<1>3. ROB[i].id = IF Age(i) < occupancy THEN instr_unique_id - occupancy + 1 + Age(i) ELSE Nothing
  BY DEF RobRing
<1>4. instr_unique_id - occupancy + 1 + Age(i) \in Nat BY <1>1, <1>2
<1>5. Used(i) <=> Age(i) < occupancy BY <1>3, <1>4, NothingIsNoNumber DEF Used
<1> QED BY <1>1, <1>2, <1>3, <1>4, <1>5

LEMMA IdsDiffer ==
  ASSUME RobTypes, RobRing, NEW i \in RobIndex, NEW k \in RobIndex, Used(i), ROB[i].id = ROB[k].id
  PROVE  i = k
<1>1. Used(k) BY DEF Used
<1>2. /\ ROB[i].id = instr_unique_id - occupancy + 1 + Age(i)
      /\ ROB[k].id = instr_unique_id - occupancy + 1 + Age(k)
  BY <1>1, RingIds
<1>3. occupancy \in Int /\ instr_unique_id \in Int BY DEF RobTypes
<1>4. Age(i) \in Int /\ Age(k) \in Int BY AgeValue DEF RobTypes
<1>5. instr_unique_id - occupancy + 1 + Age(i) = instr_unique_id - occupancy + 1 + Age(k)
  BY <1>2
<1>6. \A a, b, c, d \in Int : a - b + 1 + c = a - b + 1 + d => c = d OBVIOUS
<1>7. Age(i) = Age(k) BY <1>3, <1>4, <1>5, <1>6
<1> QED BY <1>7, AgesDiffer DEF RobTypes

\* Age, which the code compares, orders the ring as the ids do.
LEMMA OlderIsBefore ==
  ASSUME RobTypes, RobRing, NEW i \in RobIndex, Used(i)
  PROVE  Older(i) = Before(i)
<1>1. ASSUME NEW k \in RobIndex, Used(k) PROVE Age(k) < Age(i) <=> ROB[k].id < ROB[i].id
  <2>1. /\ ROB[i].id = instr_unique_id - occupancy + 1 + Age(i)
        /\ ROB[k].id = instr_unique_id - occupancy + 1 + Age(k)
    BY <1>1, RingIds
  <2>2. occupancy \in Int /\ instr_unique_id \in Int BY DEF RobTypes
  <2>3. Age(i) \in Int /\ Age(k) \in Int BY AgeValue DEF RobTypes
  <2> QED BY <2>1, <2>2, <2>3
<1> QED BY <1>1 DEF Older, Before

LEMMA YoungestHasLastId ==
  ASSUME RobTypes, RobRing, NEW T, T \subseteq RobIndex, \A n \in T : Used(n), NEW k
  PROVE  Youngest(T, k) <=> k \in T /\ \A n \in T : ROB[n].id <= ROB[k].id
<1>1. ASSUME NEW n \in T, k \in T PROVE Age(n) <= Age(k) <=> ROB[n].id <= ROB[k].id
  <2>1. /\ ROB[n].id = instr_unique_id - occupancy + 1 + Age(n)
        /\ ROB[k].id = instr_unique_id - occupancy + 1 + Age(k)
    BY <1>1, RingIds
  <2>2. occupancy \in Int /\ instr_unique_id \in Int BY DEF RobTypes
  <2>3. Age(n) \in Int /\ Age(k) \in Int BY <1>1, AgeValue DEF RobTypes
  <2> QED BY <2>1, <2>2, <2>3
<1> QED BY <1>1 DEF Youngest

\* One of several slots is the youngest.
LEMMA SomeIsYoungest ==
  ASSUME RobTypes, RobRing, NEW T, T \subseteq RobIndex, T # {}
  PROVE  \E k \in T : Youngest(T, k)
<1> DEFINE D == {d \in Nat : \E n \in T : d = ROB_SIZE - Age(n)}
<1>1. ROB_SIZE \in Nat BY CoreAssumption
<1>2. \A n \in T : Age(n) \in Int /\ ROB_SIZE - Age(n) \in Nat
  BY <1>1, AgeValue DEF RobTypes
<1>3. D # {} BY <1>2
<1>5. D \in SUBSET Nat OBVIOUS
<1> HIDE DEF D
<1>7. PICK d \in D : \A e \in D : d <= e BY <1>3, <1>5, Least
<1>8. PICK k \in T : d = ROB_SIZE - Age(k) BY DEF D
<1>9. ASSUME NEW n \in T PROVE Age(n) <= Age(k)
  <2>1. ROB_SIZE - Age(n) \in D BY <1>2 DEF D
  <2> QED BY <1>1, <1>2, <1>7, <1>8, <2>1
<1> QED BY <1>9 DEF Youngest

LEMMA RingSizes == ROB_SIZE \in Nat /\ LQ_SIZE \in Nat /\ SQ_SIZE \in Nat /\ ROB_SIZE > 1
                   /\ LQ_SIZE > 0 /\ SQ_SIZE > 0 /\ 0 \in RobIndex /\ 0 \in SqIndex
                   /\ RobIndex \subseteq Nat /\ LqIndex \subseteq Nat /\ SqIndex \subseteq Nat
BY CoreAssumption DEF RobIndex, LqIndex, SqIndex

LEMMA FiniteSlots ==
  /\ \A S \in SUBSET RobIndex : IsFiniteSet(S) /\ Cardinality(S) \in Nat
  /\ \A S \in SUBSET LqIndex : IsFiniteSet(S)
  /\ \A S \in SUBSET SqIndex : IsFiniteSet(S) /\ Cardinality(S) \in Nat /\ Cardinality(S) <= SQ_SIZE
<1>1. IsFiniteSet(RobIndex) /\ IsFiniteSet(LqIndex) /\ IsFiniteSet(SqIndex)
      /\ Cardinality(SqIndex) = SQ_SIZE
  <2>1. ROB_SIZE - 1 \in Int /\ LQ_SIZE - 1 \in Int /\ SQ_SIZE - 1 \in Int /\ 0 \in Int
        /\ ~ (0 > SQ_SIZE - 1) /\ (SQ_SIZE - 1) - 0 + 1 = SQ_SIZE
    BY RingSizes
  <2>2. IsFiniteSet(0..(ROB_SIZE - 1)) /\ IsFiniteSet(0..(LQ_SIZE - 1))
    BY <2>1, FS_Interval
  <2>3. IsFiniteSet(0..(SQ_SIZE - 1)) /\ Cardinality(0..(SQ_SIZE - 1)) = SQ_SIZE
    BY <2>1, FS_Interval
  <2> QED BY <2>2, <2>3 DEF RobIndex, LqIndex, SqIndex
<1> QED BY <1>1, FS_Subset, FS_CardinalityType

(***************************************************************************)
(* What a step that leaves some fields of the slots alone keeps.           *)
(***************************************************************************)
SameIds == \A k \in RobIndex : ROB'[k].id = ROB[k].id /\ ROB'[k].i = ROB[k].i
SameLinks ==
  \A k \in RobIndex :
    /\ ROB'[k].source_added = ROB[k].source_added
    /\ ROB'[k].destination_added = ROB[k].destination_added
    /\ ROB'[k].lq_index = ROB[k].lq_index /\ ROB'[k].sq_index = ROB[k].sq_index
    /\ ROB'[k].memory_depend = ROB[k].memory_depend
SameMemory == SameLinks /\ \A k \in RobIndex : ROB'[k].num_mem_ops = ROB[k].num_mem_ops
SameExecution ==
  \A k \in RobIndex :
    /\ ROB'[k].executed = ROB[k].executed /\ ROB'[k].scheduled = ROB[k].scheduled
    /\ ROB'[k].num_reg_dependent = ROB[k].num_reg_dependent
    /\ ROB'[k].reg_ready = ROB[k].reg_ready

LEMMA IdsFrame ==
  ASSUME SameIds
  PROVE  /\ \A i \in RobIndex : /\ Used(i)' <=> Used(i)
                                /\ IsMemory(i)' <=> IsMemory(i)
                                /\ Before(i)' = Before(i)
         /\ \A i \in RobIndex : \A w : StoresBefore(i, w)' = StoresBefore(i, w)
<1>1. \A i \in RobIndex : (Used(i)' <=> Used(i)) /\ (IsMemory(i)' <=> IsMemory(i))
  BY DEF SameIds, Used, IsMemory
<1>2. \A i \in RobIndex : Before(i)' = Before(i) BY <1>1 DEF Before, SameIds
<1>3. ASSUME NEW i \in RobIndex, NEW w PROVE StoresBefore(i, w)' = StoresBefore(i, w)
  <2>1. Before(i) \subseteq RobIndex BY DEF Before
  <2> QED BY <1>2, <2>1 DEF StoresBefore, SameIds
<1> QED BY <1>1, <1>2, <1>3

LEMMA RingFrame ==
  ASSUME SameIds, RobRing, UNCHANGED <<head, tail, occupancy, instr_unique_id>>
  PROVE  RobRing'
BY DEF SameIds, RobRing, Age

LEMMA MemoryFrame ==
  ASSUME CoreTypes, SameIds, SameMemory,
         UNCHANGED <<instr_unique_id, LQ, SQ, SQ_head, SQ_tail, STA>>
  PROVE  /\ (StaInv => StaInv') /\ (SqLinks => SqLinks') /\ (SqRing => SqRing')
         /\ (LqLinks => LqLinks') /\ (MemOps => MemOps') /\ (DependInv => DependInv')
         /\ (ProducerInv => ProducerInv')
<1>1. /\ \A i \in RobIndex : (Used(i)' <=> Used(i)) /\ Before(i)' = Before(i)
      /\ \A i \in RobIndex : \A w : StoresBefore(i, w)' = StoresBefore(i, w)
  BY IdsFrame
<1>2. /\ \A k \in RobIndex : ROB'[k].id = ROB[k].id /\ ROB'[k].i = ROB[k].i
      /\ \A k \in RobIndex : /\ ROB'[k].source_added = ROB[k].source_added
                             /\ ROB'[k].destination_added = ROB[k].destination_added
                             /\ ROB'[k].lq_index = ROB[k].lq_index
                             /\ ROB'[k].sq_index = ROB[k].sq_index
                             /\ ROB'[k].memory_depend = ROB[k].memory_depend
                             /\ ROB'[k].num_mem_ops = ROB[k].num_mem_ops
  BY DEF SameIds, SameMemory, SameLinks
<1>3. Stores' = Stores BY <1>1, <1>2 DEF Stores
<1>4. Stores \subseteq RobIndex BY DEF Stores
<1>5. /\ \A l \in LqIndex : LQ[l].rob_index \in RobIndex
      /\ \A s \in SqIndex : SQ[s].rob_index \in RobIndex
      /\ \A k \in RobIndex : ROB[k].memory_depend \subseteq RobIndex
  BY DEF CoreTypes, LsqTypes, RobTypes, LsqEntry, RobEntry
<1>6. StaInv => StaInv' BY <1>2, <1>3, <1>4 DEF StaInv
<1>7. SqLinks => SqLinks' BY <1>2, <1>3, <1>4, <1>5 DEF SqLinks
<1>8. SqRing => SqRing' BY <1>1, <1>2, <1>3, <1>4 DEF SqRing
<1>9. LqLinks => LqLinks' BY <1>2, <1>5 DEF LqLinks
<1>10. MemOps => MemOps' BY <1>1, <1>2 DEF MemOps, LoadIsLeft, StoreIsLeft
<1>11. DependInv => DependInv'
  BY <1>1, <1>2, <1>5 DEF DependInv, WaitsFor, Executed
<1>12. ProducerInv => ProducerInv'
  <2>1. \A i \in RobIndex : \A w : StoresBefore(i, w) \subseteq RobIndex
    BY DEF StoresBefore, Before
  <2>2. \A k \in RobIndex : Executed(k)' <=> Executed(k) BY <1>2 DEF Executed
  <2> QED BY <1>1, <1>2, <1>5, <2>1, <2>2 DEF ProducerInv
<1> QED BY <1>6, <1>7, <1>8, <1>9, <1>10, <1>11, <1>12

LEMMA LoadPlacesFrame ==
  ASSUME LoadsOnTheirWay' = LoadsOnTheirWay, UNCHANGED <<RTL0, RTL1, dtlb_load, l1d>>, LoadPlaces
  PROVE  LoadPlaces'
<1>1. SeqSet(RTL0)' = SeqSet(RTL0) /\ SeqSet(RTL1)' = SeqSet(RTL1) BY DEF SeqSet
<1> QED BY <1>1 DEF LoadPlaces

LEMMA StorePlacesFrame ==
  ASSUME ToStore' = ToStore, UNCHANGED <<RTS0, RTS1, dtlb_store>>, StorePlaces
  PROVE  StorePlaces'
<1>1. SeqSet(RTS0)' = SeqSet(RTS0) /\ SeqSet(RTS1)' = SeqSet(RTS1) BY DEF SeqSet
<1> QED BY <1>1 DEF StorePlaces

LEMMA PlacesFrame ==
  ASSUME UNCHANGED <<LQ, SQ, RTL0, RTL1, dtlb_load, l1d, RTS0, RTS1, dtlb_store>>
  PROVE  (LoadPlaces => LoadPlaces') /\ (StorePlaces => StorePlaces')
<1>1. LoadsOnTheirWay' = LoadsOnTheirWay /\ ToStore' = ToStore BY DEF LoadsOnTheirWay, ToStore
<1> QED BY <1>1, LoadPlacesFrame, StorePlacesFrame

LEMMA SlotsFrame ==
  ASSUME SameIds, SameLinks, SameExecution, UNCHANGED rte,
         RTE0 \in Seq(RobIndex), RTE1 \in Seq(RobIndex)
  PROVE  (SlotsAreSound => SlotsAreSound') /\ (RteInv => RteInv')
<1>1. \A i \in RobIndex : (Used(i)' <=> Used(i)) /\ (IsMemory(i)' <=> IsMemory(i)) BY IdsFrame
<1>2. UNCHANGED <<RTE0, RTE1>> BY DEF rte
<1>3. SlotsAreSound => SlotsAreSound'
  BY <1>1 DEF SlotsAreSound, SameIds, SameLinks, SameExecution
<1>4. RteInv => RteInv'
  <2>1. SeqSet(RTE0) \subseteq RobIndex /\ SeqSet(RTE1) \subseteq RobIndex BY SeqElements
  <2>2. \A i \in RobIndex : ToExecute(i)' <=> ToExecute(i) BY <1>1 DEF ToExecute, SameExecution
  <2>3. SeqSet(RTE0)' = SeqSet(RTE0) /\ SeqSet(RTE1)' = SeqSet(RTE1) BY <1>2 DEF SeqSet
  <2> QED BY <1>2, <2>1, <2>2, <2>3 DEF RteInv
<1> QED BY <1>3, <1>4

LEMMA SameExecuted ==
  ASSUME SameIds, SameMemory, \A k \in RobIndex : ROB'[k].executed = ROB[k].executed,
         UNCHANGED counters, Counters, NoneIsLeft
  PROVE  Counters' /\ NoneIsLeft'
<1>1. \A i \in RobIndex : IsMemory(i)' <=> IsMemory(i) BY IdsFrame
<1>2. MemExecuting' = MemExecuting BY <1>1 DEF MemExecuting, SameMemory
<1>3. RegExecuting' = RegExecuting BY <1>1 DEF RegExecuting
<1>4. Counters' BY <1>2, <1>3 DEF Counters, counters
<1> QED BY <1>1, <1>4 DEF NoneIsLeft, SameMemory

(***************************************************************************)
(* The steps, one after the other.                                         *)
(***************************************************************************)

\* What a step that moves nothing but indexes and answers keeps.
LEMMA QuietKeeps ==
  ASSUME CoreInv, SameIds, SameMemory, SameExecution,
         UNCHANGED <<head, tail, occupancy, instr_unique_id, LQ, SQ, SQ_head, SQ_tail, STA, rte,
                     counters>>
  PROVE  /\ RobRing' /\ SlotsAreSound' /\ RteInv' /\ StaInv' /\ SqLinks' /\ SqRing' /\ LqLinks'
         /\ MemOps' /\ NoneIsLeft' /\ Counters' /\ DependInv' /\ ProducerInv'
<1>1. RobRing' BY RingFrame DEF CoreInv
<1>2. CoreTypes /\ RTE0 \in Seq(RobIndex) /\ RTE1 \in Seq(RobIndex)
  BY DEF CoreInv, CoreTypes, RobTypes
<1>3. StaInv' /\ SqLinks' /\ SqRing' /\ LqLinks' /\ MemOps' /\ DependInv' /\ ProducerInv'
  BY <1>2, MemoryFrame DEF CoreInv
<1>4. SlotsAreSound' /\ RteInv' BY <1>2, SlotsFrame DEF CoreInv, SameMemory
<1>5. NoneIsLeft' /\ Counters' BY SameExecuted DEF CoreInv, SameExecution
<1> QED BY <1>1, <1>3, <1>4, <1>5

LEMMA NextRobIsSlot ==
  ASSUME NEW i \in RobIndex PROVE NextRob(i) \in RobIndex
<1>1. ROB_SIZE \in Nat /\ ROB_SIZE > 0 BY CoreAssumption
<1> QED BY <1>1 DEF NextRob, RobIndex

\* A step that changes no slot.
LEMMA SameRob ==
  ASSUME ROB' = ROB PROVE SameIds /\ SameMemory /\ SameExecution
BY DEF SameIds, SameMemory, SameLinks, SameExecution

LEMMA ReadsKeep ==
  ASSUME CoreInv, ResumeFetch \/ TranslateInstruction
  PROVE  CoreInv'
<1>1. ROB' = ROB /\ UNCHANGED <<head, tail, occupancy, instr_unique_id, LQ, SQ, SQ_head, SQ_tail, STA, rte,
                     counters, trace, RTS0, RTS1, RTL0, RTL1, dtlb_load, dtlb_store, l1d, l1i, last_fetch, next_schedule>>
  BY DEF ResumeFetch, TranslateInstruction, ring, lsq, rte, counters, reads, ready, below
<1>2. SameIds /\ SameMemory /\ SameExecution BY <1>1, SameRob
<1>3. LoadPlaces' /\ StorePlaces' BY <1>1, PlacesFrame DEF CoreInv
<1>4. /\ last_read' \in RobIndex /\ itlb' \in SUBSET RobIndex
      /\ fetch_stall' \in {"no", "yes", "resumes"}
  <2>1. last_read \in RobIndex /\ itlb \in SUBSET RobIndex
        /\ fetch_stall \in {"no", "yes", "resumes"}
    BY DEF CoreInv, CoreTypes, RobTypes
  <2>2. NextRob(last_read) \in RobIndex BY <2>1, NextRobIsSlot
  <2> QED BY <2>1, <2>2 DEF ResumeFetch, TranslateInstruction, reads, ready, below
<1>5. LsqTypes' BY <1>1 DEF CoreInv, CoreTypes, LsqTypes
<1>6. RobTypes' BY <1>1, <1>4 DEF CoreInv, CoreTypes, RobTypes, rte, counters
<1> QED BY <1>1, <1>2, <1>3, <1>5, <1>6, QuietKeeps DEF CoreInv, CoreTypes

\* The instruction cache and its TLB.
LEMMA FetchKeeps ==
  ASSUME CoreInv, FetchInstruction \/ InstructionTranslated \/ InstructionFetched
  PROVE  CoreInv'
<1>1. UNCHANGED <<head, tail, occupancy, instr_unique_id, LQ, SQ, SQ_head, SQ_tail, STA, rte,
        counters, trace, fetch_stall, RTS0, RTS1, RTL0, RTL1, dtlb_load, dtlb_store, l1d, last_read,
        next_schedule>>
  BY DEF FetchInstruction, InstructionTranslated, InstructionFetched, lsq, rte, counters, reads,
         ready
<1>2. ROB \in [RobIndex -> RobEntry] /\ last_fetch \in RobIndex
      /\ itlb \in SUBSET RobIndex /\ l1i \in SUBSET RobIndex
  BY DEF CoreInv, CoreTypes, RobTypes
<1>3. NextRob(last_fetch) \in RobIndex BY <1>2, NextRobIsSlot
<1>4. /\ last_fetch' \in RobIndex /\ itlb' \in SUBSET RobIndex /\ l1i' \in SUBSET RobIndex
  BY <1>2, <1>3 DEF FetchInstruction, InstructionTranslated, InstructionFetched, reads
<1>5. \E S \in SUBSET RobIndex, v \in Progress :
        \/ ROB' = [i \in RobIndex |-> IF i \in S THEN [ROB[i] EXCEPT !.translated = v] ELSE ROB[i]]
        \/ ROB' = [i \in RobIndex |-> IF i \in S THEN [ROB[i] EXCEPT !.fetched = v] ELSE ROB[i]]
  <2>1. CASE FetchInstruction
    <3>1. ROB' = [ROB EXCEPT ![NextRob(last_fetch)].fetched = "inflight"]
      BY <2>1 DEF FetchInstruction
    <3>2. ROB' = [i \in RobIndex |-> IF i \in {NextRob(last_fetch)}
                                     THEN [ROB[i] EXCEPT !.fetched = "inflight"] ELSE ROB[i]]
      BY <1>2, <1>3, <3>1
    <3>3. {NextRob(last_fetch)} \in SUBSET RobIndex /\ "inflight" \in Progress
      BY <1>3 DEF Progress
    <3> QED BY <3>2, <3>3
  <2>2. CASE InstructionTranslated
    <3>1. PICK S \in SUBSET RobIndex :
            ROB' = [i \in RobIndex |-> IF i \in S THEN [ROB[i] EXCEPT !.translated = "completed"]
                                                  ELSE ROB[i]]
      BY <1>2, <2>2 DEF InstructionTranslated
    <3>2. "completed" \in Progress BY DEF Progress
    <3> QED BY <3>1, <3>2
  <2>3. CASE InstructionFetched
    <3>1. PICK S \in SUBSET RobIndex :
            ROB' = [i \in RobIndex |-> IF i \in S THEN [ROB[i] EXCEPT !.fetched = "completed"]
                                                  ELSE ROB[i]]
      BY <1>2, <2>3 DEF InstructionFetched
    <3>2. "completed" \in Progress BY DEF Progress
    <3> QED BY <3>1, <3>2
  <2> QED BY <2>1, <2>2, <2>3
<1>6. ROB' \in [RobIndex -> RobEntry]
  BY <1>2, <1>5, SMTT(30) DEF RobEntry
<1>7. SameIds /\ SameMemory /\ SameExecution
  BY <1>2, <1>5 DEF SameIds, SameMemory, SameLinks, SameExecution, RobEntry
<1>8. LoadPlaces' /\ StorePlaces' BY <1>1, PlacesFrame DEF CoreInv
<1>9. LsqTypes' BY <1>1 DEF CoreInv, CoreTypes, LsqTypes
<1>10. RobTypes' BY <1>1, <1>4, <1>6 DEF CoreInv, CoreTypes, RobTypes, rte, counters
<1> QED BY <1>1, <1>7, <1>8, <1>9, <1>10, QuietKeeps DEF CoreInv, CoreTypes

\* The load and store queues: an index moves from one ring to the next.
LEMMA MovesKeep ==
  ASSUME CoreInv, TranslateStore \/ TranslateLoad \/ ExecuteLoad \/ DataTranslated
  PROVE  CoreInv'
<1>1. UNCHANGED <<ring, instr_unique_id, reads, LQ, SQ, SQ_head, SQ_tail, STA, rte, counters, itlb,
                  l1i, trace, fetch_stall>>
  BY DEF TranslateStore, TranslateLoad, ExecuteLoad, DataTranslated, ready
<1>2. ROB' = ROB /\ UNCHANGED <<head, tail, occupancy>> BY <1>1 DEF ring
<1>3. SameIds /\ SameMemory /\ SameExecution BY <1>2, SameRob
<1>4. /\ RTS0 \in Seq(SqIndex) /\ RTS1 \in Seq(SqIndex) /\ dtlb_store \in SUBSET SqIndex
      /\ RTL0 \in Seq(LqIndex) /\ RTL1 \in Seq(LqIndex) /\ dtlb_load \in SUBSET LqIndex
      /\ l1d \in SUBSET LqIndex
  BY DEF CoreInv, CoreTypes, LsqTypes
<1>5. LoadsOnTheirWay' = LoadsOnTheirWay /\ ToStore' = ToStore
  BY <1>1 DEF LoadsOnTheirWay, ToStore
<1>6. LoadPlaces /\ StorePlaces BY DEF CoreInv
<1> DEFINE Types == /\ RTS0' \in Seq(SqIndex) /\ RTS1' \in Seq(SqIndex)
                    /\ dtlb_store' \in SUBSET SqIndex
                    /\ RTL0' \in Seq(LqIndex) /\ RTL1' \in Seq(LqIndex)
                    /\ dtlb_load' \in SUBSET LqIndex /\ l1d' \in SUBSET LqIndex
<1>7. Types /\ LoadPlaces' /\ StorePlaces'
  <2>1. CASE TranslateStore
    <3>1. /\ RTS0 # <<>> /\ RTS0' = Tail(RTS0) /\ dtlb_store' = dtlb_store \cup {Head(RTS0)}
          /\ UNCHANGED <<RTS1, RTL0, RTL1, dtlb_load, l1d>>
      BY <2>1 DEF TranslateStore
    <3>2. IsInjective(RTS0) BY <1>6 DEF StorePlaces
    <3>3. /\ RTS0' \in Seq(SqIndex) /\ IsInjective(RTS0') /\ Head(RTS0) \in SqIndex
          /\ Head(RTS0) \in SeqSet(RTS0) /\ SeqSet(RTS0') = SeqSet(RTS0) \ {Head(RTS0)}
      BY <1>4, <3>1, <3>2, WithoutHead
    <3>4. Types BY <1>4, <3>1, <3>3
    <3>5. StorePlaces'
      <4>1. SeqSet(RTS0)' = SeqSet(RTS0') /\ SeqSet(RTS1)' = SeqSet(RTS1) BY <3>1 DEF SeqSet
      <4> QED BY <1>5, <1>6, <3>1, <3>3, <4>1 DEF StorePlaces
    <3>6. LoadPlaces' BY <1>5, <1>6, <3>1, LoadPlacesFrame
    <3> QED BY <3>4, <3>5, <3>6
  <2>2. CASE TranslateLoad
    <3>1. /\ RTL0 # <<>> /\ RTL0' = Tail(RTL0) /\ dtlb_load' = dtlb_load \cup {Head(RTL0)}
          /\ UNCHANGED <<RTS0, RTS1, RTL1, dtlb_store, l1d>>
      BY <2>2 DEF TranslateLoad
    <3>2. IsInjective(RTL0) BY <1>6 DEF LoadPlaces
    <3>3. /\ RTL0' \in Seq(LqIndex) /\ IsInjective(RTL0') /\ Head(RTL0) \in LqIndex
          /\ Head(RTL0) \in SeqSet(RTL0) /\ SeqSet(RTL0') = SeqSet(RTL0) \ {Head(RTL0)}
      BY <1>4, <3>1, <3>2, WithoutHead
    <3>4. Types BY <1>4, <3>1, <3>3
    <3>5. LoadPlaces'
      <4>1. SeqSet(RTL0)' = SeqSet(RTL0') /\ SeqSet(RTL1)' = SeqSet(RTL1) BY <3>1 DEF SeqSet
      <4> QED BY <1>5, <1>6, <3>1, <3>3, <4>1 DEF LoadPlaces
    <3>6. StorePlaces' BY <1>5, <1>6, <3>1, StorePlacesFrame
    <3> QED BY <3>4, <3>5, <3>6
  <2>3. CASE ExecuteLoad
    <3>1. /\ RTL1 # <<>> /\ RTL1' = Tail(RTL1) /\ l1d' = l1d \cup {Head(RTL1)}
          /\ UNCHANGED <<RTS0, RTS1, RTL0, dtlb_store, dtlb_load>>
      BY <2>3 DEF ExecuteLoad
    <3>2. IsInjective(RTL1) BY <1>6 DEF LoadPlaces
    <3>3. /\ RTL1' \in Seq(LqIndex) /\ IsInjective(RTL1') /\ Head(RTL1) \in LqIndex
          /\ Head(RTL1) \in SeqSet(RTL1) /\ SeqSet(RTL1') = SeqSet(RTL1) \ {Head(RTL1)}
      BY <1>4, <3>1, <3>2, WithoutHead
    <3>4. Types BY <1>4, <3>1, <3>3
    <3>5. LoadPlaces'
      <4>1. SeqSet(RTL1)' = SeqSet(RTL1') /\ SeqSet(RTL0)' = SeqSet(RTL0) BY <3>1 DEF SeqSet
      <4> QED BY <1>5, <1>6, <3>1, <3>3, <4>1 DEF LoadPlaces
    <3>6. StorePlaces' BY <1>5, <1>6, <3>1, StorePlacesFrame
    <3> QED BY <3>4, <3>5, <3>6
  <2>4. CASE DataTranslated
    <3>1. PICK S \in SUBSET dtlb_store, L \in SUBSET dtlb_load :
            /\ MergedTranslation(S, L)
            /\ dtlb_store' = dtlb_store \ S /\ dtlb_load' = dtlb_load \ L
            /\ UNCHANGED <<RTS0, RTL0, l1d>>
      BY <2>4 DEF DataTranslated
    <3>2. PICK stores \in SetToSeqs(S), loads \in SetToSeqs(L) :
            RTS1' = RTS1 \o stores /\ RTL1' = RTL1 \o loads
      BY <3>1 DEF MergedTranslation
    <3>3. S \in SUBSET SqIndex /\ L \in SUBSET LqIndex BY <1>4
    <3>4. /\ stores \in Seq(S) /\ IsInjective(stores) /\ SeqSet(stores) = S
          /\ loads \in Seq(L) /\ IsInjective(loads) /\ SeqSet(loads) = L
      BY <3>3, FiniteSlots, OrderOfSet
    <3>5. stores \in Seq(SqIndex) /\ loads \in Seq(LqIndex)
      BY <3>3, <3>4 
    <3>6. /\ IsInjective(RTS1) /\ SeqSet(RTS1) \cap SeqSet(stores) = {}
          /\ IsInjective(RTL1) /\ SeqSet(RTL1) \cap SeqSet(loads) = {}
      BY <1>6, <3>4 DEF StorePlaces, LoadPlaces
    <3>7. /\ RTS1' \in Seq(SqIndex) /\ IsInjective(RTS1') /\ SeqSet(RTS1') = SeqSet(RTS1) \cup S
          /\ RTL1' \in Seq(LqIndex) /\ IsInjective(RTL1') /\ SeqSet(RTL1') = SeqSet(RTL1) \cup L
      BY <1>4, <3>2, <3>4, <3>5, <3>6, Together
    <3>8. Types BY <1>4, <3>1, <3>7
    <3>9. /\ SeqSet(RTL1)' = SeqSet(RTL1') /\ SeqSet(RTL0)' = SeqSet(RTL0)
          /\ SeqSet(RTS1)' = SeqSet(RTS1') /\ SeqSet(RTS0)' = SeqSet(RTS0)
      BY <3>1 DEF SeqSet
    <3>10. LoadPlaces' BY <1>5, <1>6, <3>1, <3>7, <3>9 DEF LoadPlaces
    <3>11. StorePlaces' BY <1>5, <1>6, <3>1, <3>7, <3>9 DEF StorePlaces
    <3> QED BY <3>8, <3>10, <3>11
  <2> QED BY <2>1, <2>2, <2>3, <2>4
<1>8. LsqTypes' BY <1>1, <1>7 DEF CoreInv, CoreTypes, LsqTypes
<1>9. RobTypes' BY <1>1 DEF CoreInv, CoreTypes, RobTypes, ring, reads, rte, counters
<1> QED BY <1>1, <1>2, <1>3, <1>7, <1>8, <1>9, QuietKeeps DEF CoreInv, CoreTypes

\* The registers that an instruction waits for are finitely many.
LEMMA ProducersCount ==
  ASSUME NEW i \in RobIndex
  PROVE  /\ Producers(i) \in SUBSET (RobIndex \X Registers)
         /\ Cardinality(Producers(i)) \in Nat
         /\ Producers(i) = {} => Cardinality(Producers(i)) = 0
<1>1. Producers(i) \in SUBSET (RobIndex \X Registers) BY DEF Producers
<1>2. IsFiniteSet(RobIndex) /\ IsFiniteSet(Registers)
  BY FiniteSlots, CoreAssumption
<1>3. IsFiniteSet(RobIndex \X Registers) BY <1>2, FS_Product
<1>4. IsFiniteSet(Producers(i)) BY <1>1, <1>3, FS_Subset
<1> QED BY <1>1, <1>4, FS_CardinalityType, FS_EmptySet

LEMMA CoreScheduleKeeps ==
  ASSUME CoreInv, ScheduleInstruction
  PROVE  CoreInv'
<1>1. PICK i \in RobIndex :
        /\ Searched(i) /\ ROB[i].scheduled = "no"
        /\ LET raw == Producers(i) IN
           /\ ROB' = [k \in RobIndex |->
                IF k = i THEN [ROB[i] EXCEPT !.reg_ready = (raw = {}),
                                 !.num_reg_dependent = Cardinality(raw),
                                 !.scheduled = IF IsMemory(i) THEN "inflight" ELSE "completed"]
                ELSE [ROB[k] EXCEPT !.registers_depend =
                        @ \cup {i} \X {r \in Registers : <<k, r>> \in raw}]]
           /\ RTE1' = IF raw = {} /\ ~IsMemory(i) THEN Append(RTE1, i) ELSE RTE1
        /\ next_schedule' = NextRob(i)
  BY DEF ScheduleInstruction
<1> DEFINE raw == Producers(i)
<1>2. /\ UNCHANGED <<head, tail, occupancy, last_read, last_fetch, LQ, SQ, SQ_head, SQ_tail, STA,
                     RTS0, RTS1, RTL0, RTL1, RTE0, trace, instr_unique_id, fetch_stall, counters,
                     itlb, l1i, dtlb_load, dtlb_store, l1d>>
  BY DEF ScheduleInstruction, lsq, ready, below
<1>3. ROB \in [RobIndex -> RobEntry] /\ RTE0 \in Seq(RobIndex) /\ RTE1 \in Seq(RobIndex)
  BY DEF CoreInv, CoreTypes, RobTypes
<1>4. Cardinality(raw) \in Nat /\ (raw = {} => Cardinality(raw) = 0) BY ProducersCount
<1>5. ASSUME NEW k \in RobIndex
      PROVE  {i} \X {r \in Registers : <<k, r>> \in raw} \in SUBSET (RobIndex \X Registers)
  OBVIOUS
<1> DEFINE more(k) == {i} \X {r \in Registers : <<k, r>> \in raw}
           none == (raw = {})
           some == Cardinality(raw)
           state == IF IsMemory(i) THEN "inflight" ELSE "completed"
<1>6. /\ ROB' = [k \in RobIndex |->
                   IF k = i THEN [ROB[i] EXCEPT !.reg_ready = none, !.num_reg_dependent = some,
                                                !.scheduled = state]
                   ELSE [ROB[k] EXCEPT !.registers_depend = @ \cup more(k)]]
      /\ RTE1' = IF none /\ ~IsMemory(i) THEN Append(RTE1, i) ELSE RTE1
  BY <1>1
<1>7. /\ none \in BOOLEAN /\ some \in Int /\ (none => some <= 0)
      /\ state \in Progress /\ state # "no" /\ (~IsMemory(i) => state = "completed")
      /\ \A k \in RobIndex : more(k) \in SUBSET (RobIndex \X Registers)
  <2>1. none \in BOOLEAN /\ some \in Int /\ (none => some <= 0) BY <1>4
  <2>2. state \in Progress /\ state # "no" /\ (~IsMemory(i) => state = "completed")
    BY DEF Progress
  <2> QED BY <1>5, <2>1, <2>2
<1> HIDE DEF raw, more, none, some, state
<1>8. ROB' \in [RobIndex -> RobEntry]
  <2>1. ASSUME NEW k \in RobIndex PROVE ROB'[k] \in RobEntry
    <3>1. ROB[k] \in RobEntry BY <1>3
    <3>2. CASE k = i
      <4>1. ROB'[k] = [ROB[k] EXCEPT !.reg_ready = none, !.num_reg_dependent = some,
                                     !.scheduled = state]
        BY <1>6, <3>2
      <4> QED BY <1>7, <3>1, <4>1 DEF RobEntry
    <3>3. CASE k # i
      <4>1. ROB'[k] = [ROB[k] EXCEPT !.registers_depend = @ \cup more(k)] BY <1>6, <3>3
      <4>2. ROB[k].registers_depend \cup more(k) \in SUBSET (RobIndex \X Registers)
        BY <1>7, <3>1 DEF RobEntry
      <4> QED BY <3>1, <4>1, <4>2 DEF RobEntry
    <3> QED BY <3>2, <3>3
  <2> QED BY <1>6, <2>1
<1>9. /\ SameIds /\ SameMemory
      /\ \A k \in RobIndex : ROB'[k].executed = ROB[k].executed
      /\ \A k \in RobIndex \ {i} : /\ ROB'[k].scheduled = ROB[k].scheduled
                                   /\ ROB'[k].num_reg_dependent = ROB[k].num_reg_dependent
                                   /\ ROB'[k].reg_ready = ROB[k].reg_ready
      /\ ROB'[i].reg_ready = none /\ ROB'[i].num_reg_dependent = some /\ ROB'[i].scheduled = state
  <2>1. \A k \in RobIndex : ROB[k] \in RobEntry BY <1>3
  <2>2. ROB'[i] = [ROB[i] EXCEPT !.reg_ready = none, !.num_reg_dependent = some,
                                 !.scheduled = state]
    BY <1>6
  <2>3. \A k \in RobIndex \ {i} : ROB'[k] = [ROB[k] EXCEPT !.registers_depend = @ \cup more(k)]
    BY <1>6
  <2>4. /\ ROB'[i].reg_ready = none /\ ROB'[i].num_reg_dependent = some
        /\ ROB'[i].scheduled = state /\ ROB'[i].executed = ROB[i].executed
    BY <2>1, <2>2 DEF RobEntry
  <2>5. \A k \in RobIndex \ {i} : /\ ROB'[k].executed = ROB[k].executed
                                  /\ ROB'[k].scheduled = ROB[k].scheduled
                                  /\ ROB'[k].num_reg_dependent = ROB[k].num_reg_dependent
                                  /\ ROB'[k].reg_ready = ROB[k].reg_ready
    BY <2>1, <2>3 DEF RobEntry
  <2>6. SameIds
    <3>1. ROB'[i].id = ROB[i].id /\ ROB'[i].i = ROB[i].i BY <2>1, <2>2 DEF RobEntry
    <3>2. \A k \in RobIndex \ {i} : ROB'[k].id = ROB[k].id /\ ROB'[k].i = ROB[k].i
      BY <2>1, <2>3 DEF RobEntry
    <3> QED BY <3>1, <3>2 DEF SameIds
  <2>7. SameMemory
    <3>1. ASSUME NEW k \in RobIndex
          PROVE  /\ ROB'[k].source_added = ROB[k].source_added
                 /\ ROB'[k].destination_added = ROB[k].destination_added
                 /\ ROB'[k].lq_index = ROB[k].lq_index /\ ROB'[k].sq_index = ROB[k].sq_index
                 /\ ROB'[k].memory_depend = ROB[k].memory_depend
                 /\ ROB'[k].num_mem_ops = ROB[k].num_mem_ops
      <4>1. CASE k = i BY <2>1, <2>2, <4>1 DEF RobEntry
      <4>2. CASE k # i
        <5>1. ROB[k] \in RobEntry /\ ROB'[k] = [ROB[k] EXCEPT !.registers_depend = @ \cup more(k)]
          BY <2>1, <2>3, <4>2
        <5> QED BY <5>1 DEF RobEntry
      <4> QED BY <4>1, <4>2
    <3> QED BY <3>1 DEF SameMemory, SameLinks
  <2> QED BY <2>4, <2>5, <2>6, <2>7
<1>10. Used(i) /\ ROB[i].executed = "no" BY <1>1 DEF Searched, CoreInv, SlotsAreSound
<1>11. \A k \in RobIndex : (Used(k)' <=> Used(k)) /\ (IsMemory(k)' <=> IsMemory(k))
  BY <1>9, IdsFrame
<1>12. SlotsAreSound'
  <2>1. ASSUME NEW k \in RobIndex
        PROVE  /\ ~Used(k)' => ROB'[k].num_reg_dependent <= 0
               /\ ROB'[k].num_reg_dependent > 0 => ROB'[k].executed = "no"
               /\ ROB'[k].reg_ready => ROB'[k].num_reg_dependent <= 0
               /\ ROB'[k].scheduled = "no" => ROB'[k].executed = "no"
    <3>1. CASE k = i BY <1>7, <1>9, <1>10, <1>11, <3>1
    <3>2. CASE k # i BY <1>9, <1>11, <3>2 DEF CoreInv, SlotsAreSound
    <3> QED BY <3>1, <3>2
  <2> QED BY <1>9, <1>11, <2>1 DEF CoreInv, SlotsAreSound, SameIds, SameMemory, SameLinks
<1>13. i \notin SeqSet(RTE0) /\ i \notin SeqSet(RTE1)
  BY <1>1 DEF CoreInv, RteInv, ToExecute
<1>14. \A k \in RobIndex \ {i} : ToExecute(k)' <=> ToExecute(k) BY <1>9, <1>11 DEF ToExecute
<1>15. none /\ ~IsMemory(i) => ToExecute(i)'
  BY <1>7, <1>9, <1>10, <1>11 DEF ToExecute
<1>16. RteInv' /\ RTE1' \in Seq(RobIndex)
  <2>1. RteInv BY DEF CoreInv
  <2>2. SeqSet(RTE0)' = SeqSet(RTE0) /\ SeqSet(RTE1)' = SeqSet(RTE1') BY <1>2 DEF SeqSet
  <2>3. SeqSet(RTE0) \subseteq RobIndex /\ SeqSet(RTE1) \subseteq RobIndex
    BY <1>3, SeqElements
  <2>4. CASE none /\ ~IsMemory(i)
    <3>1. RTE1' = Append(RTE1, i) BY <1>6, <2>4
    <3>2. /\ RTE1' \in Seq(RobIndex) /\ IsInjective(RTE1') /\ SeqSet(RTE1') = SeqSet(RTE1) \cup {i}
      BY <1>3, <1>13, <2>1, <3>1, AppendOne DEF RteInv
    <3> QED BY <1>2, <1>13, <1>14, <1>15, <2>1, <2>2, <2>3, <2>4, <3>2 DEF RteInv
  <2>5. CASE ~ (none /\ ~IsMemory(i))
    <3>1. RTE1' = RTE1 BY <1>6, <2>5
    <3> QED BY <1>2, <1>3, <1>13, <1>14, <2>1, <2>2, <2>3, <3>1 DEF RteInv
  <2> QED BY <2>4, <2>5
<1>17. Counters' /\ NoneIsLeft' BY <1>2, <1>9, SameExecuted DEF CoreInv
<1>18. RobRing' BY <1>2, <1>9, RingFrame DEF CoreInv
<1>19. StaInv' /\ SqLinks' /\ SqRing' /\ LqLinks' /\ MemOps' /\ DependInv' /\ ProducerInv'
  BY <1>2, <1>9, MemoryFrame DEF CoreInv
<1>20. LoadPlaces' /\ StorePlaces' BY <1>2, PlacesFrame DEF CoreInv
<1>21. LsqTypes' BY <1>2 DEF CoreInv, CoreTypes, LsqTypes
<1>22. next_schedule' \in RobIndex BY <1>1, NextRobIsSlot
<1>23. RobTypes' BY <1>2, <1>8, <1>16, <1>22 DEF CoreInv, CoreTypes, RobTypes, counters
<1> QED BY <1>12, <1>16, <1>17, <1>18, <1>19, <1>20, <1>21, <1>23 DEF CoreInv, CoreTypes

LEMMA ExecuteKeeps ==
  ASSUME CoreInv, ExecuteInstruction
  PROVE  CoreInv'
<1>1. /\ inflight_reg_executions' = inflight_reg_executions + 1
      /\ UNCHANGED <<head, tail, occupancy, last_read, last_fetch, next_schedule, LQ, SQ, SQ_head,
                     SQ_tail, STA, RTS0, RTS1, RTL0, RTL1, trace, instr_unique_id, fetch_stall,
                     inflight_mem_executions, itlb, l1i, dtlb_load, dtlb_store, l1d>>
  BY DEF ExecuteInstruction, ExecuteFrom, reads, lsq, ready, below
<1>2. ROB \in [RobIndex -> RobEntry] /\ RTE0 \in Seq(RobIndex) /\ RTE1 \in Seq(RobIndex)
      /\ RteInv
  BY DEF CoreInv, CoreTypes, RobTypes
<1>3. \E i \in SeqSet(RTE0) \cup SeqSet(RTE1) :
        /\ ROB' = [ROB EXCEPT ![i].executed = "inflight"]
        /\ RTE0' \in Seq(RobIndex) /\ RTE1' \in Seq(RobIndex)
        /\ IsInjective(RTE0') /\ IsInjective(RTE1')
        /\ SeqSet(RTE0') = SeqSet(RTE0) \ {i} /\ SeqSet(RTE1') = SeqSet(RTE1) \ {i}
  <2>1. CASE ExecuteFrom(RTE0) /\ RTE0' = Tail(RTE0) /\ UNCHANGED RTE1
    <3>1. RTE0 # <<>> /\ ROB' = [ROB EXCEPT ![Head(RTE0)].executed = "inflight"]
      BY <2>1 DEF ExecuteFrom
    <3>2. /\ RTE0' \in Seq(RobIndex) /\ IsInjective(RTE0') /\ Head(RTE0) \in SeqSet(RTE0)
          /\ SeqSet(RTE0') = SeqSet(RTE0) \ {Head(RTE0)}
      BY <1>2, <2>1, <3>1, WithoutHead DEF RteInv
    <3>3. SeqSet(RTE1') = SeqSet(RTE1) \ {Head(RTE0)} /\ IsInjective(RTE1')
      BY <1>2, <2>1, <3>2 DEF RteInv
    <3> QED BY <1>2, <2>1, <3>1, <3>2, <3>3
  <2>2. CASE ExecuteFrom(RTE1) /\ RTE1' = Tail(RTE1) /\ UNCHANGED RTE0
    <3>1. RTE1 # <<>> /\ ROB' = [ROB EXCEPT ![Head(RTE1)].executed = "inflight"]
      BY <2>2 DEF ExecuteFrom
    <3>2. /\ RTE1' \in Seq(RobIndex) /\ IsInjective(RTE1') /\ Head(RTE1) \in SeqSet(RTE1)
          /\ SeqSet(RTE1') = SeqSet(RTE1) \ {Head(RTE1)}
      BY <1>2, <2>2, <3>1, WithoutHead DEF RteInv
    <3>3. SeqSet(RTE0') = SeqSet(RTE0) \ {Head(RTE1)} /\ IsInjective(RTE0')
      BY <1>2, <2>2, <3>2 DEF RteInv
    <3> QED BY <1>2, <2>2, <3>1, <3>2, <3>3
  <2> QED BY <2>1, <2>2 DEF ExecuteInstruction
<1>4. PICK i \in SeqSet(RTE0) \cup SeqSet(RTE1) :
        /\ ROB' = [ROB EXCEPT ![i].executed = "inflight"]
        /\ RTE0' \in Seq(RobIndex) /\ RTE1' \in Seq(RobIndex)
        /\ IsInjective(RTE0') /\ IsInjective(RTE1')
        /\ SeqSet(RTE0') = SeqSet(RTE0) \ {i} /\ SeqSet(RTE1') = SeqSet(RTE1) \ {i}
  BY <1>3
<1>5. i \in RobIndex /\ ToExecute(i) BY <1>2, SeqElements DEF RteInv
<1>6. SameIds /\ SameMemory
      /\ \A k \in RobIndex : /\ ROB'[k].scheduled = ROB[k].scheduled
                             /\ ROB'[k].num_reg_dependent = ROB[k].num_reg_dependent
                             /\ ROB'[k].reg_ready = ROB[k].reg_ready
                             /\ ROB'[k].executed = IF k = i THEN "inflight" ELSE ROB[k].executed
  BY <1>2, <1>4, <1>5 DEF SameIds, SameMemory, SameLinks, RobEntry
<1>7. ROB' \in [RobIndex -> RobEntry]
  <2>1. "inflight" \in Progress BY DEF Progress
  <2>2. ROB[i] \in RobEntry BY <1>2, <1>5
  <2>3. [ROB[i] EXCEPT !.executed = "inflight"] \in RobEntry BY <2>1, <2>2 DEF RobEntry
  <2> QED BY <1>2, <1>4, <1>5, <2>3
<1>8. \A k \in RobIndex : (Used(k)' <=> Used(k)) /\ (IsMemory(k)' <=> IsMemory(k))
  BY <1>6, IdsFrame
<1>9. SlotsAreSound'
  <2>1. \A k \in RobIndex : ROB[k].num_reg_dependent \in Int BY <1>2 DEF RobEntry
  <2>2. ASSUME NEW k \in RobIndex
        PROVE  /\ ~Used(k)' => ROB'[k].executed = "no" /\ ROB'[k].num_reg_dependent <= 0
               /\ ROB'[k].num_reg_dependent > 0 => ROB'[k].executed = "no"
               /\ ROB'[k].reg_ready => ROB'[k].num_reg_dependent <= 0
               /\ ROB'[k].scheduled = "no" => ROB'[k].executed = "no"
    <3>1. CASE k = i BY <1>5, <1>6, <1>8, <2>1, <3>1 DEF ToExecute
    <3>2. CASE k # i BY <1>6, <1>8, <3>2 DEF CoreInv, SlotsAreSound
    <3> QED BY <3>1, <3>2
  <2> QED BY <1>6, <1>8, <2>2 DEF CoreInv, SlotsAreSound, SameIds, SameMemory, SameLinks
<1>10. RteInv'
  <2>1. SeqSet(RTE0)' = SeqSet(RTE0') /\ SeqSet(RTE1)' = SeqSet(RTE1') BY DEF SeqSet
  <2>2. \A k \in RobIndex \ {i} : ToExecute(k) => ToExecute(k)' BY <1>6, <1>8 DEF ToExecute
  <2>3. SeqSet(RTE0) \subseteq RobIndex /\ SeqSet(RTE1) \subseteq RobIndex
    BY <1>2, SeqElements
  <2> QED BY <1>2, <1>4, <2>1, <2>2, <2>3 DEF RteInv
<1>11. NoneIsLeft' BY <1>6, <1>8 DEF CoreInv, NoneIsLeft, SameMemory, SameLinks
<1>12. Counters'
  <2>1. MemExecuting' = MemExecuting
    BY <1>5, <1>6, <1>8 DEF MemExecuting, SameMemory, SameLinks, ToExecute
  <2>2. RegExecuting' = RegExecuting \cup {i} /\ i \notin RegExecuting
    BY <1>5, <1>6, <1>8 DEF RegExecuting, ToExecute
  <2>3. IsFiniteSet(RegExecuting) BY FiniteSlots DEF RegExecuting
  <2>4. Cardinality(RegExecuting') = Cardinality(RegExecuting) + 1
    BY <2>2, <2>3, FS_AddElement
  <2> QED BY <1>1, <2>1, <2>4 DEF CoreInv, Counters
<1>13. RobRing' BY <1>1, <1>6, RingFrame DEF CoreInv
<1>14. StaInv' /\ SqLinks' /\ SqRing' /\ LqLinks' /\ MemOps' /\ DependInv' /\ ProducerInv'
  BY <1>1, <1>6, MemoryFrame DEF CoreInv
<1>15. LoadPlaces' /\ StorePlaces' BY <1>1, PlacesFrame DEF CoreInv
<1>16. LsqTypes' BY <1>1 DEF CoreInv, CoreTypes, LsqTypes
<1>17. RobTypes' BY <1>1, <1>4, <1>7 DEF CoreInv, CoreTypes, RobTypes
<1> QED BY <1>9, <1>10, <1>11, <1>12, <1>13, <1>14, <1>15, <1>16, <1>17 DEF CoreInv, CoreTypes

\* An instruction whose producer is done waits for fewer registers, or for as many.
LEMMA ReleaseFacts ==
  ASSUME RobTypes, SlotsAreSound, NEW i \in RobIndex, NEW k \in RobIndex
  PROVE  LET e == AfterRelease(i)[k] IN
         /\ e \in RobEntry
         /\ e.id = ROB[k].id /\ e.i = ROB[k].i /\ e.executed = ROB[k].executed
         /\ e.source_added = ROB[k].source_added
         /\ e.destination_added = ROB[k].destination_added
         /\ e.lq_index = ROB[k].lq_index /\ e.sq_index = ROB[k].sq_index
         /\ e.memory_depend = ROB[k].memory_depend /\ e.num_mem_ops = ROB[k].num_mem_ops
         /\ e.num_reg_dependent <= ROB[k].num_reg_dependent
         /\ e.reg_ready => e.num_reg_dependent <= 0
         /\ e.scheduled = "no" => ROB[k].scheduled = "no"
         /\ ToExecute(k) => e.scheduled = "completed"
         /\ (ROB[k].num_reg_dependent > 0 /\ e.reg_ready /\ ~IsMemory(k))
              => e.scheduled = "completed" /\ e.num_reg_dependent <= 0
<1> DEFINE freed == {r \in Registers : <<k, r>> \in ROB[i].registers_depend}
           less == Cardinality(freed)
           n == ROB[k].num_reg_dependent - less
           e == AfterRelease(i)[k]
<1>1. ROB[k] \in RobEntry /\ ROB[k].num_reg_dependent \in Int BY DEF RobTypes, RobEntry
<1>2. IsFiniteSet(freed) BY CoreAssumption, FS_Subset
<1>3. less \in Nat BY <1>2, FS_CardinalityType
<1>4. e = IF n = ROB[k].num_reg_dependent THEN ROB[k]
          ELSE [ROB[k] EXCEPT !.num_reg_dependent = n, !.reg_ready = (n = 0),
                  !.scheduled = IF n > 0 THEN @ ELSE IF IsMemory(k) THEN "inflight" ELSE "completed"]
  BY DEF AfterRelease
<1> HIDE DEF e, less
<1>5. n \in Int /\ n <= ROB[k].num_reg_dependent BY <1>1, <1>3
<1>6. ROB[k].reg_ready => ROB[k].num_reg_dependent <= 0 BY DEF SlotsAreSound
<1>7. CASE n = ROB[k].num_reg_dependent
  <2>1. e = ROB[k] BY <1>4, <1>7
  <2> QED BY <1>1, <1>6, <2>1 DEF e, ToExecute
<1>8. CASE n # ROB[k].num_reg_dependent
  <2> DEFINE state == IF n > 0 THEN ROB[k].scheduled
                      ELSE IF IsMemory(k) THEN "inflight" ELSE "completed"
             none == (n = 0)
  <2>1. e = [ROB[k] EXCEPT !.num_reg_dependent = n, !.reg_ready = none, !.scheduled = state]
    BY <1>4, <1>8
  <2>2. state \in Progress /\ none \in BOOLEAN /\ (none => n <= 0)
        /\ (state = "no" => ROB[k].scheduled = "no")
        /\ (~ (n > 0) /\ ~IsMemory(k) => state = "completed")
    BY <1>1, <1>5 DEF Progress, RobEntry
  <2> HIDE DEF n, none, state
  <2>3. e \in RobEntry BY <1>1, <1>5, <2>1, <2>2 DEF RobEntry
  <2>4. /\ e.id = ROB[k].id /\ e.i = ROB[k].i /\ e.executed = ROB[k].executed
        /\ e.source_added = ROB[k].source_added
        /\ e.destination_added = ROB[k].destination_added
        /\ e.lq_index = ROB[k].lq_index /\ e.sq_index = ROB[k].sq_index
        /\ e.memory_depend = ROB[k].memory_depend /\ e.num_mem_ops = ROB[k].num_mem_ops
        /\ e.num_reg_dependent = n /\ e.reg_ready = none /\ e.scheduled = state
    BY <1>1, <2>1 DEF RobEntry
  <2>5. ToExecute(k) => ~ (n > 0) /\ ~IsMemory(k) BY <1>1, <1>5 DEF ToExecute
  <2>6. none => ~ (n > 0) BY <1>5, <2>2
  <2> QED BY <1>5, <2>2, <2>3, <2>4, <2>5, <2>6 DEF e
<1> QED BY <1>7, <1>8

\* What complete_execution wakes.
Woken(i) == {k \in RobIndex : ROB[k].num_reg_dependent > 0 /\ AfterRelease(i)[k].reg_ready
                              /\ ~IsMemory(k)}

LEMMA CompleteKeeps ==
  ASSUME CoreInv, CompleteExecution
  PROVE  CoreInv'
<1>1. PICK i \in RobIndex :
        /\ ROB[i].executed = "inflight" /\ (IsMemory(i) => ROB[i].num_mem_ops = 0)
        /\ ROB' = [AfterRelease(i) EXCEPT ![i].executed = "completed"]
        /\ \E slots \in SetToSeqs(Woken(i)) : RTE0' = RTE0 \o slots
        /\ IF IsMemory(i)
           THEN /\ inflight_mem_executions' = inflight_mem_executions - 1
                /\ UNCHANGED inflight_reg_executions
           ELSE /\ inflight_reg_executions' = inflight_reg_executions - 1
                /\ UNCHANGED inflight_mem_executions
        /\ fetch_stall' = IF ROB[i].branch_mispredicted THEN "resumes" ELSE fetch_stall
  BY DEF CompleteExecution, Woken
<1>2. UNCHANGED <<head, tail, occupancy, last_read, last_fetch, next_schedule, LQ, SQ, SQ_head,
                  SQ_tail, STA, RTS0, RTS1, RTL0, RTL1, RTE1, trace, instr_unique_id, itlb, l1i,
                  dtlb_load, dtlb_store, l1d>>
  BY DEF CompleteExecution, reads, lsq, below
<1>3. /\ RobTypes /\ SlotsAreSound /\ RteInv
      /\ ROB \in [RobIndex -> RobEntry] /\ RTE0 \in Seq(RobIndex) /\ RTE1 \in Seq(RobIndex)
      /\ \A k \in RobIndex : ROB[k].num_reg_dependent \in Int
  BY DEF CoreInv, CoreTypes, RobTypes, RobEntry
<1> DEFINE after == AfterRelease(i)
<1>4. after \in [RobIndex -> RobEntry]
  <2>1. \A k \in RobIndex : after[k] \in RobEntry BY <1>3, ReleaseFacts
  <2>2. after = [k \in RobIndex |-> after[k]] BY DEF AfterRelease
  <2> QED BY <2>1, <2>2
<1>5. ROB' \in [RobIndex -> RobEntry]
  <2>1. "completed" \in Progress BY DEF Progress
  <2>2. [after[i] EXCEPT !.executed = "completed"] \in RobEntry BY <1>4, <2>1 DEF RobEntry
  <2> QED BY <1>1, <1>4, <2>2
<1>6. ASSUME NEW k \in RobIndex
      PROVE  /\ ROB'[k].id = ROB[k].id /\ ROB'[k].i = ROB[k].i
             /\ ROB'[k].source_added = ROB[k].source_added
             /\ ROB'[k].destination_added = ROB[k].destination_added
             /\ ROB'[k].lq_index = ROB[k].lq_index /\ ROB'[k].sq_index = ROB[k].sq_index
             /\ ROB'[k].memory_depend = ROB[k].memory_depend
             /\ ROB'[k].num_mem_ops = ROB[k].num_mem_ops
             /\ ROB'[k].executed = IF k = i THEN "completed" ELSE ROB[k].executed
             /\ ROB'[k].num_reg_dependent = after[k].num_reg_dependent
             /\ ROB'[k].reg_ready = after[k].reg_ready
             /\ ROB'[k].scheduled = after[k].scheduled
  <2>1. /\ after[k].id = ROB[k].id /\ after[k].i = ROB[k].i
        /\ after[k].executed = ROB[k].executed
        /\ after[k].source_added = ROB[k].source_added
        /\ after[k].destination_added = ROB[k].destination_added
        /\ after[k].lq_index = ROB[k].lq_index /\ after[k].sq_index = ROB[k].sq_index
        /\ after[k].memory_depend = ROB[k].memory_depend
        /\ after[k].num_mem_ops = ROB[k].num_mem_ops
    BY <1>3, ReleaseFacts
  <2>2. after[k] \in RobEntry BY <1>4
  <2> HIDE DEF after
  <2>3. CASE k = i
    <3>1. ROB'[k] = [after[k] EXCEPT !.executed = "completed"] BY <1>1, <1>4, <2>3 DEF after
    <3> QED BY <2>1, <2>2, <2>3, <3>1 DEF RobEntry
  <2>4. CASE k # i
    <3>1. ROB'[k] = after[k] BY <1>1, <1>4, <2>4 DEF after
    <3> QED BY <2>1, <2>4, <3>1
  <2> QED BY <2>3, <2>4
<1>7. \A k \in RobIndex :
        /\ after[k].num_reg_dependent <= ROB[k].num_reg_dependent
        /\ after[k].num_reg_dependent \in Int
        /\ after[k].reg_ready => after[k].num_reg_dependent <= 0
        /\ after[k].scheduled = "no" => ROB[k].scheduled = "no"
        /\ ToExecute(k) => after[k].scheduled = "completed"
        /\ k \in Woken(i) => after[k].scheduled = "completed" /\ after[k].num_reg_dependent <= 0
  <2>1. ASSUME NEW k \in RobIndex
        PROVE  /\ after[k].num_reg_dependent <= ROB[k].num_reg_dependent
               /\ after[k].reg_ready => after[k].num_reg_dependent <= 0
               /\ after[k].scheduled = "no" => ROB[k].scheduled = "no"
               /\ ToExecute(k) => after[k].scheduled = "completed"
               /\ (ROB[k].num_reg_dependent > 0 /\ after[k].reg_ready /\ ~IsMemory(k))
                    => after[k].scheduled = "completed" /\ after[k].num_reg_dependent <= 0
    BY <1>3, ReleaseFacts
  <2>2. \A k \in RobIndex : after[k].num_reg_dependent \in Int BY <1>4 DEF RobEntry
  <2>3. \A k \in RobIndex : k \in Woken(i) =>
          ROB[k].num_reg_dependent > 0 /\ after[k].reg_ready /\ ~IsMemory(k)
    BY DEF Woken
  <2> HIDE DEF after
  <2> QED BY <2>1, <2>2, <2>3
<1> HIDE DEF after
<1>8. SameIds /\ SameMemory BY <1>6 DEF SameIds, SameMemory, SameLinks
<1>9. \A k \in RobIndex : (Used(k)' <=> Used(k)) /\ (IsMemory(k)' <=> IsMemory(k))
  BY <1>8, IdsFrame
<1>10. Used(i) /\ ROB[i].num_reg_dependent <= 0 /\ ROB[i].scheduled # "no"
  BY <1>1, <1>3 DEF SlotsAreSound
<1>11. SlotsAreSound'
  <2>1. ASSUME NEW k \in RobIndex
        PROVE  /\ ~Used(k)' => ROB'[k].executed = "no" /\ ROB'[k].num_reg_dependent <= 0
               /\ ROB'[k].num_reg_dependent > 0 => ROB'[k].executed = "no"
               /\ ROB'[k].reg_ready => ROB'[k].num_reg_dependent <= 0
               /\ ROB'[k].scheduled = "no" => ROB'[k].executed = "no"
    <3>1. /\ ~Used(k) => ROB[k].executed = "no" /\ ROB[k].num_reg_dependent <= 0
          /\ ROB[k].num_reg_dependent > 0 => ROB[k].executed = "no"
          /\ ROB[k].scheduled = "no" => ROB[k].executed = "no"
      BY <1>3 DEF SlotsAreSound
    <3>2. CASE k = i
      <4>1. ROB'[k].num_reg_dependent <= 0 BY <1>3, <1>6, <1>7, <1>10, <3>2
      <4>2. ~ (ROB'[k].num_reg_dependent > 0) BY <1>6, <1>7, <4>1
      <4>3. ROB'[k].scheduled # "no" BY <1>6, <1>7, <1>10, <3>2
      <4> QED BY <1>9, <1>10, <3>2, <4>1, <4>2, <4>3
    <3>3. CASE k # i
      <4>1. ROB'[k].num_reg_dependent > 0 => ROB[k].num_reg_dependent > 0
        BY <1>3, <1>6, <1>7
      <4>2. ROB[k].num_reg_dependent <= 0 => ROB'[k].num_reg_dependent <= 0
        BY <1>3, <1>6, <1>7
      <4> QED BY <1>6, <1>7, <1>9, <3>1, <3>3, <4>1, <4>2
    <3> QED BY <3>2, <3>3
  <2> QED BY <1>3, <1>8, <1>9, <2>1 DEF SlotsAreSound, SameIds, SameMemory, SameLinks
<1>12. \A k \in Woken(i) : /\ k \in RobIndex /\ Used(k) /\ ROB[k].executed = "no" /\ ~IsMemory(k)
                           /\ ROB[k].num_reg_dependent > 0
  BY <1>3 DEF Woken, SlotsAreSound
<1>13. RteInv' /\ RTE0' \in Seq(RobIndex)
  <2>1. PICK slots \in SetToSeqs(Woken(i)) : RTE0' = RTE0 \o slots BY <1>1
  <2>2. Woken(i) \in SUBSET RobIndex BY DEF Woken
  <2>3. slots \in Seq(Woken(i)) /\ IsInjective(slots) /\ SeqSet(slots) = Woken(i)
    BY <2>2, FiniteSlots, OrderOfSet
  <2>4. slots \in Seq(RobIndex) BY <2>2, <2>3
  <2>5. \A k \in SeqSet(RTE0) \cup SeqSet(RTE1) : k \in RobIndex /\ ToExecute(k)
    BY <1>3, SeqElements DEF RteInv
  <2>6. (SeqSet(RTE0) \cup SeqSet(RTE1)) \cap Woken(i) = {}
    BY <1>3, <1>12, <2>5 DEF ToExecute
  <2>7. /\ RTE0' \in Seq(RobIndex) /\ IsInjective(RTE0')
        /\ SeqSet(RTE0') = SeqSet(RTE0) \cup Woken(i)
    BY <1>3, <2>1, <2>3, <2>4, <2>6, Together DEF RteInv
  <2>8. SeqSet(RTE0)' = SeqSet(RTE0') /\ SeqSet(RTE1)' = SeqSet(RTE1) BY <1>2 DEF SeqSet
  <2>9. ASSUME NEW k \in SeqSet(RTE0) \cup SeqSet(RTE1) PROVE ToExecute(k)'
    <3>1. k \in RobIndex /\ ToExecute(k) /\ k # i BY <1>1, <2>5 DEF ToExecute
    <3>2. ROB'[k].num_reg_dependent <= 0 BY <1>3, <1>6, <1>7, <3>1 DEF ToExecute
    <3> QED BY <1>6, <1>7, <1>9, <3>1, <3>2 DEF ToExecute
  <2>10. ASSUME NEW k \in Woken(i) PROVE ToExecute(k)'
    <3>1. k \in RobIndex /\ k # i BY <1>1, <1>12
    <3> QED BY <1>6, <1>7, <1>9, <1>12, <3>1 DEF ToExecute
  <2> QED BY <1>2, <1>3, <2>6, <2>7, <2>8, <2>9, <2>10 DEF RteInv
<1>14. NoneIsLeft'
  <2>1. NoneIsLeft BY DEF CoreInv
  <2> QED BY <1>1, <1>6, <1>9, <2>1 DEF NoneIsLeft
<1>15. Counters'
  <2>1. Counters /\ IsFiniteSet(MemExecuting) /\ IsFiniteSet(RegExecuting)
    BY FiniteSlots DEF CoreInv, MemExecuting, RegExecuting
  <2>2. MemExecuting' = MemExecuting \ {i} /\ RegExecuting' = RegExecuting \ {i}
    BY <1>6, <1>9 DEF MemExecuting, RegExecuting
  <2>3. CASE IsMemory(i)
    <3>1. i \in MemExecuting /\ i \notin RegExecuting
      BY <1>1, <2>3 DEF MemExecuting, RegExecuting
    <3>2. Cardinality(MemExecuting') = Cardinality(MemExecuting) - 1
      BY <2>1, <2>2, <3>1, FS_RemoveElement
    <3>3. RegExecuting' = RegExecuting BY <2>2, <3>1
    <3> QED BY <1>1, <2>1, <2>3, <3>2, <3>3 DEF Counters
  <2>4. CASE ~IsMemory(i)
    <3>1. i \notin MemExecuting /\ i \in RegExecuting
      BY <1>1, <2>4 DEF MemExecuting, RegExecuting
    <3>2. Cardinality(RegExecuting') = Cardinality(RegExecuting) - 1
      BY <2>1, <2>2, <3>1, FS_RemoveElement
    <3>3. MemExecuting' = MemExecuting BY <2>2, <3>1
    <3> QED BY <1>1, <2>1, <2>4, <3>2, <3>3 DEF Counters
  <2> QED BY <2>3, <2>4
<1>16. RobRing' BY <1>2, <1>8, RingFrame DEF CoreInv
<1>17. StaInv' /\ SqLinks' /\ SqRing' /\ LqLinks' /\ MemOps' /\ DependInv' /\ ProducerInv'
  BY <1>2, <1>8, MemoryFrame DEF CoreInv
<1>18. LoadPlaces' /\ StorePlaces' BY <1>2, PlacesFrame DEF CoreInv
<1>19. LsqTypes' BY <1>2 DEF CoreInv, CoreTypes, LsqTypes
<1>20. /\ fetch_stall' \in {"no", "yes", "resumes"} /\ inflight_reg_executions' \in Int
       /\ inflight_mem_executions' \in Int
  BY <1>1, <1>3 DEF RobTypes
<1>21. RobTypes' BY <1>2, <1>3, <1>5, <1>13, <1>20 DEF RobTypes
<1> QED BY <1>11, <1>13, <1>14, <1>15, <1>16, <1>17, <1>18, <1>19, <1>21 DEF CoreInv, CoreTypes

(***************************************************************************)
(* handle_branch: the slot at the tail is a free one.                      *)
(***************************************************************************)
LEMMA TailIsFree ==
  ASSUME RobTypes, RobRing, occupancy < ROB_SIZE
  PROVE  /\ Age(tail) = occupancy /\ ~Used(tail)
         /\ NextRob(tail) = (head + (occupancy + 1)) % ROB_SIZE
<1>1. /\ ROB_SIZE \in Nat /\ ROB_SIZE > 0 /\ occupancy \in Nat /\ head \in 0..(ROB_SIZE - 1)
      /\ tail \in RobIndex
  BY RingSizes DEF RobTypes, RobIndex
<1>2. tail = IF head + occupancy >= ROB_SIZE THEN head + occupancy - ROB_SIZE
             ELSE head + occupancy
  BY <1>1 DEF RobRing
<1>3. Age(tail) = IF tail >= head THEN tail - head ELSE tail - head + ROB_SIZE
  BY <1>1, AgeValue DEF RobTypes
<1>4. Age(tail) = occupancy BY <1>1, <1>2, <1>3
<1>5. ~Used(tail) BY <1>1, <1>4, RingIds
<1>6. NextRob(tail) = (head + (occupancy + 1)) % ROB_SIZE
  <2>1. CASE head + occupancy >= ROB_SIZE
    <3>1. tail + 1 = (head + (occupancy + 1)) - ROB_SIZE /\ tail + 1 < ROB_SIZE /\ tail + 1 >= 0
      BY <1>1, <1>2, <2>1
    <3>2. head + (occupancy + 1) \in 0..(2 * ROB_SIZE - 1) /\ head + (occupancy + 1) >= ROB_SIZE
      BY <1>1, <2>1
    <3> QED BY <1>1, <3>1, <3>2 DEF NextRob
  <2>2. CASE ~ (head + occupancy >= ROB_SIZE)
    <3>1. tail + 1 = head + (occupancy + 1) BY <1>1, <1>2, <2>2
    <3> QED BY <3>1 DEF NextRob
  <2> QED BY <2>1, <2>2
<1> QED BY <1>4, <1>5, <1>6

LEMMA NewEntryFacts ==
  ASSUME NEW id \in Nat, NEW i \in Instruction, NEW b \in BOOLEAN
  PROVE  LET e == NewEntry(id, i, b) IN
         /\ e \in RobEntry /\ e.id = id /\ e.i = i
         /\ e.executed = "no" /\ e.num_reg_dependent = 0 /\ ~e.reg_ready
         /\ ~e.source_added /\ ~e.destination_added /\ e.sq_index = Nothing
         /\ e.memory_depend = {}
         /\ e.num_mem_ops = (IF i.source_memory # Nothing THEN 1 ELSE 0)
                            + (IF i.destination_memory # Nothing THEN 1 ELSE 0)
<1> DEFINE ops == (IF i.source_memory # Nothing THEN 1 ELSE 0)
                  + (IF i.destination_memory # Nothing THEN 1 ELSE 0)
           e == NewEntry(id, i, b)
<1>1. ops \in Int /\ "no" \in Progress BY DEF Progress
<1> HIDE DEF ops
<1>2. e = [id |-> id, i |-> i, translated |-> "no", fetched |-> "no", scheduled |-> "no",
           executed |-> "no", reg_ready |-> FALSE, num_reg_dependent |-> 0,
           registers_depend |-> {}, memory_depend |-> {}, num_mem_ops |-> ops,
           source_added |-> FALSE, destination_added |-> FALSE, lq_index |-> Nothing,
           sq_index |-> Nothing, branch_mispredicted |-> b]
  BY DEF NewEntry, ops
<1> HIDE DEF e
<1>3. e \in RobEntry BY <1>1, <1>2 DEF RobEntry
<1>4. /\ e.id = id /\ e.i = i /\ e.executed = "no" /\ e.num_reg_dependent = 0 /\ ~e.reg_ready
      /\ ~e.source_added /\ ~e.destination_added /\ e.sq_index = Nothing
      /\ e.memory_depend = {} /\ e.num_mem_ops = ops
  BY <1>2
<1> QED BY <1>3, <1>4 DEF e, ops

LEMMA BranchKeeps ==
  ASSUME CoreInv, HandleBranch
  PROVE  CoreInv'
<1>1. /\ occupancy < ROB_SIZE /\ fetch_stall = "no" /\ instr_unique_id < Len(trace)
      /\ instr_unique_id' = instr_unique_id + 1
      /\ ReadInstruction(instr_unique_id', trace[instr_unique_id'])
      /\ UNCHANGED <<head, last_read, last_fetch, next_schedule, LQ, SQ, SQ_head, SQ_tail, RTS0,
                     RTS1, RTL0, RTL1, RTE0, RTE1, trace, inflight_reg_executions,
                     inflight_mem_executions, itlb, l1i, dtlb_load, dtlb_store, l1d>>
  BY DEF HandleBranch, reads, rte, counters, below
<1>2. /\ CoreTypes /\ RobTypes /\ RobRing /\ SlotsAreSound /\ RteInv
      /\ ROB \in [RobIndex -> RobEntry] /\ tail \in RobIndex /\ head \in RobIndex
      /\ occupancy \in Nat /\ instr_unique_id \in Nat /\ trace \in Seq(Instruction)
      /\ STA \in Seq(Nat)
  BY DEF CoreInv, CoreTypes, RobTypes, LsqTypes
<1> DEFINE id == instr_unique_id + 1
           i  == trace[id]
<1>3. id \in Nat /\ i \in Instruction /\ id \in 1..Len(trace)
  <2>1. Len(trace) \in Nat BY <1>2
  <2>2. id \in 1..Len(trace) BY <1>1, <1>2, <2>1
  <2> QED BY <1>2, <2>2
<1>4. PICK t \in RobIndex : t = tail BY <1>2
<1>5. PICK b \in BOOLEAN :
        /\ ROB' = [ROB EXCEPT ![tail] = NewEntry(id, i, b)]
        /\ fetch_stall' = IF b THEN "yes" ELSE fetch_stall
        /\ STA' = IF i.destination_memory # Nothing THEN Append(STA, id) ELSE STA
        /\ tail' = NextRob(tail) /\ occupancy' = occupancy + 1
  BY <1>1 DEF ReadInstruction, AddToRob
<1> DEFINE e == NewEntry(id, i, b)
<1>6. /\ e \in RobEntry /\ e.id = id /\ e.i = i
      /\ e.executed = "no" /\ e.num_reg_dependent = 0 /\ ~e.reg_ready
      /\ ~e.source_added /\ ~e.destination_added /\ e.sq_index = Nothing
      /\ e.memory_depend = {}
      /\ e.num_mem_ops = (IF i.source_memory # Nothing THEN 1 ELSE 0)
                         + (IF i.destination_memory # Nothing THEN 1 ELSE 0)
  BY <1>3, NewEntryFacts
<1> HIDE DEF e, i
<1>7. ROB'[t] = e /\ \A k \in RobIndex \ {t} : ROB'[k] = ROB[k]
  BY <1>2, <1>5, <1>4 DEF e
<1>8. ROB' \in [RobIndex -> RobEntry] BY <1>2, <1>5, <1>6 DEF e
<1>9. /\ Age(t) = occupancy /\ ~Used(t)
      /\ NextRob(t) = (head + (occupancy + 1)) % ROB_SIZE
  BY <1>1, <1>2, <1>4, TailIsFree
<1>10. id # Nothing BY <1>3, NothingIsNoNumber
<1>11. /\ Used(t)' /\ \A k \in RobIndex \ {t} : Used(k)' <=> Used(k)
  BY <1>6, <1>7, <1>10 DEF Used
<1>12. \A k \in RobIndex : Used(k) => k # t /\ ROB[k].id \in Nat /\ ROB[k].id < id
  BY <1>2, <1>9, RingIds
<1>13. RobRing'
  <2>1. tail' = (head' + occupancy') % ROB_SIZE BY <1>1, <1>5, <1>9, <1>4
  <2>2. occupancy' <= instr_unique_id' BY <1>1, <1>2, <1>5 DEF RobRing
  <2>3. ASSUME NEW k \in RobIndex
        PROVE  ROB'[k].id = IF Age(k)' < occupancy'
                            THEN instr_unique_id' - occupancy' + 1 + Age(k)' ELSE Nothing
    <3>1. Age(k)' = Age(k) /\ Age(k) \in Int BY <1>1, <1>2, AgeValue DEF Age
    <3>2. instr_unique_id' - occupancy' = instr_unique_id - occupancy BY <1>1, <1>2, <1>5
    <3>3. CASE k = t
      <4>1. Age(k) < occupancy + 1 /\ instr_unique_id - occupancy + 1 + Age(k) = id
        BY <1>2, <1>9, <3>3
      <4> QED BY <1>1, <1>5, <1>6, <1>7, <3>1, <3>2, <3>3, <4>1
    <3>4. CASE k # t
      <4>1. Age(k) # occupancy BY <1>2, <1>9, <3>4, AgesDiffer
      <4>2. Age(k) < occupancy + 1 <=> Age(k) < occupancy BY <1>2, <3>1, <4>1
      <4> QED BY <1>1, <1>2, <1>5, <1>7, <3>1, <3>2, <3>4, <4>2 DEF RobRing
    <3> QED BY <3>3, <3>4
  <2> QED BY <2>1, <2>2, <2>3 DEF RobRing
<1>14. SlotsAreSound'
  <2>1. ASSUME NEW k \in RobIndex
        PROVE  (/\ ~Used(k) => /\ ~IsMemory(k) /\ ROB[k].executed = "no"
                               /\ ROB[k].num_reg_dependent <= 0
                               /\ ~ROB[k].source_added /\ ~ROB[k].destination_added
                /\ ROB[k].num_reg_dependent > 0 => ROB[k].executed = "no"
                /\ ROB[k].reg_ready => ROB[k].num_reg_dependent <= 0
                /\ ROB[k].scheduled = "no" => ROB[k].executed = "no"
                /\ ROB[k].source_added => /\ ROB[k].i.source_memory # Nothing
                                          /\ ROB[k].lq_index \in LqIndex
                /\ IF ROB[k].destination_added
                   THEN ROB[k].i.destination_memory # Nothing /\ ROB[k].sq_index \in SqIndex
                   ELSE ROB[k].sq_index = Nothing)'
    <3>1. CASE k = t BY <1>6, <1>7, <1>11, <3>1
    <3>2. CASE k # t BY <1>2, <1>7, <1>11, <3>2 DEF SlotsAreSound, IsMemory
    <3> QED BY <3>1, <3>2
  <2> QED BY <2>1 DEF SlotsAreSound
<1>15. RteInv'
  <2>1. \A k \in SeqSet(RTE0) \cup SeqSet(RTE1) : k \in RobIndex /\ ToExecute(k) /\ k # t
    BY <1>2, <1>9, SeqElements DEF RteInv, ToExecute, RobTypes
  <2>2. \A k \in RobIndex \ {t} : ToExecute(k) => ToExecute(k)'
    BY <1>7, <1>11 DEF ToExecute, IsMemory
  <2>3. SeqSet(RTE0)' = SeqSet(RTE0) /\ SeqSet(RTE1)' = SeqSet(RTE1) BY <1>1 DEF SeqSet
  <2> QED BY <1>1, <1>2, <2>1, <2>2, <2>3 DEF RteInv
<1>16. Stores' = Stores /\ \A k \in Stores : k \in RobIndex /\ Used(k) /\ k # t
  BY <1>6, <1>7, <1>9, <1>11 DEF Stores
<1>17. \A k \in RobIndex : Used(k) => Before(k)' = Before(k)
  <2>1. ASSUME NEW k \in RobIndex, Used(k), NEW n \in RobIndex
        PROVE  (Used(n) /\ ROB[n].id < ROB[k].id)' <=> Used(n) /\ ROB[n].id < ROB[k].id
    <3>1. k # t /\ ROB'[k] = ROB[k] /\ ROB[k].id \in Nat /\ ROB[k].id < id
      BY <1>7, <1>12, <2>1
    <3>2. CASE n = t
      <4>1. ~ (id < ROB[k].id) BY <1>3, <3>1
      <4> QED BY <1>6, <1>7, <1>9, <3>1, <3>2, <4>1
    <3>3. CASE n # t BY <1>7, <1>11, <3>1, <3>3
    <3> QED BY <3>2, <3>3
  <2> QED BY <2>1 DEF Before
<1>18. \A k \in RobIndex : Used(k) => \A w : StoresBefore(k, w)' = StoresBefore(k, w)
  <2>1. ASSUME NEW k \in RobIndex, Used(k), NEW w PROVE StoresBefore(k, w)' = StoresBefore(k, w)
    <3>1. Before(k)' = Before(k) BY <1>17, <2>1
    <3>2. \A n \in Before(k) : n \in RobIndex /\ n # t BY <1>9 DEF Before
    <3> QED BY <1>7, <3>1, <3>2 DEF StoresBefore
  <2> QED BY <2>1
<1>19. StaInv' /\ STA' \in Seq(Nat)
  <2>1. StaInv BY DEF CoreInv
  <2>2. CASE i.destination_memory # Nothing
    <3>1. /\ STA' \in Seq(Nat) /\ Len(STA') = Len(STA) + 1 /\ Len(STA) \in Nat
          /\ STA'[Len(STA) + 1] = id /\ \A n \in 1..Len(STA) : STA'[n] = STA[n]
      BY <1>2, <1>3, <1>5, <2>2
    <3>2. \A n \in 1..Len(STA) : STA[n] \in Nat /\ STA[n] <= instr_unique_id /\ STA[n] < id
      BY <1>2, <2>1 DEF StaInv
    <3>3. ASSUME NEW m \in 1..Len(STA'), NEW n \in 1..Len(STA'), m < n PROVE STA'[m] < STA'[n]
      <4>1. m \in 1..Len(STA) BY <3>1, <3>3
      <4>2. CASE n = Len(STA) + 1 BY <3>1, <3>2, <4>1, <4>2
      <4>3. CASE n # Len(STA) + 1
        <5>1. n \in 1..Len(STA) BY <3>1, <4>3
        <5> QED BY <2>1, <3>1, <3>3, <4>1, <5>1 DEF StaInv
      <4> QED BY <4>2, <4>3
    <3>4. ASSUME NEW n \in 1..Len(STA')
          PROVE  STA'[n] <= instr_unique_id' /\ \A k \in Stores' : ROB'[k].id < STA'[n]
      <4>1. CASE n = Len(STA) + 1
        <5>1. STA'[n] = id /\ id <= instr_unique_id' BY <1>1, <1>3, <3>1, <4>1
        <5> QED BY <1>7, <1>12, <1>16, <5>1
      <4>2. CASE n # Len(STA) + 1
        <5>1. n \in 1..Len(STA) BY <3>1, <4>2
        <5>2. STA'[n] = STA[n] /\ STA[n] \in Nat /\ STA[n] <= instr_unique_id BY <3>1, <3>2, <5>1
        <5>3. STA'[n] <= instr_unique_id' BY <1>1, <1>2, <5>2
        <5> QED BY <1>7, <1>16, <2>1, <5>1, <5>2, <5>3 DEF StaInv
      <4> QED BY <4>1, <4>2
    <3> QED BY <3>1, <3>3, <3>4 DEF StaInv
  <2>3. CASE ~ (i.destination_memory # Nothing)
    <3>1. STA' = STA BY <1>5, <2>3
    <3>2. \A n \in 1..Len(STA) : STA[n] \in Nat /\ STA[n] <= instr_unique_id
      BY <1>2, <2>1 DEF StaInv
    <3>3. \A n \in 1..Len(STA) : STA[n] <= instr_unique_id' BY <1>1, <1>2, <3>2
    <3> QED BY <1>2, <1>7, <1>16, <2>1, <3>1, <3>3 DEF StaInv
  <2> QED BY <2>2, <2>3
<1>20. SqLinks'
  <2>1. SqLinks BY DEF CoreInv
  <2> QED BY <1>1, <1>7, <1>16, <2>1 DEF SqLinks
<1>21. SqRing'
  <2>1. SqRing BY DEF CoreInv
  <2> QED BY <1>1, <1>7, <1>16, <1>17, <2>1 DEF SqRing
<1>22. \A l \in LqIndex : LQ[l].id # Nothing =>
         LQ[l].rob_index \in RobIndex \ {t} /\ Used(LQ[l].rob_index)
  <2>1. LqLinks BY DEF CoreInv
  <2>2. \A l \in LqIndex : LQ[l].rob_index \in RobIndex BY <1>2 DEF CoreTypes, LsqTypes, LsqEntry
  <2> QED BY <1>9, <2>1, <2>2 DEF LqLinks, Used
<1>23. LqLinks'
  <2>1. LqLinks BY DEF CoreInv
  <2> QED BY <1>1, <1>7, <1>22, <2>1 DEF LqLinks
<1>24. MemOps'
  <2>1. ASSUME NEW k \in RobIndex, Used(k)'
        PROVE  (ROB[k].num_mem_ops
                  = (IF LoadIsLeft(k) THEN 1 ELSE 0) + (IF StoreIsLeft(k) THEN 1 ELSE 0))'
    <3>1. CASE k = t BY <1>6, <1>7, <3>1 DEF LoadIsLeft, StoreIsLeft
    <3>2. CASE k # t
      <4>1. (LoadIsLeft(k)' <=> LoadIsLeft(k)) /\ (StoreIsLeft(k)' <=> StoreIsLeft(k))
        BY <1>1, <1>7, <3>2 DEF LoadIsLeft, StoreIsLeft
      <4> QED BY <1>7, <1>11, <2>1, <3>2, <4>1 DEF CoreInv, MemOps
    <3> QED BY <3>1, <3>2
  <2> QED BY <2>1 DEF MemOps
<1>25. NoneIsLeft'
  <2>1. NoneIsLeft BY DEF CoreInv
  <2> QED BY <1>6, <1>7, <2>1 DEF NoneIsLeft, IsMemory
<1>26. Counters'
  <2>1. MemExecuting' = MemExecuting
    <3>1. t \notin MemExecuting BY <1>2, <1>9 DEF MemExecuting, SlotsAreSound
    <3>2. t \notin MemExecuting'
      <4>1. IsMemory(t)' => ROB'[t].num_mem_ops # 0 BY <1>6, <1>7 DEF IsMemory
      <4> QED BY <4>1 DEF MemExecuting
    <3>3. \A k \in RobIndex \ {t} : k \in MemExecuting' <=> k \in MemExecuting
      BY <1>7 DEF MemExecuting, IsMemory
    <3>4. MemExecuting \subseteq RobIndex /\ MemExecuting' \subseteq RobIndex
      BY DEF MemExecuting
    <3> QED BY <3>1, <3>2, <3>3, <3>4
  <2>2. RegExecuting' = RegExecuting
    <3>1. t \notin RegExecuting BY <1>2, <1>9 DEF RegExecuting, SlotsAreSound
    <3>2. t \notin RegExecuting' BY <1>6, <1>7 DEF RegExecuting
    <3>3. \A k \in RobIndex \ {t} : k \in RegExecuting' <=> k \in RegExecuting
      BY <1>7 DEF RegExecuting, IsMemory
    <3>4. RegExecuting \subseteq RobIndex /\ RegExecuting' \subseteq RobIndex
      BY DEF RegExecuting
    <3> QED BY <3>1, <3>2, <3>3, <3>4
  <2> QED BY <1>1, <2>1, <2>2 DEF CoreInv, Counters
<1>27. \A k \in RobIndex \ {t} : Executed(k)' <=> Executed(k) BY <1>1, <1>7 DEF Executed
<1>28. DependInv'
  <2>1. ASSUME NEW k \in RobIndex, (Used(k) /\ ~Executed(k))', NEW m \in ROB'[k].memory_depend
        PROVE  WaitsFor(m, k)'
    <3>1. k # t BY <1>6, <1>7, <2>1
    <3>2. m \in ROB[k].memory_depend /\ Used(k) /\ ~Executed(k) BY <1>7, <1>11, <1>27, <2>1, <3>1
    <3>3. WaitsFor(m, k) BY <3>2 DEF CoreInv, DependInv
    <3>4. m \in RobIndex /\ m # t BY <1>2, <1>9, <3>2, <3>3 DEF RobEntry, WaitsFor
    <3> QED BY <1>1, <1>7, <1>11, <3>1, <3>3, <3>4 DEF WaitsFor
  <2> QED BY <2>1 DEF DependInv
<1>29. ProducerInv'
  <2>1. ASSUME NEW l \in LqIndex, LQ[l].id # Nothing
        PROVE  (LET n == LQ[l].rob_index
                    stores == StoresBefore(n, LQ[l].virtual_address)
                IN IF LQ[l].producer_id = Nothing THEN stores = {}
                   ELSE \E k \in stores : /\ \A m \in stores : ROB[m].id <= ROB[k].id
                                          /\ LQ[l].producer_id = ROB[k].id
                                          /\ n \in ROB[k].memory_depend /\ ~Executed(k))'
    <3> DEFINE n == LQ[l].rob_index
               stores == StoresBefore(n, LQ[l].virtual_address)
    <3>1. n \in RobIndex /\ Used(n) BY <1>22, <2>1
    <3>2. StoresBefore(n, LQ[l].virtual_address)' = stores
      BY <1>1, <1>18, <3>1
    <3>3. \A m \in stores : m \in RobIndex \ {t} BY <1>9 DEF StoresBefore, Before
    <3>4. IF LQ[l].producer_id = Nothing THEN stores = {}
          ELSE \E k \in stores : /\ \A m \in stores : ROB[m].id <= ROB[k].id
                                 /\ LQ[l].producer_id = ROB[k].id
                                 /\ n \in ROB[k].memory_depend /\ ~Executed(k)
      BY <2>1 DEF CoreInv, ProducerInv
    <3> HIDE DEF stores
    <3> QED BY <1>1, <1>7, <1>27, <3>2, <3>3, <3>4
  <2> QED BY <1>1, <2>1 DEF ProducerInv
<1>30. LoadPlaces' /\ StorePlaces' BY <1>1, PlacesFrame DEF CoreInv
<1>31. LsqTypes' BY <1>1, <1>19 DEF CoreInv, CoreTypes, LsqTypes
<1>32. RobTypes'
  <2>1. tail' \in RobIndex BY <1>2, <1>5, NextRobIsSlot
  <2>2. occupancy' \in 0..ROB_SIZE BY <1>1, <1>2, <1>5, RingSizes
  <2>3. instr_unique_id' \in 0..Len(trace') BY <1>1, <1>3
  <2>4. fetch_stall' \in {"no", "yes", "resumes"} BY <1>1, <1>5
  <2> QED BY <1>1, <1>2, <1>8, <2>1, <2>2, <2>3, <2>4 DEF RobTypes
<1> QED BY <1>13, <1>14, <1>15, <1>19, <1>20, <1>21, <1>23, <1>24, <1>25, <1>26, <1>28, <1>29,
           <1>30, <1>31, <1>32
        DEF CoreInv, CoreTypes

(***************************************************************************)
(* Loads and stores that are done.                                         *)
(***************************************************************************)
LEMMA LinksFrame ==
  ASSUME SameIds, SameLinks, UNCHANGED <<instr_unique_id, SQ_head, SQ_tail, STA>>
  PROVE  Stores' = Stores /\ (StaInv => StaInv') /\ (SqRing => SqRing')
<1>1. \A i \in RobIndex : (Used(i)' <=> Used(i)) /\ Before(i)' = Before(i) BY IdsFrame
<1>2. Stores' = Stores BY <1>1 DEF Stores, SameLinks
<1>3. Stores \subseteq RobIndex BY DEF Stores
<1>4. StaInv => StaInv' BY <1>2, <1>3 DEF StaInv, SameIds
<1>5. SqRing => SqRing' BY <1>1, <1>2, <1>3 DEF SqRing, SameLinks
<1> QED BY <1>2, <1>4, <1>5

\* The counters when the instructions of S have one memory operation less to do.
LEMMA OpsDone ==
  ASSUME RobTypes, Counters, NoneIsLeft, SameIds, NEW S \in SUBSET RobIndex,
         \A k \in S : IsMemory(k) /\ ROB[k].num_mem_ops > 0,
         \A k \in RobIndex :
           /\ ROB'[k].num_mem_ops = IF k \in S THEN ROB[k].num_mem_ops - 1 ELSE ROB[k].num_mem_ops
           /\ ROB'[k].executed = "completed" <=> ROB[k].executed = "completed"
           /\ ~IsMemory(k) => ROB'[k].executed = ROB[k].executed,
         inflight_mem_executions' = inflight_mem_executions + LastOnes(S),
         UNCHANGED inflight_reg_executions
  PROVE  Counters' /\ NoneIsLeft' /\ inflight_mem_executions' \in Int
<1>1. \A k \in RobIndex : IsMemory(k)' <=> IsMemory(k) BY IdsFrame
<1>2. \A k \in RobIndex : ROB[k].num_mem_ops \in Int BY DEF RobTypes, RobEntry
<1>3. \A k \in S : ROB[k].executed # "completed" BY <1>2 DEF NoneIsLeft
<1> DEFINE last == {k \in S : ROB[k].num_mem_ops = 1}
<1>4. MemExecuting' = MemExecuting \cup last
  <2>1. ASSUME NEW k \in RobIndex PROVE k \in MemExecuting' <=> k \in MemExecuting \cup last
    <3>1. CASE k \in S
      <4>1. ROB'[k].num_mem_ops = 0 <=> ROB[k].num_mem_ops = 1 BY <1>2, <3>1
      <4>2. k \notin MemExecuting BY <1>2, <3>1 DEF MemExecuting
      <4> QED BY <1>1, <1>3, <3>1, <4>1, <4>2 DEF MemExecuting
    <3>2. CASE k \notin S BY <1>1, <3>2 DEF MemExecuting
    <3> QED BY <3>1, <3>2
  <2>2. MemExecuting' \subseteq RobIndex /\ MemExecuting \cup last \subseteq RobIndex
    BY DEF MemExecuting
  <2> QED BY <2>1, <2>2
<1>5. MemExecuting \cap last = {} BY <1>2 DEF MemExecuting
<1>6. IsFiniteSet(MemExecuting) /\ IsFiniteSet(last) BY FiniteSlots DEF MemExecuting
<1>7. Cardinality(MemExecuting) \in Nat /\ Cardinality(last) \in Nat BY <1>6, FS_CardinalityType
<1>8. Cardinality(MemExecuting') = Cardinality(MemExecuting) + Cardinality(last)
  <2>1. Cardinality(MemExecuting \cup last)
          = Cardinality(MemExecuting) + Cardinality(last) - Cardinality(MemExecuting \cap last)
    BY <1>6, FS_Union
  <2>2. Cardinality(MemExecuting \cap last) = 0 BY <1>5, FS_EmptySet
  <2> QED BY <1>4, <1>7, <2>1, <2>2
<1>9. RegExecuting' = RegExecuting BY <1>1 DEF RegExecuting
<1>10. Counters' BY <1>8, <1>9 DEF Counters, LastOnes
<1>11. NoneIsLeft' BY <1>1, <1>3 DEF NoneIsLeft
<1>12. inflight_mem_executions' \in Int BY <1>7 DEF LastOnes, RobTypes
<1> QED BY <1>10, <1>11, <1>12

\* release_load_queue: whose loads are left.
LEMMA LoadsReleased ==
  ASSUME CoreTypes, RobRing, SlotsAreSound, LqLinks, SameIds, SameLinks,
         NEW slots \in SUBSET LqIndex, \A l \in slots : LQ[l].id # Nothing,
         LQ' = Released(slots)
  PROVE  LET owners == {LQ[l].rob_index : l \in slots} IN
         /\ LqLinks' /\ LQ' \in [LqIndex -> LsqEntry]
         /\ \A l \in LqIndex : LQ'[l] = IF l \in slots THEN EmptyLsq ELSE LQ[l]
         /\ EmptyLsq.id = Nothing
         /\ \A k \in RobIndex : Used(k) => (LoadIsLeft(k)' <=> LoadIsLeft(k) /\ k \notin owners)
         /\ \A k \in owners : k \in RobIndex /\ Used(k) /\ IsMemory(k) /\ LoadIsLeft(k)
<1> DEFINE owners == {LQ[l].rob_index : l \in slots}
<1>1. \A l \in LqIndex : LQ'[l] = IF l \in slots THEN EmptyLsq ELSE LQ[l] BY DEF Released
<1>2. EmptyLsq.id = Nothing BY DEF EmptyLsq
<1>3. EmptyLsq \in LsqEntry BY RingSizes DEF EmptyLsq, LsqEntry
<1>4. /\ LQ \in [LqIndex -> LsqEntry] /\ RobTypes
      /\ \A l \in LqIndex : LQ[l].rob_index \in RobIndex
  BY DEF CoreTypes, LsqTypes, LsqEntry
<1>5. LQ' \in [LqIndex -> LsqEntry] BY <1>3, <1>4 DEF Released
<1>6. LqLinks'
  <2>1. \A l \in LqIndex : LQ'[l].id # Nothing => l \notin slots /\ LQ'[l] = LQ[l] BY <1>1, <1>2
  <2> QED BY <1>4, <2>1 DEF LqLinks, SameIds, SameLinks
<1>7. ASSUME NEW k \in owners PROVE k \in RobIndex /\ Used(k) /\ IsMemory(k) /\ LoadIsLeft(k)
  <2>1. PICK l \in slots : k = LQ[l].rob_index OBVIOUS
  <2>2. k \in RobIndex /\ ROB[k].id = LQ[l].id /\ ROB[k].source_added /\ ROB[k].lq_index = l
    BY <1>4, <2>1 DEF LqLinks
  <2>3. ROB[k].i.source_memory # Nothing BY <2>2 DEF SlotsAreSound
  <2> QED BY <2>1, <2>2, <2>3 DEF Used, IsMemory, LoadIsLeft
<1>8. ASSUME NEW k \in RobIndex, Used(k)
      PROVE  LoadIsLeft(k)' <=> LoadIsLeft(k) /\ k \notin owners
  <2>1. /\ ROB'[k].i = ROB[k].i /\ ROB'[k].source_added = ROB[k].source_added
        /\ ROB'[k].lq_index = ROB[k].lq_index /\ ROB'[k].id = ROB[k].id
    BY DEF SameIds, SameLinks
  <2>2. CASE ~ROB[k].source_added
    <3>1. k \notin owners BY <1>4, <2>2 DEF LqLinks
    <3> QED BY <2>1, <2>2, <3>1 DEF LoadIsLeft
  <2>3. CASE ROB[k].source_added
    <3> DEFINE l == ROB[k].lq_index
    <3>1. l \in LqIndex BY <2>3 DEF SlotsAreSound
    <3>2. CASE l \in slots
      <4>1. LQ'[l].id # ROB'[k].id BY <1>1, <1>2, <1>8, <2>1, <3>1, <3>2 DEF Used
      <4>2. ~LoadIsLeft(k)' BY <2>1, <2>3, <4>1 DEF LoadIsLeft
      <4>3. CASE LQ[l].id = ROB[k].id
        <5>1. /\ LQ[l].rob_index \in RobIndex /\ ROB[LQ[l].rob_index].id = LQ[l].id
          BY <1>4, <3>1, <3>2 DEF LqLinks
        <5>2. k = LQ[l].rob_index BY <1>4, <1>8, <4>3, <5>1, IdsDiffer
        <5>3. k \in owners BY <3>2, <5>2
        <5> QED BY <4>2, <5>3
      <4>4. CASE LQ[l].id # ROB[k].id
        <5>1. ~LoadIsLeft(k) BY <2>3, <4>4 DEF LoadIsLeft
        <5> QED BY <4>2, <5>1
      <4> QED BY <4>3, <4>4
    <3>3. CASE l \notin slots
      <4>1. LoadIsLeft(k)' <=> LoadIsLeft(k) BY <1>1, <2>1, <2>3, <3>1, <3>3 DEF LoadIsLeft
      <4>2. k \notin owners BY <3>3 DEF LqLinks
      <4> QED BY <4>1, <4>2
    <3> QED BY <3>2, <3>3
  <2> QED BY <2>2, <2>3
<1> QED BY <1>1, <1>2, <1>5, <1>6, <1>7, <1>8

\* An instruction with a memory operation left has one at least to do.
LEMMA LeftIsCounted ==
  ASSUME MemOps, NEW k \in RobIndex, Used(k), LoadIsLeft(k) \/ StoreIsLeft(k)
  PROVE  ROB[k].num_mem_ops > 0
<1>1. ROB[k].num_mem_ops = (IF LoadIsLeft(k) THEN 1 ELSE 0) + (IF StoreIsLeft(k) THEN 1 ELSE 0)
  BY DEF MemOps
<1> QED BY <1>1

LEMMA DoneFields ==
  ASSUME ROB \in [RobIndex -> RobEntry], NEW S, ROB' = MemOpsDone(S, ROB)
  PROVE  /\ ROB' \in [RobIndex -> RobEntry] /\ SameIds /\ SameLinks /\ SameExecution
         /\ \A k \in RobIndex : ROB'[k].num_mem_ops
              = IF k \in S THEN ROB[k].num_mem_ops - 1 ELSE ROB[k].num_mem_ops
<1>1. ASSUME NEW k \in RobIndex
      PROVE  /\ ROB'[k] \in RobEntry
             /\ ROB'[k].id = ROB[k].id /\ ROB'[k].i = ROB[k].i
             /\ ROB'[k].source_added = ROB[k].source_added
             /\ ROB'[k].destination_added = ROB[k].destination_added
             /\ ROB'[k].lq_index = ROB[k].lq_index /\ ROB'[k].sq_index = ROB[k].sq_index
             /\ ROB'[k].memory_depend = ROB[k].memory_depend
             /\ ROB'[k].executed = ROB[k].executed /\ ROB'[k].scheduled = ROB[k].scheduled
             /\ ROB'[k].num_reg_dependent = ROB[k].num_reg_dependent
             /\ ROB'[k].reg_ready = ROB[k].reg_ready
             /\ ROB'[k].num_mem_ops
                  = IF k \in S THEN ROB[k].num_mem_ops - 1 ELSE ROB[k].num_mem_ops
  <2>1. ROB[k] \in RobEntry OBVIOUS
  <2>2. CASE k \in S
    <3>1. ROB'[k] = [ROB[k] EXCEPT !.num_mem_ops = @ - 1] BY <2>2 DEF MemOpsDone
    <3> QED BY <2>1, <2>2, <3>1 DEF RobEntry
  <2>3. CASE k \notin S
    <3>1. ROB'[k] = ROB[k] BY <2>3 DEF MemOpsDone
    <3> QED BY <2>1, <2>3, <3>1
  <2> QED BY <2>2, <2>3
<1>2. ROB' = [k \in RobIndex |-> ROB'[k]] BY DEF MemOpsDone
<1> QED BY <1>1, <1>2 DEF SameIds, SameLinks, SameExecution

LEMMA DataFetchedKeeps ==
  ASSUME CoreInv, DataFetched
  PROVE  CoreInv'
<1>1. PICK L \in SUBSET l1d :
        /\ l1d' = l1d \ L /\ LQ' = Released(L) /\ ROB' = MemOpsDone({LQ[l].rob_index : l \in L}, ROB)
        /\ inflight_mem_executions'
             = inflight_mem_executions + LastOnes({LQ[l].rob_index : l \in L})
  BY DEF DataFetched
<1>2. UNCHANGED <<head, tail, occupancy, last_read, last_fetch, next_schedule, SQ, SQ_head, SQ_tail,
                  STA, RTS0, RTS1, RTL0, RTL1, rte, trace, instr_unique_id, fetch_stall,
                  inflight_reg_executions, itlb, l1i, dtlb_load, dtlb_store>>
  BY DEF DataFetched, reads, ready
<1> DEFINE owners == {LQ[l].rob_index : l \in L}
<1>3. /\ CoreTypes /\ RobTypes /\ LsqTypes /\ RobRing /\ SlotsAreSound /\ RteInv /\ StaInv /\ SqLinks
      /\ SqRing /\ LqLinks /\ LoadPlaces /\ StorePlaces /\ MemOps /\ NoneIsLeft /\ Counters
      /\ DependInv /\ ProducerInv
      /\ ROB \in [RobIndex -> RobEntry] /\ RTE0 \in Seq(RobIndex) /\ RTE1 \in Seq(RobIndex)
  BY DEF CoreInv, CoreTypes, RobTypes
<1>4. /\ L \in SUBSET LqIndex
      /\ \A l \in L : LQ[l].id # Nothing /\ LQ[l].producer_id = Nothing
  BY <1>3 DEF LoadPlaces, LoadsOnTheirWay
<1>5. /\ ROB' \in [RobIndex -> RobEntry] /\ SameIds /\ SameLinks /\ SameExecution
      /\ \A k \in RobIndex : ROB'[k].num_mem_ops
           = IF k \in owners THEN ROB[k].num_mem_ops - 1 ELSE ROB[k].num_mem_ops
  BY <1>1, <1>3, DoneFields
<1>6. /\ LqLinks' /\ LQ' \in [LqIndex -> LsqEntry]
      /\ \A l \in LqIndex : LQ'[l] = IF l \in L THEN EmptyLsq ELSE LQ[l]
      /\ EmptyLsq.id = Nothing
      /\ \A k \in RobIndex : Used(k) => (LoadIsLeft(k)' <=> LoadIsLeft(k) /\ k \notin owners)
      /\ \A k \in owners : k \in RobIndex /\ Used(k) /\ IsMemory(k) /\ LoadIsLeft(k)
  BY <1>1, <1>3, <1>4, <1>5, LoadsReleased
<1> HIDE DEF owners
<1>7. \A k \in RobIndex : (Used(k)' <=> Used(k)) /\ Before(k)' = Before(k)
  BY <1>5, IdsFrame
<1>8. SlotsAreSound' /\ RteInv' BY <1>2, <1>3, <1>5, SlotsFrame
<1>9. Stores' = Stores /\ StaInv' /\ SqRing' BY <1>2, <1>3, <1>5, LinksFrame
<1>10. SqLinks'
  <2>1. Stores \subseteq RobIndex BY DEF Stores
  <2>2. \A s \in SqIndex : SQ[s].rob_index \in RobIndex BY <1>3 DEF LsqTypes, LsqEntry
  <2> QED BY <1>2, <1>3, <1>5, <1>9, <2>1, <2>2 DEF SqLinks, SameIds, SameLinks
<1>11. Counters' /\ NoneIsLeft' /\ inflight_mem_executions' \in Int
  <2>1. owners \in SUBSET RobIndex BY <1>6
  <2>2. \A k \in owners : IsMemory(k) /\ ROB[k].num_mem_ops > 0 BY <1>3, <1>6, LeftIsCounted
  <2>3. inflight_mem_executions' = inflight_mem_executions + LastOnes(owners)
    BY <1>1 DEF owners
  <2>4. \A k \in RobIndex : ROB'[k].executed = ROB[k].executed BY <1>5 DEF SameExecution
  <2> QED BY <1>2, <1>3, <1>5, <2>1, <2>2, <2>3, <2>4, OpsDone
<1>12. MemOps'
  <2>1. ASSUME NEW k \in RobIndex, Used(k)'
        PROVE  (ROB[k].num_mem_ops
                  = (IF LoadIsLeft(k) THEN 1 ELSE 0) + (IF StoreIsLeft(k) THEN 1 ELSE 0))'
    <3>1. Used(k) BY <1>7, <2>1
    <3>2. StoreIsLeft(k)' <=> StoreIsLeft(k)
      BY <1>2, <1>5 DEF StoreIsLeft, SameIds, SameLinks
    <3>3. ROB[k].num_mem_ops
            = (IF LoadIsLeft(k) THEN 1 ELSE 0) + (IF StoreIsLeft(k) THEN 1 ELSE 0)
      BY <1>3, <3>1 DEF MemOps
    <3>4. CASE k \in owners
      <4>1. LoadIsLeft(k) /\ ~LoadIsLeft(k)' BY <1>6, <3>1, <3>4
      <4>2. ROB'[k].num_mem_ops = ROB[k].num_mem_ops - 1 BY <1>5, <3>4
      <4>3. ROB'[k].num_mem_ops = 0 + (IF StoreIsLeft(k) THEN 1 ELSE 0) BY <3>3, <4>1, <4>2
      <4> QED BY <3>2, <4>1, <4>3
    <3>5. CASE k \notin owners
      <4>1. LoadIsLeft(k)' <=> LoadIsLeft(k) BY <1>6, <3>1, <3>5
      <4> QED BY <1>5, <3>2, <3>3, <3>5, <4>1
    <3> QED BY <3>4, <3>5
  <2> QED BY <2>1 DEF MemOps
<1>13. LoadPlaces'
  <2>1. LoadsOnTheirWay' = LoadsOnTheirWay \ L BY <1>6 DEF LoadsOnTheirWay
  <2>2. SeqSet(RTL0)' = SeqSet(RTL0) /\ SeqSet(RTL1)' = SeqSet(RTL1) BY <1>2 DEF SeqSet
  <2> QED BY <1>1, <1>2, <1>3, <2>1, <2>2 DEF LoadPlaces
<1>14. StorePlaces'
  <2>1. ToStore' = ToStore BY <1>2 DEF ToStore
  <2> QED BY <1>2, <1>3, <2>1, StorePlacesFrame
<1>15. \A k \in RobIndex : Executed(k)' <=> Executed(k) BY <1>2, <1>5 DEF Executed, SameLinks
<1>16. DependInv'
  <2>1. ASSUME NEW k \in RobIndex, (Used(k) /\ ~Executed(k))', NEW m \in ROB'[k].memory_depend
        PROVE  WaitsFor(m, k)'
    <3>1. m \in ROB[k].memory_depend /\ Used(k) /\ ~Executed(k)
      BY <1>5, <1>7, <1>15, <2>1 DEF SameLinks
    <3>2. WaitsFor(m, k) /\ m \in RobIndex BY <1>3, <3>1 DEF DependInv, RobEntry
    <3>3. ROB[m].lq_index \in LqIndex /\ ROB[m].lq_index \notin L
      BY <1>3, <1>4, <3>1, <3>2 DEF WaitsFor, SlotsAreSound, Used
    <3>4. LQ'[ROB[m].lq_index] = LQ[ROB[m].lq_index] BY <1>6, <3>3
    <3> QED BY <1>5, <1>7, <3>2, <3>4 DEF WaitsFor, SameIds, SameLinks
  <2> QED BY <2>1 DEF DependInv
<1>17. ProducerInv'
  <2>1. ASSUME NEW l \in LqIndex, LQ'[l].id # Nothing
        PROVE  (LET n == LQ[l].rob_index
                    stores == StoresBefore(n, LQ[l].virtual_address)
                IN IF LQ[l].producer_id = Nothing THEN stores = {}
                   ELSE \E k \in stores : /\ \A m \in stores : ROB[m].id <= ROB[k].id
                                          /\ LQ[l].producer_id = ROB[k].id
                                          /\ n \in ROB[k].memory_depend /\ ~Executed(k))'
    <3> DEFINE n == LQ[l].rob_index
               stores == StoresBefore(n, LQ[l].virtual_address)
    <3>1. LQ'[l] = LQ[l] /\ LQ[l].id # Nothing BY <1>6, <2>1
    <3>2. n \in RobIndex BY <1>3 DEF LsqTypes, LsqEntry
    <3>3. StoresBefore(n, LQ[l].virtual_address)' = stores
      BY <1>5, <3>1, <3>2, IdsFrame
    <3>4. \A m \in stores : m \in RobIndex BY DEF StoresBefore, Before
    <3>5. IF LQ[l].producer_id = Nothing THEN stores = {}
          ELSE \E k \in stores : /\ \A m \in stores : ROB[m].id <= ROB[k].id
                                 /\ LQ[l].producer_id = ROB[k].id
                                 /\ n \in ROB[k].memory_depend /\ ~Executed(k)
      BY <1>3, <3>1 DEF ProducerInv
    <3> HIDE DEF stores
    <3> QED BY <1>5, <1>15, <3>1, <3>3, <3>4, <3>5 DEF SameIds, SameLinks
  <2> QED BY <2>1 DEF ProducerInv
<1>18. LsqTypes' BY <1>1, <1>2, <1>3, <1>6 DEF LsqTypes
<1>19. RobTypes' BY <1>2, <1>3, <1>5, <1>11 DEF RobTypes, rte
<1>20. RobRing' BY <1>2, <1>3, <1>5, RingFrame
<1> QED BY <1>6, <1>8, <1>9, <1>10, <1>11, <1>12, <1>13, <1>14, <1>16, <1>17, <1>18, <1>19, <1>20
        DEF CoreInv, CoreTypes

\* execute_store: it is done, and the loads that waited for it are.
LEMMA ExecuteStoreKeeps ==
  ASSUME CoreInv, ExecuteStore
  PROVE  CoreInv'
<1>1. /\ CoreTypes /\ RobTypes /\ LsqTypes /\ RobRing /\ SlotsAreSound /\ RteInv /\ StaInv /\ SqLinks
      /\ SqRing /\ LqLinks /\ LoadPlaces /\ StorePlaces /\ MemOps /\ NoneIsLeft /\ Counters
      /\ DependInv /\ ProducerInv
      /\ ROB \in [RobIndex -> RobEntry] /\ RTE0 \in Seq(RobIndex) /\ RTE1 \in Seq(RobIndex)
      /\ RTS1 \in Seq(SqIndex) /\ SQ \in [SqIndex -> LsqEntry] /\ LQ \in [LqIndex -> LsqEntry]
  BY DEF CoreInv, CoreTypes, RobTypes, LsqTypes
<1>2. UNCHANGED <<head, tail, occupancy, last_read, last_fetch, next_schedule, SQ_head, SQ_tail,
                  STA, RTS0, RTL0, RTL1, rte, trace, instr_unique_id, fetch_stall,
                  inflight_reg_executions, itlb, l1i, dtlb_load, dtlb_store, l1d>>
  BY DEF ExecuteStore, reads, ready, below
<1>3. RTS1 # <<>> /\ RTS1' = Tail(RTS1) BY DEF ExecuteStore
<1>4. /\ RTS1' \in Seq(SqIndex) /\ IsInjective(RTS1') /\ Head(RTS1) \in SqIndex
      /\ Head(RTS1) \in SeqSet(RTS1) /\ SeqSet(RTS1') = SeqSet(RTS1) \ {Head(RTS1)}
  BY <1>1, <1>3, WithoutHead DEF StorePlaces
<1>5. PICK s \in SqIndex : s = Head(RTS1) BY <1>4
<1> DEFINE D      == Dependents(s)
           slots  == {ROB[m].lq_index : m \in D}
           owners == {LQ[l].rob_index : l \in slots}
<1>6. PICK k \in RobIndex : k = SQ[s].rob_index BY <1>1 DEF LsqEntry
<1> DEFINE done == {k} \cup owners
<1>7. /\ SQ' = [SQ EXCEPT ![s].fetched = TRUE] /\ LQ' = Released(slots)
      /\ ROB' = MemOpsDone(done, ROB)
      /\ inflight_mem_executions' = inflight_mem_executions + LastOnes(done)
  BY <1>5, <1>6 DEF ExecuteStore
<1>8. /\ s \in SeqSet(RTS1) /\ s \notin SeqSet(RTS0) /\ s \notin dtlb_store
      /\ SQ[s].id # Nothing /\ ~SQ[s].fetched
  BY <1>1, <1>4, <1>5 DEF StorePlaces, ToStore
<1>9. /\ k \in Stores /\ Used(k) /\ ROB[k].destination_added /\ ROB[k].sq_index = s
      /\ SQ[s].virtual_address = ROB[k].i.destination_memory /\ ROB[k].i.destination_memory # Nothing
      /\ ~Executed(k) /\ StoreIsLeft(k) /\ IsMemory(k)
  <2>1. k \in Stores /\ ROB[k].sq_index = s BY <1>1, <1>6, <1>8 DEF SqLinks
  <2>2. Used(k) /\ ROB[k].destination_added BY <2>1 DEF Stores
  <2>3. SQ[s].virtual_address = ROB[k].i.destination_memory BY <1>1, <2>1 DEF SqLinks
  <2>4. ROB[k].i.destination_memory # Nothing BY <1>1, <2>2 DEF SlotsAreSound
  <2> QED BY <1>8, <2>1, <2>2, <2>3, <2>4 DEF Executed, StoreIsLeft, IsMemory
<1>10. ASSUME NEW m \in D
       PROVE  /\ m \in RobIndex /\ WaitsFor(m, k) /\ ROB[m].lq_index \in LqIndex
              /\ LQ[ROB[m].lq_index].id # Nothing /\ LQ[ROB[m].lq_index].rob_index = m
              /\ LQ[ROB[m].lq_index].producer_id = ROB[k].id
  <2>1. m \in ROB[k].memory_depend BY <1>6 DEF Dependents
  <2>2. m \in RobIndex BY <1>1, <2>1 DEF RobEntry
  <2>3. WaitsFor(m, k) BY <1>1, <1>9, <2>1 DEF DependInv
  <2>4. PICK l : l = ROB[m].lq_index OBVIOUS
  <2>5. l \in LqIndex /\ Used(m) /\ LQ[l].id = ROB[m].id /\ LQ[l].producer_id = ROB[k].id
    BY <1>1, <2>2, <2>3, <2>4 DEF WaitsFor, SlotsAreSound
  <2>6. LQ[l].id # Nothing BY <2>5 DEF Used
  <2>7. LQ[l].rob_index \in RobIndex /\ ROB[LQ[l].rob_index].id = ROB[m].id
    BY <1>1, <2>5, <2>6 DEF LqLinks, LsqEntry
  <2>8. LQ[l].rob_index = m BY <1>1, <2>2, <2>5, <2>7, IdsDiffer
  <2> QED BY <2>2, <2>3, <2>4, <2>5, <2>6, <2>8
<1> HIDE DEF D
<1>11. /\ slots \in SUBSET LqIndex
       /\ \A l \in slots : LQ[l].id # Nothing /\ LQ[l].producer_id = ROB[k].id
  BY <1>10
<1>12. owners = D
  <2>1. ASSUME NEW m \in owners PROVE m \in D
    <3>1. PICK l \in slots : m = LQ[l].rob_index OBVIOUS
    <3>2. PICK n \in D : l = ROB[n].lq_index OBVIOUS
    <3> QED BY <1>10, <3>1, <3>2
  <2>2. ASSUME NEW m \in D PROVE m \in owners
    <3>1. ROB[m].lq_index \in slots OBVIOUS
    <3>2. LQ[ROB[m].lq_index].rob_index = m BY <1>10
    <3> QED BY <3>1, <3>2
  <2> QED BY <2>1, <2>2
<1>13. ASSUME NEW l \in LqIndex, LQ[l].id # Nothing, LQ[l].producer_id = ROB[k].id
       PROVE  /\ l \in slots /\ LQ[l].rob_index # k
  <2> DEFINE n == LQ[l].rob_index
             stores == StoresBefore(n, LQ[l].virtual_address)
  <2>1. n \in RobIndex BY <1>1 DEF LsqEntry
  <2>2. ROB[k].id # Nothing BY <1>9 DEF Used
  <2>3. PICK p \in stores : LQ[l].producer_id = ROB[p].id /\ n \in ROB[p].memory_depend
    BY <1>1, <1>13, <2>2 DEF ProducerInv
  <2>4. p \in RobIndex /\ Used(p) /\ ROB[p].id < ROB[n].id
        /\ ROB[p].i.destination_memory = LQ[l].virtual_address
    BY DEF StoresBefore, Before
  <2>5. p = k BY <1>1, <1>9, <1>13, <2>3, <2>4, IdsDiffer
  <2>6. ROB[n].source_added /\ ROB[n].lq_index = l /\ LQ[l].virtual_address = ROB[n].i.source_memory
    BY <1>1, <1>13 DEF LqLinks
  <2>7. n \in D BY <1>6, <1>9, <2>3, <2>4, <2>5, <2>6 DEF D, Dependents
  <2>8. l \in slots BY <2>6, <2>7
  <2>9. ROB[k].id \in Nat BY <1>1, <1>9, RingIds
  <2>10. n # k BY <2>4, <2>5, <2>9
  <2> QED BY <2>8, <2>10
<1>14. k \notin D BY <1>10, <1>13
<1>15. /\ ROB' \in [RobIndex -> RobEntry] /\ SameIds /\ SameLinks /\ SameExecution
       /\ \A m \in RobIndex : ROB'[m].num_mem_ops
            = IF m \in done THEN ROB[m].num_mem_ops - 1 ELSE ROB[m].num_mem_ops
  <2> HIDE DEF done
  <2> QED BY <1>1, <1>7, DoneFields
<1>16. /\ LqLinks' /\ LQ' \in [LqIndex -> LsqEntry]
       /\ \A l \in LqIndex : LQ'[l] = IF l \in slots THEN EmptyLsq ELSE LQ[l]
       /\ EmptyLsq.id = Nothing
       /\ \A m \in RobIndex : Used(m) => (LoadIsLeft(m)' <=> LoadIsLeft(m) /\ m \notin owners)
       /\ \A m \in owners : m \in RobIndex /\ Used(m) /\ IsMemory(m) /\ LoadIsLeft(m)
  <2> HIDE DEF slots
  <2> QED BY <1>1, <1>7, <1>11, <1>15, LoadsReleased
<1>17. done = {k} \cup D BY <1>12
<1> HIDE DEF done, owners, slots
<1>18. /\ \A m \in D : m \in RobIndex /\ Used(m) /\ IsMemory(m) /\ LoadIsLeft(m)
       /\ \A m \in RobIndex : Used(m) => (LoadIsLeft(m)' <=> LoadIsLeft(m) /\ m \notin D)
  BY <1>12, <1>16
<1>19. \A m \in RobIndex : (Used(m)' <=> Used(m)) /\ Before(m)' = Before(m)
  BY <1>15, IdsFrame
<1>20. /\ SQ' \in [SqIndex -> LsqEntry]
       /\ \A t \in SqIndex : /\ SQ'[t].id = SQ[t].id /\ SQ'[t].rob_index = SQ[t].rob_index
                             /\ SQ'[t].virtual_address = SQ[t].virtual_address
                             /\ SQ'[t].fetched = (SQ[t].fetched \/ t = s)
  <2>1. SQ[s] \in LsqEntry BY <1>1
  <2>2. \A t \in SqIndex : SQ'[t] = IF t = s THEN [SQ[s] EXCEPT !.fetched = TRUE] ELSE SQ[t]
    BY <1>1, <1>7
  <2>3. SQ' \in [SqIndex -> LsqEntry]
    <3>1. [SQ[s] EXCEPT !.fetched = TRUE] \in LsqEntry BY <2>1 DEF LsqEntry
    <3> QED BY <1>1, <1>7, <3>1
  <2>4. /\ [SQ[s] EXCEPT !.fetched = TRUE].id = SQ[s].id
        /\ [SQ[s] EXCEPT !.fetched = TRUE].rob_index = SQ[s].rob_index
        /\ [SQ[s] EXCEPT !.fetched = TRUE].virtual_address = SQ[s].virtual_address
        /\ [SQ[s] EXCEPT !.fetched = TRUE].fetched = TRUE
    BY <2>1 DEF LsqEntry
  <2>5. \A t \in SqIndex : SQ[t].fetched \in BOOLEAN BY <1>1 DEF LsqEntry
  <2> QED BY <2>2, <2>3, <2>4, <2>5
<1>21. \A m \in RobIndex : Executed(m)' <=> (Executed(m) \/ m = k)
  <2>1. ASSUME NEW m \in RobIndex PROVE Executed(m)' <=> (Executed(m) \/ m = k)
    <3>1. /\ ROB'[m].destination_added = ROB[m].destination_added
          /\ ROB'[m].sq_index = ROB[m].sq_index
      BY <1>15 DEF SameLinks
    <3>2. CASE m = k BY <1>9, <1>20, <3>1, <3>2 DEF Executed
    <3>3. CASE m # k /\ ROB[m].destination_added
      <4>1. m \in Stores /\ ROB[m].sq_index \in SqIndex
        BY <1>1, <3>3 DEF Stores, SlotsAreSound
      <4>2. ROB[m].sq_index # s BY <1>1, <1>6, <3>3, <4>1 DEF SqLinks
      <4> QED BY <1>20, <3>1, <3>3, <4>1, <4>2 DEF Executed
    <3>4. CASE m # k /\ ~ROB[m].destination_added BY <3>1, <3>4 DEF Executed
    <3> QED BY <3>2, <3>3, <3>4
  <2> QED BY <2>1
<1>22. \A m \in RobIndex : StoreIsLeft(m)' <=> (StoreIsLeft(m) /\ m # k)
  <2>1. \A m \in RobIndex :
          StoreIsLeft(m) <=> ROB[m].i.destination_memory # Nothing /\ ~Executed(m)
    BY DEF StoreIsLeft, Executed
  <2>2. \A m \in RobIndex :
          StoreIsLeft(m)' <=> ROB'[m].i.destination_memory # Nothing /\ ~Executed(m)'
    BY DEF StoreIsLeft, Executed
  <2> QED BY <1>15, <1>21, <2>1, <2>2 DEF SameIds
<1>23. SlotsAreSound' /\ RteInv' BY <1>1, <1>2, <1>15, SlotsFrame
<1>24. Stores' = Stores /\ StaInv' /\ SqRing' BY <1>1, <1>2, <1>15, LinksFrame
<1>25. SqLinks'
  <2>1. Stores \subseteq RobIndex BY DEF Stores
  <2>2. \A t \in SqIndex : SQ[t].rob_index \in RobIndex BY <1>1 DEF LsqEntry
  <2>3. \A m \in Stores : ROB[m].sq_index \in SqIndex BY <1>1, <2>1 DEF Stores, SlotsAreSound
  <2>4. \A m \in RobIndex : /\ ROB'[m].id = ROB[m].id /\ ROB'[m].i = ROB[m].i
                            /\ ROB'[m].sq_index = ROB[m].sq_index
    BY <1>15 DEF SameIds, SameLinks
  <2>5. SqLinks /\ Stores' = Stores BY <1>1, <1>24
  <2> QED BY <1>20, <2>1, <2>2, <2>3, <2>4, <2>5 DEF SqLinks
<1>26. Counters' /\ NoneIsLeft' /\ inflight_mem_executions' \in Int
  <2>1. done \in SUBSET RobIndex BY <1>17, <1>18
  <2>2. \A m \in done : IsMemory(m) /\ ROB[m].num_mem_ops > 0
    BY <1>1, <1>9, <1>17, <1>18, LeftIsCounted
  <2>3. \A m \in RobIndex : ROB'[m].executed = ROB[m].executed BY <1>15 DEF SameExecution
  <2> QED BY <1>1, <1>2, <1>7, <1>15, <2>1, <2>2, <2>3, OpsDone
<1>27. MemOps'
  <2>1. ASSUME NEW m \in RobIndex, Used(m)'
        PROVE  (ROB[m].num_mem_ops
                  = (IF LoadIsLeft(m) THEN 1 ELSE 0) + (IF StoreIsLeft(m) THEN 1 ELSE 0))'
    <3>1. Used(m) BY <1>19, <2>1
    <3>2. ROB[m].num_mem_ops
            = (IF LoadIsLeft(m) THEN 1 ELSE 0) + (IF StoreIsLeft(m) THEN 1 ELSE 0)
      BY <1>1, <3>1 DEF MemOps
    <3>3. CASE m = k
      <4>1. LoadIsLeft(m)' <=> LoadIsLeft(m) BY <1>14, <1>18, <3>1, <3>3
      <4>2. StoreIsLeft(m) /\ ~StoreIsLeft(m)' BY <1>9, <1>22, <3>3
      <4>3. ROB'[m].num_mem_ops = ROB[m].num_mem_ops - 1 BY <1>15, <1>17, <3>3
      <4>4. ROB'[m].num_mem_ops = (IF LoadIsLeft(m) THEN 1 ELSE 0) + 0 BY <3>2, <4>2, <4>3
      <4> QED BY <4>1, <4>2, <4>4
    <3>4. CASE m \in D
      <4>1. LoadIsLeft(m) /\ ~LoadIsLeft(m)' BY <1>18, <3>1, <3>4
      <4>2. StoreIsLeft(m)' <=> StoreIsLeft(m) BY <1>14, <1>22, <3>4
      <4>3. ROB'[m].num_mem_ops = ROB[m].num_mem_ops - 1 BY <1>15, <1>17, <3>4
      <4>4. ROB'[m].num_mem_ops = 0 + (IF StoreIsLeft(m) THEN 1 ELSE 0) BY <3>2, <4>1, <4>3
      <4> QED BY <4>1, <4>2, <4>4
    <3>5. CASE m \notin done
      <4>1. LoadIsLeft(m)' <=> LoadIsLeft(m) BY <1>17, <1>18, <3>1, <3>5
      <4>2. StoreIsLeft(m)' <=> StoreIsLeft(m) BY <1>17, <1>22, <3>5
      <4> QED BY <1>15, <3>2, <3>5, <4>1, <4>2
    <3> QED BY <1>17, <3>3, <3>4, <3>5
  <2> QED BY <2>1 DEF MemOps
<1>28. ROB[k].id # Nothing BY <1>9 DEF Used
<1>29. LoadPlaces'
  <2>1. \A l \in LqIndex : l \in slots => LQ[l].producer_id # Nothing BY <1>11, <1>28 DEF slots
  <2>2. LoadsOnTheirWay' = LoadsOnTheirWay BY <1>16, <2>1 DEF LoadsOnTheirWay
  <2> QED BY <1>1, <1>2, <2>2, LoadPlacesFrame
<1>30. StorePlaces'
  <2>1. \A t \in SqIndex : SQ[t].fetched \in BOOLEAN BY <1>1 DEF LsqEntry
  <2>2. ToStore' = ToStore \ {s} BY <1>20, <2>1 DEF ToStore
  <2>3. SeqSet(RTS0)' = SeqSet(RTS0) /\ SeqSet(RTS1)' = SeqSet(RTS1') BY <1>2 DEF SeqSet
  <2> QED BY <1>1, <1>2, <1>4, <1>5, <1>8, <2>2, <2>3 DEF StorePlaces
<1>31. DependInv'
  <2>1. ASSUME NEW j \in RobIndex, (Used(j) /\ ~Executed(j))', NEW m \in ROB'[j].memory_depend
        PROVE  WaitsFor(m, j)'
    <3>1. m \in ROB[j].memory_depend /\ Used(j) /\ ~Executed(j) /\ j # k
      BY <1>15, <1>19, <1>21, <2>1 DEF SameLinks
    <3>2. WaitsFor(m, j) /\ m \in RobIndex BY <1>1, <3>1 DEF DependInv, RobEntry
    <3>3. ROB[j].id # ROB[k].id BY <1>1, <3>1, IdsDiffer
    <3>4. ROB[m].lq_index \in LqIndex /\ ROB[m].lq_index \notin slots
      <4>1. LQ[ROB[m].lq_index].producer_id = ROB[j].id BY <3>2 DEF WaitsFor
      <4>2. ROB[m].lq_index \in LqIndex BY <1>1, <3>2 DEF WaitsFor, SlotsAreSound
      <4> QED BY <1>11, <3>3, <4>1, <4>2
    <3>5. LQ'[ROB[m].lq_index] = LQ[ROB[m].lq_index] BY <1>16, <3>4
    <3> QED BY <1>15, <1>19, <3>2, <3>5 DEF WaitsFor, SameIds, SameLinks
  <2> QED BY <2>1 DEF DependInv
<1>32. ProducerInv'
  <2>1. ASSUME NEW l \in LqIndex, LQ'[l].id # Nothing
        PROVE  (LET n == LQ[l].rob_index
                    stores == StoresBefore(n, LQ[l].virtual_address)
                IN IF LQ[l].producer_id = Nothing THEN stores = {}
                   ELSE \E j \in stores : /\ \A m \in stores : ROB[m].id <= ROB[j].id
                                          /\ LQ[l].producer_id = ROB[j].id
                                          /\ n \in ROB[j].memory_depend /\ ~Executed(j))'
    <3> DEFINE n == LQ[l].rob_index
               stores == StoresBefore(n, LQ[l].virtual_address)
    <3>1. LQ'[l] = LQ[l] /\ LQ[l].id # Nothing /\ l \notin slots BY <1>16, <2>1
    <3>2. n \in RobIndex BY <1>1 DEF LsqEntry
    <3>3. StoresBefore(n, LQ[l].virtual_address)' = stores
      BY <1>15, <3>1, <3>2, IdsFrame
    <3>4. \A m \in stores : m \in RobIndex BY DEF StoresBefore, Before
    <3>5. IF LQ[l].producer_id = Nothing THEN stores = {}
          ELSE \E j \in stores : /\ \A m \in stores : ROB[m].id <= ROB[j].id
                                 /\ LQ[l].producer_id = ROB[j].id
                                 /\ n \in ROB[j].memory_depend /\ ~Executed(j)
      BY <1>1, <3>1 DEF ProducerInv
    <3>6. LQ[l].producer_id # ROB[k].id BY <1>13, <3>1
    <3> HIDE DEF stores
    <3> QED BY <1>15, <1>21, <3>1, <3>3, <3>4, <3>5, <3>6 DEF SameIds, SameLinks
  <2> QED BY <2>1 DEF ProducerInv
<1>33. LsqTypes' BY <1>1, <1>2, <1>4, <1>16, <1>20 DEF LsqTypes
<1>34. RobTypes' BY <1>1, <1>2, <1>15, <1>26 DEF RobTypes, rte
<1>35. RobRing' BY <1>1, <1>2, <1>15, RingFrame
<1> QED BY <1>16, <1>23, <1>24, <1>25, <1>26, <1>27, <1>29, <1>30, <1>31, <1>32, <1>33, <1>34, <1>35
        DEF CoreInv, CoreTypes

(***************************************************************************)
(* do_memory_scheduling: the producer of a load, and the room of the store *)
(* queue.                                                                  *)
(***************************************************************************)
LEMMA ProducerFacts ==
  ASSUME RobTypes, RobRing, NEW i \in RobIndex, Used(i)
  PROVE  LET P == ProducerOf(i)
             stores == StoresBefore(i, ROB[i].i.source_memory)
         IN /\ P \subseteq stores /\ (P = {} => stores = {})
            /\ \A k \in P : k \in RobIndex /\ Used(k) /\ \A n \in stores : ROB[n].id <= ROB[k].id
            /\ \A k, n \in P : k = n
<1> DEFINE P == ProducerOf(i)
           stores == StoresBefore(i, ROB[i].i.source_memory)
<1>1. Older(i) = Before(i) BY OlderIsBefore
<1>2. P = {k \in RobIndex : Youngest(stores, k)} BY <1>1 DEF ProducerOf, StoresBefore
<1>3. stores \subseteq RobIndex /\ \A n \in stores : Used(n) BY DEF StoresBefore, Before
<1> HIDE DEF P, stores
<1>4. \A k \in P : k \in RobIndex /\ k \in stores /\ \A n \in stores : ROB[n].id <= ROB[k].id
  BY <1>2, <1>3, YoungestHasLastId
<1>5. ASSUME NEW k \in P, NEW n \in P PROVE k = n
  <2>1. ROB[k].id <= ROB[n].id /\ ROB[n].id <= ROB[k].id BY <1>4
  <2>2. /\ k \in RobIndex /\ n \in RobIndex /\ Used(k) /\ ROB[k].id \in Nat /\ ROB[n].id \in Nat
    BY <1>3, <1>4, RingIds
  <2>3. ROB[k].id = ROB[n].id BY <2>1, <2>2
  <2> QED BY <2>2, <2>3, IdsDiffer
<1>6. stores # {} => P # {} BY <1>2, <1>3, SomeIsYoungest
<1> QED BY <1>3, <1>4, <1>5, <1>6 DEF P, stores

\* A store of the ring whose entry has the data is one that has executed.
LEMMA ForwardIsExecuted ==
  ASSUME RobTypes, RobRing, SlotsAreSound, SqLinks, LsqTypes, NEW k \in RobIndex, Used(k)
  PROVE  (\E s \in SqIndex : SQ[s].id = ROB[k].id /\ SQ[s].fetched) <=> Executed(k)
<1>1. ASSUME NEW s \in SqIndex, SQ[s].id = ROB[k].id, SQ[s].fetched PROVE Executed(k)
  <2>1. PICK r \in RobIndex : r = SQ[s].rob_index BY DEF LsqTypes, LsqEntry
  <2>2. SQ[s].id # Nothing BY <1>1 DEF Used
  <2>3. r \in Stores /\ ROB[r].sq_index = s BY <2>1, <2>2 DEF SqLinks
  <2>4. SQ[s].id = ROB[r].id BY <2>3 DEF SqLinks
  <2>5. r = k BY <1>1, <2>4, IdsDiffer
  <2> QED BY <1>1, <2>3, <2>5 DEF Executed, Stores
<1>2. ASSUME Executed(k) PROVE \E s \in SqIndex : SQ[s].id = ROB[k].id /\ SQ[s].fetched
  <2>1. k \in Stores /\ ROB[k].sq_index \in SqIndex
    BY <1>2 DEF Executed, SlotsAreSound, Stores
  <2>2. SQ[ROB[k].sq_index].id = ROB[k].id BY <2>1 DEF SqLinks
  <2> QED BY <1>2, <2>1, <2>2 DEF Executed
<1> QED BY <1>1, <1>2

\* When a slot of the store queue is free, the one at its tail is.
LEMMA RoomIsAtTheTail ==
  ASSUME RobTypes, RobRing, SlotsAreSound, SqLinks, SqRing, LsqTypes,
         NEW s \in SqIndex, SQ[s].id = Nothing
  PROVE  /\ SQ[SQ_tail].id = Nothing
         /\ (SQ_tail - SQ_head) % SQ_SIZE = Cardinality(Stores)
         /\ (SQ_tail + 1) % SQ_SIZE = (SQ_head + (Cardinality(Stores) + 1)) % SQ_SIZE
<1> DEFINE n == Cardinality(Stores)
<1>1. SQ_SIZE \in Nat /\ SQ_SIZE > 0 BY RingSizes
<1>2. Stores \in SUBSET RobIndex BY DEF Stores
<1>3. IsFiniteSet(Stores) /\ n \in Nat BY <1>2, FiniteSlots
<1>4. SQ_head \in 0..(SQ_SIZE - 1) BY DEF LsqTypes, SqIndex
<1>5. \A i \in Stores : /\ ROB[i].sq_index \in SqIndex /\ SQ[ROB[i].sq_index].id = ROB[i].id
                        /\ SQ[ROB[i].sq_index].rob_index = i /\ ROB[i].id # Nothing
  BY <1>2 DEF SqLinks, SlotsAreSound, Stores, Used
<1>6. n < SQ_SIZE
  <2> DEFINE f == [i \in Stores |-> ROB[i].sq_index]
             T == SqIndex \ {s}
  <2>1. \A i \in Stores : ROB[i].sq_index \in T BY <1>5
  <2>2. f \in [Stores -> T] BY <2>1
  <2>3. IsInjective(f)
    <3>1. ASSUME NEW a \in Stores, NEW b \in Stores, f[a] = f[b] PROVE a = b
      <4>1. ROB[a].sq_index = ROB[b].sq_index BY <3>1
      <4> QED BY <1>5, <4>1
    <3> QED BY <3>1 DEF IsInjective
  <2>4. f \in Injection(Stores, T) BY <2>2, <2>3 DEF Injection
  <2>5. IsFiniteSet(SqIndex) /\ Cardinality(SqIndex) \in Nat /\ Cardinality(SqIndex) <= SQ_SIZE
    BY FiniteSlots
  <2>6. IsFiniteSet(T) /\ Cardinality(T) = Cardinality(SqIndex) - 1
    BY <2>5, FS_RemoveElement
  <2>7. n <= Cardinality(T) BY <2>4, <2>6, FS_Injection
  <2> QED BY <1>1, <1>3, <2>5, <2>6, <2>7
<1> HIDE DEF n
<1>7. SQ_tail = IF SQ_head + n >= SQ_SIZE THEN SQ_head + n - SQ_SIZE ELSE SQ_head + n
  <2>1. SQ_tail = (SQ_head + n) % SQ_SIZE BY DEF SqRing, n
  <2> QED BY <1>1, <1>3, <1>4, <1>6, <2>1
<1>8. (SQ_tail - SQ_head) % SQ_SIZE = n BY <1>1, <1>3, <1>4, <1>6, <1>7
<1>9. (SQ_tail + 1) % SQ_SIZE = (SQ_head + (n + 1)) % SQ_SIZE
  <2>1. CASE SQ_head + n >= SQ_SIZE
    <3>1. /\ SQ_tail + 1 = (SQ_head + (n + 1)) - SQ_SIZE /\ SQ_tail + 1 < SQ_SIZE
          /\ SQ_tail + 1 >= 0
      BY <1>1, <1>3, <1>4, <1>6, <1>7, <2>1
    <3>2. SQ_head + (n + 1) \in 0..(2 * SQ_SIZE - 1) /\ SQ_head + (n + 1) >= SQ_SIZE
      BY <1>1, <1>3, <1>4, <1>6, <2>1
    <3> QED BY <1>1, <3>1, <3>2
  <2>2. CASE ~ (SQ_head + n >= SQ_SIZE)
    <3>1. SQ_tail + 1 = SQ_head + (n + 1) BY <1>3, <1>4, <1>7, <2>2
    <3> QED BY <3>1
  <2> QED BY <2>1, <2>2
<1>10. SQ[SQ_tail].id = Nothing
  <2>1. SUFFICES ASSUME SQ[SQ_tail].id # Nothing PROVE FALSE OBVIOUS
  <2>2. SQ_tail \in SqIndex BY DEF LsqTypes
  <2>3. PICK r \in Stores : ROB[r].sq_index = SQ_tail BY <2>1, <2>2 DEF SqLinks
  <2>4. Cardinality(Stores \cap Before(r)) = n BY <1>8, <2>3 DEF SqRing
  <2>5. r \in RobIndex /\ Used(r) BY DEF Stores
  <2>6. ROB[r].id \in Nat BY <2>5, RingIds
  <2>7. Stores \cap Before(r) \subseteq Stores \ {r} BY <2>6 DEF Before
  <2>8. IsFiniteSet(Stores \ {r}) /\ Cardinality(Stores \ {r}) = n - 1
    BY <1>3, FS_RemoveElement DEF n
  <2>9. Cardinality(Stores \cap Before(r)) <= n - 1 BY <2>7, <2>8, FS_Subset
  <2> QED BY <1>3, <2>4, <2>9
<1> QED BY <1>8, <1>9, <1>10 DEF n

\* do_memory_scheduling for one slot: a load, a store, or both.
LEMMA MemoryKeeps ==
  ASSUME CoreInv, ScheduleMemoryInstruction
  PROVE  CoreInv'
<1>1. PICK i \in RobIndex :
        Tried(i) /\ (CanAddLoad(i) \/ CanAddStore(i)) /\ AddMemoryOps(i)
  BY DEF ScheduleMemoryInstruction
<1>2. UNCHANGED <<head, tail, occupancy, last_read, last_fetch, next_schedule, rte, trace,
                  instr_unique_id, fetch_stall, SQ_head, RTS1, RTL1, inflight_reg_executions,
                  itlb, l1i, dtlb_load, dtlb_store, l1d>>
  BY DEF ScheduleMemoryInstruction, reads, ready, below
<1>3. /\ CoreTypes /\ RobTypes /\ LsqTypes /\ RobRing /\ SlotsAreSound /\ RteInv /\ StaInv /\ SqLinks
      /\ SqRing /\ LqLinks /\ LoadPlaces /\ StorePlaces /\ MemOps /\ NoneIsLeft /\ Counters
      /\ DependInv /\ ProducerInv
      /\ ROB \in [RobIndex -> RobEntry] /\ RTE0 \in Seq(RobIndex) /\ RTE1 \in Seq(RobIndex)
      /\ RTL0 \in Seq(LqIndex) /\ RTS0 \in Seq(SqIndex) /\ STA \in Seq(Nat)
      /\ SQ \in [SqIndex -> LsqEntry] /\ LQ \in [LqIndex -> LsqEntry]
      /\ SQ_head \in SqIndex /\ SQ_tail \in SqIndex
  BY DEF CoreInv, CoreTypes, RobTypes, LsqTypes
<1>4. PICK top \in SqIndex : top = SQ_tail BY <1>3
<1> DEFINE load     == CanAddLoad(i)
           store    == CanAddStore(i)
           l        == CHOOSE n \in FreeLoads : \A m \in FreeLoads : n <= m
           P        == IF load THEN ProducerOf(i) ELSE {}
           forward  == \E s \in SqIndex, k \in P : SQ[s].id = ROB[k].id /\ SQ[s].fetched
           done     == /\ ROB[i].i.source_memory # Nothing => ROB[i].source_added \/ load
                       /\ ROB[i].i.destination_memory # Nothing => ROB[i].destination_added \/ store
           finished == IF forward THEN {i} ELSE {}
           p        == CHOOSE k \in P : TRUE
           word     == ROB[i].i.source_memory
           stores   == StoresBefore(i, word)
           src      == ROB[i].source_added \/ load
           dst      == ROB[i].destination_added \/ store
           lqi      == IF load THEN l ELSE ROB[i].lq_index
           sqi      == IF store THEN SQ_tail ELSE ROB[i].sq_index
           state    == IF done THEN "completed" ELSE ROB[i].scheduled
           does     == IF done /\ ROB[i].executed = "no" THEN "inflight" ELSE ROB[i].executed
           entry    == [ROB[i] EXCEPT !.source_added = src, !.destination_added = dst,
                          !.lq_index = lqi, !.sq_index = sqi, !.scheduled = state,
                          !.executed = does]
           asked    == [EmptyLsq EXCEPT !.id = ROB[i].id, !.rob_index = i,
                          !.virtual_address = word,
                          !.producer_id = IF P = {} THEN @ ELSE ROB[p].id]
           written  == [EmptyLsq EXCEPT !.id = ROB[i].id, !.rob_index = i,
                          !.virtual_address = ROB[i].i.destination_memory]
<1>5. /\ ROB' = MemOpsDone(finished, [k \in RobIndex |->
                  IF k = i THEN entry
                  ELSE IF k \in P THEN [ROB[k] EXCEPT !.memory_depend = @ \cup {i}] ELSE ROB[k]])
      /\ inflight_mem_executions' = inflight_mem_executions + LastOnes(finished)
      /\ LQ' = IF ~load \/ forward THEN LQ ELSE [LQ EXCEPT ![l] = asked]
      /\ RTL0' = IF load /\ P = {} THEN Append(RTL0, l) ELSE RTL0
      /\ IF store THEN /\ SQ' = [SQ EXCEPT ![SQ_tail] = written]
                       /\ SQ_tail' = (SQ_tail + 1) % SQ_SIZE
                       /\ STA' = Tail(STA) /\ RTS0' = Append(RTS0, SQ_tail)
                  ELSE UNCHANGED <<SQ, SQ_tail, STA, RTS0>>
  BY <1>1, Zenon DEF AddMemoryOps, AddStoreQueue
<1>6. /\ Used(i) /\ IsMemory(i) /\ ROB[i].scheduled = "inflight" /\ ROB[i].reg_ready
      /\ ROB[i] \in RobEntry /\ ROB[i].id \in Nat /\ ROB[i].id # Nothing
      /\ ROB[i].num_reg_dependent <= 0 /\ ~ (ROB[i].num_reg_dependent > 0)
  <2>1. IsMemory(i) BY <1>1 DEF CanAddLoad, CanAddStore, IsMemory
  <2>2. Used(i) /\ ROB[i].num_reg_dependent <= 0 BY <1>1, <1>3, <2>1 DEF Tried, SlotsAreSound
  <2>3. ROB[i] \in RobEntry /\ ROB[i].num_reg_dependent \in Int BY <1>3 DEF RobEntry
  <2>4. ROB[i].id \in Nat BY <1>3, <2>2, RingIds
  <2> QED BY <1>1, <2>1, <2>2, <2>3, <2>4 DEF Tried, Used
<1>7. load => /\ word # Nothing /\ ~ROB[i].source_added /\ l \in LqIndex /\ LQ[l].id = Nothing
  <2>1. SUFFICES ASSUME load
                 PROVE  word # Nothing /\ ~ROB[i].source_added /\ l \in FreeLoads
    BY DEF FreeLoads
  <2>2. FreeLoads \in SUBSET Nat /\ FreeLoads # {}
    BY <2>1, RingSizes DEF CanAddLoad, FreeLoads
  <2>3. \E m \in FreeLoads : \A n \in FreeLoads : m <= n BY <2>2, Least
  <2>4. l \in FreeLoads BY <2>3
  <2> QED BY <2>1, <2>4 DEF CanAddLoad
<1>8. /\ P # {} => load /\ p \in P
      /\ load => P \subseteq stores /\ (P = {} => stores = {})
      /\ \A k \in P : k \in RobIndex /\ Used(k) /\ \A n \in stores : ROB[n].id <= ROB[k].id
      /\ \A k, n \in P : k = n
  <2>1. /\ ProducerOf(i) \subseteq stores /\ (ProducerOf(i) = {} => stores = {})
        /\ \A k \in ProducerOf(i) :
             k \in RobIndex /\ Used(k) /\ \A n \in stores : ROB[n].id <= ROB[k].id
        /\ \A k, n \in ProducerOf(i) : k = n
    BY <1>3, <1>6, ProducerFacts
  <2>2. P # {} => p \in P OBVIOUS
  <2>3. (load => P = ProducerOf(i)) /\ (~load => P = {}) OBVIOUS
  <2> HIDE DEF P, p, load, stores
  <2> QED BY <2>1, <2>2, <2>3
<1>9. /\ \A k \in P : /\ k \in stores /\ k # i /\ ROB[k].id \in Nat
                      /\ ROB[k].i.destination_memory = word /\ ROB[k].id < ROB[i].id
      /\ forward <=> \E k \in P : Executed(k)
  <2>1. ASSUME NEW k \in P
        PROVE  /\ k \in stores /\ k # i /\ ROB[k].id \in Nat
               /\ ROB[k].i.destination_memory = word /\ ROB[k].id < ROB[i].id
    <3>1. k \in stores BY <1>8
    <3>2. /\ k \in RobIndex /\ Used(k) /\ ROB[k].id < ROB[i].id
          /\ ROB[k].i.destination_memory = word
      BY <3>1 DEF StoresBefore, Before
    <3>3. ROB[k].id \in Nat BY <1>3, <3>2, RingIds
    <3> QED BY <1>6, <3>1, <3>2, <3>3
  <2>2. \A k \in P : (\E s \in SqIndex : SQ[s].id = ROB[k].id /\ SQ[s].fetched) <=> Executed(k)
    BY <1>3, <1>8, ForwardIsExecuted
  <2> HIDE DEF P
  <2> QED BY <2>1, <2>2
<1>10. store => /\ ROB[i].i.destination_memory # Nothing /\ ~ROB[i].destination_added
                /\ STA # <<>> /\ Head(STA) = ROB[i].id
                /\ SQ[top].id = Nothing
                /\ (top - SQ_head) % SQ_SIZE = Cardinality(Stores)
                /\ (top + 1) % SQ_SIZE = (SQ_head + (Cardinality(Stores) + 1)) % SQ_SIZE
  <2>1. SUFFICES ASSUME store
                 PROVE  /\ SQ[top].id = Nothing
                        /\ (top - SQ_head) % SQ_SIZE = Cardinality(Stores)
                        /\ (top + 1) % SQ_SIZE = (SQ_head + (Cardinality(Stores) + 1)) % SQ_SIZE
    BY DEF CanAddStore
  <2>2. PICK s \in SqIndex : SQ[s].id = Nothing BY <2>1 DEF CanAddStore
  <2> QED BY <1>3, <1>4, <2>2, RoomIsAtTheTail
<1>11. /\ src \in BOOLEAN /\ dst \in BOOLEAN /\ lqi \in LqIndex \cup {Nothing}
       /\ sqi \in SqIndex \cup {Nothing} /\ state \in Progress /\ does \in Progress
       /\ state # "no" /\ (does = "completed" <=> ROB[i].executed = "completed")
       /\ (src <=> ROB[i].source_added \/ load) /\ (dst <=> ROB[i].destination_added \/ store)
       /\ lqi = (IF load THEN l ELSE ROB[i].lq_index)
       /\ sqi = (IF store THEN top ELSE ROB[i].sq_index)
  <2>1. src \in BOOLEAN /\ dst \in BOOLEAN BY <1>6 DEF RobEntry
  <2>2. /\ lqi = (IF load THEN l ELSE ROB[i].lq_index)
        /\ sqi = (IF store THEN top ELSE ROB[i].sq_index)
    BY <1>4
  <2>3. state \in Progress /\ does \in Progress /\ state # "no"
        /\ (does = "completed" <=> ROB[i].executed = "completed")
    <3> HIDE DEF done
    <3> QED BY <1>6 DEF Progress, RobEntry
  <2>4. ROB[i].lq_index \in LqIndex \cup {Nothing} /\ ROB[i].sq_index \in SqIndex \cup {Nothing}
    BY <1>6 DEF RobEntry
  <2>5. (src <=> ROB[i].source_added \/ load) /\ (dst <=> ROB[i].destination_added \/ store)
    OBVIOUS
  <2> HIDE DEF load, store, l, src, dst, lqi, sqi, state, does
  <2> QED BY <1>7, <2>1, <2>2, <2>3, <2>4, <2>5
<1>12. load => /\ asked \in LsqEntry /\ asked.id = ROB[i].id /\ asked.rob_index = i
               /\ asked.virtual_address = word
               /\ asked.producer_id = IF P = {} THEN Nothing ELSE ROB[p].id
  <2> DEFINE q == IF P = {} THEN EmptyLsq.producer_id ELSE ROB[p].id
  <2>1. EmptyLsq.producer_id = Nothing BY DEF EmptyLsq
  <2>2. q = IF P = {} THEN Nothing ELSE ROB[p].id BY <2>1
  <2>3. q \in Nat \cup {Nothing}
    <3> HIDE DEF P, p, q
    <3> QED BY <1>8, <1>9, <2>2
  <2>4. word \in Words \cup {Nothing} BY <1>6 DEF RobEntry, Instruction
  <2>5. asked = [EmptyLsq EXCEPT !.id = ROB[i].id, !.rob_index = i, !.virtual_address = word,
                   !.producer_id = q]
    OBVIOUS
  <2>6. EmptyLsq \in LsqEntry /\ ~EmptyLsq.fetched BY RingSizes DEF EmptyLsq, LsqEntry
  <2>7. PICK id \in Nat : id = ROB[i].id BY <1>6
  <2>8. asked = [EmptyLsq EXCEPT !.id = id, !.rob_index = i, !.virtual_address = word,
                   !.producer_id = q]
    BY <2>5, <2>7
  <2> HIDE DEF P, p, q, word, asked
  <2>9. /\ asked \in LsqEntry /\ asked.id = id /\ asked.rob_index = i
        /\ asked.virtual_address = word /\ asked.producer_id = q
    BY <2>3, <2>4, <2>6, <2>8 DEF LsqEntry
  <2> QED BY <2>2, <2>7, <2>9
<1>13. /\ written \in LsqEntry /\ written.id = ROB[i].id /\ written.rob_index = i
       /\ written.virtual_address = ROB[i].i.destination_memory /\ ~written.fetched
  <2>1. PICK w \in Words \cup {Nothing} : w = ROB[i].i.destination_memory
    BY <1>6 DEF RobEntry, Instruction
  <2>2. PICK id \in Nat : id = ROB[i].id BY <1>6
  <2>3. EmptyLsq \in LsqEntry /\ ~EmptyLsq.fetched BY RingSizes DEF EmptyLsq, LsqEntry
  <2>4. written = [EmptyLsq EXCEPT !.id = id, !.rob_index = i, !.virtual_address = w]
    BY <2>1, <2>2
  <2> HIDE DEF written
  <2>5. /\ written \in LsqEntry /\ written.id = id /\ written.rob_index = i
        /\ written.virtual_address = w /\ ~written.fetched
    BY <2>3, <2>4 DEF LsqEntry
  <2> QED BY <2>1, <2>2, <2>5
<1>14. finished \subseteq {i} /\ (i \in finished <=> forward) OBVIOUS
<1> HIDE DEF load, store, l, P, forward, done, finished, p, src, dst, lqi, sqi, state, does,
             asked, written
<1>15. ASSUME NEW k \in RobIndex
       PROVE  /\ ROB'[k] \in RobEntry
              /\ ROB'[k].id = ROB[k].id /\ ROB'[k].i = ROB[k].i
              /\ ROB'[k].reg_ready = ROB[k].reg_ready
              /\ ROB'[k].num_reg_dependent = ROB[k].num_reg_dependent
              /\ ROB'[k].source_added = (IF k = i THEN src ELSE ROB[k].source_added)
              /\ ROB'[k].destination_added = (IF k = i THEN dst ELSE ROB[k].destination_added)
              /\ ROB'[k].lq_index = (IF k = i THEN lqi ELSE ROB[k].lq_index)
              /\ ROB'[k].sq_index = (IF k = i THEN sqi ELSE ROB[k].sq_index)
              /\ ROB'[k].scheduled = (IF k = i THEN state ELSE ROB[k].scheduled)
              /\ ROB'[k].executed = (IF k = i THEN does ELSE ROB[k].executed)
              /\ ROB'[k].memory_depend = (IF k \in P THEN ROB[k].memory_depend \cup {i}
                                                     ELSE ROB[k].memory_depend)
              /\ ROB'[k].num_mem_ops = (IF k \in finished THEN ROB[k].num_mem_ops - 1
                                                          ELSE ROB[k].num_mem_ops)
  <2>1. ROB[k] \in RobEntry /\ ROB[i] \in RobEntry BY <1>3
  <2>2. CASE k = i
    <3>1. PICK e \in RobEntry : e = ROB[i] BY <2>1
    <3>2. src \in BOOLEAN /\ dst \in BOOLEAN /\ lqi \in LqIndex \cup {Nothing} BY <1>11
    <3> DEFINE begun == [e EXCEPT !.source_added = src, !.destination_added = dst,
                                 !.lq_index = lqi]
    <3>3. /\ begun \in RobEntry /\ begun.id = e.id /\ begun.i = e.i
          /\ begun.reg_ready = e.reg_ready
          /\ begun.num_reg_dependent = e.num_reg_dependent
          /\ begun.source_added = src /\ begun.destination_added = dst
          /\ begun.lq_index = lqi /\ begun.memory_depend = e.memory_depend
          /\ begun.num_mem_ops = e.num_mem_ops
      BY <3>2, ZenonT(40) DEF RobEntry
    <3>4. /\ entry \in RobEntry /\ entry.id = ROB[i].id /\ entry.i = ROB[i].i
          /\ entry.reg_ready = ROB[i].reg_ready
          /\ entry.num_reg_dependent = ROB[i].num_reg_dependent
          /\ entry.source_added = src /\ entry.destination_added = dst
          /\ entry.lq_index = lqi /\ entry.sq_index = sqi /\ entry.scheduled = state
          /\ entry.executed = does /\ entry.memory_depend = ROB[i].memory_depend
          /\ entry.num_mem_ops = ROB[i].num_mem_ops
      <4>1. entry = [begun EXCEPT !.sq_index = sqi, !.scheduled = state, !.executed = does]
        BY <3>1
      <4> HIDE DEF begun, entry
      <4>2. entry \in RobEntry BY <1>11, <3>3, <4>1, ZenonT(40) DEF RobEntry
      <4>3. /\ entry.id = begun.id /\ entry.i = begun.i
            /\ entry.reg_ready = begun.reg_ready
            /\ entry.num_reg_dependent = begun.num_reg_dependent
            /\ entry.source_added = begun.source_added
            /\ entry.destination_added = begun.destination_added
            /\ entry.lq_index = begun.lq_index /\ entry.sq_index = sqi
            /\ entry.scheduled = state /\ entry.executed = does
            /\ entry.memory_depend = begun.memory_depend
            /\ entry.num_mem_ops = begun.num_mem_ops
        BY <3>3, <4>1 DEF RobEntry
      <4> QED BY <3>3, <3>1, <4>2, <4>3
    <3>5. ROB'[k] = IF i \in finished THEN [entry EXCEPT !.num_mem_ops = @ - 1] ELSE entry
      BY <1>5, <2>2 DEF MemOpsDone
    <3>6. k \notin P BY <1>9, <2>2
    <3> HIDE DEF entry
    <3>7. CASE i \in finished
      <4>1. ROB'[k] = [entry EXCEPT !.num_mem_ops = @ - 1] BY <3>5, <3>7
      <4>2. entry.num_mem_ops - 1 \in Int BY <3>4 DEF RobEntry
      <4>3. ROB'[k] \in RobEntry BY <3>4, <4>1, <4>2 DEF RobEntry
      <4> QED BY <2>2, <3>4, <3>6, <3>7, <4>1, <4>3 DEF RobEntry
    <3>8. CASE i \notin finished BY <2>2, <3>4, <3>5, <3>6, <3>8
    <3> QED BY <3>7, <3>8
  <2>3. CASE k \in P /\ k # i
    <3>1. k \notin finished BY <1>14, <2>3
    <3>2. ROB'[k] = [ROB[k] EXCEPT !.memory_depend = @ \cup {i}]
      BY <1>5, <2>3, <3>1 DEF MemOpsDone
    <3>3. ROB[k].memory_depend \cup {i} \in SUBSET RobIndex BY <2>1 DEF RobEntry
    <3>4. ROB'[k] \in RobEntry BY <2>1, <3>2, <3>3 DEF RobEntry
    <3> QED BY <2>1, <2>3, <3>1, <3>2, <3>4 DEF RobEntry
  <2>4. CASE k \notin P /\ k # i
    <3>1. k \notin finished BY <1>14, <2>4
    <3>2. ROB'[k] = ROB[k] BY <1>5, <2>4, <3>1 DEF MemOpsDone
    <3> QED BY <2>1, <2>4, <3>1, <3>2
  <2> QED BY <2>2, <2>3, <2>4
<1> HIDE DEF entry
<1>16. ROB' \in [RobIndex -> RobEntry]
  <2>1. ROB' = [k \in RobIndex |-> ROB'[k]] BY <1>5 DEF MemOpsDone
  <2> QED BY <1>15, <2>1
<1>17. SameIds BY <1>15 DEF SameIds
<1>18. /\ \A k \in RobIndex : (Used(k)' <=> Used(k)) /\ (IsMemory(k)' <=> IsMemory(k))
                              /\ Before(k)' = Before(k)
       /\ \A k \in RobIndex : \A w : StoresBefore(k, w)' = StoresBefore(k, w)
  BY <1>17, IdsFrame
<1>19. SlotsAreSound'
  <2>1. ASSUME NEW k \in RobIndex
        PROVE  (/\ ~Used(k) => /\ ~IsMemory(k) /\ ROB[k].executed = "no" /\ ROB[k].num_reg_dependent <= 0
                               /\ ~ROB[k].source_added /\ ~ROB[k].destination_added
                /\ ROB[k].num_reg_dependent > 0 => ROB[k].executed = "no"
                /\ ROB[k].reg_ready => ROB[k].num_reg_dependent <= 0
                /\ ROB[k].scheduled = "no" => ROB[k].executed = "no"
                /\ ROB[k].source_added => /\ ROB[k].i.source_memory # Nothing
                                          /\ ROB[k].lq_index \in LqIndex
                /\ IF ROB[k].destination_added
                   THEN ROB[k].i.destination_memory # Nothing /\ ROB[k].sq_index \in SqIndex
                   ELSE ROB[k].sq_index = Nothing)'
    <3>1. CASE k = i
      <4>1. /\ ROB[i].source_added => word # Nothing /\ ROB[i].lq_index \in LqIndex
            /\ IF ROB[i].destination_added
               THEN ROB[i].i.destination_memory # Nothing /\ ROB[i].sq_index \in SqIndex
               ELSE ROB[i].sq_index = Nothing
        BY <1>3 DEF SlotsAreSound
      <4>2. src => word # Nothing /\ lqi \in LqIndex BY <1>7, <1>11, <4>1
      <4>3. IF dst THEN ROB[i].i.destination_memory # Nothing /\ sqi \in SqIndex
            ELSE sqi = Nothing
        BY <1>10, <1>11, <4>1
      <4>4. /\ ROB'[i].i = ROB[i].i /\ ROB'[i].num_reg_dependent = ROB[i].num_reg_dependent
            /\ ROB'[i].source_added = src /\ ROB'[i].destination_added = dst
            /\ ROB'[i].lq_index = lqi /\ ROB'[i].sq_index = sqi /\ ROB'[i].scheduled = state
        BY <1>15
      <4> QED BY <1>6, <1>11, <1>18, <3>1, <4>2, <4>3, <4>4
    <3>2. CASE k # i BY <1>3, <1>15, <1>18, <3>2, ZenonT(40) DEF SlotsAreSound
    <3> QED BY <3>1, <3>2
  <2> QED BY <2>1 DEF SlotsAreSound
<1>20. RteInv'
  <2>1. SeqSet(RTE0) \subseteq RobIndex /\ SeqSet(RTE1) \subseteq RobIndex BY <1>3, SeqElements
  <2>2. \A k \in RobIndex : ToExecute(k) => ToExecute(k)'
    BY <1>6, <1>15, <1>18 DEF ToExecute
  <2>3. UNCHANGED <<RTE0, RTE1>> BY <1>2 DEF rte
  <2>4. SeqSet(RTE0)' = SeqSet(RTE0) /\ SeqSet(RTE1)' = SeqSet(RTE1) BY <2>3 DEF SeqSet
  <2> QED BY <1>3, <2>1, <2>2, <2>3, <2>4 DEF RteInv
<1>21. \A k \in RobIndex :
         /\ ROB'[k].source_added <=> (ROB[k].source_added \/ (k = i /\ load))
         /\ ROB'[k].destination_added <=> (ROB[k].destination_added \/ (k = i /\ store))
         /\ ROB'[k].lq_index = IF k = i /\ load THEN l ELSE ROB[k].lq_index
         /\ ROB'[k].sq_index = IF k = i /\ store THEN top ELSE ROB[k].sq_index
  BY <1>11, <1>15
<1>22. /\ SQ' \in [SqIndex -> LsqEntry]
       /\ \A s \in SqIndex : SQ'[s] = IF store /\ s = top THEN written ELSE SQ[s]
       /\ LQ' \in [LqIndex -> LsqEntry]
       /\ \A m \in LqIndex : LQ'[m] = IF load /\ ~forward /\ m = l THEN asked ELSE LQ[m]
  <2>1. SQ' = IF store THEN [SQ EXCEPT ![top] = written] ELSE SQ BY <1>4, <1>5
  <2>2. LQ' = IF load /\ ~forward THEN [LQ EXCEPT ![l] = asked] ELSE LQ BY <1>5
  <2> QED BY <1>3, <1>7, <1>12, <1>13, <2>1, <2>2
<1>23. \A k \in Stores : /\ k \in RobIndex /\ Used(k) /\ ROB[k].sq_index \in SqIndex
                         /\ store => k # i /\ ROB[k].sq_index # top
  <2>1. ASSUME NEW k \in Stores
        PROVE  /\ k \in RobIndex /\ Used(k) /\ ROB[k].sq_index \in SqIndex
               /\ store => k # i /\ ROB[k].sq_index # top
    <3>1. k \in RobIndex /\ Used(k) /\ ROB[k].destination_added BY DEF Stores
    <3>2. ROB[k].sq_index \in SqIndex BY <1>3, <3>1 DEF SlotsAreSound
    <3>3. SQ[ROB[k].sq_index].id # Nothing BY <1>3, <3>1 DEF SqLinks, Used
    <3> QED BY <1>10, <3>1, <3>2, <3>3
  <2> QED BY <2>1
<1>24. \A k \in RobIndex : Executed(k)' <=> Executed(k)
  <2>1. ASSUME NEW k \in RobIndex PROVE Executed(k)' <=> Executed(k)
    <3>1. CASE k = i /\ store
      <4>1. ~Executed(k) BY <1>10, <3>1 DEF Executed
      <4>2. SQ'[top] = written /\ ROB'[k].sq_index = top BY <1>21, <1>22, <3>1
      <4>3. ~Executed(k)' BY <1>13, <4>2 DEF Executed
      <4> QED BY <4>1, <4>3
    <3>2. CASE ~ (k = i /\ store)
      <4>1. /\ ROB'[k].destination_added <=> ROB[k].destination_added
            /\ ROB'[k].sq_index = ROB[k].sq_index
        BY <1>21, <3>2
      <4>2. CASE ROB[k].destination_added
        <5>1. k \in Stores BY <1>3, <4>2 DEF Stores, SlotsAreSound
        <5>2. ROB[k].sq_index \in SqIndex /\ (store => ROB[k].sq_index # top) BY <1>23, <5>1
        <5>3. SQ'[ROB[k].sq_index] = SQ[ROB[k].sq_index] BY <1>22, <5>2
        <5> QED BY <4>1, <5>3 DEF Executed
      <4>3. CASE ~ROB[k].destination_added BY <4>1, <4>3 DEF Executed
      <4> QED BY <4>2, <4>3
    <3> QED BY <3>1, <3>2
  <2> QED BY <2>1
<1>25. \A k \in RobIndex : StoreIsLeft(k)' <=> StoreIsLeft(k)
  <2>1. \A k \in RobIndex :
          StoreIsLeft(k) <=> ROB[k].i.destination_memory # Nothing /\ ~Executed(k)
    BY DEF StoreIsLeft, Executed
  <2>2. \A k \in RobIndex :
          StoreIsLeft(k)' <=> ROB'[k].i.destination_memory # Nothing /\ ~Executed(k)'
    BY DEF StoreIsLeft, Executed
  <2> QED BY <1>15, <1>24, <2>1, <2>2
<1>26. forward => load /\ LoadIsLeft(i) BY <1>7, <1>8, <1>9 DEF LoadIsLeft
<1>27. \A k \in RobIndex : Used(k) => (LoadIsLeft(k)' <=> LoadIsLeft(k) /\ k \notin finished)
  <2>1. ASSUME NEW k \in RobIndex, Used(k)
        PROVE  LoadIsLeft(k)' <=> LoadIsLeft(k) /\ k \notin finished
    <3>1. ROB'[k].i = ROB[k].i /\ ROB'[k].id = ROB[k].id /\ ROB[k].id # Nothing
      BY <1>15, <2>1 DEF Used
    <3>2. CASE k = i /\ load
      <4>1. LoadIsLeft(k) BY <1>7, <3>2 DEF LoadIsLeft
      <4>2. ROB'[k].source_added /\ ROB'[k].lq_index = l /\ ROB[k].i.source_memory # Nothing
        BY <1>7, <1>21, <3>2
      <4>3. LQ'[l].id = ROB'[k].id <=> ~forward BY <1>7, <1>12, <1>22, <3>1, <3>2
      <4>4. LoadIsLeft(k)' <=> ~forward BY <3>1, <4>2, <4>3 DEF LoadIsLeft
      <4> QED BY <1>14, <3>2, <4>1, <4>4
    <3>3. CASE ~ (k = i /\ load)
      <4>1. k \notin finished BY <1>14, <1>26, <3>3
      <4>2. /\ ROB'[k].source_added <=> ROB[k].source_added
            /\ ROB'[k].lq_index = ROB[k].lq_index
        BY <1>21, <3>3
      <4>3. CASE ROB[k].source_added
        <5>1. PICK m \in LqIndex : m = ROB[k].lq_index BY <1>3, <4>3 DEF SlotsAreSound
        <5>2. LQ'[m].id = ROB[k].id <=> LQ[m].id = ROB[k].id
          <6>1. CASE load /\ ~forward /\ m = l
            <7>1. ROB[k].id # ROB[i].id BY <1>3, <2>1, <3>3, <6>1, IdsDiffer
            <7> QED BY <1>7, <1>12, <1>22, <3>1, <6>1, <7>1
          <6>2. CASE ~ (load /\ ~forward /\ m = l) BY <1>22, <6>2
          <6> QED BY <6>1, <6>2
        <5>3. LoadIsLeft(k)' <=> LoadIsLeft(k)
          <6>1. (LoadIsLeft(k) <=> ROB[k].i.source_memory # Nothing /\ LQ[m].id = ROB[k].id)
            BY <4>3, <5>1 DEF LoadIsLeft
          <6>2. (LoadIsLeft(k)' <=> ROB'[k].i.source_memory # Nothing /\ LQ'[m].id = ROB'[k].id)
            BY <4>2, <4>3, <5>1 DEF LoadIsLeft
          <6> QED BY <3>1, <5>2, <6>1, <6>2
        <5> QED BY <4>1, <5>3
      <4>4. CASE ~ROB[k].source_added BY <3>1, <4>1, <4>2, <4>4 DEF LoadIsLeft
      <4> QED BY <4>3, <4>4
    <3> QED BY <3>2, <3>3
  <2> QED BY <2>1
<1>28. MemOps'
  <2>1. ASSUME NEW k \in RobIndex, Used(k)'
        PROVE  (ROB[k].num_mem_ops
                  = (IF LoadIsLeft(k) THEN 1 ELSE 0) + (IF StoreIsLeft(k) THEN 1 ELSE 0))'
    <3>1. Used(k) BY <1>18, <2>1
    <3>2. ROB[k].num_mem_ops
            = (IF LoadIsLeft(k) THEN 1 ELSE 0) + (IF StoreIsLeft(k) THEN 1 ELSE 0)
      BY <1>3, <3>1 DEF MemOps
    <3>3. StoreIsLeft(k)' <=> StoreIsLeft(k) BY <1>25
    <3>4. CASE k \in finished
      <4>1. LoadIsLeft(k) /\ ~LoadIsLeft(k)' BY <1>14, <1>26, <1>27, <3>1, <3>4
      <4>2. ROB'[k].num_mem_ops = ROB[k].num_mem_ops - 1 BY <1>15, <3>4
      <4>3. ROB'[k].num_mem_ops = 0 + (IF StoreIsLeft(k) THEN 1 ELSE 0) BY <3>2, <4>1, <4>2
      <4> QED BY <3>3, <4>1, <4>3
    <3>5. CASE k \notin finished
      <4>1. LoadIsLeft(k)' <=> LoadIsLeft(k) BY <1>27, <3>1, <3>5
      <4> QED BY <1>15, <3>2, <3>3, <3>5, <4>1
    <3> QED BY <3>4, <3>5
  <2> QED BY <2>1 DEF MemOps
<1>29. Counters' /\ NoneIsLeft' /\ inflight_mem_executions' \in Int
  <2>1. finished \in SUBSET RobIndex BY <1>14
  <2>2. \A k \in finished : IsMemory(k) /\ ROB[k].num_mem_ops > 0
    BY <1>3, <1>6, <1>14, <1>26, LeftIsCounted
  <2>3. \A k \in RobIndex :
          /\ ROB'[k].num_mem_ops
               = IF k \in finished THEN ROB[k].num_mem_ops - 1 ELSE ROB[k].num_mem_ops
          /\ ROB'[k].executed = "completed" <=> ROB[k].executed = "completed"
          /\ ~IsMemory(k) => ROB'[k].executed = ROB[k].executed
    BY <1>6, <1>11, <1>15
  <2>4. /\ inflight_mem_executions' = inflight_mem_executions + LastOnes(finished)
        /\ UNCHANGED inflight_reg_executions
    BY <1>2, <1>5
  <2> QED BY <1>3, <1>17, <2>1, <2>2, <2>3, <2>4, OpsDone
<1>30. Stores' = IF store THEN Stores \cup {i} ELSE Stores
  <2>1. \A k \in RobIndex : Used(k)' /\ ROB'[k].destination_added
          <=> Used(k) /\ (ROB[k].destination_added \/ (k = i /\ store))
    BY <1>18, <1>21
  <2> QED BY <1>6, <2>1 DEF Stores
<1>31. \A k \in RobIndex : ROB'[k].id = ROB[k].id /\ ROB'[k].i = ROB[k].i BY <1>15
<1>32. STA' \in Seq(Nat) /\ StaInv'
  <2>1. CASE store
    <3>1. /\ STA' = Tail(STA) /\ STA \in Seq(Nat) /\ STA # <<>> /\ Head(STA) = ROB[i].id
      BY <1>3, <1>5, <1>10, <2>1
    <3>2. /\ STA' \in Seq(Nat) /\ Len(STA') = Len(STA) - 1
          /\ \A n \in 1..Len(STA') : STA'[n] = STA[n + 1]
      BY <3>1, HeadTailProperties
    <3>3. Len(STA) \in Nat /\ Len(STA) > 0 /\ STA[1] = ROB[i].id BY <3>1
    <3>4. \A n \in 1..Len(STA') : n \in Nat /\ n + 1 \in 1..Len(STA) /\ 1 \in 1..Len(STA) /\ 1 < n + 1
      BY <3>2, <3>3
    <3>5. \A m, n \in 1..Len(STA') : m < n => STA'[m] < STA'[n]
      <4>1. ASSUME NEW m \in 1..Len(STA'), NEW n \in 1..Len(STA'), m < n PROVE STA'[m] < STA'[n]
        <5>1. m + 1 < n + 1 BY <3>4, <4>1
        <5>2. STA[m + 1] < STA[n + 1] BY <1>3, <3>4, <5>1 DEF StaInv
        <5> QED BY <3>2, <5>2
      <4> QED BY <4>1
    <3>6. ASSUME NEW n \in 1..Len(STA')
          PROVE  /\ STA'[n] <= instr_unique_id'
                 /\ \A k \in Stores' : ROB'[k].id < STA'[n]
      <4>1. STA'[n] = STA[n + 1] /\ n + 1 \in 1..Len(STA) BY <3>2, <3>4
      <4>2. STA[n + 1] <= instr_unique_id /\ \A k \in Stores : ROB[k].id < STA[n + 1]
        BY <1>3, <4>1 DEF StaInv
      <4>3. STA[1] < STA[n + 1] BY <1>3, <3>4 DEF StaInv
      <4> QED BY <1>2, <1>23, <1>30, <1>31, <2>1, <3>3, <4>1, <4>2, <4>3
    <3> QED BY <3>2, <3>5, <3>6 DEF StaInv
  <2>2. CASE ~store
    <3>1. STA' = STA /\ Stores' = Stores BY <1>5, <1>30, <2>2
    <3> QED BY <1>2, <1>3, <1>23, <1>31, <3>1 DEF StaInv
  <2> QED BY <2>1, <2>2
<1>33. SqLinks'
  <2>1. ASSUME NEW k \in Stores'
        PROVE  (/\ SQ[ROB[k].sq_index].id = ROB[k].id /\ SQ[ROB[k].sq_index].rob_index = k
                /\ SQ[ROB[k].sq_index].virtual_address = ROB[k].i.destination_memory)'
    <3>1. CASE store /\ k = i
      <4>1. ROB'[k].sq_index = top /\ SQ'[top] = written BY <1>21, <1>22, <3>1
      <4> QED BY <1>13, <1>31, <3>1, <4>1
    <3>2. CASE ~ (store /\ k = i)
      <4>1. k \in Stores BY <1>30, <2>1, <3>2
      <4>2. /\ SQ[ROB[k].sq_index].id = ROB[k].id /\ SQ[ROB[k].sq_index].rob_index = k
            /\ SQ[ROB[k].sq_index].virtual_address = ROB[k].i.destination_memory
        BY <1>3, <4>1 DEF SqLinks
      <4>3. k \in RobIndex /\ ROB'[k].sq_index = ROB[k].sq_index /\ ROB[k].sq_index \in SqIndex
            /\ (store => ROB[k].sq_index # top)
        BY <1>21, <1>23, <3>2, <4>1
      <4>4. SQ'[ROB[k].sq_index] = SQ[ROB[k].sq_index] BY <1>22, <4>3
      <4> QED BY <1>31, <4>2, <4>3, <4>4
    <3> QED BY <3>1, <3>2
  <2>2. ASSUME NEW s \in SqIndex, SQ'[s].id # Nothing
        PROVE  SQ'[s].rob_index \in Stores' /\ ROB'[SQ'[s].rob_index].sq_index = s
    <3>1. CASE store /\ s = top
      <4>1. SQ'[s].rob_index = i BY <1>13, <1>22, <3>1
      <4> QED BY <1>21, <1>30, <3>1, <4>1
    <3>2. CASE ~ (store /\ s = top)
      <4>1. SQ'[s] = SQ[s] BY <1>22, <3>2
      <4>2. SQ[s].rob_index \in Stores /\ ROB[SQ[s].rob_index].sq_index = s
        BY <1>3, <2>2, <4>1 DEF SqLinks
      <4>3. SQ[s].rob_index \in RobIndex /\ (store => SQ[s].rob_index # i) BY <1>23, <4>2
      <4> QED BY <1>21, <1>30, <4>1, <4>2, <4>3
    <3> QED BY <3>1, <3>2
  <2> QED BY <2>1, <2>2 DEF SqLinks
<1>34. SqRing' /\ SQ_tail' \in SqIndex
  <2>1. CASE store
    <3>1. Stores' = Stores \cup {i} /\ i \notin Stores BY <1>23, <1>30, <2>1
    <3>2. IsFiniteSet(Stores) /\ Cardinality(Stores) \in Nat BY FiniteSlots DEF Stores
    <3>3. Cardinality(Stores') = Cardinality(Stores) + 1 BY <3>1, <3>2, FS_AddElement
    <3>4. \A k \in Stores : ROB[k].id < ROB[i].id /\ ROB[k].id \in Nat
      <4>1. Len(STA) \in Nat /\ Len(STA) > 0 /\ STA[1] = ROB[i].id BY <1>3, <1>10, <2>1
      <4>2. 1 \in 1..Len(STA) BY <4>1
      <4> QED BY <1>3, <1>23, <4>1, <4>2, RingIds DEF StaInv
    <3>5. Stores' \cap Before(i) = Stores BY <1>6, <1>23, <3>1, <3>4 DEF Before
    <3>6. \A k \in Stores : Stores' \cap Before(k) = Stores \cap Before(k)
      BY <1>6, <3>1, <3>4 DEF Before
    <3>7. ROB'[i].sq_index = top /\ \A k \in Stores : ROB'[k].sq_index = ROB[k].sq_index
      BY <1>21, <1>23, <2>1
    <3>8. \A k \in Stores : (ROB[k].sq_index - SQ_head) % SQ_SIZE = Cardinality(Stores \cap Before(k))
      BY <1>3 DEF SqRing
    <3>9. SQ_tail' = (SQ_head + Cardinality(Stores')) % SQ_SIZE
      BY <1>4, <1>5, <1>10, <2>1, <3>3
    <3>10. ASSUME NEW k \in Stores'
           PROVE  (ROB'[k].sq_index - SQ_head) % SQ_SIZE = Cardinality(Stores' \cap Before(k))
      BY <1>10, <2>1, <3>1, <3>5, <3>6, <3>7, <3>8
    <3>11. \A k \in Stores' : k \in RobIndex /\ Before(k)' = Before(k) BY <1>18, <1>23, <3>1
    <3>12. SQ_tail' \in SqIndex
      <4>1. SQ_SIZE \in Nat /\ SQ_SIZE > 0 /\ top \in 0..(SQ_SIZE - 1) BY RingSizes DEF SqIndex
      <4>2. (top + 1) % SQ_SIZE \in 0..(SQ_SIZE - 1) BY <4>1
      <4> QED BY <1>4, <1>5, <2>1, <4>2 DEF SqIndex
    <3> QED BY <1>2, <3>9, <3>10, <3>11, <3>12 DEF SqRing
  <2>2. CASE ~store
    <3>1. Stores' = Stores /\ SQ_tail' = SQ_tail BY <1>5, <1>30, <2>2
    <3>2. \A k \in Stores : k \in RobIndex /\ Before(k)' = Before(k)
                            /\ ROB'[k].sq_index = ROB[k].sq_index
      BY <1>18, <1>21, <1>23, <2>2
    <3> QED BY <1>2, <1>3, <3>1, <3>2 DEF SqRing
  <2> QED BY <2>1, <2>2
<1>35. StorePlaces' /\ RTS0' \in Seq(SqIndex)
  <2>1. SeqSet(RTS0)' = SeqSet(RTS0') /\ SeqSet(RTS1)' = SeqSet(RTS1) BY <1>2 DEF SeqSet
  <2>2. CASE store
    <3>1. top \notin ToStore BY <1>10, <2>2 DEF ToStore
    <3>2. ToStore' = ToStore \cup {top} BY <1>6, <1>13, <1>22, <2>2 DEF ToStore
    <3>3. top \notin SeqSet(RTS0) BY <1>3, <3>1 DEF StorePlaces
    <3>4. RTS0' = Append(RTS0, top) BY <1>4, <1>5, <2>2
    <3>5. RTS0' \in Seq(SqIndex) /\ IsInjective(RTS0') /\ SeqSet(RTS0') = SeqSet(RTS0) \cup {top}
      BY <1>3, <3>3, <3>4, AppendOne DEF StorePlaces
    <3> QED BY <1>2, <1>3, <2>1, <3>1, <3>2, <3>5 DEF StorePlaces
  <2>3. CASE ~store
    <3>1. SQ' = SQ /\ RTS0' = RTS0 BY <1>5, <2>3
    <3>2. ToStore' = ToStore BY <3>1 DEF ToStore
    <3> QED BY <1>2, <1>3, <3>1, <3>2, StorePlacesFrame
  <2> QED BY <2>2, <2>3
<1>36. \A m \in LqIndex : LQ[m].id # Nothing =>
         /\ LQ'[m] = LQ[m] /\ LQ[m].rob_index \in RobIndex
         /\ load => LQ[m].rob_index # i /\ m # l
  BY <1>3, <1>7, <1>22 DEF LqLinks, LsqEntry
<1>37. LqLinks'
  <2>1. ASSUME NEW m \in LqIndex, LQ'[m].id # Nothing
        PROVE  (/\ ROB[LQ[m].rob_index].id = LQ[m].id /\ ROB[LQ[m].rob_index].source_added
                /\ ROB[LQ[m].rob_index].lq_index = m
                /\ LQ[m].virtual_address = ROB[LQ[m].rob_index].i.source_memory)'
    <3>1. CASE load /\ ~forward /\ m = l
      <4>1. LQ'[m] = asked BY <1>22, <3>1
      <4>2. ROB'[i].source_added /\ ROB'[i].lq_index = l BY <1>21, <3>1
      <4> QED BY <1>12, <1>31, <3>1, <4>1, <4>2
    <3>2. CASE ~ (load /\ ~forward /\ m = l)
      <4>1. LQ'[m] = LQ[m] /\ LQ[m].id # Nothing BY <1>22, <2>1, <3>2
      <4>2. LQ[m].rob_index \in RobIndex /\ (load => LQ[m].rob_index # i) BY <1>36, <4>1
      <4>3. /\ ROB[LQ[m].rob_index].id = LQ[m].id /\ ROB[LQ[m].rob_index].source_added
            /\ ROB[LQ[m].rob_index].lq_index = m
            /\ LQ[m].virtual_address = ROB[LQ[m].rob_index].i.source_memory
        BY <1>3, <4>1 DEF LqLinks
      <4> QED BY <1>21, <1>31, <4>1, <4>2, <4>3
    <3> QED BY <3>1, <3>2
  <2> QED BY <2>1 DEF LqLinks
<1>38. LoadPlaces' /\ RTL0' \in Seq(LqIndex)
  <2>1. SeqSet(RTL0)' = SeqSet(RTL0') /\ SeqSet(RTL1)' = SeqSet(RTL1) BY <1>2 DEF SeqSet
  <2>2. CASE load /\ P = {}
    <3>1. ~forward BY <1>9, <2>2
    <3>2. LQ'[l] = asked /\ asked.id # Nothing /\ asked.producer_id = Nothing
      BY <1>6, <1>7, <1>12, <1>22, <2>2, <3>1
    <3>3. \A m \in LqIndex : m # l => LQ'[m] = LQ[m] BY <1>22
    <3>4. LoadsOnTheirWay' = LoadsOnTheirWay \cup {l} /\ l \notin LoadsOnTheirWay
      BY <1>7, <2>2, <3>2, <3>3 DEF LoadsOnTheirWay
    <3>5. RTL0' = Append(RTL0, l) /\ l \in LqIndex BY <1>5, <1>7, <2>2
    <3>6. /\ l \notin SeqSet(RTL0) /\ l \notin dtlb_load /\ l \notin SeqSet(RTL1) /\ l \notin l1d
      BY <1>3, <3>4 DEF LoadPlaces
    <3>7. RTL0' \in Seq(LqIndex) /\ IsInjective(RTL0') /\ SeqSet(RTL0') = SeqSet(RTL0) \cup {l}
      BY <1>3, <3>5, <3>6, AppendOne DEF LoadPlaces
    <3> QED BY <1>2, <1>3, <2>1, <3>4, <3>6, <3>7 DEF LoadPlaces
  <2>3. CASE ~ (load /\ P = {})
    <3>1. RTL0' = RTL0 BY <1>5, <2>3
    <3>2. \A m \in LqIndex : (LQ'[m].id # Nothing /\ LQ'[m].producer_id = Nothing)
                               <=> (LQ[m].id # Nothing /\ LQ[m].producer_id = Nothing)
      <4>1. ASSUME NEW m \in LqIndex
            PROVE  (LQ'[m].id # Nothing /\ LQ'[m].producer_id = Nothing)
                     <=> (LQ[m].id # Nothing /\ LQ[m].producer_id = Nothing)
        <5>1. CASE load /\ ~forward /\ m = l
          <6>1. ROB[p].id # Nothing BY <1>8, <1>9, <2>3, <5>1, NothingIsNoNumber
          <6>2. LQ'[m] = asked /\ asked.producer_id = ROB[p].id BY <1>12, <1>22, <2>3, <5>1
          <6> QED BY <1>7, <5>1, <6>1, <6>2
        <5>2. CASE ~ (load /\ ~forward /\ m = l) BY <1>22, <5>2
        <5> QED BY <5>1, <5>2
      <4> QED BY <4>1
    <3>3. LoadsOnTheirWay' = LoadsOnTheirWay BY <3>2 DEF LoadsOnTheirWay
    <3> QED BY <1>2, <1>3, <3>1, <3>3, LoadPlacesFrame
  <2> QED BY <2>2, <2>3
<1>39. ASSUME NEW k \in RobIndex, NEW m
       PROVE  m \in ROB'[k].memory_depend <=> m \in ROB[k].memory_depend \/ (k \in P /\ m = i)
  <2>1. ROB'[k].memory_depend = IF k \in P THEN ROB[k].memory_depend \cup {i}
                                           ELSE ROB[k].memory_depend
    BY <1>15
  <2>2. CASE k \in P BY <2>1, <2>2
  <2>3. CASE k \notin P BY <2>1, <2>3
  <2> QED BY <2>2, <2>3
<1>40. DependInv'
  <2>1. ASSUME NEW k \in RobIndex, (Used(k) /\ ~Executed(k))', NEW m \in ROB'[k].memory_depend
        PROVE  WaitsFor(m, k)'
    <3>1. Used(k) /\ ~Executed(k) BY <1>18, <1>24, <2>1
    <3>2. CASE m \in ROB[k].memory_depend
      <4>1. m \in RobIndex /\ WaitsFor(m, k) BY <1>3, <3>1, <3>2 DEF DependInv, RobEntry
      <4>2. PICK n : n = ROB[m].lq_index OBVIOUS
      <4>3. /\ Used(m) /\ ROB[m].source_added
            /\ ROB[m].i.source_memory = ROB[k].i.destination_memory
            /\ LQ[n].id = ROB[m].id /\ LQ[n].producer_id = ROB[k].id
        BY <4>1, <4>2 DEF WaitsFor
      <4>4. n \in LqIndex /\ LQ[n].id # Nothing
        BY <1>3, <4>1, <4>2, <4>3 DEF SlotsAreSound, Used
      <4>5. ~ (m = i /\ load) BY <1>7, <4>3
      <4>6. /\ ROB'[m].source_added /\ ROB'[m].lq_index = n /\ LQ'[n] = LQ[n] /\ Used(m)'
        BY <1>18, <1>21, <1>36, <4>1, <4>2, <4>3, <4>4, <4>5
      <4> QED BY <1>31, <4>1, <4>3, <4>6 DEF WaitsFor
    <3>3. CASE m \notin ROB[k].memory_depend
      <4>1. k \in P /\ m = i BY <1>39, <2>1, <3>3
      <4>2. load /\ ~forward BY <1>8, <1>9, <3>1, <4>1
      <4>3. p = k BY <1>8, <4>1
      <4>4. LQ'[l] = asked /\ asked.id = ROB[i].id /\ asked.producer_id = ROB[k].id
        BY <1>7, <1>12, <1>22, <4>1, <4>2, <4>3
      <4>5. ROB'[i].source_added /\ ROB'[i].lq_index = l /\ Used(i)'
        BY <1>6, <1>18, <1>21, <4>2
      <4>6. word = ROB[k].i.destination_memory BY <1>9, <4>1
      <4> QED BY <1>31, <4>1, <4>4, <4>5, <4>6 DEF WaitsFor
    <3> QED BY <3>2, <3>3
  <2> QED BY <2>1 DEF DependInv
<1>41. ProducerInv'
  <2>1. ASSUME NEW m \in LqIndex, LQ'[m].id # Nothing
        PROVE  (LET n == LQ[m].rob_index
                    older == StoresBefore(n, LQ[m].virtual_address)
                IN IF LQ[m].producer_id = Nothing THEN older = {}
                   ELSE \E k \in older : /\ \A j \in older : ROB[j].id <= ROB[k].id
                                         /\ LQ[m].producer_id = ROB[k].id
                                         /\ n \in ROB[k].memory_depend /\ ~Executed(k))'
    <3>1. CASE load /\ ~forward /\ m = l
      <4>1. /\ LQ'[m].rob_index = i /\ LQ'[m].virtual_address = word
            /\ LQ'[m].producer_id = IF P = {} THEN Nothing ELSE ROB[p].id
        BY <1>12, <1>22, <3>1
      <4>2. StoresBefore(LQ[m].rob_index, LQ[m].virtual_address)' = stores BY <1>18, <4>1
      <4>3. \A j \in stores : j \in RobIndex BY DEF StoresBefore, Before
      <4> HIDE DEF stores
      <4>4. CASE P = {} BY <1>8, <3>1, <4>1, <4>2, <4>4
      <4>5. CASE P # {}
        <5>1. PICK q \in P : q = p BY <1>8, <4>5
        <5>2. q \in stores /\ ROB[q].id # Nothing /\ ~Executed(q)
          BY <1>8, <1>9, <3>1, <5>1, NothingIsNoNumber
        <5>3. i \in ROB'[q].memory_depend /\ ~Executed(q)' BY <1>24, <1>39, <4>3, <5>1, <5>2
        <5>4. ROB'[q].id = ROB[q].id /\ \A j \in stores : ROB'[j].id <= ROB'[q].id
          BY <1>8, <1>31, <4>3, <5>1, <5>2
        <5>5. LQ'[m].producer_id = ROB'[q].id /\ LQ'[m].producer_id # Nothing
          BY <4>1, <4>5, <5>1, <5>2, <5>4
        <5> QED BY <4>1, <4>2, <5>2, <5>3, <5>4, <5>5
      <4> QED BY <4>4, <4>5
    <3>2. CASE ~ (load /\ ~forward /\ m = l)
      <4>1. LQ'[m] = LQ[m] /\ LQ[m].id # Nothing BY <1>22, <2>1, <3>2
      <4> DEFINE n == LQ[m].rob_index
                 older == StoresBefore(n, LQ[m].virtual_address)
      <4>2. n \in RobIndex BY <1>3 DEF LsqEntry
      <4>3. StoresBefore(n, LQ[m].virtual_address)' = older BY <1>18, <4>1, <4>2
      <4>4. \A j \in older : j \in RobIndex BY DEF StoresBefore, Before
      <4>5. IF LQ[m].producer_id = Nothing THEN older = {}
            ELSE \E k \in older : /\ \A j \in older : ROB[j].id <= ROB[k].id
                                  /\ LQ[m].producer_id = ROB[k].id
                                  /\ n \in ROB[k].memory_depend /\ ~Executed(k)
        BY <1>3, <4>1 DEF ProducerInv
      <4> HIDE DEF older
      <4>6. \A k \in RobIndex : n \in ROB[k].memory_depend => n \in ROB'[k].memory_depend
        BY <1>39
      <4> QED BY <1>24, <1>31, <4>1, <4>3, <4>4, <4>5, <4>6
    <3> QED BY <3>1, <3>2
  <2> QED BY <2>1 DEF ProducerInv
<1>42. LsqTypes' BY <1>2, <1>3, <1>22, <1>32, <1>34, <1>35, <1>38 DEF LsqTypes
<1>43. RobTypes' BY <1>2, <1>3, <1>16, <1>29 DEF RobTypes, rte
<1>44. RobRing' BY <1>2, <1>3, <1>17, RingFrame
<1> QED BY <1>19, <1>20, <1>28, <1>29, <1>32, <1>33, <1>34, <1>35, <1>37, <1>38, <1>40, <1>41,
           <1>42, <1>43, <1>44
        DEF CoreInv, CoreTypes

(***************************************************************************)
(* retire_rob: both rings move on by one.                                  *)
(***************************************************************************)
LEMMA RingMoves ==
  ASSUME NEW N \in Nat, N > 0, NEW h \in 0..(N - 1)
  PROVE  /\ (h + 1) % N \in 0..(N - 1)
         /\ \A i \in 0..(N - 1) :
              /\ (i - ((h + 1) % N)) % N = IF i = h THEN N - 1 ELSE ((i - h) % N) - 1
              /\ (i - h) % N \in 0..(N - 1) /\ ((i - h) % N = 0 <=> i = h)
         /\ \A n \in 1..N : (((h + 1) % N) + (n - 1)) % N = (h + n) % N
<1>1. (h + 1) % N = IF h = N - 1 THEN 0 ELSE h + 1 OBVIOUS
<1> DEFINE g == (h + 1) % N
<1>2. g = IF h = N - 1 THEN 0 ELSE h + 1 BY <1>1
<1> HIDE DEF g
<1>3. ASSUME NEW i \in 0..(N - 1)
      PROVE  /\ (i - g) % N = IF i = h THEN N - 1 ELSE ((i - h) % N) - 1
             /\ (i - h) % N \in 0..(N - 1) /\ ((i - h) % N = 0 <=> i = h)
  <2>1. (i - h) % N = IF i >= h THEN i - h ELSE i - h + N OBVIOUS
  <2>2. CASE h = N - 1
    <3>1. g = 0 BY <1>2, <2>2
    <3>2. (i - g) % N = i BY <3>1
    <3> QED BY <2>1, <2>2, <3>2
  <2>3. CASE h # N - 1
    <3>1. g = h + 1 BY <1>2, <2>3
    <3>2. (i - g) % N = IF i >= h + 1 THEN i - (h + 1) ELSE i - (h + 1) + N
      BY <2>3, <3>1
    <3> QED BY <2>1, <2>3, <3>2
  <2> QED BY <2>2, <2>3
<1>4. ASSUME NEW n \in 1..N PROVE (g + (n - 1)) % N = (h + n) % N
  <2>1. CASE h = N - 1
    <3>1. g + (n - 1) = n - 1 BY <1>2, <2>1
    <3>2. (n - 1) % N = n - 1 OBVIOUS
    <3>3. h + n \in N..(2 * N - 1) /\ (h + n) - N = n - 1 BY <2>1
    <3>4. (h + n) % N = n - 1 BY <3>3
    <3> QED BY <3>1, <3>2, <3>4
  <2>2. CASE h # N - 1
    <3>1. g + (n - 1) = h + n BY <1>2, <2>2
    <3> QED BY <3>1
  <2> QED BY <2>1, <2>2
<1>5. g \in 0..(N - 1) BY <1>2
<1> QED BY <1>3, <1>4, <1>5 DEF g

LEMMA EmptyFacts ==
  /\ EmptyEntry \in RobEntry /\ EmptyEntry.id = Nothing
  /\ EmptyEntry.i.source_memory = Nothing /\ EmptyEntry.i.destination_memory = Nothing
  /\ EmptyEntry.executed = "no" /\ EmptyEntry.num_reg_dependent = 0 /\ ~EmptyEntry.reg_ready
  /\ ~EmptyEntry.source_added /\ ~EmptyEntry.destination_added /\ EmptyEntry.sq_index = Nothing
  /\ EmptyEntry.memory_depend = {} /\ EmptyEntry.num_mem_ops = 0
<1>1. NoInstruction \in Instruction /\ NoInstruction.source_memory = Nothing
      /\ NoInstruction.destination_memory = Nothing
  BY DEF NoInstruction, Instruction
<1>2. "no" \in Progress BY DEF Progress
<1> HIDE DEF NoInstruction
<1>3. EmptyEntry = [id |-> Nothing, i |-> NoInstruction, translated |-> "no", fetched |-> "no",
           scheduled |-> "no", executed |-> "no", reg_ready |-> FALSE, num_reg_dependent |-> 0,
           registers_depend |-> {}, memory_depend |-> {}, num_mem_ops |-> 0,
           source_added |-> FALSE, destination_added |-> FALSE, lq_index |-> Nothing,
           sq_index |-> Nothing, branch_mispredicted |-> FALSE]
  <2>1. (IF NoInstruction.source_memory # Nothing THEN 1 ELSE 0)
          + (IF NoInstruction.destination_memory # Nothing THEN 1 ELSE 0) = 0
    BY <1>1
  <2> QED BY <2>1 DEF EmptyEntry, NewEntry
<1> HIDE DEF EmptyEntry
<1>4. EmptyEntry \in RobEntry BY <1>1, <1>2, <1>3 DEF RobEntry
<1> QED BY <1>1, <1>3, <1>4

\* The ring of instructions after its first one is gone.
LEMMA RetireRing ==
  ASSUME RobTypes, RobRing, Used(head), ROB' = [ROB EXCEPT ![head] = EmptyEntry],
         head' = NextRob(head), occupancy' = occupancy - 1, UNCHANGED <<tail, instr_unique_id>>
  PROVE  /\ RobRing' /\ head' \in RobIndex /\ occupancy' \in 0..ROB_SIZE
         /\ \A k \in RobIndex \ {head} : Used(k) => ROB[head].id < ROB[k].id
         /\ Before(head) = {}
<1>1. ROB \in [RobIndex -> RobEntry] BY DEF RobTypes
<1>2. PICK h \in RobIndex : h = head BY DEF RobTypes
<1>3. ROB_SIZE \in Nat /\ ROB_SIZE > 0 /\ h \in 0..(ROB_SIZE - 1) BY RingSizes DEF RobIndex
<1>4. Age(h) = 0 BY <1>2, <1>3 DEF Age
<1>5. occupancy \in 1..ROB_SIZE /\ instr_unique_id \in Nat /\ occupancy <= instr_unique_id
  <2>1. occupancy \in 0..ROB_SIZE /\ instr_unique_id \in Nat /\ occupancy <= instr_unique_id
    BY DEF RobTypes, RobRing
  <2>2. 0 < occupancy BY <1>2, <1>4, RingIds
  <2> QED BY <1>3, <2>1, <2>2
<1>6. \A k \in RobIndex :
        /\ Age(k)' = IF k = h THEN ROB_SIZE - 1 ELSE Age(k) - 1
        /\ Age(k) \in 0..(ROB_SIZE - 1) /\ (Age(k) = 0 <=> k = h)
  <2>1. head' = (h + 1) % ROB_SIZE BY <1>2 DEF NextRob
  <2>2. \A k \in 0..(ROB_SIZE - 1) :
          /\ (k - ((h + 1) % ROB_SIZE)) % ROB_SIZE
               = IF k = h THEN ROB_SIZE - 1 ELSE ((k - h) % ROB_SIZE) - 1
          /\ (k - h) % ROB_SIZE \in 0..(ROB_SIZE - 1) /\ ((k - h) % ROB_SIZE = 0 <=> k = h)
    BY <1>3, RingMoves, Zenon
  <2>3. \A k \in RobIndex : Age(k)' = (k - head') % ROB_SIZE /\ Age(k) = (k - h) % ROB_SIZE
    BY <1>2 DEF Age
  <2> QED BY <2>1, <2>2, <2>3 DEF RobIndex
<1>7. head' \in RobIndex BY <1>2, NextRobIsSlot
<1>8. tail' = (head' + occupancy') % ROB_SIZE
  <2>1. \A n \in 1..ROB_SIZE :
          (((h + 1) % ROB_SIZE) + (n - 1)) % ROB_SIZE = (h + n) % ROB_SIZE
    BY <1>3, RingMoves, Zenon
  <2>2. (((h + 1) % ROB_SIZE) + (occupancy - 1)) % ROB_SIZE = (h + occupancy) % ROB_SIZE
    BY <1>5, <2>1
  <2> QED BY <1>2, <2>2 DEF RobRing, NextRob
<1> HIDE DEF Age
<1>9. ASSUME NEW k \in RobIndex
      PROVE  ROB'[k].id = IF Age(k)' < occupancy'
                          THEN instr_unique_id' - occupancy' + 1 + Age(k)' ELSE Nothing
  <2>1. CASE k = h
    <3>1. ROB'[k].id = Nothing BY <1>1, <1>2, <2>1, EmptyFacts
    <3>2. ~ (Age(k)' < occupancy') BY <1>3, <1>5, <1>6, <2>1
    <3> QED BY <3>1, <3>2
  <2>2. CASE k # h
    <3>1. ROB'[k] = ROB[k] BY <1>1, <1>2, <2>2
    <3>2. ROB[k].id = IF Age(k) < occupancy
                      THEN instr_unique_id - occupancy + 1 + Age(k) ELSE Nothing
      BY DEF RobRing
    <3>3. Age(k) \in Int /\ Age(k)' = Age(k) - 1 BY <1>6, <2>2
    <3>4. Age(k)' < occupancy' <=> Age(k) < occupancy BY <1>5, <3>3
    <3>5. instr_unique_id' - occupancy' + 1 + Age(k)' = instr_unique_id - occupancy + 1 + Age(k)
      BY <1>5, <3>3
    <3> QED BY <3>1, <3>2, <3>4, <3>5
  <2> QED BY <2>1, <2>2
<1>10. ASSUME NEW k \in RobIndex, k # h, Used(k) PROVE ROB[h].id < ROB[k].id
  <2>1. /\ ROB[h].id = instr_unique_id - occupancy + 1 + Age(h)
        /\ ROB[k].id = instr_unique_id - occupancy + 1 + Age(k)
    BY <1>2, <1>10, RingIds
  <2>2. Age(k) \in Int /\ Age(k) > 0 BY <1>6, <1>10
  <2> QED BY <1>4, <1>5, <2>1, <2>2
<1>11. Before(h) = {}
  <2>1. \A k \in RobIndex : Used(k) => ROB[k].id \in Nat BY RingIds
  <2> QED BY <1>2, <1>10, <2>1 DEF Before
<1>12. occupancy' <= instr_unique_id' /\ occupancy' \in 0..ROB_SIZE BY <1>3, <1>5
<1> QED BY <1>2, <1>7, <1>8, <1>9, <1>10, <1>11, <1>12 DEF RobRing

LEMMA RetireKeeps ==
  ASSUME CoreInv, RetireRob
  PROVE  CoreInv'
<1>1. /\ CoreTypes /\ RobTypes /\ LsqTypes /\ RobRing /\ SlotsAreSound /\ RteInv /\ StaInv /\ SqLinks
      /\ SqRing /\ LqLinks /\ LoadPlaces /\ StorePlaces /\ MemOps /\ NoneIsLeft /\ Counters
      /\ DependInv /\ ProducerInv
      /\ ROB \in [RobIndex -> RobEntry] /\ RTE0 \in Seq(RobIndex) /\ RTE1 \in Seq(RobIndex)
      /\ SQ \in [SqIndex -> LsqEntry] /\ LQ \in [LqIndex -> LsqEntry]
      /\ SQ_head \in SqIndex /\ SQ_tail \in SqIndex
  BY DEF CoreInv, CoreTypes, RobTypes, LsqTypes
<1>2. PICK h \in RobIndex : h = head BY <1>1 DEF RobTypes
<1>3. PICK first \in SqIndex : first = SQ_head BY <1>1
<1>4. /\ Used(h) /\ ROB[h].executed = "completed" /\ ROB' = [ROB EXCEPT ![head] = EmptyEntry]
      /\ head' = NextRob(head) /\ occupancy' = occupancy - 1
      /\ UNCHANGED <<tail, last_read, last_fetch, next_schedule, LQ, SQ_tail, STA, RTS0, RTS1,
                     RTL0, RTL1, rte, trace, instr_unique_id, fetch_stall, counters,
                     inflight_reg_executions, inflight_mem_executions, itlb, l1i,
                     dtlb_load, dtlb_store, l1d>>
      /\ IF ROB[h].sq_index # Nothing
         THEN SQ' = [SQ EXCEPT ![ROB[h].sq_index] = EmptyLsq] /\ SQ_head' = (SQ_head + 1) % SQ_SIZE
         ELSE SQ' = SQ /\ SQ_head' = SQ_head
  BY <1>2 DEF RetireRob, reads, ready, counters, below
<1>5. /\ RobRing' /\ head' \in RobIndex /\ occupancy' \in 0..ROB_SIZE
      /\ \A k \in RobIndex \ {h} : Used(k) => ROB[h].id < ROB[k].id
      /\ Before(h) = {}
  <2>1. Used(head) BY <1>2, <1>4
  <2>2. /\ RobRing' /\ head' \in RobIndex /\ occupancy' \in 0..ROB_SIZE
        /\ \A k \in RobIndex \ {head} : Used(k) => ROB[head].id < ROB[k].id
        /\ Before(head) = {}
    BY <1>1, <1>4, <2>1, RetireRing
  <2> QED BY <1>2, <2>2
<1>6. ROB'[h] = EmptyEntry /\ (\A k \in RobIndex \ {h} : ROB'[k] = ROB[k])
      /\ ROB' \in [RobIndex -> RobEntry]
  <2> HIDE DEF EmptyEntry
  <2> QED BY <1>1, <1>2, <1>4, EmptyFacts
<1>7. ~Used(h)' /\ ~IsMemory(h)' BY <1>6, EmptyFacts DEF Used, IsMemory
<1>8. \A k \in RobIndex \ {h} : /\ Used(k)' <=> Used(k)
                                /\ IsMemory(k)' <=> IsMemory(k)
                                /\ Before(k)' = Before(k) \ {h}
  <2>1. \A k \in RobIndex \ {h} : (Used(k)' <=> Used(k)) /\ (IsMemory(k)' <=> IsMemory(k))
    BY <1>6 DEF Used, IsMemory
  <2>2. \A k \in RobIndex \ {h} : Before(k)' = Before(k) \ {h} BY <1>6, <1>7, <2>1 DEF Before
  <2> QED BY <2>1, <2>2
\* The instruction that retires has no memory operation left.
<1>9. ~LoadIsLeft(h) /\ ~StoreIsLeft(h)
  <2>1. CASE IsMemory(h)
    <3>1. ROB[h].num_mem_ops = 0 BY <1>1, <1>4, <2>1 DEF NoneIsLeft
    <3>2. LoadIsLeft(h) \/ StoreIsLeft(h) => ROB[h].num_mem_ops > 0
      BY <1>1, <1>4, LeftIsCounted
    <3> QED BY <3>1, <3>2
  <2>2. CASE ~IsMemory(h) BY <2>2 DEF IsMemory, LoadIsLeft, StoreIsLeft
  <2> QED BY <2>1, <2>2
<1>10. \A m \in LqIndex : LQ[m].id # Nothing => LQ[m].rob_index \in RobIndex \ {h}
  <2>1. ASSUME NEW m \in LqIndex, LQ[m].id # Nothing, LQ[m].rob_index = h PROVE FALSE
    <3>1. ROB[h].id = LQ[m].id /\ ROB[h].source_added /\ ROB[h].lq_index = m
      BY <1>1, <2>1 DEF LqLinks
    <3>2. ROB[h].i.source_memory # Nothing BY <1>1, <3>1 DEF SlotsAreSound
    <3> QED BY <1>9, <3>1, <3>2 DEF LoadIsLeft
  <2> QED BY <1>1, <2>1 DEF LsqEntry
<1>11. ROB[h].i.destination_memory # Nothing => Executed(h)
  BY <1>9 DEF StoreIsLeft, Executed
<1>12. /\ ROB[h].destination_added <=> ROB[h].sq_index # Nothing
       /\ ROB[h].destination_added => /\ ROB[h].sq_index \in SqIndex /\ h \in Stores
                                      /\ SQ[ROB[h].sq_index].fetched
  <2>1. IF ROB[h].destination_added
        THEN ROB[h].i.destination_memory # Nothing /\ ROB[h].sq_index \in SqIndex
        ELSE ROB[h].sq_index = Nothing
    BY <1>1 DEF SlotsAreSound
  <2>2. Nothing \notin SqIndex BY RingSizes, NothingIsNoNumber
  <2> QED BY <1>4, <1>11, <2>1, <2>2 DEF Stores, Executed
<1>13. PICK gone : gone = ROB[h].sq_index OBVIOUS
<1> DEFINE added == ROB[h].destination_added
<1>14. /\ SQ' = IF added THEN [SQ EXCEPT ![gone] = EmptyLsq] ELSE SQ
       /\ SQ_head' = IF added THEN (first + 1) % SQ_SIZE ELSE first
  BY <1>3, <1>4, <1>12, <1>13
<1>15. EmptyLsq \in LsqEntry /\ EmptyLsq.id = Nothing BY RingSizes DEF EmptyLsq, LsqEntry
<1>16. added => gone \in SqIndex /\ h \in Stores /\ SQ[gone].fetched BY <1>12, <1>13
<1> HIDE DEF added
<1>17. /\ SQ' \in [SqIndex -> LsqEntry]
       /\ \A s \in SqIndex : SQ'[s] = IF added /\ s = gone THEN EmptyLsq ELSE SQ[s]
  <2> HIDE DEF EmptyLsq
  <2> QED BY <1>1, <1>14, <1>15, <1>16
<1>18. Stores' = Stores \ {h} /\ (~added => h \notin Stores)
  <2>1. Stores' = Stores \ {h} BY <1>6, <1>7, <1>8 DEF Stores
  <2>2. ~added => h \notin Stores BY DEF Stores, added
  <2> QED BY <2>1, <2>2
<1>19. \A k \in Stores \ {h} : /\ k \in RobIndex \ {h} /\ Used(k) /\ ROB[k].sq_index \in SqIndex
                               /\ ROB'[k] = ROB[k] /\ (added => ROB[k].sq_index # gone)
                               /\ SQ'[ROB[k].sq_index] = SQ[ROB[k].sq_index]
  <2>1. ASSUME NEW k \in Stores \ {h}
        PROVE  /\ k \in RobIndex \ {h} /\ Used(k) /\ ROB[k].sq_index \in SqIndex
               /\ ROB'[k] = ROB[k] /\ (added => ROB[k].sq_index # gone)
               /\ SQ'[ROB[k].sq_index] = SQ[ROB[k].sq_index]
    <3>1. k \in RobIndex \ {h} /\ Used(k) /\ ROB[k].destination_added BY DEF Stores
    <3>2. ROB[k].sq_index \in SqIndex BY <1>1, <3>1 DEF SlotsAreSound
    <3>3. SQ[ROB[k].sq_index].rob_index = k BY <1>1 DEF SqLinks
    <3>4. added => SQ[gone].rob_index = h BY <1>1, <1>13, <1>16 DEF SqLinks
    <3>5. added => ROB[k].sq_index # gone BY <3>1, <3>3, <3>4
    <3> QED BY <1>6, <1>17, <3>1, <3>2, <3>5
  <2> QED BY <2>1
<1>20. \A k \in RobIndex \ {h} : Executed(k)' <=> Executed(k)
  <2>1. ASSUME NEW k \in RobIndex \ {h} PROVE Executed(k)' <=> Executed(k)
    <3>1. ROB'[k] = ROB[k] BY <1>6
    <3>2. CASE ROB[k].destination_added
      <4>1. k \in Stores \ {h} BY <1>1, <3>2 DEF Stores, SlotsAreSound
      <4> QED BY <1>19, <3>1, <4>1 DEF Executed
    <3>3. CASE ~ROB[k].destination_added BY <3>1, <3>3 DEF Executed
    <3> QED BY <3>2, <3>3
  <2> QED BY <2>1
<1>21. \A k \in RobIndex \ {h} : (StoreIsLeft(k)' <=> StoreIsLeft(k)) /\ (LoadIsLeft(k)' <=> LoadIsLeft(k))
  <2>1. \A k \in RobIndex :
          StoreIsLeft(k) <=> ROB[k].i.destination_memory # Nothing /\ ~Executed(k)
    BY DEF StoreIsLeft, Executed
  <2>2. \A k \in RobIndex :
          StoreIsLeft(k)' <=> ROB'[k].i.destination_memory # Nothing /\ ~Executed(k)'
    BY DEF StoreIsLeft, Executed
  <2>3. \A k \in RobIndex \ {h} : LoadIsLeft(k)' <=> LoadIsLeft(k) BY <1>4, <1>6 DEF LoadIsLeft
  <2> QED BY <1>6, <1>20, <2>1, <2>2, <2>3
<1>22. SlotsAreSound'
  <2>1. ~ (EmptyEntry.num_reg_dependent > 0) /\ EmptyEntry.num_reg_dependent <= 0 BY EmptyFacts
  <2>2. ASSUME NEW k \in RobIndex
        PROVE  (/\ ~Used(k) => /\ ~IsMemory(k) /\ ROB[k].executed = "no" /\ ROB[k].num_reg_dependent <= 0
                               /\ ~ROB[k].source_added /\ ~ROB[k].destination_added
                /\ ROB[k].num_reg_dependent > 0 => ROB[k].executed = "no"
                /\ ROB[k].reg_ready => ROB[k].num_reg_dependent <= 0
                /\ ROB[k].scheduled = "no" => ROB[k].executed = "no"
                /\ ROB[k].source_added => /\ ROB[k].i.source_memory # Nothing
                                          /\ ROB[k].lq_index \in LqIndex
                /\ IF ROB[k].destination_added
                   THEN ROB[k].i.destination_memory # Nothing /\ ROB[k].sq_index \in SqIndex
                   ELSE ROB[k].sq_index = Nothing)'
    <3>1. CASE k = h BY <1>6, <1>7, <2>1, <3>1, EmptyFacts
    <3>2. CASE k # h BY <1>1, <1>6, <1>8, <3>2 DEF SlotsAreSound
    <3> QED BY <3>1, <3>2
  <2> QED BY <2>2 DEF SlotsAreSound
<1>23. RteInv'
  <2>1. SeqSet(RTE0) \subseteq RobIndex /\ SeqSet(RTE1) \subseteq RobIndex BY <1>1, SeqElements
  <2>2. \A k \in RobIndex : ToExecute(k) => k # h /\ ToExecute(k)'
    BY <1>4, <1>6, <1>8 DEF ToExecute
  <2>3. UNCHANGED <<RTE0, RTE1>> BY <1>4 DEF rte
  <2>4. SeqSet(RTE0)' = SeqSet(RTE0) /\ SeqSet(RTE1)' = SeqSet(RTE1) BY <2>3 DEF SeqSet
  <2> QED BY <1>1, <2>1, <2>2, <2>3, <2>4 DEF RteInv
<1>24. StaInv' BY <1>1, <1>4, <1>18, <1>19 DEF StaInv
<1>25. SqLinks'
  <2>1. ASSUME NEW k \in Stores'
        PROVE  (/\ SQ[ROB[k].sq_index].id = ROB[k].id /\ SQ[ROB[k].sq_index].rob_index = k
                /\ SQ[ROB[k].sq_index].virtual_address = ROB[k].i.destination_memory)'
    <3>1. k \in Stores /\ k \in Stores \ {h} BY <1>18
    <3>2. /\ SQ[ROB[k].sq_index].id = ROB[k].id /\ SQ[ROB[k].sq_index].rob_index = k
          /\ SQ[ROB[k].sq_index].virtual_address = ROB[k].i.destination_memory
      BY <1>1, <3>1 DEF SqLinks
    <3> QED BY <1>19, <3>1, <3>2
  <2>2. ASSUME NEW s \in SqIndex, SQ'[s].id # Nothing
        PROVE  SQ'[s].rob_index \in Stores' /\ ROB'[SQ'[s].rob_index].sq_index = s
    <3>1. SQ'[s] = SQ[s] /\ ~ (added /\ s = gone) BY <1>15, <1>17, <2>2
    <3>2. SQ[s].rob_index \in Stores /\ ROB[SQ[s].rob_index].sq_index = s
      BY <1>1, <2>2, <3>1 DEF SqLinks
    <3>3. SQ[s].rob_index # h BY <1>13, <1>18, <3>1, <3>2
    <3> QED BY <1>18, <1>19, <3>1, <3>2, <3>3
  <2> QED BY <2>1, <2>2 DEF SqLinks
<1>26. SqRing' /\ SQ_head' \in SqIndex
  <2>1. IsFiniteSet(Stores) /\ Cardinality(Stores) \in Nat BY FiniteSlots DEF Stores
  <2>2. \A k \in Stores : (ROB[k].sq_index - first) % SQ_SIZE = Cardinality(Stores \cap Before(k))
    BY <1>1, <1>3 DEF SqRing
  <2>3. SQ_tail' = (first + Cardinality(Stores)) % SQ_SIZE BY <1>1, <1>3, <1>4 DEF SqRing
  <2>4. CASE added
    <3>1. /\ SQ_SIZE \in Nat /\ SQ_SIZE > 0 /\ first \in 0..(SQ_SIZE - 1)
          /\ \A s : s \in SqIndex <=> s \in 0..(SQ_SIZE - 1)
      BY RingSizes DEF SqIndex
    <3>2. /\ (first + 1) % SQ_SIZE \in 0..(SQ_SIZE - 1)
          /\ \A s \in 0..(SQ_SIZE - 1) :
               /\ (s - ((first + 1) % SQ_SIZE)) % SQ_SIZE
                    = IF s = first THEN SQ_SIZE - 1 ELSE ((s - first) % SQ_SIZE) - 1
               /\ (s - first) % SQ_SIZE \in 0..(SQ_SIZE - 1)
               /\ ((s - first) % SQ_SIZE = 0 <=> s = first)
          /\ \A n \in 1..SQ_SIZE :
               (((first + 1) % SQ_SIZE) + (n - 1)) % SQ_SIZE = (first + n) % SQ_SIZE
      BY <3>1, RingMoves, Zenon
    <3>3. SQ_head' = (first + 1) % SQ_SIZE BY <1>14, <2>4
    <3>4. h \in Stores /\ gone \in SqIndex /\ gone = first
      <4>1. Stores \cap Before(h) = {} BY <1>5
      <4>2. Cardinality(Stores \cap Before(h)) = 0 BY <4>1, FS_EmptySet
      <4>3. (gone - first) % SQ_SIZE = 0 BY <1>13, <1>16, <2>2, <2>4, <4>2
      <4> QED BY <1>16, <2>4, <3>1, <3>2, <4>3
    <3>5. Cardinality(Stores') = Cardinality(Stores) - 1
      BY <1>18, <2>1, <3>4, FS_RemoveElement
    <3>6. Cardinality(Stores) \in 1..SQ_SIZE
      <4>1. Cardinality(Stores) # 0 BY <2>1, <3>4, FS_EmptySet
      <4>2. Cardinality(Stores) <= SQ_SIZE
        <5> DEFINE f == [k \in Stores |-> ROB[k].sq_index]
        <5>1. \A k \in Stores : ROB[k].sq_index \in SqIndex /\ SQ[ROB[k].sq_index].rob_index = k
          BY <1>1 DEF SqLinks, SlotsAreSound, Stores
        <5>2. IsInjective(f)
          <6>1. ASSUME NEW a \in Stores, NEW b \in Stores, f[a] = f[b] PROVE a = b
            <7>1. ROB[a].sq_index = ROB[b].sq_index BY <6>1
            <7> QED BY <5>1, <7>1
          <6> QED BY <6>1 DEF IsInjective
        <5>3. f \in Injection(Stores, SqIndex) BY <5>1, <5>2 DEF Injection
        <5>4. IsFiniteSet(SqIndex) /\ Cardinality(SqIndex) \in Nat /\ Cardinality(SqIndex) <= SQ_SIZE
          BY FiniteSlots
        <5>5. Cardinality(Stores) <= Cardinality(SqIndex) BY <5>3, <5>4, FS_Injection
        <5> QED BY <2>1, <3>1, <5>4, <5>5
      <4> QED BY <2>1, <3>1, <4>1, <4>2
    <3>7. SQ_tail' = (SQ_head' + Cardinality(Stores')) % SQ_SIZE
      <4>1. (((first + 1) % SQ_SIZE) + (Cardinality(Stores) - 1)) % SQ_SIZE
              = (first + Cardinality(Stores)) % SQ_SIZE
        BY <3>2, <3>6
      <4> QED BY <2>3, <3>3, <3>5, <4>1
    <3>8. ASSUME NEW k \in Stores'
          PROVE  (ROB'[k].sq_index - SQ_head') % SQ_SIZE = Cardinality(Stores' \cap Before(k)')
      <4>1. k \in Stores \ {h} /\ k \in RobIndex /\ Used(k) BY <1>18, <1>19
      <4>2. PICK s \in 0..(SQ_SIZE - 1) : s = ROB[k].sq_index BY <1>19, <3>1, <4>1
      <4>3. ROB'[k].sq_index = s /\ s # first BY <1>19, <2>4, <3>4, <4>1, <4>2
      <4>4. (s - ((first + 1) % SQ_SIZE)) % SQ_SIZE = ((s - first) % SQ_SIZE) - 1
        BY <3>2, <4>3
      <4>5. (s - first) % SQ_SIZE = Cardinality(Stores \cap Before(k)) BY <2>2, <4>1, <4>2
      <4>6. Stores' \cap Before(k)' = (Stores \cap Before(k)) \ {h} BY <1>8, <1>18, <4>1
      <4>7. h \in Stores \cap Before(k) BY <1>4, <1>5, <3>4, <4>1 DEF Before
      <4>8. IsFiniteSet(Stores \cap Before(k)) BY <2>1, FS_Intersection
      <4>9. Cardinality(Stores' \cap Before(k)') = Cardinality(Stores \cap Before(k)) - 1
        BY <4>6, <4>7, <4>8, FS_RemoveElement
      <4> QED BY <3>3, <4>3, <4>4, <4>5, <4>9
    <3>9. SQ_head' \in SqIndex BY <3>1, <3>2, <3>3
    <3> QED BY <3>7, <3>8, <3>9 DEF SqRing
  <2>5. CASE ~added
    <3>1. Stores' = Stores /\ h \notin Stores /\ SQ_head' = first BY <1>14, <1>18, <2>5
    <3>2. \A k \in Stores : /\ ROB'[k] = ROB[k] /\ Stores' \cap Before(k)' = Stores \cap Before(k)
      BY <1>8, <1>19, <3>1
    <3> QED BY <2>2, <2>3, <3>1, <3>2 DEF SqRing
  <2> QED BY <2>4, <2>5
<1>27. LqLinks' BY <1>1, <1>4, <1>6, <1>10 DEF LqLinks
<1>28. LoadPlaces'
  <2>1. LoadsOnTheirWay' = LoadsOnTheirWay BY <1>4 DEF LoadsOnTheirWay
  <2> QED BY <1>1, <1>4, <2>1, LoadPlacesFrame
<1>29. StorePlaces'
  <2>1. ToStore' = ToStore BY <1>15, <1>16, <1>17 DEF ToStore
  <2> QED BY <1>1, <1>4, <2>1, StorePlacesFrame
<1>30. MemOps'
  <2>1. ASSUME NEW k \in RobIndex, Used(k)'
        PROVE  (ROB[k].num_mem_ops
                  = (IF LoadIsLeft(k) THEN 1 ELSE 0) + (IF StoreIsLeft(k) THEN 1 ELSE 0))'
    <3>1. k \in RobIndex \ {h} /\ Used(k) BY <1>7, <1>8, <2>1
    <3>2. ROB[k].num_mem_ops
            = (IF LoadIsLeft(k) THEN 1 ELSE 0) + (IF StoreIsLeft(k) THEN 1 ELSE 0)
      BY <1>1, <3>1 DEF MemOps
    <3> QED BY <1>6, <1>21, <3>1, <3>2
  <2> QED BY <2>1 DEF MemOps
<1>31. NoneIsLeft' BY <1>1, <1>6, <1>7, <1>8 DEF NoneIsLeft
<1>32. Counters'
  <2>1. MemExecuting' = MemExecuting BY <1>4, <1>6, <1>7, <1>8 DEF MemExecuting
  <2>2. RegExecuting' = RegExecuting BY <1>4, <1>6, <1>8, EmptyFacts DEF RegExecuting
  <2> QED BY <1>1, <1>4, <2>1, <2>2 DEF Counters
<1>33. DependInv'
  <2>1. ASSUME NEW k \in RobIndex, (Used(k) /\ ~Executed(k))', NEW m \in ROB'[k].memory_depend
        PROVE  WaitsFor(m, k)'
    <3>1. k \in RobIndex \ {h} /\ Used(k) /\ ~Executed(k) /\ ROB'[k] = ROB[k]
      BY <1>6, <1>7, <1>8, <1>20, <2>1
    <3>2. WaitsFor(m, k) /\ m \in RobIndex BY <1>1, <2>1, <3>1 DEF DependInv, RobEntry
    <3>3. m # h
      <4>1. SUFFICES ASSUME m = h PROVE FALSE OBVIOUS
      <4>2. ROB[h].source_added /\ LQ[ROB[h].lq_index].id = ROB[h].id
        BY <3>2, <4>1 DEF WaitsFor
      <4>3. ROB[h].i.source_memory # Nothing BY <1>1, <4>2 DEF SlotsAreSound
      <4> QED BY <1>9, <4>2, <4>3 DEF LoadIsLeft
    <3>4. ROB'[m] = ROB[m] /\ (Used(m)' <=> Used(m)) BY <1>6, <1>8, <3>2, <3>3
    <3> QED BY <1>4, <3>1, <3>2, <3>4 DEF WaitsFor
  <2> QED BY <2>1 DEF DependInv
<1>34. ProducerInv'
  <2>1. ASSUME NEW l \in LqIndex, LQ'[l].id # Nothing
        PROVE  (LET n == LQ[l].rob_index
                    stores == StoresBefore(n, LQ[l].virtual_address)
                IN IF LQ[l].producer_id = Nothing THEN stores = {}
                   ELSE \E k \in stores : /\ \A m \in stores : ROB[m].id <= ROB[k].id
                                          /\ LQ[l].producer_id = ROB[k].id
                                          /\ n \in ROB[k].memory_depend /\ ~Executed(k))'
    <3> DEFINE n == LQ[l].rob_index
               word == LQ[l].virtual_address
               stores == StoresBefore(n, word)
    <3>1. LQ'[l] = LQ[l] /\ LQ[l].id # Nothing BY <1>4, <2>1
    <3>2. n \in RobIndex \ {h} BY <1>10, <3>1
    <3>3. StoresBefore(n, word)' = stores \ {h}
      <4>1. Before(n)' = Before(n) \ {h} BY <1>4, <1>8, <3>2
      <4>2. StoresBefore(n, word)' = {k \in Before(n)' : ROB'[k].i.destination_memory = word}
        BY <1>4 DEF StoresBefore
      <4>3. Before(n) \subseteq RobIndex BY DEF Before
      <4> QED BY <1>6, <4>1, <4>2, <4>3 DEF StoresBefore
    <3>4. \A m \in stores : m \in RobIndex BY DEF StoresBefore, Before
    <3>5. IF LQ[l].producer_id = Nothing THEN stores = {}
          ELSE \E k \in stores : /\ \A m \in stores : ROB[m].id <= ROB[k].id
                                 /\ LQ[l].producer_id = ROB[k].id
                                 /\ n \in ROB[k].memory_depend /\ ~Executed(k)
      BY <1>1, <3>1 DEF ProducerInv
    <3>6. \A k \in stores : ~Executed(k) => k # h
      <4>1. word # Nothing
        <5>1. ROB[n].source_added /\ word = ROB[n].i.source_memory BY <1>1, <3>1 DEF LqLinks
        <5> QED BY <1>1, <3>2, <5>1 DEF SlotsAreSound
      <4>2. \A k \in stores : ROB[k].i.destination_memory = word BY DEF StoresBefore
      <4> QED BY <1>11, <4>1, <4>2
    <3>7. \A m \in stores \ {h} : ROB'[m] = ROB[m] /\ (Executed(m)' <=> Executed(m))
      BY <1>6, <1>20, <3>4
    <3> HIDE DEF stores
    <3> QED BY <1>4, <3>1, <3>3, <3>5, <3>6, <3>7
  <2> QED BY <2>1 DEF ProducerInv
<1>35. LsqTypes' BY <1>1, <1>4, <1>17, <1>26 DEF LsqTypes
<1>36. RobTypes' BY <1>1, <1>4, <1>5, <1>6 DEF RobTypes, rte
<1> QED BY <1>5, <1>22, <1>23, <1>24, <1>25, <1>26, <1>27, <1>28, <1>29, <1>30, <1>31, <1>32,
           <1>33, <1>34, <1>35, <1>36
        DEF CoreInv, CoreTypes

(***************************************************************************)
(* The invariant holds in every state.                                     *)
(***************************************************************************)
LEMMA CoreInitially ==
  ASSUME CoreInit
  PROVE  CoreInv
<1>1. /\ trace \in Programs /\ instr_unique_id = 0 /\ fetch_stall = "no"
      /\ ROB = [i \in RobIndex |-> EmptyEntry] /\ head = 0 /\ tail = 0 /\ occupancy = 0
      /\ last_read = ROB_SIZE - 1 /\ last_fetch = ROB_SIZE - 1 /\ next_schedule = 0
      /\ LQ = [l \in LqIndex |-> EmptyLsq] /\ SQ = [s \in SqIndex |-> EmptyLsq]
      /\ SQ_head = 0 /\ SQ_tail = 0
  BY DEF CoreInit
<1>2. /\ STA = <<>> /\ RTE0 = <<>> /\ RTE1 = <<>>
      /\ RTS0 = <<>> /\ RTS1 = <<>> /\ RTL0 = <<>> /\ RTL1 = <<>>
      /\ inflight_reg_executions = 0 /\ inflight_mem_executions = 0
      /\ itlb = {} /\ l1i = {} /\ dtlb_load = {} /\ dtlb_store = {} /\ l1d = {}
  BY DEF CoreInit
<1>3. /\ 0 \in RobIndex /\ ROB_SIZE - 1 \in RobIndex /\ 0 \in SqIndex
      /\ 0 % ROB_SIZE = 0 /\ 0 % SQ_SIZE = 0 /\ 0 <= ROB_SIZE /\ ROB_SIZE \in Nat
  BY RingSizes DEF RobIndex, SqIndex
<1>4. trace \in Seq(Instruction) /\ Len(trace) \in Nat BY <1>1, ProgramsAssumption
<1>5. EmptyLsq \in LsqEntry /\ EmptyLsq.id = Nothing BY <1>3 DEF EmptyLsq, LsqEntry
<1>6. ASSUME NEW i \in RobIndex PROVE ROB[i] = EmptyEntry BY <1>1
<1>7. /\ \A l \in LqIndex : LQ[l].id = Nothing
      /\ \A s \in SqIndex : SQ[s].id = Nothing
  BY <1>1, <1>5
<1>8. \A i \in RobIndex :
        /\ ~Used(i) /\ ~IsMemory(i) /\ ROB[i].executed = "no" /\ ROB[i].num_reg_dependent = 0
        /\ ~ROB[i].source_added /\ ~ROB[i].destination_added /\ ROB[i].sq_index = Nothing
  BY <1>6, EmptyFacts DEF Used, IsMemory
<1>9. \A s : s = <<>> => SeqSet(s) = {} /\ IsInjective(s) BY DEF SeqSet, IsInjective
<1>10. RobTypes
  <2>1. ROB \in [RobIndex -> RobEntry] BY <1>1, EmptyFacts
  <2>2. "no" \in {"no", "yes", "resumes"} OBVIOUS
  <2>3. instr_unique_id \in 0..Len(trace) /\ occupancy \in 0..ROB_SIZE BY <1>1, <1>3, <1>4
  <2> QED BY <1>1, <1>2, <1>3, <1>4, <2>1, <2>2, <2>3 DEF RobTypes
<1>11. LsqTypes BY <1>1, <1>2, <1>3, <1>5 DEF LsqTypes
<1>12. RobRing
  <2>1. ASSUME NEW i \in RobIndex PROVE ROB[i].id = Nothing /\ ~ (Age(i) < occupancy)
    <3>1. Age(i) \in Nat BY <1>10, AgeValue DEF RobTypes
    <3> QED BY <1>1, <1>6, <3>1, EmptyFacts
  <2> QED BY <1>1, <1>3, <2>1 DEF RobRing
<1>13. SlotsAreSound
  <2>1. \A i \in RobIndex : ~ROB[i].reg_ready BY <1>6, EmptyFacts
  <2> QED BY <1>8, <2>1 DEF SlotsAreSound
<1>14. Stores = {} BY <1>8 DEF Stores
<1>15. RteInv /\ LoadPlaces /\ StorePlaces
  <2>1. LoadsOnTheirWay = {} BY <1>7 DEF LoadsOnTheirWay
  <2> QED BY <1>2, <1>9, <2>1 DEF RteInv, LoadPlaces, StorePlaces
<1>16. StaInv
  <2>1. \A n \in 1..Len(STA) : FALSE BY <1>2
  <2> QED BY <2>1 DEF StaInv
<1>17. SqLinks /\ LqLinks /\ ProducerInv BY <1>7, <1>14 DEF SqLinks, LqLinks, ProducerInv
<1>18. SqRing
  <2>1. SQ_tail = (SQ_head + Cardinality({})) % SQ_SIZE BY <1>1, <1>3, FS_EmptySet
  <2> QED BY <1>14, <2>1 DEF SqRing
<1>19. MemOps /\ NoneIsLeft /\ DependInv BY <1>8 DEF MemOps, NoneIsLeft, DependInv
<1>20. Counters
  <2>1. MemExecuting = {} /\ RegExecuting = {} BY <1>8 DEF MemExecuting, RegExecuting
  <2> QED BY <1>2, <2>1, FS_EmptySet DEF Counters
<1> QED BY <1>10, <1>11, <1>12, <1>13, <1>15, <1>16, <1>17, <1>18, <1>19, <1>20
        DEF CoreInv, CoreTypes

LEMMA CoreStepKeeps ==
  ASSUME CoreInv, [CoreNext]_core_vars
  PROVE  CoreInv'
<1>1. CASE HandleBranch BY <1>1, BranchKeeps
<1>2. CASE ResumeFetch \/ TranslateInstruction BY <1>2, ReadsKeep
<1>3. CASE FetchInstruction \/ InstructionTranslated \/ InstructionFetched BY <1>3, FetchKeeps
<1>4. CASE ScheduleInstruction BY <1>4, CoreScheduleKeeps
<1>5. CASE ExecuteInstruction BY <1>5, ExecuteKeeps
<1>6. CASE ScheduleMemoryInstruction BY <1>6, MemoryKeeps
<1>7. CASE TranslateStore \/ TranslateLoad \/ ExecuteLoad \/ DataTranslated BY <1>7, MovesKeep
<1>8. CASE ExecuteStore BY <1>8, ExecuteStoreKeeps
<1>9. CASE DataFetched BY <1>9, DataFetchedKeeps
<1>10. CASE CompleteExecution BY <1>10, CompleteKeeps
<1>11. CASE RetireRob BY <1>11, RetireKeeps
<1>12. CASE UNCHANGED core_vars
  <2>1. UNCHANGED <<ROB, head, tail, occupancy, last_read, last_fetch, next_schedule, LQ, SQ,
          SQ_head, SQ_tail, STA, RTE0, RTE1, RTS0, RTS1, RTL0, RTL1, trace, instr_unique_id,
          fetch_stall, inflight_reg_executions, inflight_mem_executions, itlb, l1i, dtlb_load,
          dtlb_store, l1d>>
    BY <1>12 DEF core_vars, ring, reads, lsq, rte, ready, counters, below
  <2>2. SameIds /\ SameMemory /\ SameExecution BY <2>1, SameRob
  <2>3. LoadPlaces' /\ StorePlaces' BY <2>1, PlacesFrame DEF CoreInv
  <2>4. LsqTypes' BY <2>1 DEF CoreInv, CoreTypes, LsqTypes
  <2>5. RobTypes' BY <2>1 DEF CoreInv, CoreTypes, RobTypes
  <2>6. UNCHANGED <<rte, counters>> BY <2>1 DEF rte, counters
  <2> QED BY <2>1, <2>2, <2>3, <2>4, <2>5, <2>6, QuietKeeps DEF CoreInv, CoreTypes
<1> QED BY <1>1, <1>2, <1>3, <1>4, <1>5, <1>6, <1>7, <1>8, <1>9, <1>10, <1>11, <1>12 DEF CoreNext

\* In every state the slots, the queues, the rings of indexes and the counters
\* say the same about what each instruction of the reorder buffer has left to do.
THEOREM CoreInvariance == CoreSpec => []CoreInv
<1>1. CoreInit => CoreInv BY CoreInitially
<1>2. CoreInv /\ [CoreNext]_core_vars => CoreInv' BY CoreStepKeeps
<1> QED BY <1>1, <1>2, PTL DEF CoreSpec

LEMMA InvariantGivesRings == CoreInv => RingsAgree
<1> SUFFICES ASSUME CoreInv PROVE RingsAgree OBVIOUS
<1>1. /\ RobTypes /\ LsqTypes /\ RobRing /\ SqLinks /\ SqRing /\ LqLinks /\ LoadPlaces /\ MemOps
      /\ Counters
  BY DEF CoreInv, CoreTypes
<1>2. LoadsHaveOneOwner
  <2> DEFINE places == <<SeqSet(RTL0), dtlb_load, SeqSet(RTL1), l1d>>
  <2>1. /\ places[1] = SeqSet(RTL0) /\ places[2] = dtlb_load /\ places[3] = SeqSet(RTL1)
        /\ places[4] = l1d
    OBVIOUS
  <2> HIDE DEF places
  <2>2. \A n \in 1..4 : n = 1 \/ n = 2 \/ n = 3 \/ n = 4 OBVIOUS
  <2>3. 1 \in 1..4 /\ 2 \in 1..4 /\ 3 \in 1..4 /\ 4 \in 1..4 OBVIOUS
  <2>4. UNION {places[n] : n \in 1..4} = LoadsOnTheirWay
    <3>1. ASSUME NEW l PROVE l \in UNION {places[n] : n \in 1..4} <=> \E n \in 1..4 : l \in places[n]
      OBVIOUS
    <3>2. ASSUME NEW l
          PROVE  (\E n \in 1..4 : l \in places[n])
                   <=> l \in SeqSet(RTL0) \cup dtlb_load \cup SeqSet(RTL1) \cup l1d
      BY <2>1, <2>2, <2>3
    <3>3. SeqSet(RTL0) \cup dtlb_load \cup SeqSet(RTL1) \cup l1d = LoadsOnTheirWay
      BY <1>1 DEF LoadPlaces
    <3> QED BY <3>1, <3>2, <3>3
  <2>5. ASSUME NEW m \in 1..4, NEW n \in 1..4, m # n PROVE places[m] \cap places[n] = {}
    <3>1. /\ places[1] \cap places[2] = {} /\ places[1] \cap places[3] = {}
          /\ places[1] \cap places[4] = {} /\ places[2] \cap places[3] = {}
          /\ places[2] \cap places[4] = {} /\ places[3] \cap places[4] = {}
      BY <1>1, <2>1 DEF LoadPlaces
    <3> QED BY <2>2, <2>5, <3>1
  <2>6. ASSUME NEW l \in LqIndex, LQ[l].id # Nothing
        PROVE  ROB[LQ[l].rob_index].id = LQ[l].id /\ ROB[LQ[l].rob_index].lq_index = l
    BY <1>1, <2>6 DEF LqLinks
  <2>7. IsInjective(RTL0) /\ IsInjective(RTL1) BY <1>1 DEF LoadPlaces
  <2> QED BY <2>4, <2>5, <2>6, <2>7 DEF LoadsHaveOneOwner, places
<1>3. RobCountsMemOps
  BY <1>1 DEF RobCountsMemOps, MemOps, Counters, MemExecuting, RegExecuting
<1>4. StoreQueueIsARing
  <2>1. \A i \in Stores : i \in RobIndex /\ Older(i) = Before(i) BY <1>1, OlderIsBefore DEF Stores
  <2>2. \A i \in Stores : /\ SQ[ROB[i].sq_index].id = ROB[i].id
                          /\ (ROB[i].sq_index - SQ_head) % SQ_SIZE = Cardinality(Stores \cap Older(i))
    BY <1>1, <2>1 DEF SqLinks, SqRing
  <2>3. \A s \in SqIndex : SQ[s].id # Nothing => \E i \in Stores : ROB[i].sq_index = s
    BY <1>1 DEF SqLinks
  <2>4. SQ_tail = (SQ_head + Cardinality(Stores)) % SQ_SIZE BY <1>1 DEF SqRing
  <2> QED BY <2>2, <2>3, <2>4 DEF StoreQueueIsARing, Stores
<1> QED BY <1>2, <1>3, <1>4 DEF RingsAgree

\* The load queue, the store queue and the reorder buffer agree on the loads
\* and stores that are left, and the counters that gate update_rob (ooo_cpu.cc)
\* count what executes.
THEOREM RingsAlwaysAgree == CoreSpec => []RingsAgree
BY CoreInvariance, InvariantGivesRings, PTL

LEMMA InvariantGivesStores == CoreInv => LoadsGetTheYoungestStore
<1> SUFFICES ASSUME CoreInv, NEW l \in LqIndex, LQ[l].id # Nothing
             PROVE  LET stores == {k \in Older(LQ[l].rob_index) :
                                     ROB[k].i.destination_memory = LQ[l].virtual_address}
                    IN IF LQ[l].producer_id = Nothing THEN stores = {}
                       ELSE \E k \in stores :
                              /\ Youngest(stores, k) /\ LQ[l].producer_id = ROB[k].id
                              /\ ROB[k].destination_added =>
                                   /\ ~SQ[ROB[k].sq_index].fetched
                                   /\ LQ[l].rob_index \in Dependents(ROB[k].sq_index)
  BY DEF LoadsGetTheYoungestStore
<1>1. /\ RobTypes /\ LsqTypes /\ RobRing /\ SqLinks /\ LqLinks /\ ProducerInv
  BY DEF CoreInv, CoreTypes
<1> DEFINE i == LQ[l].rob_index
           w == LQ[l].virtual_address
<1>2. i \in RobIndex BY <1>1 DEF LsqTypes, LsqEntry
<1>3. ROB[i].id = LQ[l].id /\ ROB[i].source_added /\ w = ROB[i].i.source_memory
  BY <1>1 DEF LqLinks
<1>4. Used(i) BY <1>3 DEF Used
<1>5. IF LQ[l].producer_id = Nothing THEN StoresBefore(i, w) = {}
      ELSE \E k \in StoresBefore(i, w) :
             /\ \A n \in StoresBefore(i, w) : ROB[n].id <= ROB[k].id
             /\ LQ[l].producer_id = ROB[k].id /\ i \in ROB[k].memory_depend /\ ~Executed(k)
  BY <1>1 DEF ProducerInv
<1> HIDE DEF i, w
<1>6. StoresBefore(i, w) = {k \in Older(i) : ROB[k].i.destination_memory = w}
  <2>1. Older(i) = Before(i) BY <1>1, <1>2, <1>4, OlderIsBefore
  <2> QED BY <2>1 DEF StoresBefore
<1>7. /\ StoresBefore(i, w) \subseteq RobIndex
      /\ \A k \in StoresBefore(i, w) : Used(k) /\ ROB[k].i.destination_memory = w
  BY DEF StoresBefore, Before
<1>8. ASSUME LQ[l].producer_id # Nothing
      PROVE  \E k \in StoresBefore(i, w) :
               /\ Youngest(StoresBefore(i, w), k) /\ LQ[l].producer_id = ROB[k].id
               /\ ROB[k].destination_added => /\ ~SQ[ROB[k].sq_index].fetched
                                              /\ i \in Dependents(ROB[k].sq_index)
  <2>1. PICK k \in StoresBefore(i, w) :
          /\ \A n \in StoresBefore(i, w) : ROB[n].id <= ROB[k].id
          /\ LQ[l].producer_id = ROB[k].id /\ i \in ROB[k].memory_depend /\ ~Executed(k)
    BY <1>5, <1>8
  <2>2. Youngest(StoresBefore(i, w), k) BY <1>1, <1>7, <2>1, YoungestHasLastId
  <2>3. ASSUME ROB[k].destination_added
        PROVE  ~SQ[ROB[k].sq_index].fetched /\ i \in Dependents(ROB[k].sq_index)
    <3>1. k \in Stores BY <1>7, <2>3 DEF Stores
    <3>2. /\ SQ[ROB[k].sq_index].rob_index = k
          /\ SQ[ROB[k].sq_index].virtual_address = ROB[k].i.destination_memory
      BY <1>1, <3>1 DEF SqLinks
    <3>3. i \in ROB[SQ[ROB[k].sq_index].rob_index].memory_depend BY <2>1, <3>2
    <3>4. ROB[i].i.source_memory = SQ[ROB[k].sq_index].virtual_address BY <1>3, <1>7, <3>2
    <3> QED BY <1>3, <2>1, <2>3, <3>3, <3>4 DEF Executed, Dependents
  <2> QED BY <2>1, <2>2, <2>3
<1> QED BY <1>5, <1>6, <1>8 DEF i, w

\* A load that is sent to memory has no older store to its word in the reorder
\* buffer; one that is not waits for the youngest of those, which will find it
\* (mem_RAW_dependency and execute_store, ooo_cpu.cc).
THEOREM LoadsAlwaysGetTheYoungestStore == CoreSpec => []LoadsGetTheYoungestStore
BY CoreInvariance, InvariantGivesStores, PTL
=============================================================================
