----------------------------- MODULE BasicMain -----------------------------
(***************************************************************************)
(* The main loop of the basic simulator (src/main.cc) and its page tables. *)
(* In each iteration every core in turn runs one cycle, unless a page      *)
(* fault stalls it, and is then checked for the end of its warmup and of   *)
(* its simulation.  va_to_pa is called by the STLB of a core for a read    *)
(* miss; it maps a page to a frame, or takes the frame of another page.    *)
(*                                                                         *)
(* Of a core, what matters here is what it retires (module BasicCore) and  *)
(* its STLB, one set of translations; of the caches (module BasicCache),   *)
(* nothing: that a swap drops the blocks of the frame from them is left    *)
(* out.  A stall_cycle or event_cycle becomes the cycles left until it.    *)
(* page_queue and the counters of faults and pages are never read.         *)
(***************************************************************************)
EXTENDS Integers, Sequences, FiniteSets, FiniteSetsExt, Functions

CONSTANTS NUM_CPUS, VPages,
          DRAM_PAGES,
          MaxFrame,               \* bound: frame numbers
          Adjacent,               \* what 1 << (rand() % 10) may be
          STLB_WAY, STLB_LATENCY,
          PAGE_TABLE_LATENCY, SWAP_LATENCY,
          warmup_instructions, simulation_instructions, RETIRE_WIDTH

Cpus   == 0..NUM_CPUS - 1
Pages  == Cpus \X VPages          \* unique_vpage with the bits of the core on top
Frames == 0..MaxFrame

ASSUME MainAssumption ==
  /\ {NUM_CPUS, DRAM_PAGES, STLB_WAY, simulation_instructions, RETIRE_WIDTH} \subseteq Nat \ {0}
  /\ VPages \subseteq Nat \ {0} /\ DRAM_PAGES <= MaxFrame /\ Adjacent \subseteq Nat \ {0}
  /\ warmup_instructions \in Nat
  /\ STLB_LATENCY \in Nat /\ PAGE_TABLE_LATENCY \in Nat /\ SWAP_LATENCY \in Nat
\* 8, 100 and 100000: a translation is in the STLB before the core goes on.
ASSUME LatencyAssumption == STLB_LATENCY <= PAGE_TABLE_LATENCY /\ STLB_LATENCY <= SWAP_LATENCY

VARIABLES
  page_table, inverse_table,      \* page -> frame, frame -> page
  previous_ppage, num_adjacent_page,
  STLB,                           \* core -> virtual page -> frame
  MSHR,                           \* core -> misses of the STLB, all of them answered
  stall,                          \* core -> cycles that it is stalled for
  num_retired, begin_sim_instr, finish_sim_instr,
  warmup_complete, all_warmup_complete,
  simulation_complete, all_simulation_complete, run_simulation,
  turn, pc,                       \* the core, and how far its iteration is
  taken                           \* history: pages that another core has swapped out
tables == <<page_table, inverse_table, previous_ppage, num_adjacent_page, taken>>
tlbs   == <<STLB, MSHR>>
phases == <<begin_sim_instr, finish_sim_instr, warmup_complete, all_warmup_complete,
            simulation_complete, all_simulation_complete, run_simulation>>
vars   == <<tables, tlbs, stall, num_retired, phases, turn, pc>>

Init ==
  /\ page_table = << >> /\ inverse_table = << >> /\ previous_ppage = 0 /\ num_adjacent_page = 0
  /\ STLB = [c \in Cpus |-> << >>] /\ MSHR = [c \in Cpus |-> << >>]
  /\ stall = [c \in Cpus |-> 0] /\ num_retired = [c \in Cpus |-> 0]
  /\ begin_sim_instr = [c \in Cpus |-> warmup_instructions]
  /\ finish_sim_instr = [c \in Cpus |-> 0]
  /\ warmup_complete = [c \in Cpus |-> FALSE] /\ all_warmup_complete = 0
  /\ simulation_complete = [c \in Cpus |-> FALSE] /\ all_simulation_complete = 0
  /\ run_simulation = TRUE /\ turn = 0 /\ pc = "run" /\ taken = {}
-----------------------------------------------------------------------------
(* va_to_pa, for a page that has no frame *)

With(f, k, v)  == [x \in DOMAIN f \cup {k} |-> IF x = k THEN v ELSE f[x]]
Without(f, k)  == [x \in DOMAIN f \ {k} |-> f[x]]
allocated_pages == Cardinality(DOMAIN page_table)

\* The first frame that is tried, and whether it is at random.  num_adjacent_page is
\* unsigned: from 0 it goes to its maximum, here -1.
NextAdjacent(fragmented) == IF fragmented THEN num_adjacent_page' \in Adjacent
                            ELSE num_adjacent_page' = num_adjacent_page - 1
Allocate(page, frame) ==
  LET next == previous_ppage + 1
      adjacent == num_adjacent_page > 0 /\ next \notin DOMAIN inverse_table
  IN  /\ frame \in Frames \ DOMAIN inverse_table
      /\ adjacent => frame = next
      /\ page_table' = With(page_table, page, frame)
      /\ inverse_table' = With(inverse_table, frame, page)
      /\ previous_ppage' = frame /\ NextAdjacent(~adjacent) /\ UNCHANGED taken

\* recent_page is never filled, so the victim is the first page of the map.
First(pages) == CHOOSE p \in pages : \A q \in pages : p[1] < q[1] \/ (p[1] = q[1] /\ p[2] <= q[2])
NRU_vpage    == First(DOMAIN page_table)
\* (mutant) the inverse table keeps the page that was swapped out
KeepInverse(page, frame) == inverse_table
Renamed(page, frame)     == With(inverse_table, frame, page)
Swap(page) ==
  LET frame == page_table[NRU_vpage]
  IN  /\ page_table' = With(Without(page_table, NRU_vpage), page, frame)
      /\ inverse_table' = Renamed(page, frame)
      /\ taken' = (taken \cup (IF NRU_vpage[1] # page[1] THEN {NRU_vpage} ELSE {})) \ {page}
      /\ UNCHANGED <<previous_ppage, num_adjacent_page>>

\* CACHE::invalidate_entry of the core's own STLB.  Its entries are tagged without the
\* bits of the core, so only a page of core 0 is found.
Invalidated(tlb, page) == IF page[1] = 0 THEN Without(tlb, page[2]) ELSE tlb

\* The latencies are 0 until finish_warmup.
Latency(cycles) == IF all_warmup_complete > NUM_CPUS THEN cycles ELSE 0
\* (mutant) a page fault does not stall the core
NoStall(c, cycles) == UNCHANGED stall
Stall(c, cycles)   == stall' = [stall EXCEPT ![c] = Latency(cycles)]
-----------------------------------------------------------------------------
(* STLB.operate: at most one fill, then at most one read (MAX_FILL and MAX_READ are 1) *)

Due(c) == MSHR[c] # << >> /\ Head(MSHR[c]).left = 0
AfterFill(c) == IF Due(c) THEN Tail(MSHR[c]) ELSE MSHR[c]
FilledTlbs(c) ==
  IF ~Due(c) THEN {STLB[c]}
  ELSE LET m    == Head(MSHR[c])
           kept == DOMAIN STLB[c] \ {m.vpage}
       IN  {With(Restrict(STLB[c], k), m.vpage, m.ppage) :
              k \in {k \in SUBSET kept : Cardinality(k) = Min({Cardinality(kept), STLB_WAY - 1})}}

\* A read that hits, or whose miss is under way.
NoWalk(c, tlb) ==
  /\ STLB' = [STLB EXCEPT ![c] = tlb] /\ MSHR' = [MSHR EXCEPT ![c] = AfterFill(c)]
  /\ UNCHANGED <<tables, stall>>

Answer(c, v) == [MSHR EXCEPT ![c] = Append(AfterFill(c),
                   [vpage |-> v, ppage |-> page_table'[<<c, v>>], left |-> Latency(STLB_LATENCY)])]
Misses(c, v, tlb) == v \notin DOMAIN tlb /\ \A k \in DOMAIN AfterFill(c) : AfterFill(c)[k].vpage # v

Found(c, v, tlb) ==
  /\ <<c, v>> \in DOMAIN page_table /\ UNCHANGED tables
  /\ STLB' = [STLB EXCEPT ![c] = tlb] /\ MSHR' = Answer(c, v) /\ Stall(c, PAGE_TABLE_LATENCY)
MinorFault(c, v, tlb) ==
  /\ <<c, v>> \notin DOMAIN page_table /\ allocated_pages < DRAM_PAGES
  /\ \E frame \in Frames : Allocate(<<c, v>>, frame)
  /\ STLB' = [STLB EXCEPT ![c] = tlb] /\ MSHR' = Answer(c, v) /\ Stall(c, PAGE_TABLE_LATENCY)
MajorFault(c, v, tlb) ==
  /\ <<c, v>> \notin DOMAIN page_table /\ allocated_pages >= DRAM_PAGES /\ Swap(<<c, v>>)
  /\ STLB' = [STLB EXCEPT ![c] = Invalidated(tlb, NRU_vpage)]
  /\ MSHR' = Answer(c, v) /\ Stall(c, SWAP_LATENCY)

OperateSTLB(c) ==
  \E tlb \in FilledTlbs(c) :
     \/ NoWalk(c, tlb)
     \/ \E v \in VPages : /\ Misses(c, v, tlb)
                          /\ Found(c, v, tlb) \/ MinorFault(c, v, tlb) \/ MajorFault(c, v, tlb)
-----------------------------------------------------------------------------
(* One core's part of an iteration *)

\* bound: a core that waits for the others does not count on.
Limit(c) == RETIRE_WIDTH + (IF all_warmup_complete > NUM_CPUS
                            THEN begin_sim_instr[c] + simulation_instructions ELSE warmup_instructions)
Retire(c, n) == /\ num_retired[c] + n <= Limit(c)
                /\ num_retired' = [num_retired EXCEPT ![c] = @ + n]

\* (mutant) the clock does not move while the core is stalled
NoSooner(n) == n
Sooner(n) == Max({0, n - 1})
Aged(c)   == [k \in DOMAIN MSHR[c] |-> [MSHR[c][k] EXCEPT !.left = Sooner(@)]]

\* current_core_cycle[c]++
NextCycle ==
  /\ pc = "cycle" /\ pc' = "run"
  /\ stall' = [stall EXCEPT ![turn] = Sooner(@)] /\ MSHR' = [MSHR EXCEPT ![turn] = Aged(turn)]
  /\ UNCHANGED <<tables, STLB, num_retired, phases, turn>>
Stalled == /\ pc = "run" /\ stall[turn] > 0 /\ pc' = "check"
           /\ UNCHANGED <<tables, tlbs, stall, num_retired, phases, turn>>
Run(n)  == /\ pc = "run" /\ stall[turn] = 0 /\ pc' = "check"
           /\ OperateSTLB(turn) /\ Retire(turn, n) /\ UNCHANGED <<phases, turn>>

\* check for warmup, finish_warmup
WarmNow == num_retired[turn] > warmup_instructions
NowWarm == all_warmup_complete + IF ~warmup_complete[turn] /\ WarmNow THEN 1 ELSE 0
\* (mutant) only the core that was last begins to measure
BeginOwn == [begin_sim_instr EXCEPT ![turn] = num_retired[turn]]
BeginAll == num_retired
CheckWarmup ==
  /\ pc = "check" /\ pc' = "simulated"
  /\ warmup_complete' = [warmup_complete EXCEPT ![turn] = @ \/ WarmNow]
  /\ IF NowWarm = NUM_CPUS
     THEN all_warmup_complete' = NUM_CPUS + 1 /\ begin_sim_instr' = BeginAll
     ELSE all_warmup_complete' = NowWarm /\ UNCHANGED begin_sim_instr
  /\ UNCHANGED <<tables, tlbs, stall, num_retired, finish_sim_instr, simulation_complete,
                 all_simulation_complete, run_simulation, turn>>

\* simulation complete
Completes == /\ all_warmup_complete > NUM_CPUS /\ ~simulation_complete[turn]
             /\ num_retired[turn] >= begin_sim_instr[turn] + simulation_instructions
Finish == /\ simulation_complete' = [simulation_complete EXCEPT ![turn] = TRUE]
          /\ finish_sim_instr' = [finish_sim_instr EXCEPT ![turn] = num_retired[turn] - begin_sim_instr[turn]]
          /\ all_simulation_complete' = all_simulation_complete + 1

\* The loop over the cores goes on when the simulation is over.
CheckSimulation ==
  /\ pc = "simulated"
  /\ IF Completes THEN Finish
     ELSE UNCHANGED <<simulation_complete, finish_sim_instr, all_simulation_complete>>
  /\ run_simulation' = (run_simulation /\ all_simulation_complete' # NUM_CPUS)
  /\ turn' = (turn + 1) % NUM_CPUS
  /\ pc' = IF turn' = 0 /\ ~run_simulation' THEN "done" ELSE "cycle"
  /\ UNCHANGED <<tables, tlbs, stall, num_retired, begin_sim_instr, warmup_complete, all_warmup_complete>>

Done == pc = "done" /\ UNCHANGED vars

Loop == NextCycle \/ Stalled \/ (\E n \in 0..RETIRE_WIDTH : Run(n)) \/ CheckWarmup \/ CheckSimulation
Next == Loop \/ Done
Spec == Init /\ [][Next]_vars
-----------------------------------------------------------------------------
(* Properties *)

\* va_to_pa keeps two tables and counts adjacent pages down in an unsigned number: the
\* tables are inverse to each other whatever is allocated and swapped, no more pages are
\* in use than there are, and the count never goes below 0.
TablesAgree ==
  /\ \A p \in DOMAIN page_table :
       page_table[p] \in DOMAIN inverse_table /\ inverse_table[page_table[p]] = p
  /\ Cardinality(DOMAIN inverse_table) = allocated_pages /\ allocated_pages <= DRAM_PAGES
  /\ num_adjacent_page >= 0

\* "invalidate corresponding vpage and ppage from the cache hierarchy" (main.cc:367), as
\* far as the code goes: of the pages that no other core has swapped out, the STLB of
\* core 0 knows the frame they have now.  A translation on its way into the STLB is out
\* of reach of invalidate_entry; the stall of the core keeps the next fault away from it.
TranslationsAreCurrent ==
  \A v \in DOMAIN STLB[0] :
    <<0, v>> \notin taken => <<0, v>> \in DOMAIN page_table /\ page_table[<<0, v>>] = STLB[0][v]

\* "this part is called only once when all cores are warmed up" (main.cc:833): whichever
\* core is last, every core is measured over simulation_instructions, and less than one
\* cycle's retirements more, of the instructions it retires after the warmup of them all.
CoresAreMeasuredAlike ==
  \A c \in Cpus :
    /\ all_warmup_complete > NUM_CPUS => begin_sim_instr[c] > warmup_instructions
    /\ simulation_complete[c] =>
         finish_sim_instr[c] \in simulation_instructions..simulation_instructions + RETIRE_WIDTH - 1
    /\ ~run_simulation => simulation_complete[c]

\* A core that is called when it is not stalled goes on retiring (BasicCore).
FairSpec == /\ Spec /\ WF_vars(Loop)
            /\ \A c \in Cpus : SF_vars(turn = c /\ \E n \in 1..RETIRE_WIDTH : Run(n))

\* Page faults stall the cores one by one, and those that are done go on, but the
\* simulation ends.
SimulationEnds == <>(pc = "done")
=============================================================================
