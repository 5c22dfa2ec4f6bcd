------------------------------ MODULE BasicCore ------------------------------
(***************************************************************************)
(* O3_CPU of the older simulator (ChampSim基础要求/src/ooo_cpu.cc): a      *)
(* reorder buffer, which is a ring of slots, a load queue, a store queue,  *)
(* and rings of indexes that say what each slot has to do next:            *)
(*                                                                         *)
(*   STA         stores of the trace, in program order                     *)
(*   RTE0, RTE1  instructions ready to execute (after, without a wait)     *)
(*   RTS0, RTS1  stores to translate, stores to execute                    *)
(*   RTL0, RTL1  loads to translate, loads to send to the L1D              *)
(*                                                                         *)
(* main() runs the stages of a core once per cycle; each of them handles   *)
(* several slots, and a slot waits until its event_cycle.  Here an action  *)
(* handles one slot, and it may do so at any time: cycles and widths are   *)
(* left out.  ITLB, L1I, DTLB and L1D are the environment: they answer     *)
(* what was asked of them, in any order and several requests (that they    *)
(* merged) at once.  An instruction reads at most one word of memory and   *)
(* writes at most one.                                                     *)
(***************************************************************************)
EXTENDS Integers, Sequences, FiniteSets, SequencesExt

CONSTANTS Programs,        \* the traces: sequences of Instruction
          Registers, Words,
          Nothing,         \* not a word, not an instruction
          ROB_SIZE, SCHEDULER_SIZE, LQ_SIZE, SQ_SIZE

ASSUME CoreAssumption == /\ ROB_SIZE \in Nat \ {0, 1} /\ SCHEDULER_SIZE \in Nat \ {0}
                         /\ LQ_SIZE \in Nat \ {0} /\ SQ_SIZE \in Nat \ {0}
                         /\ Nothing \notin Words \cup Nat /\ IsFiniteSet(Registers)

Instruction == [source_registers : SUBSET Registers, destination_registers : SUBSET Registers,
                source_memory : Words \cup {Nothing}, destination_memory : Words \cup {Nothing},
                is_branch : BOOLEAN]
ASSUME ProgramsAssumption == Programs \subseteq Seq(Instruction)

VARIABLES trace, instr_unique_id,             \* the trace, and how much of it is read
          ROB, head, tail, occupancy,         \* the reorder buffer
          last_read, last_fetch, next_schedule,
          LQ, SQ, SQ_head, SQ_tail,
          STA, RTE0, RTE1, RTS0, RTS1, RTL0, RTL1,
          fetch_stall,                        \* "no", or "yes", or "resumes"
          inflight_reg_executions, inflight_mem_executions,
          itlb, l1i, dtlb_load, dtlb_store, l1d   \* environment: what is asked of whom

ring  == <<ROB, head, tail, occupancy>>
reads == <<last_read, last_fetch, next_schedule>>
lsq   == <<LQ, SQ, SQ_head, SQ_tail, STA, RTS0, RTS1, RTL0, RTL1>>
rte   == <<RTE0, RTE1>>
ready == <<trace, instr_unique_id, fetch_stall>>
counters == <<inflight_reg_executions, inflight_mem_executions>>
below == <<itlb, l1i, dtlb_load, dtlb_store, l1d>>
core_vars == <<ring, reads, lsq, rte, ready, counters, below>>

RobIndex == 0..(ROB_SIZE - 1)
LqIndex  == 0..(LQ_SIZE - 1)
SqIndex  == 0..(SQ_SIZE - 1)
Progress == {"no", "inflight", "completed"}
-----------------------------------------------------------------------------
\* An ooo_model_instr that was just built; one that is empty has no id.
NewEntry(id, i, mispredicted) ==
  [id |-> id, i |-> i, translated |-> "no", fetched |-> "no", scheduled |-> "no",
   executed |-> "no", reg_ready |-> FALSE, num_reg_dependent |-> 0,
   registers_depend |-> {}, memory_depend |-> {},
   num_mem_ops |-> (IF i.source_memory # Nothing THEN 1 ELSE 0)
                   + (IF i.destination_memory # Nothing THEN 1 ELSE 0),
   source_added |-> FALSE, destination_added |-> FALSE, lq_index |-> Nothing,
   sq_index |-> Nothing, branch_mispredicted |-> mispredicted]
NoInstruction == [source_registers |-> {}, destination_registers |-> {},
                  source_memory |-> Nothing, destination_memory |-> Nothing, is_branch |-> FALSE]
EmptyEntry == NewEntry(Nothing, NoInstruction, FALSE)
EmptyLsq == [id |-> Nothing, virtual_address |-> Nothing, rob_index |-> 0,
             producer_id |-> Nothing, fetched |-> FALSE]

NextRob(i) == (i + 1) % ROB_SIZE
Age(i) == (i - head) % ROB_SIZE
Used(i) == ROB[i].id # Nothing
Older(i) == {k \in RobIndex : Used(k) /\ Age(k) < Age(i)}
IsMemory(i) == \/ ROB[i].i.source_memory # Nothing
               \/ ROB[i].i.destination_memory # Nothing
Youngest(S, k) == k \in S /\ \A n \in S : Age(n) <= Age(k)

CoreInit == /\ trace \in Programs /\ instr_unique_id = 0 /\ fetch_stall = "no"
            /\ ROB = [i \in RobIndex |-> EmptyEntry] /\ head = 0 /\ tail = 0 /\ occupancy = 0
            /\ last_read = ROB_SIZE - 1 /\ last_fetch = ROB_SIZE - 1 /\ next_schedule = 0
            /\ LQ = [l \in LqIndex |-> EmptyLsq] /\ SQ = [s \in SqIndex |-> EmptyLsq]
            /\ SQ_head = 0 /\ SQ_tail = 0
            /\ STA = <<>> /\ RTE0 = <<>> /\ RTE1 = <<>>
            /\ RTS0 = <<>> /\ RTS1 = <<>> /\ RTL0 = <<>> /\ RTL1 = <<>>
            /\ inflight_reg_executions = 0 /\ inflight_mem_executions = 0
            /\ itlb = {} /\ l1i = {} /\ dtlb_load = {} /\ dtlb_store = {} /\ l1d = {}
-----------------------------------------------------------------------------
(* handle_branch *)

\* Bound: the ITLB answers for the oldest instruction before the ring is full.
NotLapped == occupancy < ROB_SIZE - 1 \/ ROB[head].translated = "completed"

AddToRob(entry) == /\ ROB' = [ROB EXCEPT ![tail] = entry]
                   /\ tail' = NextRob(tail) /\ occupancy' = occupancy + 1

\* One instruction of the trace; a branch that was predicted wrongly stops the
\* reading.
ReadInstruction(id, i) ==
  \E mispredicted \in (IF i.is_branch THEN BOOLEAN ELSE {FALSE}) :
    /\ AddToRob(NewEntry(id, i, mispredicted))
    /\ fetch_stall' = IF mispredicted THEN "yes" ELSE fetch_stall
    /\ STA' = IF i.destination_memory # Nothing THEN Append(STA, id) ELSE STA

HandleBranch ==
  /\ occupancy < ROB_SIZE /\ fetch_stall = "no" /\ NotLapped
  /\ instr_unique_id < Len(trace)
  /\ instr_unique_id' = instr_unique_id + 1
  /\ ReadInstruction(instr_unique_id', trace[instr_unique_id'])
  /\ UNCHANGED <<trace, head, reads, LQ, SQ, SQ_head, SQ_tail, RTS0, RTS1, RTL0, RTL1,
                 rte, counters, below>>

(* fetch_instruction *)

\* fetch_resume_cycle is reached.
ResumeFetch ==
  /\ fetch_stall = "resumes" /\ fetch_stall' = "no"
  /\ UNCHANGED <<ring, reads, lsq, rte, trace, instr_unique_id, counters, below>>

TranslateInstruction ==
  LET read_index == NextRob(last_read) IN
  /\ Used(read_index) /\ ROB[read_index].translated = "no"
  /\ itlb' = itlb \cup {read_index} /\ last_read' = read_index
  /\ UNCHANGED <<ring, last_fetch, next_schedule, lsq, rte, ready, counters,
                 l1i, dtlb_load, dtlb_store, l1d>>

FetchInstruction ==
  LET fetch_index == NextRob(last_fetch) IN
  /\ ROB[fetch_index].translated = "completed" /\ ROB[fetch_index].fetched = "no"
  /\ ROB' = [ROB EXCEPT ![fetch_index].fetched = "inflight"]
  /\ l1i' = l1i \cup {fetch_index} /\ last_fetch' = fetch_index
  /\ UNCHANGED <<head, tail, occupancy, last_read, next_schedule, lsq, rte, ready, counters,
                 itlb, dtlb_load, dtlb_store, l1d>>

\* complete_instr_fetch: one answer, for the instructions it was merged for.
InstructionTranslated ==
  \E S \in (SUBSET itlb) \ {{}} :
    /\ ROB' = [i \in RobIndex |-> IF i \in S THEN [ROB[i] EXCEPT !.translated = "completed"]
                                             ELSE ROB[i]]
    /\ itlb' = itlb \ S
    /\ UNCHANGED <<head, tail, occupancy, reads, lsq, rte, ready, counters,
                   l1i, dtlb_load, dtlb_store, l1d>>

InstructionFetched ==
  \E S \in (SUBSET l1i) \ {{}} :
    /\ ROB' = [i \in RobIndex |-> IF i \in S THEN [ROB[i] EXCEPT !.fetched = "completed"]
                                             ELSE ROB[i]]
    /\ l1i' = l1i \ S
    /\ UNCHANGED <<head, tail, occupancy, reads, lsq, rte, ready, counters,
                   itlb, dtlb_load, dtlb_store, l1d>>
-----------------------------------------------------------------------------
(* schedule_instruction *)

\* ROB.next_fetch[1], the end of the search, is never written: it stays 0, so
\* the search goes from the head to the end of the array and not round it.
Searched(i) == /\ Used(i) /\ i >= head /\ Age(i) < SCHEDULER_SIZE
               /\ \A k \in Older(i) \cup {i} : ROB[k].fetched = "completed"

\* reg_dependency: the nearest older instruction that has not executed and
\* writes the register.
Producers(i) ==
  {p \in RobIndex \X Registers :
     /\ p[2] \in ROB[i].i.source_registers
     /\ Youngest({n \in Older(i) : /\ ROB[n].executed # "completed"
                                   /\ p[2] \in ROB[n].i.destination_registers}, p[1])}

\* do_scheduling
ScheduleInstruction ==
  /\ ROB[next_schedule].scheduled = "no"
  /\ \E i \in RobIndex :
     /\ Searched(i) /\ ROB[i].scheduled = "no"
     /\ \A k \in Older(i) : ROB[k].scheduled # "no"
     /\ LET raw == Producers(i) IN
        /\ ROB' = [k \in RobIndex |->
             IF k = i THEN [ROB[i] EXCEPT !.reg_ready = (raw = {}),
                              !.num_reg_dependent = Cardinality(raw),
                              !.scheduled = IF IsMemory(i) THEN "inflight" ELSE "completed"]
             ELSE [ROB[k] EXCEPT !.registers_depend =
                     @ \cup {i} \X {r \in Registers : <<k, r>> \in raw}]]
        /\ RTE1' = IF raw = {} /\ ~IsMemory(i) THEN Append(RTE1, i) ELSE RTE1
     /\ next_schedule' = NextRob(i)
  /\ UNCHANGED <<head, tail, occupancy, last_read, last_fetch, lsq, RTE0, ready, counters, below>>

(* execute_instruction *)

ExecuteFrom(list) ==
  /\ list # <<>>
  /\ ROB' = [ROB EXCEPT ![Head(list)].executed = "inflight"]
  /\ inflight_reg_executions' = inflight_reg_executions + 1
  /\ UNCHANGED <<head, tail, occupancy, reads, lsq, ready, inflight_mem_executions, below>>

ExecuteInstruction == \/ ExecuteFrom(RTE0) /\ RTE0' = Tail(RTE0) /\ UNCHANGED RTE1
                      \/ ExecuteFrom(RTE1) /\ RTE1' = Tail(RTE1) /\ UNCHANGED RTE0
-----------------------------------------------------------------------------
(* schedule_memory_instruction *)

FreeLoads == {l \in LqIndex : LQ[l].id = Nothing}
CanAddLoad(i) == /\ ROB[i].i.source_memory # Nothing /\ ~ROB[i].source_added
                 /\ FreeLoads # {}
\* A store enters the store queue only as the oldest one that is not in it.
CanAddStore(i) == /\ ROB[i].i.destination_memory # Nothing /\ ~ROB[i].destination_added
                  /\ \E s \in SqIndex : SQ[s].id = Nothing
                  /\ STA # <<>> /\ Head(STA) = ROB[i].id

\* The slots that one search of the ring tries, from the head on.
Tried(i) == ROB[i].scheduled = "inflight" /\ ROB[i].reg_ready

\* (mutant) a store that has executed is passed over, as in reg_dependency.
PendingProducerOf(i) ==
  {k \in RobIndex : Youngest({n \in Older(i) :
                       /\ ROB[n].i.destination_memory = ROB[i].i.source_memory
                       /\ ROB[n].executed # "completed"}, k)}
\* mem_RAW_dependency: the nearest older store to the word that the load reads.
ProducerOf(i) ==
  {k \in RobIndex : Youngest({n \in Older(i) :
                       ROB[n].i.destination_memory = ROB[i].i.source_memory}, k)}

\* A memory operation of each of these instructions is done.
MemOpsDone(S, entries) ==
  [k \in RobIndex |-> IF k \in S THEN [entries[k] EXCEPT !.num_mem_ops = @ - 1] ELSE entries[k]]
LastOnes(S) == Cardinality({k \in S : ROB[k].num_mem_ops = 1})

AddStoreQueue(i) ==
  /\ SQ' = [SQ EXCEPT ![SQ_tail] = [EmptyLsq EXCEPT !.id = ROB[i].id, !.rob_index = i,
              !.virtual_address = ROB[i].i.destination_memory]]
  /\ SQ_tail' = (SQ_tail + 1) % SQ_SIZE
  /\ STA' = Tail(STA) /\ RTS0' = Append(RTS0, SQ_tail)

\* do_memory_scheduling: add what there is room for (add_load_queue,
\* add_store_queue).  A load that reads what a store of the ring writes gets it
\* from that store, now if the store has executed, else when it does.
AddMemoryOps(i) ==
  LET load     == CanAddLoad(i)
      store    == CanAddStore(i)
      l        == CHOOSE n \in FreeLoads : \A m \in FreeLoads : n <= m
      producer == IF load THEN ProducerOf(i) ELSE {}
      forward  == \E s \in SqIndex, k \in producer : SQ[s].id = ROB[k].id /\ SQ[s].fetched
      done     == /\ ROB[i].i.source_memory # Nothing => ROB[i].source_added \/ load
                  /\ ROB[i].i.destination_memory # Nothing => ROB[i].destination_added \/ store
      entry    == [ROB[i] EXCEPT
                     !.source_added = @ \/ load, !.destination_added = @ \/ store,
                     !.lq_index = IF load THEN l ELSE @,
                     !.sq_index = IF store THEN SQ_tail ELSE @,
                     !.scheduled = IF done THEN "completed" ELSE @,
                     !.executed = IF done /\ @ = "no" THEN "inflight" ELSE @]
      finished == IF forward THEN {i} ELSE {}
  IN /\ ROB' = MemOpsDone(finished, [k \in RobIndex |->
                  IF k = i THEN entry
                  ELSE IF k \in producer THEN [ROB[k] EXCEPT !.memory_depend = @ \cup {i}]
                  ELSE ROB[k]])
     /\ inflight_mem_executions' = inflight_mem_executions + LastOnes(finished)
     /\ LQ' = IF ~load \/ forward THEN LQ
              ELSE [LQ EXCEPT ![l] = [EmptyLsq EXCEPT !.id = ROB[i].id, !.rob_index = i,
                      !.virtual_address = ROB[i].i.source_memory,
                      !.producer_id = IF producer = {} THEN @
                                      ELSE ROB[CHOOSE k \in producer : TRUE].id]]
     /\ RTL0' = IF load /\ producer = {} THEN Append(RTL0, l) ELSE RTL0
     /\ IF store THEN AddStoreQueue(i) ELSE UNCHANGED <<SQ, SQ_tail, STA, RTS0>>

ScheduleMemoryInstruction ==
  \E i \in RobIndex :
    /\ Tried(i) /\ (CanAddLoad(i) \/ CanAddStore(i))
    /\ \A k \in Older(i) : Tried(k) => ~CanAddLoad(k) /\ ~CanAddStore(k)
    /\ Cardinality({k \in Older(i) : Tried(k)}) < SCHEDULER_SIZE
    /\ AddMemoryOps(i)
    /\ UNCHANGED <<head, tail, occupancy, reads, rte, ready, SQ_head, RTS1, RTL1,
                   inflight_reg_executions, below>>
-----------------------------------------------------------------------------
(* operate_lsq *)

TranslateStore ==
  /\ RTS0 # <<>> /\ RTS0' = Tail(RTS0) /\ dtlb_store' = dtlb_store \cup {Head(RTS0)}
  /\ UNCHANGED <<ring, reads, LQ, SQ, SQ_head, SQ_tail, STA, RTS1, RTL0, RTL1, rte, ready,
                 counters, itlb, l1i, dtlb_load, l1d>>

\* (mutant) the store wakes no load.
NoDependents(s) == {}
\* The loads that execute_store gives what the store in slot s writes.
Dependents(s) ==
  {k \in ROB[SQ[s].rob_index].memory_depend :
     ROB[k].source_added /\ ROB[k].i.source_memory = SQ[s].virtual_address}

\* (mutant) only the load that asked is released, not those merged with it.
FirstReleased(slots) ==
  [l \in LqIndex |-> IF l \in slots /\ \A n \in slots : l <= n THEN EmptyLsq ELSE LQ[l]]
\* release_load_queue, for each of these slots.
Released(slots) == [l \in LqIndex |-> IF l \in slots THEN EmptyLsq ELSE LQ[l]]

ExecuteStore ==
  /\ RTS1 # <<>> /\ RTS1' = Tail(RTS1)
  /\ LET s     == Head(RTS1)
         slots == {ROB[k].lq_index : k \in Dependents(s)}
         done  == {SQ[s].rob_index} \cup {LQ[l].rob_index : l \in slots}
     IN /\ SQ' = [SQ EXCEPT ![s].fetched = TRUE]
        /\ LQ' = Released(slots) /\ ROB' = MemOpsDone(done, ROB)
        /\ inflight_mem_executions' = inflight_mem_executions + LastOnes(done)
  /\ UNCHANGED <<head, tail, occupancy, reads, SQ_head, SQ_tail, STA, RTS0, RTL0, RTL1, rte,
                 ready, inflight_reg_executions, below>>

TranslateLoad ==
  /\ RTL0 # <<>> /\ RTL0' = Tail(RTL0) /\ dtlb_load' = dtlb_load \cup {Head(RTL0)}
  /\ UNCHANGED <<ring, reads, LQ, SQ, SQ_head, SQ_tail, STA, RTS0, RTS1, RTL1, rte, ready,
                 counters, itlb, l1i, dtlb_store, l1d>>

ExecuteLoad ==
  /\ RTL1 # <<>> /\ RTL1' = Tail(RTL1) /\ l1d' = l1d \cup {Head(RTL1)}
  /\ UNCHANGED <<ring, reads, LQ, SQ, SQ_head, SQ_tail, STA, RTS0, RTS1, RTL0, rte, ready,
                 counters, itlb, l1i, dtlb_load, dtlb_store>>

\* handle_merged_translation: each slot that shares the answer becomes ready.
MergedTranslation(S, L) ==
  \E stores \in SetToSeqs(S), loads \in SetToSeqs(L) :
    RTS1' = RTS1 \o stores /\ RTL1' = RTL1 \o loads

\* complete_data_fetch for the DTLB: one answer, for the loads and the stores
\* that it was merged for.
DataTranslated ==
  \E S \in SUBSET dtlb_store, L \in SUBSET dtlb_load :
    /\ S \cup L # {} /\ MergedTranslation(S, L)
    /\ dtlb_store' = dtlb_store \ S /\ dtlb_load' = dtlb_load \ L
    /\ UNCHANGED <<ring, reads, LQ, SQ, SQ_head, SQ_tail, STA, RTS0, RTL0, rte, ready, counters,
                   itlb, l1i, l1d>>

\* complete_data_fetch for the L1D: one answer, for the loads that were merged
\* (handle_merged_load).
DataFetched ==
  \E L \in (SUBSET l1d) \ {{}} :
    LET done == {LQ[l].rob_index : l \in L} IN
    /\ l1d' = l1d \ L /\ LQ' = Released(L) /\ ROB' = MemOpsDone(done, ROB)
    /\ inflight_mem_executions' = inflight_mem_executions + LastOnes(done)
    /\ UNCHANGED <<head, tail, occupancy, reads, SQ, SQ_head, SQ_tail, STA, RTS0, RTS1, RTL0,
                   RTL1, rte, ready, inflight_reg_executions, itlb, l1i, dtlb_load, dtlb_store>>
-----------------------------------------------------------------------------
(* update_rob and retire_rob *)

\* reg_RAW_release: what waits for the slot needs one register less.
AfterRelease(i) ==
  [k \in RobIndex |->
     LET n == ROB[k].num_reg_dependent
              - Cardinality({r \in Registers : <<k, r>> \in ROB[i].registers_depend})
     IN IF n = ROB[k].num_reg_dependent THEN ROB[k]
        ELSE [ROB[k] EXCEPT !.num_reg_dependent = n, !.reg_ready = (n = 0),
                !.scheduled = IF n > 0 THEN @
                              ELSE IF IsMemory(k) THEN "inflight" ELSE "completed"]]

\* update_rob looks at the slots only while something executes or has done its
\* memory operations.
LooksAtSlots == inflight_reg_executions > 0 \/ inflight_mem_executions > 0

\* complete_execution
CompleteExecution ==
  /\ LooksAtSlots
  /\ \E i \in RobIndex :
     /\ ROB[i].executed = "inflight" /\ (IsMemory(i) => ROB[i].num_mem_ops = 0)
     /\ LET after == AfterRelease(i)
            woken == {k \in RobIndex : ROB[k].num_reg_dependent > 0 /\ after[k].reg_ready
                                       /\ ~IsMemory(k)}
        IN /\ ROB' = [after EXCEPT ![i].executed = "completed"]
           /\ \E slots \in SetToSeqs(woken) :
                /\ \A m, n \in 1..Len(slots) : m < n => slots[m] < slots[n]
                /\ RTE0' = RTE0 \o slots
     /\ IF IsMemory(i)
        THEN /\ inflight_mem_executions' = inflight_mem_executions - 1
             /\ UNCHANGED inflight_reg_executions
        ELSE /\ inflight_reg_executions' = inflight_reg_executions - 1
             /\ UNCHANGED inflight_mem_executions
     /\ fetch_stall' = IF ROB[i].branch_mispredicted THEN "resumes" ELSE fetch_stall
  /\ UNCHANGED <<head, tail, occupancy, reads, lsq, RTE1, trace, instr_unique_id, below>>

\* retire_rob; a store needs room in the L1D's write queue, and waits for it.
RetireRob ==
  /\ Used(head) /\ ROB[head].executed = "completed"
  /\ ROB' = [ROB EXCEPT ![head] = EmptyEntry]
  /\ IF ROB[head].sq_index # Nothing
     THEN /\ SQ' = [SQ EXCEPT ![ROB[head].sq_index] = EmptyLsq]
          /\ SQ_head' = (SQ_head + 1) % SQ_SIZE
     ELSE UNCHANGED <<SQ, SQ_head>>
  /\ head' = NextRob(head) /\ occupancy' = occupancy - 1
  /\ UNCHANGED <<tail, reads, LQ, SQ_tail, STA, RTS0, RTS1, RTL0, RTL1, rte, ready, counters, below>>
-----------------------------------------------------------------------------
\* main(): the stages of a core.
CoreNext == \/ HandleBranch \/ ResumeFetch
            \/ TranslateInstruction \/ FetchInstruction
            \/ InstructionTranslated \/ InstructionFetched
            \/ ScheduleInstruction \/ ExecuteInstruction
            \/ ScheduleMemoryInstruction
            \/ TranslateStore \/ ExecuteStore \/ TranslateLoad \/ ExecuteLoad
            \/ DataTranslated \/ DataFetched
            \/ CompleteExecution \/ RetireRob

CoreSpec     == CoreInit /\ [][CoreNext]_core_vars
\* Every stage runs in every cycle and the memory answers, so that something is
\* done while something can be; no step undoes another, so this is enough.
FairCoreSpec == CoreSpec /\ WF_core_vars(CoreNext)
-----------------------------------------------------------------------------
SeqSet(s) == {s[n] : n \in 1..Len(s)}

LoadsOnTheirWay == {l \in LqIndex : LQ[l].id # Nothing /\ LQ[l].producer_id = Nothing}

\* Every load of the load queue is in one place, to be translated, at the DTLB,
\* to be executed or at the L1D, or it waits for a store; a slot that was
\* released is in none of them, so no answer reaches the slot's next user
\* (ooo_cpu.cc:1853, release_load_queue leaves every index to it behind).
LoadsHaveOneOwner ==
  LET places == <<SeqSet(RTL0), dtlb_load, SeqSet(RTL1), l1d>> IN
  /\ UNION {places[n] : n \in 1..4} = LoadsOnTheirWay
  /\ \A m, n \in 1..4 : m # n => places[m] \cap places[n] = {}
  /\ IsInjective(RTL0) /\ IsInjective(RTL1)
  /\ \A l \in LqIndex : LQ[l].id # Nothing =>
       /\ ROB[LQ[l].rob_index].id = LQ[l].id
       /\ ROB[LQ[l].rob_index].lq_index = l

LoadIsLeft(i)  == /\ ROB[i].i.source_memory # Nothing
                  /\ ROB[i].source_added => LQ[ROB[i].lq_index].id = ROB[i].id
StoreIsLeft(i) == /\ ROB[i].i.destination_memory # Nothing
                  /\ ROB[i].destination_added => ~SQ[ROB[i].sq_index].fetched

\* Loads and stores that are not done are what num_mem_ops counts, and the
\* inflight counters, which decide whether update_rob looks at the slots at
\* all, count what executes (the asserts on num_mem_ops, ooo_cpu.cc:999, 1315, 1358).
RobCountsMemOps ==
  /\ \A i \in RobIndex : Used(i) =>
       ROB[i].num_mem_ops = (IF LoadIsLeft(i) THEN 1 ELSE 0) + (IF StoreIsLeft(i) THEN 1 ELSE 0)
  /\ inflight_mem_executions =
       Cardinality({i \in RobIndex : /\ IsMemory(i) /\ ROB[i].num_mem_ops = 0
                                     /\ ROB[i].executed # "completed"})
  /\ inflight_reg_executions =
       Cardinality({i \in RobIndex : ~IsMemory(i) /\ ROB[i].executed = "inflight"})

\* A load goes to the memory only when no older store of the ring writes its
\* word; else it waits for the youngest of those, which has not executed, and
\* that store finds it when it does (the assert in execute_store, ooo_cpu.cc:1339).
LoadsGetTheYoungestStore ==
  \A l \in LqIndex : LQ[l].id # Nothing =>
    LET stores == {k \in Older(LQ[l].rob_index) :
                     ROB[k].i.destination_memory = LQ[l].virtual_address}
    IN IF LQ[l].producer_id = Nothing THEN stores = {}
       ELSE \E k \in stores :
              /\ Youngest(stores, k) /\ LQ[l].producer_id = ROB[k].id
              /\ ROB[k].destination_added => /\ ~SQ[ROB[k].sq_index].fetched
                                             /\ LQ[l].rob_index \in Dependents(ROB[k].sq_index)

\* The store queue is a ring in program order: from SQ.head on lie the stores
\* of the reorder buffer, oldest first, although retire_rob empties the slot
\* that the instruction names and moves SQ.head by itself, and the tail is free
\* when there is room (the assert in add_store_queue, ooo_cpu.cc:1078).
StoreQueueIsARing ==
  LET stores == {i \in RobIndex : Used(i) /\ ROB[i].destination_added}
      place(i) == (ROB[i].sq_index - SQ_head) % SQ_SIZE
  IN /\ \A i \in stores : /\ SQ[ROB[i].sq_index].id = ROB[i].id
                          /\ place(i) = Cardinality(stores \cap Older(i))
     /\ \A s \in SqIndex : SQ[s].id # Nothing => \E i \in stores : ROB[i].sq_index = s
     /\ SQ_tail = (SQ_head + Cardinality(stores)) % SQ_SIZE

\* All three: the queues, the counters and the reorder buffer agree on what is left to do.
RingsAgree == LoadsHaveOneOwner /\ RobCountsMemOps /\ StoreQueueIsARing

\* Every instruction of the trace is executed and retired: the five rings of
\* indexes, the two dependence lists and the counters that gate update_rob
\* never leave an instruction behind that nothing wakes (main.cc's DEADLOCK assert).
EverythingRetires == <>[](instr_unique_id = Len(trace) /\ occupancy = 0)
=============================================================================
