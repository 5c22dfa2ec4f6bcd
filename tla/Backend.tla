------------------------------ MODULE Backend ------------------------------
(***************************************************************************)
(* The back end of O3_CPU (src/ooo_cpu.cc): instructions leave the         *)
(* dispatch buffer in program order, enter the ROB and their loads and     *)
(* stores the LQ and the SQ, execute out of order and retire in order.     *)
(* O3_CPU::operate calls the stages once per cycle in this order:          *)
(*                                                                         *)
(*   retire    retire_rob                                                  *)
(*   complete  complete_inflight_instruction                               *)
(*   execute   execute_instruction                                         *)
(*   schedule  schedule_instruction                                        *)
(*   memory    handle_memory_return: the answers of the L1D                *)
(*   finish    operate_lsq: stores that have executed                      *)
(*   store     operate_lsq: retired stores are written                     *)
(*   load      operate_lsq: loads are issued                               *)
(*   dispatch  dispatch_instruction                                        *)
(*   place     do_memory_scheduling of the instruction just dispatched     *)
(*                                                                         *)
(* instr_id counts from 1.  An event_cycle becomes `left', the cycles      *)
(* until it comes, -1 when it is past.  The front end is module FrontEnd.  *)
(***************************************************************************)
EXTENDS Integers, Sequences, SequencesExt, FiniteSets, FiniteSetsExt

CONSTANTS Registers, Addresses, BlockOf,      \* BlockOf: address >> LOG2_BLOCK_SIZE
          Instructions,                       \* the kinds of instruction in the trace
          DISPATCH_BUFFER_SIZE, ROB_SIZE, LQ_SIZE, SQ_SIZE, SCHEDULER_SIZE,
          RETIRE_WIDTH, EXEC_WIDTH, DISPATCH_WIDTH, LQ_WIDTH, SQ_WIDTH, L1D_BANDWIDTH,
          SCHEDULING_LATENCY, EXEC_LATENCY, DISPATCH_LATENCY,
          L1D_SIZE,                           \* capacity of the L1D's queues
          TraceLength                         \* bound: instructions in the trace

Slots == 1..LQ_SIZE
Ids   == 1..TraceLength
None  == 0                                    \* no producer
NoLoad == [instr_id |-> None]                 \* an empty slot of LQ
instr_type == [source_registers : SUBSET Registers, destination_registers : SUBSET Registers,
               source_memory : Seq(Addresses), destination_memory : Seq(Addresses)]

\* No instruction has more memory operands than the queues have entries: it could
\* never be dispatched.
ASSUME BackendAssumption ==
  /\ \A n \in Instructions :
       n \in instr_type /\ Len(n.source_memory) <= LQ_SIZE /\ Len(n.destination_memory) <= SQ_SIZE
  /\ {DISPATCH_BUFFER_SIZE, ROB_SIZE, LQ_SIZE, SQ_SIZE, SCHEDULER_SIZE} \subseteq Nat \ {0}
  /\ {RETIRE_WIDTH, EXEC_WIDTH, DISPATCH_WIDTH, LQ_WIDTH, SQ_WIDTH} \subseteq Nat \ {0}
  /\ {L1D_BANDWIDTH, L1D_SIZE} \subseteq Nat \ {0}
  /\ {SCHEDULING_LATENCY, EXEC_LATENCY, DISPATCH_LATENCY, TraceLength} \subseteq Nat

VARIABLES
  pc, bw,              \* the stage, and the bandwidth it has left
  warmup,
  trace,               \* the instructions decoded so far, by instr_id
  DISPATCH_BUFFER, ROB, LQ, SQ,
  reg_producers,       \* register -> its unfinished producers, which are kept in program order
  todo,                \* addresses the instruction just dispatched still has to load
  asked, returned,     \* L1D: blocks asked for, blocks answered
  written, taken       \* stores written to the L1D, and how many of them it has taken

queues == <<LQ, SQ>>
L1D    == <<asked, returned, written, taken>>
vars   == <<pc, bw, warmup, trace, DISPATCH_BUFFER, ROB, queues, reg_producers, todo, L1D>>
-----------------------------------------------------------------------------
rob_type == [instr_id : Ids, scheduled : BOOLEAN, executed : {"no", "INFLIGHT", "COMPLETED"},
             left : Int, completed_mem_ops : Nat, num_reg_dependent : Nat,
             registers_instrs_depend_on_me : SUBSET Ids]
load_type  == [instr_id : Ids, address : Addresses, left : Int, fetch_issued : BOOLEAN,
               producer_id : Ids \cup {None}]
store_type == [instr_id : Ids, address : Addresses, left : Int, fetch_issued : BOOLEAN,
               lq_depend_on_me : SUBSET Slots]

Latency(n) == IF warmup THEN 0 ELSE n
Sooner(n)  == IF n < 0 THEN n ELSE n - 1
GoTo(stage, n) == pc' = stage /\ bw' = n
First(S) == {i \in S : \A j \in S : i <= j}

num_mem_ops(id) == Len(trace[id].source_memory) + Len(trace[id].destination_memory)
Used == {s \in Slots : LQ[s] # NoLoad}

Init ==
  /\ pc = "idle" /\ bw = 0 /\ warmup \in BOOLEAN
  /\ trace = <<>> /\ DISPATCH_BUFFER = <<>> /\ ROB = <<>>
  /\ LQ = [s \in Slots |-> NoLoad] /\ SQ = <<>>
  /\ reg_producers = [r \in Registers |-> {}] /\ todo = <<>>
  /\ asked = <<>> /\ returned = <<>> /\ written = <<>> /\ taken = 0
-----------------------------------------------------------------------------
(* idle: the front end and the L1D run *)

\* do_init_instruction: an instruction fetched during the warmup loses its registers.
Bare(n) == [n EXCEPT !.source_registers = {}, !.destination_registers = {}]

\* decode_instruction, at the end of the cycle that is just over
Decode(n) ==
  /\ pc = "idle" /\ Len(DISPATCH_BUFFER) < DISPATCH_BUFFER_SIZE /\ Len(trace) < TraceLength
  /\ trace' = Append(trace, IF warmup THEN Bare(n) ELSE n)
  /\ DISPATCH_BUFFER' = Append(DISPATCH_BUFFER, [instr_id |-> Len(trace) + 1,
                                                left |-> Sooner(Latency(DISPATCH_LATENCY))])
  /\ UNCHANGED <<pc, bw, warmup, ROB, queues, reg_producers, todo, L1D>>

\* The L1D answers a load, or merges it with another one of its block.
L1DAnswers(i) ==
  /\ pc = "idle" /\ i \in DOMAIN asked
  /\ asked' = RemoveAt(asked, i)
  /\ returned' = Append(returned, asked[i]) \/ (asked[i] \in ToSet(asked') /\ UNCHANGED returned)
  /\ UNCHANGED <<pc, bw, warmup, trace, DISPATCH_BUFFER, ROB, queues, reg_producers, todo,
                 written, taken>>

L1DTakesWrite ==
  /\ pc = "idle" /\ taken < Len(written) /\ taken' = taken + 1
  /\ UNCHANGED <<pc, bw, warmup, trace, DISPATCH_BUFFER, ROB, queues, reg_producers, todo,
                 asked, returned, written>>

EndWarmup ==
  /\ pc = "idle" /\ warmup /\ warmup' = FALSE
  /\ UNCHANGED <<pc, bw, trace, DISPATCH_BUFFER, ROB, queues, reg_producers, todo, L1D>>

StartCycle ==
  /\ pc = "idle" /\ GoTo("retire", RETIRE_WIDTH)
  /\ UNCHANGED <<warmup, trace, DISPATCH_BUFFER, ROB, queues, reg_producers, todo, L1D>>
-----------------------------------------------------------------------------
(* retire_rob: the completed prefix of the ROB *)

Retirable == {i \in DOMAIN ROB : i = 1 /\ ROB[i].executed = "COMPLETED"}

Retire(i) ==
  /\ pc = "retire" /\ bw > 0 /\ i \in Retirable
  /\ ROB' = RemoveAt(ROB, i) /\ bw' = bw - 1
  /\ UNCHANGED <<pc, warmup, trace, DISPATCH_BUFFER, queues, reg_producers, todo, L1D>>

EndRetire ==
  /\ pc = "retire" /\ (bw > 0 => Retirable = {}) /\ GoTo("complete", EXEC_WIDTH)
  /\ UNCHANGED <<warmup, trace, DISPATCH_BUFFER, ROB, queues, reg_producers, todo, L1D>>
-----------------------------------------------------------------------------
(* complete_inflight_instruction: oldest first *)

MemOpsDone(e) == e.completed_mem_ops = num_mem_ops(e.instr_id)
Completable == {i \in DOMAIN ROB : ROB[i].executed = "INFLIGHT" /\ ROB[i].left <= 0
                                   /\ MemOpsDone(ROB[i])}

\* do_complete_execution
Complete(i) ==
  /\ pc = "complete" /\ bw > 0 /\ i \in First(Completable)
  /\ LET e == ROB[i]
     IN /\ ROB' = [j \in DOMAIN ROB |->
              IF j = i THEN [e EXCEPT !.executed = "COMPLETED"]
              ELSE IF ROB[j].instr_id \in e.registers_instrs_depend_on_me
              THEN [ROB[j] EXCEPT !.num_reg_dependent = @ - 1]
              ELSE ROB[j]]
        /\ reg_producers' = [r \in Registers |->
              IF r \in trace[e.instr_id].destination_registers
              THEN reg_producers[r] \ {e.instr_id} ELSE reg_producers[r]]
  /\ bw' = bw - 1
  /\ UNCHANGED <<pc, warmup, trace, DISPATCH_BUFFER, queues, todo, L1D>>

EndComplete ==
  /\ pc = "complete" /\ (bw > 0 => Completable = {}) /\ GoTo("execute", EXEC_WIDTH)
  /\ UNCHANGED <<warmup, trace, DISPATCH_BUFFER, ROB, queues, reg_producers, todo, L1D>>
-----------------------------------------------------------------------------
(* execute_instruction: what is scheduled and has its registers, oldest first *)

Executable == {i \in DOMAIN ROB : /\ ROB[i].scheduled /\ ROB[i].executed = "no"
                                  /\ ROB[i].num_reg_dependent = 0 /\ ROB[i].left <= 0}

\* do_execution
Execute(i) ==
  /\ pc = "execute" /\ bw > 0 /\ i \in First(Executable)
  /\ LET id == ROB[i].instr_id  lat == Latency(EXEC_LATENCY)
     IN /\ ROB' = [ROB EXCEPT ![i].executed = "INFLIGHT", ![i].left = lat]
        /\ LQ' = [s \in Slots |-> IF LQ[s].instr_id = id THEN [LQ[s] EXCEPT !.left = lat] ELSE LQ[s]]
        /\ SQ' = [k \in DOMAIN SQ |-> IF SQ[k].instr_id = id THEN [SQ[k] EXCEPT !.left = lat] ELSE SQ[k]]
  /\ bw' = bw - 1
  /\ UNCHANGED <<pc, warmup, trace, DISPATCH_BUFFER, reg_producers, todo, L1D>>

EndExecute ==
  /\ pc = "execute" /\ (bw > 0 => Executable = {}) /\ GoTo("schedule", 0)
  /\ UNCHANGED <<warmup, trace, DISPATCH_BUFFER, ROB, queues, reg_producers, todo, L1D>>
-----------------------------------------------------------------------------
(* schedule_instruction: among the oldest instructions not executed *)

Window == {i \in DOMAIN ROB :
             Cardinality({j \in 1..(i - 1) : ROB[j].executed = "no"}) < SCHEDULER_SIZE}
Schedulable == {i \in Window : ~ROB[i].scheduled}

\* (mutant) the oldest producer is waited for, not the last one
OldestProducers(n) == {Min(reg_producers[r]) : r \in {r \in n.source_registers : reg_producers[r] # {}}}
\* The last scheduled producer of each source register, once.
Producers(n) == {Max(reg_producers[r]) : r \in {r \in n.source_registers : reg_producers[r] # {}}}

\* do_scheduling
Schedule(i) ==
  /\ pc = "schedule" /\ i \in First(Schedulable)
  /\ LET id == ROB[i].instr_id  prior == Producers(trace[ROB[i].instr_id])
     IN /\ ROB' = [j \in DOMAIN ROB |->
              IF j = i
              THEN [ROB[j] EXCEPT !.scheduled = TRUE, !.left = Latency(SCHEDULING_LATENCY),
                                  !.num_reg_dependent = @ + Cardinality(prior)]
              ELSE IF ROB[j].instr_id \in prior
              THEN [ROB[j] EXCEPT !.registers_instrs_depend_on_me = @ \cup {id}]
              ELSE ROB[j]]
        /\ reg_producers' = [r \in Registers |->
              IF r \in trace[id].destination_registers
              THEN reg_producers[r] \cup {id} ELSE reg_producers[r]]
  /\ UNCHANGED <<pc, bw, warmup, trace, DISPATCH_BUFFER, queues, todo, L1D>>

EndSchedule ==
  /\ pc = "schedule" /\ Schedulable = {} /\ GoTo("memory", L1D_BANDWIDTH)
  /\ UNCHANGED <<warmup, trace, DISPATCH_BUFFER, ROB, queues, reg_producers, todo, L1D>>
-----------------------------------------------------------------------------
(* LSQ_ENTRY::finish of the loads in the slots S, and of a store of id *)

Finish(S, id) ==
  ROB' = [j \in DOMAIN ROB |->
            [ROB[j] EXCEPT !.completed_mem_ops =
               @ + Cardinality({s \in S : LQ[s].instr_id = ROB[j].instr_id})
                 + (IF ROB[j].instr_id = id THEN 1 ELSE 0)]]
\* (mutant) the slots are not emptied
ResetNothing(S) == UNCHANGED LQ
Reset(S) == LQ' = [s \in Slots |-> IF s \in S THEN NoLoad ELSE LQ[s]]

\* (mutant) an answer serves one load
AnsweredFirst(b) == First({s \in Used : LQ[s].fetch_issued /\ BlockOf[LQ[s].address] = b})
\* handle_memory_return: an answer serves every issued load of its block.
Answered(b) == {s \in Used : LQ[s].fetch_issued /\ BlockOf[LQ[s].address] = b}

MemoryReturn ==
  /\ pc = "memory" /\ bw > 0 /\ returned # <<>>
  /\ Finish(Answered(returned[1]), None) /\ Reset(Answered(returned[1]))
  /\ returned' = Tail(returned) /\ bw' = bw - 1
  /\ UNCHANGED <<pc, warmup, trace, DISPATCH_BUFFER, SQ, reg_producers, todo, asked, written, taken>>

EndMemory ==
  /\ pc = "memory" /\ (bw > 0 => returned = <<>>) /\ GoTo("finish", SQ_WIDTH)
  /\ UNCHANGED <<warmup, trace, DISPATCH_BUFFER, ROB, queues, reg_producers, todo, L1D>>
-----------------------------------------------------------------------------
(* operate_lsq *)

\* The first store that has not finished, if it is due.
Finishable == {k \in First({k \in DOMAIN SQ : ~SQ[k].fetch_issued}) : SQ[k].left <= 0}

\* do_finish_store: the loads that wait for the store are served from it.
FinishStore(k) ==
  /\ pc = "finish" /\ bw > 0 /\ k \in Finishable
  /\ Finish(SQ[k].lq_depend_on_me, SQ[k].instr_id) /\ Reset(SQ[k].lq_depend_on_me)
  /\ SQ' = [SQ EXCEPT ![k].fetch_issued = TRUE, ![k].left = 0]
  /\ bw' = bw - 1
  /\ UNCHANGED <<pc, warmup, trace, DISPATCH_BUFFER, reg_producers, todo, L1D>>

EndFinish ==
  /\ pc = "finish" /\ (bw > 0 => Finishable = {}) /\ GoTo("store", bw)
  /\ UNCHANGED <<warmup, trace, DISPATCH_BUFFER, ROB, queues, reg_producers, todo, L1D>>

\* Older than everything in the ROB.
Retired(id) == ROB # <<>> => id < ROB[1].instr_id
Storable == /\ SQ # <<>> /\ Retired(SQ[1].instr_id) /\ SQ[1].left <= 0
            /\ Len(written) - taken < L1D_SIZE

\* do_complete_store: the write queue of the L1D takes the store.
CompleteStore ==
  /\ pc = "store" /\ bw > 0 /\ Storable
  /\ written' = Append(written, SQ[1].instr_id) /\ SQ' = Tail(SQ)
  /\ bw' = bw - 1
  /\ UNCHANGED <<pc, warmup, trace, DISPATCH_BUFFER, ROB, LQ, reg_producers, todo,
                 asked, returned, taken>>

EndStore ==
  /\ pc = "store" /\ (bw > 0 => ~Storable) /\ GoTo("load", LQ_WIDTH)
  /\ UNCHANGED <<warmup, trace, DISPATCH_BUFFER, ROB, queues, reg_producers, todo, L1D>>

Loadable == {s \in Used : LQ[s].producer_id = None /\ ~LQ[s].fetch_issued /\ LQ[s].left < 0}

\* execute_load
ExecuteLoad(s) ==
  /\ pc = "load" /\ bw > 0 /\ s \in First(Loadable) /\ Len(asked) < L1D_SIZE
  /\ asked' = Append(asked, BlockOf[LQ[s].address])
  /\ LQ' = [LQ EXCEPT ![s].fetch_issued = TRUE] /\ bw' = bw - 1
  /\ UNCHANGED <<pc, warmup, trace, DISPATCH_BUFFER, ROB, SQ, reg_producers, todo,
                 returned, written, taken>>

EndLoad ==
  /\ pc = "load" /\ (bw > 0 => Loadable = {} \/ Len(asked) >= L1D_SIZE)
  /\ GoTo("dispatch", DISPATCH_WIDTH)
  /\ UNCHANGED <<warmup, trace, DISPATCH_BUFFER, ROB, queues, reg_producers, todo, L1D>>
-----------------------------------------------------------------------------
(* dispatch_instruction *)

SQRoom(n) == Len(n.destination_memory) + Len(SQ) <= SQ_SIZE
Dispatchable ==
  /\ DISPATCH_BUFFER # <<>> /\ DISPATCH_BUFFER[1].left < 0 /\ Len(ROB) # ROB_SIZE
  /\ LET n == trace[DISPATCH_BUFFER[1].instr_id]
     IN LQ_SIZE - Cardinality(Used) >= Len(n.source_memory) /\ SQRoom(n)

Dispatch ==
  /\ pc = "dispatch" /\ bw > 0 /\ Dispatchable
  /\ LET id == DISPATCH_BUFFER[1].instr_id
     IN /\ ROB' = Append(ROB, [instr_id |-> id, scheduled |-> FALSE, executed |-> "no",
                               left |-> DISPATCH_BUFFER[1].left, completed_mem_ops |-> 0,
                               num_reg_dependent |-> 0, registers_instrs_depend_on_me |-> {}])
        /\ todo' = trace[id].source_memory
  /\ DISPATCH_BUFFER' = Tail(DISPATCH_BUFFER)
  /\ GoTo("place", bw - 1)
  /\ UNCHANGED <<warmup, trace, queues, reg_producers, L1D>>

\* do_memory_scheduling of the load at todo[1]; me is its instruction.  An entry
\* starts with event_cycle 0.
me == Last(ROB).instr_id
NewLoad(producer) == [instr_id |-> me, address |-> todo[1], left |-> -1, fetch_issued |-> FALSE,
                      producer_id |-> producer]
NewStore(a) == [instr_id |-> me, address |-> a, left |-> -1, fetch_issued |-> FALSE,
                lq_depend_on_me |-> {}]

StoresTo(a) == {k \in DOMAIN SQ : SQ[k].address = a}
\* (mutant) the oldest store to the address
OldestStore(a) == {k \in StoresTo(a) : \A j \in StoresTo(a) : SQ[k].instr_id <= SQ[j].instr_id}
\* The store a load would read: the youngest one to its address.
YoungestStore(a) == {k \in StoresTo(a) : \A j \in StoresTo(a) : SQ[j].instr_id <= SQ[k].instr_id}

PlaceLoad(s) ==
  /\ pc = "place" /\ todo # <<>> /\ s \in First(Slots \ Used) /\ StoresTo(todo[1]) = {}
  /\ LQ' = [LQ EXCEPT ![s] = NewLoad(None)] /\ todo' = Tail(todo)
  /\ UNCHANGED <<pc, bw, warmup, trace, DISPATCH_BUFFER, ROB, SQ, reg_producers, L1D>>

\* The store has its data already.
ForwardLoad(k) ==
  /\ pc = "place" /\ todo # <<>> /\ k \in First(YoungestStore(todo[1])) /\ SQ[k].fetch_issued
  /\ ROB' = [ROB EXCEPT ![Len(ROB)].completed_mem_ops = @ + 1] /\ todo' = Tail(todo)
  /\ UNCHANGED <<pc, bw, warmup, trace, DISPATCH_BUFFER, queues, reg_producers, L1D>>

PlaceDependentLoad(s, k) ==
  /\ pc = "place" /\ todo # <<>> /\ s \in First(Slots \ Used)
  /\ k \in First(YoungestStore(todo[1])) /\ ~SQ[k].fetch_issued
  /\ LQ' = [LQ EXCEPT ![s] = NewLoad(SQ[k].instr_id)]
  /\ SQ' = [SQ EXCEPT ![k].lq_depend_on_me = @ \cup {s}] /\ todo' = Tail(todo)
  /\ UNCHANGED <<pc, bw, warmup, trace, DISPATCH_BUFFER, ROB, reg_producers, L1D>>

PlaceStores ==
  /\ pc = "place" /\ todo = <<>> /\ pc' = "dispatch"
  /\ LET d == trace[me].destination_memory IN SQ' = SQ \o [i \in DOMAIN d |-> NewStore(d[i])]
  /\ UNCHANGED <<bw, warmup, trace, DISPATCH_BUFFER, ROB, LQ, reg_producers, todo, L1D>>

SoonerAll(q) == [i \in DOMAIN q |-> [q[i] EXCEPT !.left = Sooner(@)]]
Tick ==
  /\ pc = "dispatch" /\ (bw > 0 => ~Dispatchable) /\ GoTo("idle", 0)
  /\ DISPATCH_BUFFER' = SoonerAll(DISPATCH_BUFFER) /\ ROB' = SoonerAll(ROB) /\ SQ' = SoonerAll(SQ)
  /\ LQ' = [s \in Slots |-> IF s \in Used THEN [LQ[s] EXCEPT !.left = Sooner(@)] ELSE NoLoad]
  /\ UNCHANGED <<warmup, trace, reg_producers, todo, L1D>>
-----------------------------------------------------------------------------
Memory == L1DTakesWrite \/ \E i \in DOMAIN asked : L1DAnswers(i)
Operate ==
  \/ StartCycle \/ EndRetire \/ EndComplete \/ EndExecute \/ EndSchedule \/ EndMemory
  \/ EndFinish \/ EndStore \/ EndLoad \/ Tick
  \/ \E i \in DOMAIN ROB : Retire(i) \/ Complete(i) \/ Execute(i) \/ Schedule(i)
  \/ \E k \in DOMAIN SQ : FinishStore(k) \/ ForwardLoad(k) \/ \E s \in Slots : PlaceDependentLoad(s, k)
  \/ \E s \in Slots : ExecuteLoad(s) \/ PlaceLoad(s)
  \/ MemoryReturn \/ CompleteStore \/ Dispatch \/ PlaceStores

Next == (\E n \in Instructions : Decode(n)) \/ Memory \/ EndWarmup \/ Operate
Spec == Init /\ [][Next]_vars
-----------------------------------------------------------------------------
(* Properties *)

TypeOK ==
  /\ pc \in {"idle", "retire", "complete", "execute", "schedule", "memory", "finish", "store",
             "load", "dispatch", "place"}
  /\ bw \in Nat /\ warmup \in BOOLEAN
  /\ trace \in Seq(instr_type) /\ Len(trace) <= TraceLength
  /\ DISPATCH_BUFFER \in Seq([instr_id : Ids, left : Int])
  /\ ROB \in Seq(rob_type) /\ Len(ROB) <= ROB_SIZE
  /\ LQ \in [Slots -> load_type \cup {NoLoad}] /\ SQ \in Seq(store_type) /\ Len(SQ) <= SQ_SIZE
  /\ reg_producers \in [Registers -> SUBSET Ids] /\ todo \in Seq(Addresses)
  /\ {asked, returned} \subseteq Seq({BlockOf[a] : a \in Addresses})
  /\ written \in Seq(Ids) /\ taken \in 0..Len(written)

\* What dispatch has not placed yet of instruction id.
Unplaced(id) == IF pc = "place" /\ id = me THEN Len(todo) + Len(trace[id].destination_memory) ELSE 0
LoadsOf(id)  == {s \in Slots : LQ[s].instr_id = id}
StoresOf(id) == {k \in DOMAIN SQ : SQ[k].instr_id = id /\ ~SQ[k].fetch_issued}
InROB(id) == \E i \in DOMAIN ROB : ROB[i].instr_id = id

\* Each memory operation of an instruction is done or waits in one place, so that
\* the instruction completes neither early nor never; LSQ_ENTRY::finish asserts
\* that it is still in the ROB and never has more operations done than it has.
MemOpsAccounted ==
  /\ \A i \in DOMAIN ROB :
       LET id == ROB[i].instr_id
       IN ROB[i].completed_mem_ops + Cardinality(LoadsOf(id)) + Cardinality(StoresOf(id))
            + Unplaced(id) = num_mem_ops(id)
  /\ \A s \in Used : InROB(LQ[s].instr_id)
  /\ \A k \in DOMAIN SQ : ~SQ[k].fetch_issued => InROB(SQ[k].instr_id)

\* do_finish_store asserts that the slots of the loads which depend on a store
\* still hold them; and no load waits for a store that does not know of it.
DependentsMatch ==
  /\ \A k \in DOMAIN SQ : ~SQ[k].fetch_issued =>
       \A s \in SQ[k].lq_depend_on_me :
         /\ s \in Used /\ LQ[s].producer_id = SQ[k].instr_id
         /\ LQ[s].address = SQ[k].address /\ ~LQ[s].fetch_issued
  /\ \A s \in Used : LQ[s].producer_id # None =>
       \E k \in DOMAIN SQ : ~SQ[k].fetch_issued /\ s \in SQ[k].lq_depend_on_me

\* A load reads the youngest older store to its address: it goes to the L1D only
\* when every such store has been written there, or else it waits for the youngest.
LoadsSeeOlderStores ==
  \A s \in Used : \A k \in DOMAIN SQ :
    SQ[k].instr_id < LQ[s].instr_id /\ SQ[k].address = LQ[s].address
      => LQ[s].producer_id # None /\ SQ[k].instr_id <= LQ[s].producer_id

\* "The scheduler can detect RAW hazards" (test 200-rob-scheduling): an instruction
\* executes only when the last older writer of each of its registers has completed.
Writers(i, r) == {j \in 1..(i - 1) : r \in trace[ROB[j].instr_id].destination_registers}
RegistersAreReady ==
  \A i \in DOMAIN ROB : ROB[i].executed # "no" =>
    \A r \in trace[ROB[i].instr_id].source_registers :
      Writers(i, r) # {} => ROB[Max(Writers(i, r))].executed = "COMPLETED"

\* Stores reach the L1D in program order, after they have retired, although they
\* execute in any order.
StoresInOrder ==
  /\ \A i, j \in DOMAIN written : i < j => written[i] <= written[j]
  /\ \A i \in DOMAIN written : ~InROB(written[i])

\* All this together: ROB, LQ, SQ and what has been written never disagree about an
\* operation, whichever ends first.
QueuesAgree == TypeOK /\ MemOpsAccounted /\ DependentsMatch /\ StoresInOrder

\* operate() is called again and again (champsim::do_phase), and so is the L1D.
FairSpec == Spec /\ WF_vars(Operate) /\ SF_vars(L1DAnswers(1)) /\ SF_vars(L1DTakesWrite)

\* ROB, LQ, SQ, the registers and the L1D never wait for each other in a circle:
\* when the trace is over everything has retired, and every store is written.
EverythingRetires == <>[](DISPATCH_BUFFER = <<>> /\ ROB = <<>> /\ SQ = <<>> /\ taken = Len(written))
=============================================================================
