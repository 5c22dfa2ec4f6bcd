-------------------------------- MODULE Dram --------------------------------
(***************************************************************************)
(* One channel of the DRAM controller (src/dram_controller.cc):            *)
(* MEMORY_CONTROLLER::operate runs once per cycle and goes through the     *)
(* stages that pc names, in the order of the source:                       *)
(*                                                                         *)
(*   init   initiate_requests: packets of the upper levels enter RQ / WQ   *)
(*   flush  during warmup every request is answered at once                *)
(*   check  check_collision: WQ slots, then RQ slots, are merged/forwarded *)
(*   finish the request on the data bus is answered and leaves its slot    *)
(*   mode   read mode <-> write mode, by queue occupancy                   *)
(*   bus    a bank whose access is done takes the data bus                 *)
(*   sched  the oldest waiting request of the mode's queue takes its bank  *)
(*   tick   ++current_cycle (champsim::operable)                           *)
(*                                                                         *)
(* Absolute cycles become distances to current_cycle: `left' counts a bank *)
(* down, dbus_cycle_available counts the turn-around down, and the age of  *)
(* a request is the RANK of its event_cycle among the waiting requests of  *)
(* its queue, since the scheduler only compares event_cycles (see Aged).   *)
(***************************************************************************)
EXTENDS Integers, FiniteSets

CONSTANTS Uppers,        \* upper levels, each with a returned queue
          Blocks,        \* block addresses in use
          None,          \* not a block, not a row
          RQ_SIZE,       \* DRAM_RQ_SIZE
          WQ_SIZE,       \* DRAM_WQ_SIZE
          NumBanks,      \* DRAM_RANKS * DRAM_BANKS
          BankOf,        \* op_idx of a block: rank * DRAM_BANKS + bank
          RowOf,         \* dram_get_row of a block
          tCAS, tMISS,   \* tMISS = tRP + tRCD
          TURN_AROUND,   \* DRAM_DBUS_TURN_AROUND_TIME
          RETURN_TIME,   \* DRAM_DBUS_RETURN_TIME
          WriteCredit,   \* bound: writes the upper levels send between two answers
          Writes         \* bound: what they may write, by the credit left

RSlots == 1..RQ_SIZE
WSlots == 1..WQ_SIZE
Banks  == 0..(NumBanks - 1)
End    == NumBanks                      \* std::end(bank_request)
Rows   == {RowOf[b] : b \in Blocks}

\* With one WQ slot DRAM_WRITE_HIGH_WM is 0 and read mode can never be kept.
ASSUME SizeAssumption ==
  RQ_SIZE \in Nat \ {0} /\ WQ_SIZE \in Nat \ {0, 1}
ASSUME BankAssumption == NumBanks \in Nat \ {0} /\ BankOf \in [Blocks -> Banks]
ASSUME NoneAssumption == None \notin Blocks /\ None \notin Rows
ASSUME TimeAssumption == /\ tCAS \in Nat /\ tMISS \in Nat
                         /\ TURN_AROUND \in Nat /\ RETURN_TIME \in Nat
                         /\ WriteCredit \in Nat
ASSUME TrafficAssumption == Writes \in [1..WriteCredit -> SUBSET Blocks]

\* (mutant) write mode starts at 3/8 of the queue, below the mark where it ends
LowHighWaterMark   == (WQ_SIZE * 3) \div 8
DRAM_WRITE_HIGH_WM == (WQ_SIZE * 7) \div 8
DRAM_WRITE_LOW_WM  == (WQ_SIZE * 6) \div 8

VARIABLES
  pc,                   \* stage of operate()
  warmup,               \* operable::warmup, TRUE until the first phase ends
  RQ, WQ,               \* the two queues: slot -> request or Empty
  bank_request,         \* bank -> the request it serves, and its open row
  active_request,       \* the bank that holds the data bus, or End
  write_mode,
  dbus_cycle_available, \* cycles until the bus may be used after a turn-around
  pending,              \* environment: what each upper level waits for
  credit                \* environment: writes it may still send

queues == <<RQ, WQ>>
dram   == <<bank_request, active_request, write_mode, dbus_cycle_available>>
vars   == <<pc, warmup, RQ, WQ, bank_request, active_request, write_mode,
            dbus_cycle_available, pending, credit>>
-----------------------------------------------------------------------------
Request == [block : Blocks \cup {None}, to_return : SUBSET Uppers,
            scheduled : BOOLEAN, forward_checked : BOOLEAN, age : Nat]

\* std::nullopt
Empty == [block |-> None, to_return |-> {}, scheduled |-> FALSE,
          forward_checked |-> FALSE, age |-> 0]
Has(e) == e.block # None

NewRequest(b, ret) == [Empty EXCEPT !.block = b, !.to_return = ret]

Full(q) == \A s \in DOMAIN q : Has(q[s])
FirstFree(q, s) == ~Has(q[s]) /\ \A t \in DOMAIN q : t < s => Has(q[t])
Occupancy(q) == Cardinality({s \in DOMAIN q : Has(q[s])})

BankRequest == [valid : BOOLEAN, write : BOOLEAN, pkt : Nat,
                open_row : Rows \cup {None}, left : Int]

\* A bank that serves nothing, with its row buffer.
Free(row) == [valid |-> FALSE, write |-> FALSE, pkt |-> 0, open_row |-> row, left |-> 0]

\* Every response for block b reaches the upper levels in ret.
Respond(b, ret) ==
  /\ pending' = [u \in Uppers |-> IF u \in ret THEN pending[u] \ {b} ELSE pending[u]]
  /\ credit' = IF ret # {} THEN WriteCredit ELSE credit

Init == /\ pc = "init" /\ warmup \in BOOLEAN
        /\ RQ = [s \in RSlots |-> Empty] /\ WQ = [s \in WSlots |-> Empty]
        /\ bank_request = [k \in Banks |-> Free(None)] /\ active_request = End
        /\ write_mode = FALSE /\ dbus_cycle_available = 0
        /\ pending = [u \in Uppers |-> {}] /\ credit = WriteCredit
-----------------------------------------------------------------------------
(* initiate_requests *)

\* add_rq for a packet that wants a response: u has no MSHR for b yet.
AddRq(u, b) ==
  /\ pc = "init" /\ b \notin pending[u]
  /\ \E s \in RSlots : /\ FirstFree(RQ, s)
                       /\ RQ' = [RQ EXCEPT ![s] = NewRequest(b, {u})]
  /\ pending' = [pending EXCEPT ![u] = @ \cup {b}]
  /\ UNCHANGED <<pc, warmup, WQ, dram, credit>>

\* add_rq for a packet without response_requested: to_return stays empty.
AddRqNoResponse(b) ==
  /\ pc = "init"
  /\ \E s \in RSlots : /\ FirstFree(RQ, s)
                       /\ RQ' = [RQ EXCEPT ![s] = NewRequest(b, {})]
  /\ UNCHANGED <<pc, warmup, WQ, dram, pending, credit>>

AddWq(b) ==
  /\ pc = "init" /\ credit > 0 /\ b \in Writes[credit]
  /\ \E s \in WSlots : /\ FirstFree(WQ, s)
                       /\ WQ' = [WQ EXCEPT ![s] = NewRequest(b, {})]
  /\ credit' = credit - 1
  /\ UNCHANGED <<pc, warmup, RQ, dram, pending>>

\* The first phase (warmup) ends between two cycles.
EndWarmup == /\ pc = "init" /\ warmup
             /\ warmup' = FALSE
             /\ UNCHANGED <<pc, queues, dram, pending, credit>>

EndInit == /\ pc = "init" /\ pc' = "flush"
           /\ UNCHANGED <<warmup, queues, dram, pending, credit>>
-----------------------------------------------------------------------------
(* warmup: every queued read is answered, every queued write is dropped *)

FlushRead(s) ==
  /\ pc = "flush" /\ warmup /\ Has(RQ[s])
  /\ Respond(RQ[s].block, RQ[s].to_return)
  /\ RQ' = [RQ EXCEPT ![s] = Empty]
  /\ UNCHANGED <<pc, warmup, WQ, dram>>

EndFlush ==
  /\ pc = "flush"
  /\ warmup => \A s \in RSlots : ~Has(RQ[s])
  /\ WQ' = IF warmup THEN [s \in WSlots |-> Empty] ELSE WQ
  /\ pc' = "check"
  /\ UNCHANGED <<warmup, RQ, dram, pending, credit>>
-----------------------------------------------------------------------------
(* check_collision: the loops visit the unchecked slots in order *)

Unchecked(q, s) == Has(q[s]) /\ ~q[s].forward_checked
FirstUnchecked(q, s) == Unchecked(q, s) /\ \A t \in DOMAIN q : t < s => ~Unchecked(q, t)
\* (mutant) a request finds itself
AnySameBlock(q, s) == {t \in DOMAIN q : q[t].block = q[s].block}
SameBlock(q, s) == {t \in DOMAIN q \ {s} : q[t].block = q[s].block}

\* An earlier slot is searched first, then a later one: the first in all.
Found(q, s, t) == t \in SameBlock(q, s) /\ \A r \in SameBlock(q, s) : t <= r

CheckWq(s) ==
  /\ pc = "check" /\ FirstUnchecked(WQ, s)
  /\ WQ' = IF SameBlock(WQ, s) # {} THEN [WQ EXCEPT ![s] = Empty]
                                    ELSE [WQ EXCEPT ![s].forward_checked = TRUE]
  /\ UNCHANGED <<pc, warmup, RQ, dram, pending, credit>>

WqDone == \A s \in WSlots : ~Unchecked(WQ, s)
Forwarded(s) == \E w \in WSlots : WQ[w].block = RQ[s].block

\* The write queue holds the block: answered from there.
ForwardFromWq(s) ==
  /\ pc = "check" /\ WqDone /\ FirstUnchecked(RQ, s) /\ Forwarded(s)
  /\ Respond(RQ[s].block, RQ[s].to_return)
  /\ RQ' = [RQ EXCEPT ![s] = Empty]
  /\ UNCHANGED <<pc, warmup, WQ, dram>>

\* (mutant) its waiters are not taken over
MergeDropsWaiters(s) ==
  /\ pc = "check" /\ WqDone /\ FirstUnchecked(RQ, s) /\ ~Forwarded(s)
  /\ SameBlock(RQ, s) # {}
  /\ RQ' = [RQ EXCEPT ![s] = Empty]
  /\ UNCHANGED <<pc, warmup, WQ, dram, pending, credit>>

\* Another read of the block: the return queues are united there.
MergeRq(s) ==
  /\ pc = "check" /\ WqDone /\ FirstUnchecked(RQ, s) /\ ~Forwarded(s)
  /\ \E t \in RSlots : /\ Found(RQ, s, t)
                       /\ RQ' = [RQ EXCEPT ![t].to_return = @ \cup RQ[s].to_return,
                                           ![s] = Empty]
  /\ UNCHANGED <<pc, warmup, WQ, dram, pending, credit>>

KeepRq(s) ==
  /\ pc = "check" /\ WqDone /\ FirstUnchecked(RQ, s) /\ ~Forwarded(s)
  /\ SameBlock(RQ, s) = {}
  /\ RQ' = [RQ EXCEPT ![s].forward_checked = TRUE]
  /\ UNCHANGED <<pc, warmup, WQ, dram, pending, credit>>

EndCheck ==
  /\ pc = "check" /\ WqDone /\ \A s \in RSlots : ~Unchecked(RQ, s)
  /\ pc' = "finish"
  /\ UNCHANGED <<warmup, queues, dram, pending, credit>>
-----------------------------------------------------------------------------
(* the data bus *)

BusDone == active_request # End /\ bank_request[active_request].left <= 0

Finish ==
  /\ pc = "finish" /\ BusDone
  /\ LET bank == bank_request[active_request] IN
     IF bank.write
     THEN /\ WQ' = [WQ EXCEPT ![bank.pkt] = Empty]
          /\ Respond(WQ[bank.pkt].block, WQ[bank.pkt].to_return)
          /\ UNCHANGED RQ
     ELSE /\ RQ' = [RQ EXCEPT ![bank.pkt] = Empty]
          /\ Respond(RQ[bank.pkt].block, RQ[bank.pkt].to_return)
          /\ UNCHANGED WQ
  /\ bank_request' = [bank_request EXCEPT ![active_request] = Free(bank_request[active_request].open_row)]
  /\ active_request' = End
  /\ pc' = "mode"
  /\ UNCHANGED <<warmup, write_mode, dbus_cycle_available>>

NothingToFinish ==
  /\ pc = "finish" /\ ~BusDone /\ pc' = "mode"
  /\ UNCHANGED <<warmup, queues, dram, pending, credit>>
-----------------------------------------------------------------------------
(* read mode / write mode *)

Unbalanced ==
  LET wq_occu == Occupancy(WQ)  rq_occu == Occupancy(RQ) IN
  IF write_mode THEN wq_occu = 0 \/ (rq_occu > 0 /\ wq_occu < DRAM_WRITE_LOW_WM)
  ELSE wq_occu >= DRAM_WRITE_HIGH_WM \/ (rq_occu = 0 /\ wq_occu > 0)

\* (mutant) the request on the data bus is dropped as well
DroppedWithActive == {k \in Banks : bank_request[k].valid}
\* Banks that lose their request when the mode changes.
Dropped == {k \in Banks : bank_request[k].valid /\ k # active_request}
DroppedFrom(q, write, s) == \E k \in Dropped : /\ bank_request[k].write = write
                                               /\ bank_request[k].pkt = s
\* (mutant) dropped requests keep their scheduled mark
StillScheduled(q, write) ==
  [s \in DOMAIN q |-> IF DroppedFrom(q, write, s) THEN [q[s] EXCEPT !.age = 0] ELSE q[s]]
\* scheduled = false, event_cycle = current_cycle
Unscheduled(q, write) ==
  [s \in DOMAIN q |-> IF DroppedFrom(q, write, s)
                      THEN [q[s] EXCEPT !.scheduled = FALSE, !.age = 0] ELSE q[s]]

SwitchMode ==
  /\ pc = "mode" /\ Unbalanced
  /\ bank_request' = [k \in Banks |->
        IF k \notin Dropped THEN bank_request[k]
        ELSE Free(IF bank_request[k].left < tCAS THEN None ELSE bank_request[k].open_row)]
  /\ RQ' = Unscheduled(RQ, FALSE) /\ WQ' = Unscheduled(WQ, TRUE)
  /\ dbus_cycle_available' =
        IF active_request # End THEN bank_request[active_request].left + TURN_AROUND
                                ELSE TURN_AROUND
  /\ write_mode' = ~write_mode
  /\ pc' = "bus"
  /\ UNCHANGED <<warmup, active_request, pending, credit>>

KeepMode == /\ pc = "mode" /\ ~Unbalanced /\ pc' = "bus"
            /\ UNCHANGED <<warmup, queues, dram, pending, credit>>
-----------------------------------------------------------------------------
(* bus and banks *)

\* std::min_element over the valid banks: least event_cycle, then first.
NextProcess(k) ==
  /\ bank_request[k].valid
  /\ \A j \in Banks : bank_request[j].valid =>
        \/ bank_request[k].left < bank_request[j].left
        \/ bank_request[k].left = bank_request[j].left /\ k <= j

ToBus(k) == /\ active_request = End /\ dbus_cycle_available = 0
            /\ NextProcess(k) /\ bank_request[k].left <= 0

PutOnBus(k) ==
  /\ pc = "bus" /\ ToBus(k)
  /\ active_request' = k
  /\ bank_request' = [bank_request EXCEPT ![k].left = RETURN_TIME]
  /\ pc' = "sched"
  /\ UNCHANGED <<warmup, queues, write_mode, dbus_cycle_available, pending, credit>>

BusCongested ==
  /\ pc = "bus" /\ \A k \in Banks : ~ToBus(k)
  /\ pc' = "sched"
  /\ UNCHANGED <<warmup, queues, dram, pending, credit>>

Waiting(e) == Has(e) /\ ~e.scheduled

\* std::min_element over the waiting requests: oldest, then first slot.
NextSchedule(q, s) ==
  /\ Waiting(q[s])
  /\ \A t \in DOMAIN q : Waiting(q[t]) =>
        q[s].age > q[t].age \/ (q[s].age = q[t].age /\ s <= t)

\* The oldest waiting request, if its bank serves nothing.
Schedulable(q, s) == /\ NextSchedule(q, s)
                     /\ ~bank_request[BankOf[q[s].block]].valid

Serve(b, write, s) ==
  LET bank == bank_request[BankOf[b]] IN
  [valid |-> TRUE, write |-> write, pkt |-> s, open_row |-> RowOf[b],
   left |-> tCAS + IF bank.open_row = RowOf[b] THEN 0 ELSE tMISS]

ScheduleRead(s) ==
  /\ pc = "sched" /\ ~write_mode /\ Schedulable(RQ, s)
  /\ bank_request' = [bank_request EXCEPT ![BankOf[RQ[s].block]] = Serve(RQ[s].block, FALSE, s)]
  /\ RQ' = [RQ EXCEPT ![s].scheduled = TRUE, ![s].age = 0]
  /\ pc' = "tick"
  /\ UNCHANGED <<warmup, WQ, active_request, write_mode, dbus_cycle_available, pending, credit>>

ScheduleWrite(s) ==
  /\ pc = "sched" /\ write_mode /\ Schedulable(WQ, s)
  /\ bank_request' = [bank_request EXCEPT ![BankOf[WQ[s].block]] = Serve(WQ[s].block, TRUE, s)]
  /\ WQ' = [WQ EXCEPT ![s].scheduled = TRUE, ![s].age = 0]
  /\ pc' = "tick"
  /\ UNCHANGED <<warmup, RQ, active_request, write_mode, dbus_cycle_available, pending, credit>>

NothingToSchedule ==
  /\ pc = "sched"
  /\ IF write_mode THEN \A s \in WSlots : ~Schedulable(WQ, s)
                   ELSE \A s \in RSlots : ~Schedulable(RQ, s)
  /\ pc' = "tick"
  /\ UNCHANGED <<warmup, queues, dram, pending, credit>>
-----------------------------------------------------------------------------
(* ++current_cycle *)

\* An age becomes the number of waiting requests that are no older: 0 is left
\* for this cycle's, and the order of the event_cycles is kept.
NoOlder(q, s) == {t \in DOMAIN q : Waiting(q[t]) /\ q[t].age <= q[s].age}
Aged(q) ==
  [s \in DOMAIN q |-> IF Waiting(q[s])
                      THEN [q[s] EXCEPT !.age = Cardinality(NoOlder(q, s))] ELSE q[s]]

\* A bank that is past its event_cycle keeps its place among the others that are.
Overdue(k) == {j \in Banks : /\ bank_request[j].valid /\ bank_request[j].left <= 0
                             /\ bank_request[j].left >= bank_request[k].left}
CountedDown(k) == IF bank_request[k].left > 0 THEN bank_request[k].left - 1
                  ELSE 0 - Cardinality(Overdue(k))

Tick ==
  /\ pc = "tick"
  /\ RQ' = Aged(RQ) /\ WQ' = Aged(WQ)
  /\ bank_request' = [k \in Banks |->
        IF bank_request[k].valid THEN [bank_request[k] EXCEPT !.left = CountedDown(k)]
                                 ELSE bank_request[k]]
  /\ dbus_cycle_available' = IF dbus_cycle_available > 0 THEN dbus_cycle_available - 1 ELSE 0
  /\ pc' = "init"
  /\ UNCHANGED <<warmup, active_request, write_mode, pending, credit>>
-----------------------------------------------------------------------------
(* operate(), without the packets that the upper levels send *)
Operate == \/ EndInit
           \/ \E s \in RSlots : FlushRead(s)
           \/ EndFlush
           \/ \E s \in WSlots : CheckWq(s)
           \/ \E s \in RSlots : ForwardFromWq(s)
           \/ \E s \in RSlots : MergeRq(s)
           \/ \E s \in RSlots : KeepRq(s)
           \/ EndCheck
           \/ Finish
           \/ NothingToFinish
           \/ SwitchMode
           \/ KeepMode
           \/ \E k \in Banks : PutOnBus(k)
           \/ BusCongested
           \/ \E s \in RSlots : ScheduleRead(s)
           \/ \E s \in WSlots : ScheduleWrite(s)
           \/ NothingToSchedule
           \/ Tick

Next == \/ \E u \in Uppers, b \in Blocks : AddRq(u, b)
        \/ \E b \in Blocks : AddRqNoResponse(b)
        \/ \E b \in Blocks : AddWq(b)
        \/ EndWarmup
        \/ Operate

Spec == Init /\ [][Next]_vars

\* do_phase calls operate() again and again.
FairSpec == Spec /\ WF_vars(Operate)
-----------------------------------------------------------------------------
TypeOK ==
  /\ pc \in {"init", "flush", "check", "finish", "mode", "bus", "sched", "tick"}
  /\ warmup \in BOOLEAN /\ write_mode \in BOOLEAN
  /\ RQ \in [RSlots -> Request] /\ WQ \in [WSlots -> Request]
  /\ bank_request \in [Banks -> BankRequest]
  /\ active_request \in Banks \cup {End}
  /\ dbus_cycle_available \in Int
  /\ pending \in [Uppers -> SUBSET Blocks] /\ credit \in 0..WriteCredit

\* A busy bank's iterator pkt points at a live request that maps to the bank
\* and is marked scheduled: Finish, SwitchMode dereference it unchecked
\* (dram_controller.cc:75-86, 104-107).
PointsInto(q, k) ==
  LET s == bank_request[k].pkt IN
  s \in DOMAIN q /\ Has(q[s]) /\ q[s].scheduled /\ BankOf[q[s].block] = k
BankPointsAtRequest ==
  \A k \in Banks : bank_request[k].valid =>
    IF bank_request[k].write THEN PointsInto(WQ, k) ELSE PointsInto(RQ, k)

\* A request marked scheduled is served by a bank: nobody would ever clear the
\* mark of one that no bank points at, and it would be lost in its slot.
Served(q, write) ==
  \A s \in DOMAIN q : q[s].scheduled =>
    LET bank == bank_request[BankOf[q[s].block]] IN
    Has(q[s]) /\ bank.valid /\ bank.write = write /\ bank.pkt = s
ScheduledIsServed == Served(RQ, FALSE) /\ Served(WQ, TRUE)

\* Whatever is not on the data bus belongs to the queue of the current mode,
\* so a mode change leaves no work of the old mode behind in a bank.
BanksFollowMode ==
  /\ active_request # End => bank_request[active_request].valid
  /\ \A k \in Banks : bank_request[k].valid /\ k # active_request
                          => bank_request[k].write = write_mode

\* Banks and queues agree, across merging, mode changes and the bus.
BanksMatchQueues == BankPointsAtRequest /\ ScheduledIsServed /\ BanksFollowMode

\* Merging never touches a request that a bank serves, and never leaves two
\* checked requests for one block in a queue (dram_controller.cc:220-280).
NoDuplicatesIn(q) ==
  \A s, t \in DOMAIN q :
    /\ q[s].scheduled => q[s].forward_checked
    /\ (q[s].forward_checked /\ q[t].forward_checked /\ q[s].block = q[t].block) => s = t
NoDuplicates == NoDuplicatesIn(RQ) /\ NoDuplicatesIn(WQ)

\* An upper level that waits for a block is in the to_return of one read request
\* for it, of only one, and nobody else is: it is answered, and answered once.
AnsweredExactlyOnce ==
  /\ \A u \in Uppers : \A b \in pending[u] :
       \E s \in RSlots : RQ[s].block = b /\ u \in RQ[s].to_return
  /\ \A u \in Uppers, s \in RSlots :
       u \in RQ[s].to_return => RQ[s].block \in pending[u]
  /\ \A u \in Uppers, s, t \in RSlots :
       (u \in RQ[s].to_return /\ u \in RQ[t].to_return /\ RQ[s].block = RQ[t].block) => s = t

\* What the stages rely on.  A free slot carries nothing over to the next request;
\* writes ask for no response; scheduling sees merged queues only; nothing is
\* scheduled in warmup, whose flush clears slots without looking at the banks.
AllChecked(q) == \A s \in DOMAIN q : ~Unchecked(q, s)
AllFree(q)    == \A s \in DOMAIN q : ~Has(q[s])
StageFacts ==
  /\ \A s \in RSlots : ~Has(RQ[s]) => RQ[s] = Empty
  /\ \A s \in WSlots : (~Has(WQ[s]) => WQ[s] = Empty) /\ WQ[s].to_return = {}
  /\ pc \in {"finish", "mode", "bus", "sched", "tick"} =>
       AllChecked(RQ) /\ AllChecked(WQ)
  /\ warmup => \A k \in Banks : ~bank_request[k].valid
  /\ (warmup /\ pc \notin {"init", "flush"}) =>
       AllFree(RQ) /\ AllFree(WQ)

\* Banks and queues agree, merging keeps one request for each block, and whoever waits is
\* in one of them, with what the stages rely on: the inductive invariant.
IInv == /\ TypeOK /\ StageFacts
        /\ BankPointsAtRequest /\ ScheduledIsServed /\ BanksFollowMode
        /\ NoDuplicates /\ AnsweredExactlyOnce

\* A block leaves the write queue only when its bank finishes on the data bus,
\* or with the warmup flush (merging keeps one copy).
WritesReachBank ==
  [][\A b \in Blocks :
       ( /\ \E s \in WSlots : WQ[s].block = b
         /\ \A s \in WSlots : WQ'[s].block # b )
       => \/ warmup /\ pc = "flush"
          \/ /\ active_request # End /\ bank_request[active_request].write
             /\ WQ[bank_request[active_request].pkt].block = b]_vars

\* The controller implements a memory port (MemPort): what the slots of RQ owe and
\* what the upper levels wait for change together, by requests and by answers only.
Owed == [u \in Uppers |-> {RQ[s].block : s \in {r \in RSlots : u \in RQ[r].to_return}}]
Port == INSTANCE MemPort WITH owed <- Owed
ImplementsMemPort == Port!Spec

\* Once no more writes arrive, every read is answered, whatever other reads
\* arrive and however often the modes changed before.
ReadsAnswered ==
  <>[][credit' >= credit]_vars
    => \A u \in Uppers, b \in Blocks : b \in pending[u] ~> b \notin pending[u]

\* No livelock between the two modes, whichever of their three reasons to change meet:
\* as long as somebody waits, answers come.
Answered == \E u \in Uppers : pending[u] \ pending'[u] # {}
ModesMakeProgress == []<>(\A u \in Uppers : pending[u] = {}) \/ []<><<Answered>>_vars

=============================================================================
