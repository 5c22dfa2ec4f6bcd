----------------------------- MODULE BasicDram -----------------------------
(***************************************************************************)
(* One channel of the DRAM controller of the older simulator               *)
(* (ChampSim基础要求/src/dram_controller.cc), below its LLC.  The channels *)
(* share nothing.  A cycle of operate() goes through these stages:         *)
(*                                                                         *)
(*   mode      read mode <-> write mode, by the occupancy of the queues;   *)
(*             the LLC, which operates before, has called add_rq / add_wq  *)
(*   schedule  a request of the mode's queue takes its bank                *)
(*   process   a request whose bank is done takes the data bus             *)
(*   tick      the cycle ends                                              *)
(*                                                                         *)
(* Cycles are distances from the current one.  The scheduler prefers the   *)
(* oldest request, by the event_cycle that the LLC gave it, which is not   *)
(* the order of arrival: any request may be it.                            *)
(***************************************************************************)
EXTENDS Integers, FiniteSets

CONSTANTS Blocks,                  \* block addresses
          DRAM_CHANNELS, DRAM_RANKS, DRAM_BANKS, DRAM_ROWS, DRAM_COLUMNS,
          None,
          RQ_SIZE, WQ_SIZE,
          tCAS, tMISS,             \* tMISS = tRP + tRCD
          TURN_AROUND, RETURN_TIME,
          MaxAsks                  \* bound: calls of the LLC

\* An address is row | rank | column | bank | channel.
dram_get_channel(a) == a % DRAM_CHANNELS
dram_get_bank(a)    == (a \div DRAM_CHANNELS) % DRAM_BANKS
dram_get_rank(a)    == (a \div (DRAM_CHANNELS * DRAM_BANKS * DRAM_COLUMNS)) % DRAM_RANKS
dram_get_row(a)     == (a \div (DRAM_CHANNELS * DRAM_BANKS * DRAM_COLUMNS * DRAM_RANKS)) % DRAM_ROWS

BankOf == [a \in Blocks |-> <<dram_get_rank(a), dram_get_bank(a)>>]
RowOf  == [a \in Blocks |-> dram_get_row(a)]
Banks  == {BankOf[a] : a \in Blocks}
Queues == {"RQ", "WQ"}

ASSUME SizeAssumption == /\ RQ_SIZE \in Nat \ {0} /\ WQ_SIZE \in Nat \ {0, 1}
                         /\ MaxAsks \in Nat
ASSUME TimeAssumption == tCAS \in Nat \ {0} /\ {tMISS, TURN_AROUND, RETURN_TIME} \subseteq Nat
ASSUME AddressAssumption == /\ Blocks \subseteq Nat /\ None \notin Nat
                            /\ {DRAM_CHANNELS, DRAM_RANKS, DRAM_BANKS, DRAM_ROWS, DRAM_COLUMNS}
                                 \subseteq Nat \ {0}
                            /\ \A a, b \in Blocks : dram_get_channel(a) = dram_get_channel(b)

DRAM_WRITE_HIGH_WM == (WQ_SIZE * 7) \div 8
DRAM_WRITE_LOW_WM  == (WQ_SIZE * 3) \div 4

VARIABLES stage, warmup,
          queue,       \* RQ and WQ: the blocks that wait in each
          scheduled,   \* those of them that have been scheduled
          count,       \* scheduled_reads, scheduled_writes
          bank, write_mode,
          dbus,        \* dbus_cycle_available, from now; negative when it is past
          waiting,     \* blocks that the LLC waits for
          asks,
          charged      \* history: the row that a bank has really activated
dram == <<queue, scheduled, count, bank, write_mode, dbus, charged>>
dram_vars == <<stage, warmup, dram, waiting, asks>>

\* BANK_REQUEST; request is None when the bank is not working, and direction the
\* queue of its request (is_read, is_write).
Idle(row) == [request |-> None, direction |-> "RQ", open_row |-> row, hit |-> FALSE, left |-> 0]

DramInit == /\ stage = "mode" /\ warmup \in BOOLEAN
            /\ queue = [q \in Queues |-> {}] /\ scheduled = queue /\ count = [q \in Queues |-> 0]
            /\ bank = [k \in Banks |-> Idle(None)] /\ write_mode = FALSE /\ dbus = 0
            /\ waiting = {} /\ asks = 0
            /\ charged = [k \in Banks |-> None]
-----------------------------------------------------------------------------
(* add_rq, add_wq: the LLC looks at the occupancy first *)

\* check_dram_queue
InQueue(q, a) == a \in queue[q]

Call == stage = "mode" /\ asks < MaxAsks /\ asks' = asks + 1

\* A write of the block that waits answers the read at once, as does the warmup; a
\* read that waits already is not queued again.
AddRq(a) ==
  /\ Call /\ a \notin waiting /\ Cardinality(queue["RQ"]) < RQ_SIZE
  /\ IF warmup \/ InQueue("WQ", a) THEN UNCHANGED <<queue, waiting>>
     ELSE queue' = [queue EXCEPT !["RQ"] = @ \cup {a}] /\ waiting' = waiting \cup {a}
  /\ UNCHANGED <<stage, warmup, scheduled, count, bank, write_mode, dbus, charged>>

AddWq(a) ==
  /\ Call /\ Cardinality(queue["WQ"]) < WQ_SIZE
  /\ queue' = IF warmup THEN queue ELSE [queue EXCEPT !["WQ"] = @ \cup {a}]
  /\ UNCHANGED <<stage, warmup, scheduled, count, bank, write_mode, dbus, waiting, charged>>

\* all_warmup_complete (main.cc)
EndWarmup == /\ stage = "mode" /\ warmup /\ warmup' = FALSE
             /\ UNCHANGED <<stage, dram, waiting, asks>>
-----------------------------------------------------------------------------
(* operate *)

\* The row of a bank that is set free before it is done: it is open once the
\* activation is over.
RowLeft(b) == IF b.left <= tCAS THEN RowOf[b.request] ELSE None
\* (mutant) the row that was to be opened is taken for open.
RowAsked(b) == RowOf[b.request]
RowKept(b) == RowLeft(b)

\* The scheduled requests of q wait again, and their banks are free.
ResetRemainRequests(q) ==
  LET given == {BankOf[a] : a \in scheduled[q]} IN
  /\ bank' = [k \in Banks |-> IF k \in given THEN Idle(RowKept(bank[k])) ELSE bank[k]]
  /\ count' = [d \in Queues |-> count[d] - Cardinality({k \in given : bank[k].direction = d})]
  /\ scheduled' = [scheduled EXCEPT ![q] = {}]

Occupancy(q) == Cardinality(queue[q])
\* (mutant) idle cycles are not used for writes.
StartWhenFull == Occupancy("WQ") >= DRAM_WRITE_HIGH_WM
StartWrites == \/ Occupancy("WQ") >= DRAM_WRITE_HIGH_WM
               \/ Occupancy("RQ") = 0 /\ Occupancy("WQ") > 0
EndWrites == Occupancy("WQ") = 0 \/ (Occupancy("RQ") > 0 /\ Occupancy("WQ") < DRAM_WRITE_LOW_WM)

ChangeMode ==
  /\ stage = "mode" /\ stage' = "schedule"
  /\ IF IF write_mode THEN EndWrites ELSE StartWrites
     THEN /\ write_mode' = ~write_mode
          /\ ResetRemainRequests(IF write_mode THEN "WQ" ELSE "RQ")
          /\ dbus' = dbus + TURN_AROUND
     ELSE UNCHANGED <<write_mode, bank, count, scheduled, dbus>>
  /\ UNCHANGED <<warmup, queue, waiting, asks, charged>>

Mode == IF write_mode THEN "WQ" ELSE "RQ"

\* The requests that may be scheduled: row buffer hits before the others.
Unscheduled == queue[Mode] \ scheduled[Mode]
\* (mutant) "should we check this or not?" (dram_controller.cc:166): not.
ReadyAnyBank == Unscheduled
Ready   == {a \in Unscheduled : bank[BankOf[a]].request = None}
RowHits == {a \in Ready : bank[BankOf[a]].open_row = RowOf[a]}
Candidates == IF RowHits # {} THEN RowHits ELSE Ready

Schedule ==
  /\ stage = "schedule" /\ stage' = "process"
  /\ \/ Ready = {} /\ UNCHANGED <<scheduled, count, bank, charged>>
     \/ \E a \in Candidates :
          LET k == BankOf[a]
              hit == RowHits # {}
          IN /\ bank' = [bank EXCEPT ![k] =
                  [request |-> a, direction |-> Mode, open_row |-> RowOf[a], hit |-> hit,
                   left |-> IF hit THEN tCAS ELSE tMISS + tCAS]]
             /\ scheduled' = [scheduled EXCEPT ![Mode] = @ \cup {a}]
             /\ count' = [count EXCEPT ![Mode] = @ + 1]
             /\ charged' = IF hit THEN charged ELSE [charged EXCEPT ![k] = None]
  /\ UNCHANGED <<warmup, queue, write_mode, dbus, waiting, asks>>

DueBanks == {k \in Banks : bank[k].request # None /\ bank[k].left = 0}

\* A request that is done leaves its queue, and a read is answered.
Release(k) ==
  /\ bank' = [bank EXCEPT ![k] = Idle(@.open_row)]
  /\ count' = [count EXCEPT ![Mode] = @ - 1]
  /\ queue' = [queue EXCEPT ![Mode] = @ \ {bank[k].request}]
  /\ scheduled' = [scheduled EXCEPT ![Mode] = @ \ {bank[k].request}]
\* (mutant) the request is answered and stays in its queue.
Retain(k) ==
  /\ bank' = [bank EXCEPT ![k] = Idle(@.open_row)]
  /\ count' = [count EXCEPT ![Mode] = @ - 1]
  /\ scheduled' = [scheduled EXCEPT ![Mode] = @ \ {bank[k].request}]
  /\ UNCHANGED queue
FinishRequest(k) == Release(k)

\* The first request that is due takes the bus, or waits until the bus is free.
Process ==
  /\ stage = "process" /\ stage' = "tick"
  /\ \/ DueBanks = {} /\ UNCHANGED <<queue, scheduled, count, bank, dbus, waiting>>
     \/ \E k \in DueBanks :
          \/ /\ dbus <= 0 /\ dbus' = RETURN_TIME
             /\ waiting' = IF write_mode THEN waiting ELSE waiting \ {bank[k].request}
             /\ FinishRequest(k)
          \/ /\ dbus > 0 /\ bank' = [bank EXCEPT ![k].left = dbus]
             /\ UNCHANGED <<queue, scheduled, count, dbus, waiting>>
  /\ UNCHANGED <<warmup, write_mode, asks, charged>>

\* current_core_cycle++.  Further in the past than TURN_AROUND, all is the same.
Tick ==
  /\ stage = "tick" /\ stage' = "mode"
  /\ bank' = [k \in Banks |-> [bank[k] EXCEPT !.left = IF @ > 0 THEN @ - 1 ELSE 0]]
  /\ dbus' = IF dbus > -TURN_AROUND THEN dbus - 1 ELSE dbus
  /\ charged' = [k \in Banks |-> IF bank'[k].request # None /\ bank'[k].left <= tCAS
                                 THEN bank'[k].open_row ELSE charged[k]]
  /\ UNCHANGED <<warmup, queue, scheduled, count, write_mode, waiting, asks>>

Operate == ChangeMode \/ Schedule \/ Process \/ Tick
DramNext == \/ \E a \in Blocks : AddRq(a) \/ AddWq(a)
            \/ EndWarmup \/ ChangeMode \/ Schedule \/ Process \/ Tick

DramSpec == DramInit /\ [][DramNext]_dram_vars
\* operate() runs in every cycle.
FairDramSpec == DramSpec /\ WF_dram_vars(Operate)
-----------------------------------------------------------------------------
\* A bank works on one request, which knows that it is scheduled and is of the queue
\* that the mode serves; no request is left scheduled without a bank, whatever was
\* given back when the mode changed (the asserts of dram_controller.cc:75-82, 311).
BanksMatchQueues ==
  /\ \A q \in Queues : /\ count[q] = Cardinality(scheduled[q]) /\ scheduled[q] \subseteq queue[q]
                       /\ \A a \in scheduled[q] : /\ q = Mode
                                                  /\ bank[BankOf[a]].request = a
                                                  /\ bank[BankOf[a]].direction = q
  /\ \A k \in Banks : bank[k].request # None => bank[k].request \in scheduled[bank[k].direction]

\* What is counted and timed as a row buffer hit finds the row that its bank has
\* really activated, through aborted activations and requests scheduled twice.
RowHitsAreReal ==
  \A k \in Banks : /\ bank[k].hit => charged[k] = RowOf[bank[k].request]
                   /\ bank[k].request = None => bank[k].open_row \in {None, charged[k]}

\* The LLC gets one answer for each read it asks for, however the read is merged,
\* forwarded, scheduled, given back and scheduled again: the controller implements
\* the port of a memory.
Port == INSTANCE MemPort WITH Uppers <- {"LLC"}, pending <- [u \in {"LLC"} |-> waiting],
                              owed <- [u \in {"LLC"} |-> queue["RQ"]]
ImplementsMemPort == Port!Spec

\* Every read and every write is served at last: the modes do not take the banks from
\* each other for ever, and no write waits for reads that do not come.
EverythingIsServed == <>[](queue = [q \in Queues |-> {}])
=============================================================================
