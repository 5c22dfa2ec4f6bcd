---------------------------- MODULE Dram_proofs ----------------------------
(***************************************************************************)
(* Proofs about the DRAM channel for every number of upper levels, blocks, *)
(* slots and banks, every address mapping and every timing.                *)
(***************************************************************************)
EXTENDS Dram, FiniteSetTheorems, TLAPS

USE SizeAssumption, BankAssumption, NoneAssumption, TimeAssumption

(***************************************************************************)
(* Auxiliary facts about the helpers.                                      *)
(***************************************************************************)

\* Empty and new requests are requests (request_type's constructor).
LEMMA RequestType ==
  /\ Empty \in Request
  /\ \A b \in Blocks, ret \in SUBSET Uppers : NewRequest(b, ret) \in Request
BY DEF Empty, NewRequest, Request

\* What the controller writes into a request keeps it a request.
LEMMA RequestUpdate ==
  ASSUME NEW e \in Request
  PROVE  /\ [e EXCEPT !.forward_checked = TRUE] \in Request
         /\ [e EXCEPT !.scheduled = FALSE, !.age = 0] \in Request
         /\ [e EXCEPT !.scheduled = TRUE, !.age = 0] \in Request
         /\ \A ret \in SUBSET Uppers : [e EXCEPT !.to_return = @ \cup ret] \in Request
         /\ \A a \in Nat : [e EXCEPT !.age = a] \in Request
         /\ e.to_return \in SUBSET Uppers /\ e.age \in Nat
         /\ e.scheduled \in BOOLEAN /\ e.forward_checked \in BOOLEAN
         /\ Has(e) => e.block \in Blocks
BY DEF Request, Has

\* The same for a bank.
LEMMA BankUpdate ==
  /\ \A row \in Rows \cup {None} : Free(row) \in BankRequest
  /\ \A bank \in BankRequest : /\ bank.left \in Int /\ bank.pkt \in Nat
                               /\ bank.valid \in BOOLEAN /\ bank.write \in BOOLEAN
                               /\ bank.open_row \in Rows \cup {None}
                               /\ \A n \in Int : [bank EXCEPT !.left = n] \in BankRequest
<1>1. ASSUME NEW row \in Rows \cup {None}
      PROVE  Free(row) \in BankRequest
  BY DEF BankRequest, Free
<1>3. ASSUME NEW bank \in BankRequest
      PROVE  /\ bank.left \in Int /\ bank.pkt \in Nat
             /\ bank.valid \in BOOLEAN /\ bank.write \in BOOLEAN
             /\ bank.open_row \in Rows \cup {None}
  BY DEF BankRequest
<1>4. ASSUME NEW bank \in BankRequest, NEW n \in Int
      PROVE  [bank EXCEPT !.left = n] \in BankRequest
  BY DEF BankRequest
<1> QED  BY <1>1, <1>3, <1>4

\* A bank that starts to serve a request of a queue.
LEMMA ServeType ==
  ASSUME TypeOK, NEW b \in Blocks, NEW write \in BOOLEAN, NEW s \in Nat
  PROVE  Serve(b, write, s) \in BankRequest
BY DEF Serve, BankRequest, Rows

\* Ageing keeps a queue a queue: the rank of an age is a natural number.
LEMMA AgedType ==
  ASSUME NEW n \in Nat, NEW q \in [1..n -> Request]
  PROVE  Aged(q) \in [1..n -> Request]
<1>1. ASSUME NEW s \in 1..n
      PROVE  Cardinality(NoOlder(q, s)) \in Nat
  <2>1. IsFiniteSet(1..n)  BY FS_Interval
  <2>2. NoOlder(q, s) \subseteq 1..n  BY DEF NoOlder
  <2> QED  BY <2>1, <2>2, FS_Subset, FS_CardinalityType
<1>2. ASSUME NEW s \in 1..n
      PROVE  Aged(q)[s] \in Request
  BY <1>1 DEF Aged, Request
<1> QED  BY <1>2 DEF Aged

\* An overdue bank's rank is an integer.
LEMMA CountedDownType ==
  ASSUME TypeOK, NEW k \in Banks
  PROVE  CountedDown(k) \in Int
<1>1. IsFiniteSet(Banks)  BY FS_Interval DEF Banks
<1>2. Overdue(k) \subseteq Banks  BY DEF Overdue
<1>3. Cardinality(Overdue(k)) \in Nat  BY <1>1, <1>2, FS_Subset, FS_CardinalityType
<1>4. bank_request[k].left \in Int  BY BankUpdate DEF TypeOK
<1> QED  BY <1>3, <1>4 DEF CountedDown

(***************************************************************************)
(* Type correctness.                                                       *)
(***************************************************************************)

LEMMA InitType == Init => TypeOK
<1> SUFFICES ASSUME Init PROVE TypeOK
  OBVIOUS
<1>1. RQ \in [RSlots -> Request] /\ WQ \in [WSlots -> Request]
  BY RequestType DEF Init
<1>2. bank_request \in [Banks -> BankRequest]
  BY BankUpdate DEF Init
<1>3. pending \in [Uppers -> SUBSET Blocks] /\ credit \in 0..WriteCredit
  BY DEF Init
<1>4. active_request \in Banks \cup {End} /\ dbus_cycle_available \in Int
  BY DEF Init
<1>5. warmup \in BOOLEAN /\ write_mode \in BOOLEAN /\ pc = "init"
  BY DEF Init
<1> QED  BY <1>1, <1>2, <1>3, <1>4, <1>5 DEF TypeOK

LEMMA RespondType ==
  ASSUME TypeOK, NEW b, NEW ret, Respond(b, ret)
  PROVE  pending' \in [Uppers -> SUBSET Blocks] /\ credit' \in 0..WriteCredit
BY DEF TypeOK, Respond

LEMMA NextType == TypeOK /\ [Next]_vars => TypeOK'
<1> SUFFICES ASSUME TypeOK, [Next]_vars PROVE TypeOK'
  OBVIOUS
<1> USE DEF RSlots, WSlots
<1>1. ASSUME NEW u \in Uppers, NEW b \in Blocks, AddRq(u, b) PROVE TypeOK'
  BY <1>1, RequestType DEF TypeOK, AddRq, dram
<1>2. ASSUME NEW b \in Blocks, AddRqNoResponse(b) PROVE TypeOK'
  BY <1>2, RequestType DEF TypeOK, AddRqNoResponse, dram
<1>3. ASSUME NEW b \in Blocks, AddWq(b) PROVE TypeOK'
  BY <1>3, RequestType DEF TypeOK, AddWq, dram
<1>4. CASE EndWarmup
  BY <1>4 DEF TypeOK, EndWarmup, dram, queues
<1>5. CASE EndInit
  BY <1>5 DEF TypeOK, EndInit, dram, queues
<1>6. ASSUME NEW s \in RSlots, FlushRead(s) PROVE TypeOK'
  BY <1>6, RequestType, RespondType DEF TypeOK, FlushRead, dram
<1>7. CASE EndFlush
  BY <1>7, RequestType DEF TypeOK, EndFlush, dram
<1>8. ASSUME NEW s \in WSlots, CheckWq(s) PROVE TypeOK'
  BY <1>8, RequestType, RequestUpdate DEF TypeOK, CheckWq, dram
<1>9. ASSUME NEW s \in RSlots, ForwardFromWq(s) PROVE TypeOK'
  BY <1>9, RequestType, RespondType DEF TypeOK, ForwardFromWq, dram
<1>10. ASSUME NEW s \in RSlots, MergeRq(s) PROVE TypeOK'
  <2>1. PICK t \in RSlots : RQ' = [RQ EXCEPT ![t].to_return = @ \cup RQ[s].to_return,
                                            ![s] = Empty]
    BY <1>10 DEF MergeRq
  <2>2. [RQ[t] EXCEPT !.to_return = @ \cup RQ[s].to_return] \in Request
    BY <1>10, RequestUpdate DEF TypeOK
  <2>3. RQ' \in [RSlots -> Request]
    BY <2>1, <2>2, RequestType DEF TypeOK
  <2> QED  BY <1>10, <2>3 DEF TypeOK, MergeRq, dram
<1>11. ASSUME NEW s \in RSlots, KeepRq(s) PROVE TypeOK'
  BY <1>11, RequestUpdate DEF TypeOK, KeepRq, dram
<1>12. CASE EndCheck
  BY <1>12 DEF TypeOK, EndCheck, dram, queues
<1>13. CASE Finish
  <2>1. RQ' \in [RSlots -> Request] /\ WQ' \in [WSlots -> Request]
    <3>1. CASE bank_request[active_request].write
      BY <1>13, <3>1, RequestType DEF TypeOK, Finish
    <3>2. CASE ~bank_request[active_request].write
      BY <1>13, <3>2, RequestType DEF TypeOK, Finish
    <3> QED  BY <3>1, <3>2
  <2>2. bank_request' \in [Banks -> BankRequest]
    BY <1>13, BankUpdate DEF TypeOK, Finish
  <2>3. pending' \in [Uppers -> SUBSET Blocks] /\ credit' \in 0..WriteCredit
    BY <1>13, RespondType DEF Finish
  <2> QED  BY <1>13, <2>1, <2>2, <2>3 DEF TypeOK, Finish
<1>14. CASE NothingToFinish
  BY <1>14 DEF TypeOK, NothingToFinish, dram, queues
<1>15. CASE SwitchMode
  <2>1. RQ' \in [RSlots -> Request] /\ WQ' \in [WSlots -> Request]
    BY <1>15, RequestUpdate DEF TypeOK, SwitchMode, Unscheduled
  <2>2. bank_request' \in [Banks -> BankRequest]
    BY <1>15, BankUpdate DEF TypeOK, SwitchMode
  <2>3. dbus_cycle_available' \in Int
    BY <1>15, BankUpdate DEF TypeOK, SwitchMode
  <2> QED  BY <1>15, <2>1, <2>2, <2>3 DEF TypeOK, SwitchMode
<1>16. CASE KeepMode
  BY <1>16 DEF TypeOK, KeepMode, dram, queues
<1>17. ASSUME NEW k \in Banks, PutOnBus(k) PROVE TypeOK'
  BY <1>17, BankUpdate DEF TypeOK, PutOnBus, queues
<1>18. CASE BusCongested
  BY <1>18 DEF TypeOK, BusCongested, dram, queues
<1>19. ASSUME NEW s \in RSlots, ScheduleRead(s) PROVE TypeOK'
  <2>1. RQ[s].block \in Blocks
    BY <1>19, RequestUpdate DEF TypeOK, ScheduleRead, Schedulable, NextSchedule, Waiting
  <2>2. RQ' \in [RSlots -> Request]
    BY <1>19, RequestUpdate DEF TypeOK, ScheduleRead
  <2>3. bank_request' \in [Banks -> BankRequest]
    <3>0. s \in Nat  OBVIOUS
    <3>1. Serve(RQ[s].block, FALSE, s) \in BankRequest  BY <2>1, <3>0, ServeType
    <3> QED  BY <1>19, <3>1 DEF TypeOK, ScheduleRead
  <2> QED  BY <1>19, <2>2, <2>3 DEF TypeOK, ScheduleRead
<1>20. ASSUME NEW s \in WSlots, ScheduleWrite(s) PROVE TypeOK'
  <2>1. WQ[s].block \in Blocks
    BY <1>20, RequestUpdate DEF TypeOK, ScheduleWrite, Schedulable, NextSchedule, Waiting
  <2>2. WQ' \in [WSlots -> Request]
    BY <1>20, RequestUpdate DEF TypeOK, ScheduleWrite
  <2>3. bank_request' \in [Banks -> BankRequest]
    <3>0. s \in Nat  OBVIOUS
    <3>1. Serve(WQ[s].block, TRUE, s) \in BankRequest  BY <2>1, <3>0, ServeType
    <3> QED  BY <1>20, <3>1 DEF TypeOK, ScheduleWrite
  <2> QED  BY <1>20, <2>2, <2>3 DEF TypeOK, ScheduleWrite
<1>21. CASE NothingToSchedule
  BY <1>21 DEF TypeOK, NothingToSchedule, dram, queues
<1>22. CASE Tick
  <2>1. RQ' \in [RSlots -> Request] /\ WQ' \in [WSlots -> Request]
    BY <1>22, AgedType DEF TypeOK, Tick
  <2>2. \A k \in Banks : CountedDown(k) \in Int
    BY CountedDownType
  <2>3. bank_request' \in [Banks -> BankRequest]
    BY <1>22, <2>2, BankUpdate DEF TypeOK, Tick
  <2>4. dbus_cycle_available' \in Int
    BY <1>22 DEF TypeOK, Tick
  <2> QED  BY <1>22, <2>1, <2>3, <2>4 DEF TypeOK, Tick
<1>23. CASE UNCHANGED vars
  BY <1>23 DEF TypeOK, vars
<1> QED
  BY <1>1, <1>2, <1>3, <1>4, <1>5, <1>6, <1>7, <1>8, <1>9, <1>10, <1>11, <1>12, <1>13, <1>14,
     <1>15, <1>16, <1>17, <1>18, <1>19, <1>20, <1>21, <1>22, <1>23 DEF Next, Operate

\* Every reachable state of operate() has the declared types.
THEOREM TypeCorrect == Spec => []TypeOK
BY InitType, NextType, PTL DEF Spec

(***************************************************************************)
(* The banks and the queues agree.  Most stages edit requests that no bank *)
(* serves: then the pointers in both directions survive.                   *)
(***************************************************************************)
SameService(q, r) ==
  /\ DOMAIN r = DOMAIN q
  /\ \A s \in DOMAIN q : /\ r[s].scheduled = q[s].scheduled
                         /\ q[s].scheduled => r[s].block = q[s].block
SameBanks ==
  \A k \in Banks : /\ bank_request'[k].valid = bank_request[k].valid
                   /\ bank_request'[k].write = bank_request[k].write
                   /\ bank_request'[k].pkt = bank_request[k].pkt

LEMMA UntouchedPointers ==
  ASSUME TypeOK, TypeOK', BankPointsAtRequest, ScheduledIsServed,
         SameService(RQ, RQ'), SameService(WQ, WQ'), SameBanks
  PROVE  BankPointsAtRequest' /\ ScheduledIsServed'
<1>1. BankPointsAtRequest'
  <2> SUFFICES ASSUME NEW k \in Banks, bank_request'[k].valid
               PROVE  IF bank_request'[k].write THEN PointsInto(WQ, k)' ELSE PointsInto(RQ, k)'
    BY DEF BankPointsAtRequest
  <2>1. CASE bank_request[k].write
    <3>1. PointsInto(WQ, k)  BY <2>1 DEF BankPointsAtRequest, SameBanks
    <3>2. PointsInto(WQ, k)'
      BY <3>1 DEF PointsInto, SameService, SameBanks, Has
    <3> QED  BY <2>1, <3>2 DEF SameBanks
  <2>2. CASE ~bank_request[k].write
    <3>1. PointsInto(RQ, k)  BY <2>2 DEF BankPointsAtRequest, SameBanks
    <3>2. PointsInto(RQ, k)'
      BY <3>1 DEF PointsInto, SameService, SameBanks, Has
    <3> QED  BY <2>2, <3>2 DEF SameBanks
  <2> QED  BY <2>1, <2>2
<1>2. ASSUME NEW s \in RSlots, RQ'[s].scheduled
      PROVE  LET bank == bank_request'[BankOf[RQ'[s].block]] IN
             Has(RQ'[s]) /\ bank.valid /\ bank.write = FALSE /\ bank.pkt = s
  <2>1. RQ[s].scheduled /\ RQ'[s].block = RQ[s].block
    BY <1>2 DEF SameService, TypeOK
  <2>2. BankOf[RQ[s].block] \in Banks
    <3>1. RQ[s] \in Request  BY DEF TypeOK
    <3>2. Has(RQ[s])  BY <2>1 DEF ScheduledIsServed, Served, TypeOK
    <3> QED  BY <3>1, <3>2, RequestUpdate
  <2>3. LET bank == bank_request[BankOf[RQ[s].block]] IN
        Has(RQ[s]) /\ bank.valid /\ bank.write = FALSE /\ bank.pkt = s
    BY <2>1 DEF ScheduledIsServed, Served, TypeOK
  <2> QED  BY <2>1, <2>2, <2>3 DEF SameBanks, Has
<1>3. ASSUME NEW s \in WSlots, WQ'[s].scheduled
      PROVE  LET bank == bank_request'[BankOf[WQ'[s].block]] IN
             Has(WQ'[s]) /\ bank.valid /\ bank.write = TRUE /\ bank.pkt = s
  <2>1. WQ[s].scheduled /\ WQ'[s].block = WQ[s].block
    BY <1>3 DEF SameService, TypeOK
  <2>2. BankOf[WQ[s].block] \in Banks
    <3>1. WQ[s] \in Request  BY DEF TypeOK
    <3>2. Has(WQ[s])  BY <2>1 DEF ScheduledIsServed, Served, TypeOK
    <3> QED  BY <3>1, <3>2, RequestUpdate
  <2>3. LET bank == bank_request[BankOf[WQ[s].block]] IN
        Has(WQ[s]) /\ bank.valid /\ bank.write = TRUE /\ bank.pkt = s
    BY <2>1 DEF ScheduledIsServed, Served, TypeOK
  <2> QED  BY <2>1, <2>2, <2>3 DEF SameBanks, Has
<1> QED  BY <1>1, <1>2, <1>3 DEF ScheduledIsServed, Served, TypeOK

\* Replacing a request that no bank serves by another one.
LEMMA EditService ==
  ASSUME NEW n \in Nat, NEW q \in [1..n -> Request], NEW s \in 1..n, NEW e \in Request,
         q[s].scheduled = FALSE, e.scheduled = FALSE
  PROVE  SameService(q, [q EXCEPT ![s] = e])
<1>1. ASSUME NEW t \in 1..n
      PROVE  /\ [q EXCEPT ![s] = e][t].scheduled = q[t].scheduled
             /\ q[t].scheduled => [q EXCEPT ![s] = e][t].block = q[t].block
  <2>1. CASE t = s  BY <2>1
  <2>2. CASE t # s  BY <2>2
  <2> QED  BY <2>1, <2>2
<1> QED  BY <1>1 DEF SameService

LEMMA AgedService ==
  ASSUME NEW n \in Nat, NEW q \in [1..n -> Request]
  PROVE  SameService(q, Aged(q))
<1>1. ASSUME NEW s \in 1..n
      PROVE  Aged(q)[s].scheduled = q[s].scheduled /\ Aged(q)[s].block = q[s].block
  <2>1. CASE Waiting(q[s])
    <3>1. Aged(q)[s] = [q[s] EXCEPT !.age = Cardinality(NoOlder(q, s))]
      BY <2>1 DEF Aged
    <3> QED  BY <3>1 DEF Request
  <2>2. CASE ~Waiting(q[s])  BY <2>2 DEF Aged
  <2> QED  BY <2>1, <2>2
<1> QED  BY <1>1 DEF SameService, Aged

LEMMA SameServiceRefl == ASSUME NEW q PROVE SameService(q, q)
BY DEF SameService

\* The facts about the slots that the stages and the merging rely on.
Pointers == BankPointsAtRequest /\ ScheduledIsServed

\* A scheduled slot is a live request, and its bank works on it.
LEMMA ServedByItsBank ==
  ASSUME IInv
  PROVE  /\ \A s \in RSlots : RQ[s].scheduled =>
              LET bank == bank_request[BankOf[RQ[s].block]] IN
              Has(RQ[s]) /\ bank.valid /\ bank.write = FALSE /\ bank.pkt = s
         /\ \A s \in WSlots : WQ[s].scheduled =>
              LET bank == bank_request[BankOf[WQ[s].block]] IN
              Has(WQ[s]) /\ bank.valid /\ bank.write = TRUE /\ bank.pkt = s
<1>1. DOMAIN RQ = RSlots /\ DOMAIN WQ = WSlots  BY DEF IInv, TypeOK, RSlots, WSlots
<1>2. Served(RQ, FALSE) /\ Served(WQ, TRUE)  BY DEF IInv, ScheduledIsServed
<1> QED  BY <1>1, <1>2 DEF Served

\* A free slot and an unchecked request are not scheduled, nor is anything in warmup.
LEMMA NotScheduled ==
  ASSUME IInv
  PROVE  /\ \A s \in RSlots : (~Has(RQ[s]) \/ ~RQ[s].forward_checked \/ warmup) => ~RQ[s].scheduled
         /\ \A s \in WSlots : (~Has(WQ[s]) \/ ~WQ[s].forward_checked \/ warmup) => ~WQ[s].scheduled
<1>1. ASSUME NEW s \in RSlots, RQ[s].scheduled
      PROVE  Has(RQ[s]) /\ RQ[s].forward_checked /\ ~warmup
  <2>1. RQ[s] \in Request /\ s \in DOMAIN RQ  BY DEF IInv, TypeOK
  <2>2. Has(RQ[s]) /\ bank_request[BankOf[RQ[s].block]].valid
    BY <1>1, ServedByItsBank
  <2>3. BankOf[RQ[s].block] \in Banks
    BY <2>1, <2>2, RequestUpdate
  <2>4. RQ[s].forward_checked
    BY <1>1, <2>1 DEF IInv, NoDuplicates, NoDuplicatesIn
  <2> QED  BY <2>2, <2>3, <2>4 DEF IInv, StageFacts
<1>2. ASSUME NEW s \in WSlots, WQ[s].scheduled
      PROVE  Has(WQ[s]) /\ WQ[s].forward_checked /\ ~warmup
  <2>1. WQ[s] \in Request /\ s \in DOMAIN WQ  BY DEF IInv, TypeOK
  <2>2. Has(WQ[s]) /\ bank_request[BankOf[WQ[s].block]].valid
    BY <1>2, ServedByItsBank
  <2>3. BankOf[WQ[s].block] \in Banks
    BY <2>1, <2>2, RequestUpdate
  <2>4. WQ[s].forward_checked
    BY <1>2, <2>1 DEF IInv, NoDuplicates, NoDuplicatesIn
  <2> QED  BY <2>2, <2>3, <2>4 DEF IInv, StageFacts
<1> QED  BY <1>1, <1>2, RequestUpdate DEF IInv, TypeOK

\* Packets that enter, the warmup flush, merging and ageing leave the pointers alone.
LEMMA QuietPointers ==
  ASSUME IInv, TypeOK', UNCHANGED <<active_request, write_mode>>, SameBanks,
         \/ \E u \in Uppers, b \in Blocks : AddRq(u, b)
         \/ \E b \in Blocks : AddRqNoResponse(b)
         \/ \E b \in Blocks : AddWq(b)
         \/ \E s \in RSlots : FlushRead(s)
         \/ EndFlush
         \/ \E s \in WSlots : CheckWq(s)
         \/ \E s \in RSlots : ForwardFromWq(s)
         \/ \E s \in RSlots : MergeRq(s)
         \/ \E s \in RSlots : KeepRq(s)
         \/ Tick
         \/ UNCHANGED queues
  PROVE  Pointers' /\ BanksFollowMode'
<1> USE RequestUpdate
<1>1. BanksFollowMode'
  BY DEF IInv, TypeOK, BanksFollowMode, SameBanks, End, Banks
<1>2. SameService(RQ, RQ') /\ SameService(WQ, WQ') => Pointers'
  BY UntouchedPointers DEF IInv, Pointers
<1>3. ASSUME NEW s \in RSlots, NEW ret \in SUBSET Uppers, NEW b \in Blocks, ~RQ[s].scheduled,
             \/ RQ' = [RQ EXCEPT ![s] = NewRequest(b, ret)]
             \/ RQ' = [RQ EXCEPT ![s] = Empty]
             \/ RQ' = [RQ EXCEPT ![s].forward_checked = TRUE]
      PROVE  SameService(RQ, RQ')
  <2>1. RQ \in [1..RQ_SIZE -> Request] /\ RQ_SIZE \in Nat /\ s \in 1..RQ_SIZE /\ RQ[s] \in Request
    BY DEF IInv, TypeOK, RSlots
  <2>2. RQ[s].scheduled = FALSE  BY <1>3, <2>1
  <2>3. PICK e \in Request : e.scheduled = FALSE /\ RQ' = [RQ EXCEPT ![s] = e]
    <3>1. NewRequest(b, ret) \in Request /\ NewRequest(b, ret).scheduled = FALSE
      BY RequestType DEF NewRequest, Empty
    <3>2. Empty \in Request /\ Empty.scheduled = FALSE  BY RequestType DEF Empty
    <3>3. [RQ[s] EXCEPT !.forward_checked = TRUE] \in Request  BY <2>1
    <3>4. [RQ[s] EXCEPT !.forward_checked = TRUE].scheduled = FALSE
      BY <2>1, <2>2 DEF Request
    <3> QED  BY <1>3, <3>1, <3>2, <3>3, <3>4
  <2> QED  BY <2>1, <2>2, <2>3, EditService
<1>4. ASSUME NEW s \in WSlots, NEW b \in Blocks, ~WQ[s].scheduled,
             \/ WQ' = [WQ EXCEPT ![s] = NewRequest(b, {})]
             \/ WQ' = [WQ EXCEPT ![s] = Empty]
             \/ WQ' = [WQ EXCEPT ![s].forward_checked = TRUE]
      PROVE  SameService(WQ, WQ')
  <2>1. WQ \in [1..WQ_SIZE -> Request] /\ WQ_SIZE \in Nat /\ s \in 1..WQ_SIZE /\ WQ[s] \in Request
    BY DEF IInv, TypeOK, WSlots
  <2>2. WQ[s].scheduled = FALSE  BY <1>4, <2>1
  <2>3. PICK e \in Request : e.scheduled = FALSE /\ WQ' = [WQ EXCEPT ![s] = e]
    <3>1. NewRequest(b, {}) \in Request /\ NewRequest(b, {}).scheduled = FALSE
      BY RequestType DEF NewRequest, Empty
    <3>2. Empty \in Request /\ Empty.scheduled = FALSE  BY RequestType DEF Empty
    <3>3. [WQ[s] EXCEPT !.forward_checked = TRUE] \in Request  BY <2>1
    <3>4. [WQ[s] EXCEPT !.forward_checked = TRUE].scheduled = FALSE
      BY <2>1, <2>2 DEF Request
    <3> QED  BY <1>4, <3>1, <3>2, <3>3, <3>4
  <2> QED  BY <2>1, <2>2, <2>3, EditService
<1>5. ASSUME NEW u \in Uppers, NEW b \in Blocks, AddRq(u, b) PROVE Pointers'
  <2>1. PICK s \in RSlots : ~Has(RQ[s]) /\ RQ' = [RQ EXCEPT ![s] = NewRequest(b, {u})]
    BY <1>5 DEF AddRq, FirstFree
  <2>2. WQ' = WQ  BY <1>5 DEF AddRq
  <2>3. ~RQ[s].scheduled  BY <2>1, NotScheduled
  <2>4. SameService(RQ, RQ')  BY <2>1, <2>3, <1>3
  <2> QED  BY <2>2, <2>4, <1>2, SameServiceRefl
<1>6. ASSUME NEW b \in Blocks, AddRqNoResponse(b) PROVE Pointers'
  <2>1. PICK s \in RSlots : ~Has(RQ[s]) /\ RQ' = [RQ EXCEPT ![s] = NewRequest(b, {})]
    BY <1>6 DEF AddRqNoResponse, FirstFree
  <2>2. WQ' = WQ  BY <1>6 DEF AddRqNoResponse
  <2>3. ~RQ[s].scheduled  BY <2>1, NotScheduled
  <2>4. SameService(RQ, RQ')  BY <2>1, <2>3, <1>3
  <2> QED  BY <2>2, <2>4, <1>2, SameServiceRefl
<1>7. ASSUME NEW b \in Blocks, AddWq(b) PROVE Pointers'
  <2>1. PICK s \in WSlots : ~Has(WQ[s]) /\ WQ' = [WQ EXCEPT ![s] = NewRequest(b, {})]
    BY <1>7 DEF AddWq, FirstFree
  <2>2. RQ' = RQ  BY <1>7 DEF AddWq
  <2>3. ~WQ[s].scheduled  BY <2>1, NotScheduled
  <2>4. SameService(WQ, WQ')  BY <2>1, <2>3, <1>4
  <2> QED  BY <2>2, <2>4, <1>2, SameServiceRefl
<1>8. ASSUME NEW s \in RSlots, FlushRead(s) PROVE Pointers'
  <2>1. ~RQ[s].scheduled /\ RQ[s].block \in Blocks
    BY <1>8, NotScheduled DEF FlushRead, IInv, TypeOK
  <2> QED  BY <1>8, <2>1, <1>2, <1>3, SameServiceRefl DEF FlushRead
<1>9. ASSUME EndFlush PROVE Pointers'
  <2>1. SameService(WQ, WQ')
    BY <1>9, NotScheduled DEF EndFlush, SameService, Empty, IInv, TypeOK
  <2> QED  BY <1>9, <2>1, <1>2, SameServiceRefl DEF EndFlush
<1>10. ASSUME NEW s \in WSlots, CheckWq(s) PROVE Pointers'
  <2>1. ~WQ[s].scheduled /\ WQ[s].block \in Blocks
    BY <1>10, NotScheduled DEF CheckWq, FirstUnchecked, Unchecked, IInv, TypeOK
  <2> QED  BY <1>10, <2>1, <1>2, <1>4, SameServiceRefl DEF CheckWq
<1>11. ASSUME NEW s \in RSlots, ForwardFromWq(s) PROVE Pointers'
  <2>1. ~RQ[s].scheduled /\ RQ[s].block \in Blocks
    BY <1>11, NotScheduled DEF ForwardFromWq, FirstUnchecked, Unchecked, IInv, TypeOK
  <2> QED  BY <1>11, <2>1, <1>2, <1>3, SameServiceRefl DEF ForwardFromWq
<1>12. ASSUME NEW s \in RSlots, MergeRq(s) PROVE Pointers'
  <2>1. ~RQ[s].scheduled
    BY <1>12, NotScheduled DEF MergeRq, FirstUnchecked, Unchecked, IInv, TypeOK
  <2>2. PICK t \in RSlots : RQ' = [RQ EXCEPT ![t].to_return = @ \cup RQ[s].to_return,
                                            ![s] = Empty]
    BY <1>12 DEF MergeRq
  <2>3. DOMAIN RQ' = DOMAIN RQ /\ \A r \in RSlots :
          RQ'[r].scheduled = RQ[r].scheduled /\ (RQ[r].scheduled => RQ'[r].block = RQ[r].block)
    <3>1. RQ'[s] = Empty /\ RQ[s].scheduled = FALSE
      BY <2>1, <2>2 DEF IInv, TypeOK
    <3>2. ASSUME t # s
          PROVE  RQ'[t].scheduled = RQ[t].scheduled /\ RQ'[t].block = RQ[t].block
      <4>1. RQ[t] \in Request /\ RQ'[t] = [RQ[t] EXCEPT !.to_return = @ \cup RQ[s].to_return]
        BY <2>2, <3>2 DEF IInv, TypeOK
      <4>2. RQ[s].to_return \in SUBSET Uppers  BY DEF IInv, TypeOK
      <4>3. LET m == [RQ[t] EXCEPT !.to_return = @ \cup RQ[s].to_return] IN
            m.scheduled = RQ[t].scheduled /\ m.block = RQ[t].block
        BY <4>1, <4>2 DEF Request
      <4> QED  BY <4>1, <4>3
    <3>3. ASSUME NEW r \in RSlots, r # s, r # t  PROVE RQ'[r] = RQ[r]
      BY <2>2, <3>3 DEF IInv, TypeOK
    <3> QED  BY <2>2, <3>1, <3>2, <3>3 DEF IInv, TypeOK, Empty
  <2>4. SameService(RQ, RQ')  BY <2>3 DEF SameService, IInv, TypeOK
  <2> QED  BY <1>12, <2>4, <1>2, SameServiceRefl DEF MergeRq
<1>13. ASSUME NEW s \in RSlots, KeepRq(s) PROVE Pointers'
  <2>1. ~RQ[s].scheduled /\ RQ[s].block \in Blocks
    BY <1>13, NotScheduled DEF KeepRq, FirstUnchecked, Unchecked, IInv, TypeOK
  <2> QED  BY <1>13, <2>1, <1>2, <1>3, SameServiceRefl DEF KeepRq
<1>14. ASSUME Tick PROVE Pointers'
  <2>1. SameService(RQ, RQ') /\ SameService(WQ, WQ')
    BY <1>14, AgedService DEF Tick, IInv, TypeOK, RSlots, WSlots
  <2> QED  BY <2>1, <1>2
<1>15. ASSUME UNCHANGED queues PROVE Pointers'
  BY <1>15, <1>2, SameServiceRefl DEF queues
<1> QED
  BY <1>1, <1>5, <1>6, <1>7, <1>8, <1>9, <1>10, <1>11, <1>12, <1>13, <1>14, <1>15

\* The request on the bus leaves its slot, and only its bank let go of it.
LEMMA FinishPointers ==
  ASSUME IInv, TypeOK', Finish
  PROVE  Pointers' /\ BanksFollowMode'
<1> DEFINE a == active_request
<1>1. a \in Banks /\ bank_request[a].valid
  BY DEF Finish, BusDone, IInv, TypeOK, BanksFollowMode
<1>2. \A k \in Banks : bank_request'[k] = IF k = a THEN Free(bank_request[a].open_row)
                                                   ELSE bank_request[k]
  BY <1>1 DEF Finish, IInv, TypeOK
<1>3. ~bank_request'[a].valid
  BY <1>1, <1>2 DEF Free
<1>4. BanksFollowMode'
  BY <1>2, <1>3 DEF Finish, IInv, BanksFollowMode
<1>5. CASE bank_request[a].write
  <2>1. PointsInto(WQ, a)  BY <1>1, <1>5 DEF IInv, BankPointsAtRequest
  <2>2. RQ' = RQ /\ WQ' = [WQ EXCEPT ![bank_request[a].pkt] = Empty]
    BY <1>5 DEF Finish
  <2>3. BankPointsAtRequest'
    <3> SUFFICES ASSUME NEW k \in Banks, bank_request'[k].valid
                 PROVE  IF bank_request'[k].write THEN PointsInto(WQ, k)' ELSE PointsInto(RQ, k)'
      BY DEF BankPointsAtRequest
    <3>1. k # a /\ bank_request'[k] = bank_request[k]  BY <1>2, <1>3
    <3> QED
      BY <2>1, <2>2, <3>1 DEF IInv, BankPointsAtRequest, PointsInto, TypeOK
  <2>4. Served(RQ, FALSE)'
    <3> SUFFICES ASSUME NEW s \in RSlots, RQ[s].scheduled
                 PROVE  LET bank == bank_request'[BankOf[RQ[s].block]] IN
                        Has(RQ[s]) /\ bank.valid /\ bank.write = FALSE /\ bank.pkt = s
      BY <2>2 DEF Served, IInv, TypeOK
    <3>1. LET bank == bank_request[BankOf[RQ[s].block]] IN
          Has(RQ[s]) /\ bank.valid /\ bank.write = FALSE /\ bank.pkt = s
      BY ServedByItsBank
    <3>2. BankOf[RQ[s].block] \in Banks /\ BankOf[RQ[s].block] # a
      BY <3>1, <1>5, RequestUpdate DEF IInv, TypeOK
    <3> QED  BY <3>1, <3>2, <1>2
  <2>5. Served(WQ, TRUE)'
    <3> SUFFICES ASSUME NEW s \in WSlots, WQ'[s].scheduled
                 PROVE  LET bank == bank_request'[BankOf[WQ'[s].block]] IN
                        Has(WQ'[s]) /\ bank.valid /\ bank.write = TRUE /\ bank.pkt = s
      BY DEF Served, TypeOK
    <3>1. s # bank_request[a].pkt /\ WQ'[s] = WQ[s]
      BY <2>1, <2>2 DEF Empty, PointsInto, IInv, TypeOK
    <3>2. LET bank == bank_request[BankOf[WQ[s].block]] IN
          Has(WQ[s]) /\ bank.valid /\ bank.write = TRUE /\ bank.pkt = s
      BY <3>1, ServedByItsBank
    <3>3. BankOf[WQ[s].block] \in Banks /\ BankOf[WQ[s].block] # a
      BY <3>1, <3>2, RequestUpdate DEF IInv, TypeOK
    <3> QED  BY <3>1, <3>2, <3>3, <1>2
  <2> QED  BY <2>3, <2>4, <2>5, <1>4 DEF Pointers, ScheduledIsServed
<1>6. CASE ~bank_request[a].write
  <2>1. PointsInto(RQ, a)  BY <1>1, <1>6 DEF IInv, BankPointsAtRequest
  <2>2. WQ' = WQ /\ RQ' = [RQ EXCEPT ![bank_request[a].pkt] = Empty]
    BY <1>6 DEF Finish
  <2>3. BankPointsAtRequest'
    <3> SUFFICES ASSUME NEW k \in Banks, bank_request'[k].valid
                 PROVE  IF bank_request'[k].write THEN PointsInto(WQ, k)' ELSE PointsInto(RQ, k)'
      BY DEF BankPointsAtRequest
    <3>1. k # a /\ bank_request'[k] = bank_request[k]  BY <1>2, <1>3
    <3> QED
      BY <2>1, <2>2, <3>1 DEF IInv, BankPointsAtRequest, PointsInto, TypeOK
  <2>4. Served(WQ, TRUE)'
    <3> SUFFICES ASSUME NEW s \in WSlots, WQ[s].scheduled
                 PROVE  LET bank == bank_request'[BankOf[WQ[s].block]] IN
                        Has(WQ[s]) /\ bank.valid /\ bank.write = TRUE /\ bank.pkt = s
      BY <2>2 DEF Served, IInv, TypeOK
    <3>1. LET bank == bank_request[BankOf[WQ[s].block]] IN
          Has(WQ[s]) /\ bank.valid /\ bank.write = TRUE /\ bank.pkt = s
      BY ServedByItsBank
    <3>2. BankOf[WQ[s].block] \in Banks /\ BankOf[WQ[s].block] # a
      BY <3>1, <1>6, RequestUpdate DEF IInv, TypeOK
    <3> QED  BY <3>1, <3>2, <1>2
  <2>5. Served(RQ, FALSE)'
    <3> SUFFICES ASSUME NEW s \in RSlots, RQ'[s].scheduled
                 PROVE  LET bank == bank_request'[BankOf[RQ'[s].block]] IN
                        Has(RQ'[s]) /\ bank.valid /\ bank.write = FALSE /\ bank.pkt = s
      BY DEF Served, TypeOK
    <3>1. s # bank_request[a].pkt /\ RQ'[s] = RQ[s]
      BY <2>1, <2>2 DEF Empty, PointsInto, IInv, TypeOK
    <3>2. LET bank == bank_request[BankOf[RQ[s].block]] IN
          Has(RQ[s]) /\ bank.valid /\ bank.write = FALSE /\ bank.pkt = s
      BY <3>1, ServedByItsBank
    <3>3. BankOf[RQ[s].block] \in Banks /\ BankOf[RQ[s].block] # a
      BY <3>1, <3>2, RequestUpdate DEF IInv, TypeOK
    <3> QED  BY <3>1, <3>2, <3>3, <1>2
  <2> QED  BY <2>3, <2>4, <2>5, <1>4 DEF Pointers, ScheduledIsServed
<1> QED  BY <1>5, <1>6

\* After a mode change only the bank on the bus serves, and what it serves is untouched.
LEMMA SwitchPointers ==
  ASSUME IInv, TypeOK', SwitchMode
  PROVE  Pointers' /\ BanksFollowMode'
<1>1. /\ active_request' = active_request
      /\ \A k \in Banks : bank_request'[k].valid => /\ k = active_request
                                                    /\ bank_request'[k] = bank_request[k]
                                                    /\ bank_request[k].valid
  BY DEF SwitchMode, Dropped, Free, IInv, TypeOK
<1>2. \A k \in Banks : k = active_request => bank_request'[k] = bank_request[k]
  BY DEF SwitchMode, Dropped, IInv, TypeOK
<1>3. BanksFollowMode'
  BY <1>1, <1>2 DEF IInv, BanksFollowMode, TypeOK
<1>4. /\ \A s \in RSlots : RQ'[s] = IF DroppedFrom(RQ, FALSE, s)
                                    THEN [RQ[s] EXCEPT !.scheduled = FALSE, !.age = 0] ELSE RQ[s]
      /\ \A s \in WSlots : WQ'[s] = IF DroppedFrom(WQ, TRUE, s)
                                    THEN [WQ[s] EXCEPT !.scheduled = FALSE, !.age = 0] ELSE WQ[s]
  BY DEF SwitchMode, Unscheduled, IInv, TypeOK
<1>5. BankPointsAtRequest'
  <2> SUFFICES ASSUME NEW k \in Banks, bank_request'[k].valid
               PROVE  IF bank_request'[k].write THEN PointsInto(WQ, k)' ELSE PointsInto(RQ, k)'
    BY DEF BankPointsAtRequest
  <2>1. k = active_request /\ bank_request'[k] = bank_request[k] /\ bank_request[k].valid
    BY <1>1
  <2>2. CASE bank_request[k].write
    <3>1. PointsInto(WQ, k)  BY <2>1, <2>2 DEF IInv, BankPointsAtRequest
    <3>2. ~DroppedFrom(WQ, TRUE, bank_request[k].pkt)
      BY <3>1, <2>1 DEF DroppedFrom, Dropped, IInv, BankPointsAtRequest, PointsInto
    <3>3. WQ'[bank_request[k].pkt] = WQ[bank_request[k].pkt]
      BY <1>4, <3>1, <3>2 DEF PointsInto, IInv, TypeOK
    <3> QED  BY <3>1, <3>3, <2>1, <2>2 DEF PointsInto, IInv, TypeOK
  <2>3. CASE ~bank_request[k].write
    <3>1. PointsInto(RQ, k)  BY <2>1, <2>3 DEF IInv, BankPointsAtRequest
    <3>2. ~DroppedFrom(RQ, FALSE, bank_request[k].pkt)
      BY <3>1, <2>1 DEF DroppedFrom, Dropped, IInv, BankPointsAtRequest, PointsInto
    <3>3. RQ'[bank_request[k].pkt] = RQ[bank_request[k].pkt]
      BY <1>4, <3>1, <3>2 DEF PointsInto, IInv, TypeOK
    <3> QED  BY <3>1, <3>3, <2>1, <2>3 DEF PointsInto, IInv, TypeOK
  <2> QED  BY <2>2, <2>3
<1>6. ASSUME NEW s \in RSlots, RQ'[s].scheduled
      PROVE  LET bank == bank_request'[BankOf[RQ'[s].block]] IN
             Has(RQ'[s]) /\ bank.valid /\ bank.write = FALSE /\ bank.pkt = s
  <2>0. RQ[s] \in Request  BY DEF IInv, TypeOK
  <2>1. ~DroppedFrom(RQ, FALSE, s) /\ RQ'[s] = RQ[s]
    <3>1. [RQ[s] EXCEPT !.scheduled = FALSE, !.age = 0].scheduled = FALSE
      BY <2>0 DEF Request
    <3> QED  BY <1>4, <1>6, <3>1
  <2>2. LET bank == bank_request[BankOf[RQ[s].block]] IN
        Has(RQ[s]) /\ bank.valid /\ bank.write = FALSE /\ bank.pkt = s
    BY <1>6, <2>1, ServedByItsBank
  <2>3. BankOf[RQ[s].block] \in Banks
    BY <2>0, <2>2, RequestUpdate
  <2>4. BankOf[RQ[s].block] = active_request
    BY <2>1, <2>2, <2>3 DEF DroppedFrom, Dropped
  <2> QED  BY <2>1, <2>2, <2>3, <2>4, <1>2
<1>7. ASSUME NEW s \in WSlots, WQ'[s].scheduled
      PROVE  LET bank == bank_request'[BankOf[WQ'[s].block]] IN
             Has(WQ'[s]) /\ bank.valid /\ bank.write = TRUE /\ bank.pkt = s
  <2>0. WQ[s] \in Request  BY DEF IInv, TypeOK
  <2>1. ~DroppedFrom(WQ, TRUE, s) /\ WQ'[s] = WQ[s]
    <3>1. [WQ[s] EXCEPT !.scheduled = FALSE, !.age = 0].scheduled = FALSE
      BY <2>0 DEF Request
    <3> QED  BY <1>4, <1>7, <3>1
  <2>2. LET bank == bank_request[BankOf[WQ[s].block]] IN
        Has(WQ[s]) /\ bank.valid /\ bank.write = TRUE /\ bank.pkt = s
    BY <1>7, <2>1, ServedByItsBank
  <2>3. BankOf[WQ[s].block] \in Banks
    BY <2>0, <2>2, RequestUpdate
  <2>4. BankOf[WQ[s].block] = active_request
    BY <2>1, <2>2, <2>3 DEF DroppedFrom, Dropped
  <2> QED  BY <2>1, <2>2, <2>3, <2>4, <1>2
<1> QED  BY <1>3, <1>5, <1>6, <1>7 DEF Pointers, ScheduledIsServed, Served, TypeOK

\* Taking the bus changes no pointer.
LEMMA BusPointers ==
  ASSUME IInv, TypeOK', NEW k \in Banks, PutOnBus(k)
  PROVE  Pointers' /\ BanksFollowMode'
<1>1. SameBanks /\ bank_request[k].valid
  BY BankUpdate DEF PutOnBus, ToBus, NextProcess, SameBanks, IInv, TypeOK, BankRequest
<1>2. BanksFollowMode'
  <2>1. active_request = End /\ active_request' = k /\ write_mode' = write_mode
    BY DEF PutOnBus, ToBus
  <2>2. k # End  BY DEF Banks, End
  <2>3. bank_request'[k].valid  BY <1>1 DEF SameBanks
  <2>4. \A j \in Banks : j # End  BY DEF Banks, End
  <2>5. \A j \in Banks : bank_request[j].valid => bank_request[j].write = write_mode
    BY <2>1, <2>4 DEF IInv, BanksFollowMode
  <2> QED  BY <1>1, <2>1, <2>3, <2>5 DEF SameBanks, BanksFollowMode
<1>3. SameService(RQ, RQ') /\ SameService(WQ, WQ')
  BY SameServiceRefl DEF PutOnBus, queues
<1> QED  BY <1>1, <1>2, <1>3, UntouchedPointers DEF IInv, Pointers

\* A free bank takes a waiting read: both ends of the new pointer are set at once.
LEMMA ReadPointers ==
  ASSUME IInv, TypeOK', NEW s \in RSlots, ScheduleRead(s)
  PROVE  Pointers' /\ BanksFollowMode'
<1>1. PICK k \in Banks : /\ k = BankOf[RQ[s].block] /\ ~bank_request[k].valid
                         /\ RQ[s] \in Request /\ Has(RQ[s]) /\ ~RQ[s].scheduled
  BY RequestUpdate DEF ScheduleRead, Schedulable, NextSchedule, Waiting, IInv, TypeOK
<1>2. /\ \A j \in Banks : j # k => bank_request'[j] = bank_request[j]
      /\ \A t \in RSlots : t # s => RQ'[t] = RQ[t]
      /\ WQ' = WQ
  BY <1>1 DEF ScheduleRead, IInv, TypeOK
<1>3. /\ bank_request'[k].valid /\ bank_request'[k].write = FALSE
      /\ bank_request'[k].pkt = s
  <2>1. bank_request'[k] = Serve(RQ[s].block, FALSE, s)
    BY <1>1 DEF ScheduleRead, IInv, TypeOK
  <2> QED  BY <2>1 DEF Serve
<1>4. RQ'[s].scheduled /\ RQ'[s].block = RQ[s].block
  <2>1. RQ'[s] = [RQ[s] EXCEPT !.scheduled = TRUE, !.age = 0]
    BY DEF ScheduleRead, IInv, TypeOK
  <2> QED  BY <1>1, <2>1 DEF Request
<1>5. BanksFollowMode'
  <2>1. write_mode = FALSE /\ write_mode' = write_mode /\ active_request' = active_request
    BY DEF ScheduleRead, IInv, TypeOK
  <2>2. BanksFollowMode BY DEF IInv
  <2>3. active_request # End => bank_request'[active_request].valid
    BY <1>2, <1>3, <2>2 DEF IInv, TypeOK, BanksFollowMode
  <2>4. \A j \in Banks : bank_request'[j].valid /\ j # active_request
                           => bank_request'[j].write = write_mode
    BY <1>2, <1>3, <2>1, <2>2 DEF BanksFollowMode
  <2> QED BY <2>1, <2>3, <2>4 DEF BanksFollowMode
<1>6. BankPointsAtRequest'
  <2> SUFFICES ASSUME NEW j \in Banks, bank_request'[j].valid
               PROVE  IF bank_request'[j].write THEN PointsInto(WQ, j)' ELSE PointsInto(RQ, j)'
    BY DEF BankPointsAtRequest
  <2>1. CASE j = k
    BY <2>1, <1>1, <1>2, <1>3, <1>4 DEF PointsInto, Has, TypeOK
  <2>2. CASE j # k
    <3>1. bank_request'[j] = bank_request[j]  BY <2>2, <1>2
    <3>2. CASE bank_request[j].write
      BY <3>1, <3>2, <1>2 DEF PointsInto, IInv, BankPointsAtRequest
    <3>3. CASE ~bank_request[j].write
      <4>1. PointsInto(RQ, j)  BY <3>1, <3>3 DEF IInv, BankPointsAtRequest
      <4>2. bank_request[j].pkt # s  BY <4>1, <1>1 DEF PointsInto
      <4> QED  BY <4>1, <4>2, <3>1, <3>3, <1>2 DEF PointsInto, IInv, TypeOK
    <3> QED  BY <3>2, <3>3
  <2> QED  BY <2>1, <2>2
<1>7. Served(WQ, TRUE)'
  <2> SUFFICES ASSUME NEW t \in WSlots, WQ[t].scheduled
               PROVE  LET bank == bank_request'[BankOf[WQ[t].block]] IN
                      Has(WQ[t]) /\ bank.valid /\ bank.write = TRUE /\ bank.pkt = t
    BY <1>2 DEF Served, IInv, TypeOK
  <2>1. LET bank == bank_request[BankOf[WQ[t].block]] IN
        Has(WQ[t]) /\ bank.valid /\ bank.write = TRUE /\ bank.pkt = t
    BY ServedByItsBank
  <2>2. BankOf[WQ[t].block] \in Banks /\ BankOf[WQ[t].block] # k
    BY <2>1, <1>1, RequestUpdate DEF IInv, TypeOK
  <2> QED  BY <2>1, <2>2, <1>2
<1>8. Served(RQ, FALSE)'
  <2> SUFFICES ASSUME NEW t \in RSlots, RQ'[t].scheduled
               PROVE  LET bank == bank_request'[BankOf[RQ'[t].block]] IN
                      Has(RQ'[t]) /\ bank.valid /\ bank.write = FALSE /\ bank.pkt = t
    BY DEF Served, TypeOK
  <2>1. CASE t = s
    BY <2>1, <1>1, <1>2, <1>3, <1>4 DEF Has
  <2>2. CASE t # s
    <3>1. RQ'[t] = RQ[t]  BY <2>2, <1>2
    <3>2. LET bank == bank_request[BankOf[RQ[t].block]] IN
          Has(RQ[t]) /\ bank.valid /\ bank.write = FALSE /\ bank.pkt = t
      BY <3>1, ServedByItsBank
    <3>3. BankOf[RQ[t].block] \in Banks /\ BankOf[RQ[t].block] # k
      BY <3>2, <1>1, RequestUpdate DEF IInv, TypeOK
    <3> QED  BY <3>1, <3>2, <3>3, <1>2
  <2> QED  BY <2>1, <2>2
<1> QED  BY <1>5, <1>6, <1>7, <1>8 DEF Pointers, ScheduledIsServed

\* A free bank takes a waiting write: both ends of the new pointer are set at once.
LEMMA WritePointers ==
  ASSUME IInv, TypeOK', NEW s \in WSlots, ScheduleWrite(s)
  PROVE  Pointers' /\ BanksFollowMode'
<1>1. PICK k \in Banks : /\ k = BankOf[WQ[s].block] /\ ~bank_request[k].valid
                         /\ WQ[s] \in Request /\ Has(WQ[s]) /\ ~WQ[s].scheduled
  BY RequestUpdate DEF ScheduleWrite, Schedulable, NextSchedule, Waiting, IInv, TypeOK
<1>2. /\ \A j \in Banks : j # k => bank_request'[j] = bank_request[j]
      /\ \A t \in WSlots : t # s => WQ'[t] = WQ[t]
      /\ RQ' = RQ
  BY <1>1 DEF ScheduleWrite, IInv, TypeOK
<1>3. /\ bank_request'[k].valid /\ bank_request'[k].write = TRUE
      /\ bank_request'[k].pkt = s
  <2>1. bank_request'[k] = Serve(WQ[s].block, TRUE, s)
    BY <1>1 DEF ScheduleWrite, IInv, TypeOK
  <2> QED  BY <2>1 DEF Serve
<1>4. WQ'[s].scheduled /\ WQ'[s].block = WQ[s].block
  <2>1. WQ'[s] = [WQ[s] EXCEPT !.scheduled = TRUE, !.age = 0]
    BY DEF ScheduleWrite, IInv, TypeOK
  <2> QED  BY <1>1, <2>1 DEF Request
<1>5. BanksFollowMode'
  <2>1. write_mode = TRUE /\ write_mode' = write_mode /\ active_request' = active_request
    BY DEF ScheduleWrite, IInv, TypeOK
  <2>2. BanksFollowMode BY DEF IInv
  <2>3. active_request # End => bank_request'[active_request].valid
    BY <1>2, <1>3, <2>2 DEF IInv, TypeOK, BanksFollowMode
  <2>4. \A j \in Banks : bank_request'[j].valid /\ j # active_request
                           => bank_request'[j].write = write_mode
    BY <1>2, <1>3, <2>1, <2>2 DEF BanksFollowMode
  <2> QED BY <2>1, <2>3, <2>4 DEF BanksFollowMode
<1>6. BankPointsAtRequest'
  <2> SUFFICES ASSUME NEW j \in Banks, bank_request'[j].valid
               PROVE  IF bank_request'[j].write THEN PointsInto(WQ, j)' ELSE PointsInto(RQ, j)'
    BY DEF BankPointsAtRequest
  <2>1. CASE j = k
    BY <2>1, <1>1, <1>2, <1>3, <1>4 DEF PointsInto, Has, TypeOK
  <2>2. CASE j # k
    <3>1. bank_request'[j] = bank_request[j]  BY <2>2, <1>2
    <3>2. CASE ~bank_request[j].write
      BY <3>1, <3>2, <1>2 DEF PointsInto, IInv, BankPointsAtRequest
    <3>3. CASE bank_request[j].write
      <4>1. PointsInto(WQ, j)  BY <3>1, <3>3 DEF IInv, BankPointsAtRequest
      <4>2. bank_request[j].pkt # s  BY <4>1, <1>1 DEF PointsInto
      <4> QED  BY <4>1, <4>2, <3>1, <3>3, <1>2 DEF PointsInto, IInv, TypeOK
    <3> QED  BY <3>2, <3>3
  <2> QED  BY <2>1, <2>2
<1>7. Served(RQ, FALSE)'
  <2> SUFFICES ASSUME NEW t \in RSlots, RQ[t].scheduled
               PROVE  LET bank == bank_request'[BankOf[RQ[t].block]] IN
                      Has(RQ[t]) /\ bank.valid /\ bank.write = FALSE /\ bank.pkt = t
    BY <1>2 DEF Served, IInv, TypeOK
  <2>1. LET bank == bank_request[BankOf[RQ[t].block]] IN
        Has(RQ[t]) /\ bank.valid /\ bank.write = FALSE /\ bank.pkt = t
    BY ServedByItsBank
  <2>2. BankOf[RQ[t].block] \in Banks /\ BankOf[RQ[t].block] # k
    BY <2>1, <1>1, RequestUpdate DEF IInv, TypeOK
  <2> QED  BY <2>1, <2>2, <1>2
<1>8. Served(WQ, TRUE)'
  <2> SUFFICES ASSUME NEW t \in WSlots, WQ'[t].scheduled
               PROVE  LET bank == bank_request'[BankOf[WQ'[t].block]] IN
                      Has(WQ'[t]) /\ bank.valid /\ bank.write = TRUE /\ bank.pkt = t
    BY DEF Served, TypeOK
  <2>1. CASE t = s
    BY <2>1, <1>1, <1>2, <1>3, <1>4 DEF Has
  <2>2. CASE t # s
    <3>1. WQ'[t] = WQ[t]  BY <2>2, <1>2
    <3>2. LET bank == bank_request[BankOf[WQ[t].block]] IN
          Has(WQ[t]) /\ bank.valid /\ bank.write = TRUE /\ bank.pkt = t
      BY <3>1, ServedByItsBank
    <3>3. BankOf[WQ[t].block] \in Banks /\ BankOf[WQ[t].block] # k
      BY <3>2, <1>1, RequestUpdate DEF IInv, TypeOK
    <3> QED  BY <3>1, <3>2, <3>3, <1>2
  <2> QED  BY <2>1, <2>2
<1> QED  BY <1>5, <1>6, <1>7, <1>8 DEF Pointers, ScheduledIsServed

(***************************************************************************)
(* Merging: a request gets its forward_checked mark only in check_collision *)
(* and only when no other request of the queue has its block.              *)
(***************************************************************************)
MarksFrom(q, r) ==
  /\ DOMAIN r = DOMAIN q
  /\ \A s \in DOMAIN q :
       /\ r[s].scheduled => r[s].forward_checked
       /\ r[s].forward_checked => q[s].forward_checked /\ r[s].block = q[s].block

LEMMA MarksKept ==
  ASSUME NEW q, NEW r, NoDuplicatesIn(q), MarksFrom(q, r)
  PROVE  NoDuplicatesIn(r)
BY DEF NoDuplicatesIn, MarksFrom

LEMMA MarksRefl == ASSUME NEW q, NoDuplicatesIn(q) PROVE MarksFrom(q, q)
BY DEF MarksFrom, NoDuplicatesIn

\* One slot gets a request without a mark, or none.
LEMMA MarksEdit ==
  ASSUME NEW n \in Nat, NEW q \in [1..n -> Request], NoDuplicatesIn(q),
         NEW s \in 1..n, NEW e, e.scheduled = FALSE, e.forward_checked = FALSE
  PROVE  MarksFrom(q, [q EXCEPT ![s] = e])
BY DEF MarksFrom, NoDuplicatesIn

LEMMA MarkOne ==
  ASSUME NEW n \in Nat, NEW q \in [1..n -> Request], NoDuplicatesIn(q),
         NEW s \in 1..n, SameBlock(q, s) = {}
  PROVE  NoDuplicatesIn([q EXCEPT ![s].forward_checked = TRUE])
<1> DEFINE r == [q EXCEPT ![s].forward_checked = TRUE]
<1>1. r[s] = [q[s] EXCEPT !.forward_checked = TRUE] /\ q[s] \in Request
  OBVIOUS
<1>2. r[s].block = q[s].block /\ r[s].forward_checked = TRUE
  BY <1>1 DEF Request
<1>3. \A t \in 1..n : t # s => r[t] = q[t] /\ q[t].block # q[s].block
  BY DEF SameBlock
<1>4. DOMAIN r = 1..n  OBVIOUS
<1> HIDE DEF r
<1> QED  BY <1>2, <1>3, <1>4 DEF NoDuplicatesIn

LEMMA NextNoDuplicates ==
  ASSUME IInv, TypeOK', [Next]_vars
  PROVE  NoDuplicates'
<1> USE DEF RSlots, WSlots
<1>1. /\ RQ \in [1..RQ_SIZE -> Request] /\ RQ_SIZE \in Nat /\ NoDuplicatesIn(RQ)
      /\ WQ \in [1..WQ_SIZE -> Request] /\ WQ_SIZE \in Nat /\ NoDuplicatesIn(WQ)
  BY DEF IInv, TypeOK, NoDuplicates
<1>2. MarksFrom(RQ, RQ') /\ MarksFrom(WQ, WQ') => NoDuplicates'
  BY <1>1, MarksKept DEF NoDuplicates
<1>3. MarksFrom(RQ, RQ) /\ MarksFrom(WQ, WQ)
  BY <1>1, MarksRefl
<1>4. /\ Empty.scheduled = FALSE /\ Empty.forward_checked = FALSE
      /\ \A b, ret : /\ NewRequest(b, ret).scheduled = FALSE
                     /\ NewRequest(b, ret).forward_checked = FALSE
  BY DEF Empty, NewRequest
<1>5. ASSUME NEW u \in Uppers, NEW b \in Blocks, AddRq(u, b) PROVE NoDuplicates'
  <2>1. PICK s \in 1..RQ_SIZE : RQ' = [RQ EXCEPT ![s] = NewRequest(b, {u})]
    BY <1>5 DEF AddRq
  <2>2. MarksFrom(RQ, RQ')
    <3> DEFINE e == NewRequest(b, {u})
    <3>1. e.scheduled = FALSE /\ e.forward_checked = FALSE  BY <1>4
    <3> HIDE DEF e
    <3> QED  BY <1>1, <2>1, <3>1, MarksEdit DEF e
  <2>3. WQ' = WQ  BY <1>5 DEF AddRq
  <2> QED  BY <1>2, <1>3, <2>2, <2>3
<1>6. ASSUME NEW b \in Blocks, AddRqNoResponse(b) PROVE NoDuplicates'
  <2>1. PICK s \in 1..RQ_SIZE : RQ' = [RQ EXCEPT ![s] = NewRequest(b, {})]
    BY <1>6 DEF AddRqNoResponse
  <2>2. MarksFrom(RQ, RQ')
    <3> DEFINE e == NewRequest(b, {})
    <3>1. e.scheduled = FALSE /\ e.forward_checked = FALSE  BY <1>4
    <3> HIDE DEF e
    <3> QED  BY <1>1, <2>1, <3>1, MarksEdit DEF e
  <2>3. WQ' = WQ  BY <1>6 DEF AddRqNoResponse
  <2> QED  BY <1>2, <1>3, <2>2, <2>3
<1>7. ASSUME NEW b \in Blocks, AddWq(b) PROVE NoDuplicates'
  <2>1. PICK s \in 1..WQ_SIZE : WQ' = [WQ EXCEPT ![s] = NewRequest(b, {})]
    BY <1>7 DEF AddWq
  <2>2. MarksFrom(WQ, WQ')
    <3> DEFINE e == NewRequest(b, {})
    <3>1. e.scheduled = FALSE /\ e.forward_checked = FALSE  BY <1>4
    <3> HIDE DEF e
    <3> QED  BY <1>1, <2>1, <3>1, MarksEdit DEF e
  <2>3. RQ' = RQ  BY <1>7 DEF AddWq
  <2> QED  BY <1>2, <1>3, <2>2, <2>3
<1>8. ASSUME NEW s \in RSlots, FlushRead(s) PROVE NoDuplicates'
  BY <1>1, <1>2, <1>3, <1>4, <1>8, MarksEdit DEF FlushRead
<1>9. ASSUME EndFlush PROVE NoDuplicates'
  <2>1. MarksFrom(WQ, WQ')
    BY <1>1, <1>3, <1>4, <1>9 DEF EndFlush, MarksFrom
  <2> QED  BY <1>2, <1>3, <1>9, <2>1 DEF EndFlush
<1>10. ASSUME NEW s \in WSlots, CheckWq(s) PROVE NoDuplicates'
  <2>1. CASE SameBlock(WQ, s) # {}
    BY <1>1, <1>2, <1>3, <1>4, <1>10, <2>1, MarksEdit DEF CheckWq
  <2>2. CASE SameBlock(WQ, s) = {}
    BY <1>1, <1>10, <2>2, MarkOne DEF CheckWq, NoDuplicates
  <2> QED  BY <2>1, <2>2
<1>11. ASSUME NEW s \in RSlots, ForwardFromWq(s) PROVE NoDuplicates'
  BY <1>1, <1>2, <1>3, <1>4, <1>11, MarksEdit DEF ForwardFromWq
<1>12. ASSUME NEW s \in RSlots, MergeRq(s) PROVE NoDuplicates'
  <2>1. PICK t \in RSlots \ {s} : RQ' = [RQ EXCEPT ![t].to_return = @ \cup RQ[s].to_return,
                                                  ![s] = Empty]
    BY <1>1, <1>12 DEF MergeRq, Found, SameBlock
  <2>2. /\ RQ'[s] = Empty /\ DOMAIN RQ' = DOMAIN RQ
        /\ RQ'[t] = [RQ[t] EXCEPT !.to_return = @ \cup RQ[s].to_return]
        /\ \A r \in RSlots \ {s, t} : RQ'[r] = RQ[r]
    BY <1>1, <2>1
  <2>3. /\ RQ'[t].scheduled = RQ[t].scheduled /\ RQ'[t].block = RQ[t].block
        /\ RQ'[t].forward_checked = RQ[t].forward_checked
    BY <1>1, <2>1, <2>2 DEF Request
  <2>4. MarksFrom(RQ, RQ')
    BY <1>1, <1>4, <2>2, <2>3 DEF MarksFrom, NoDuplicatesIn
  <2> QED  BY <1>2, <1>3, <1>12, <2>4 DEF MergeRq
<1>13. ASSUME NEW s \in RSlots, KeepRq(s) PROVE NoDuplicates'
  BY <1>1, <1>13, MarkOne DEF KeepRq, NoDuplicates
<1>14. ASSUME Finish PROVE NoDuplicates'
  <2> DEFINE bank == bank_request[active_request]
  <2>1. bank \in BankRequest /\ bank.valid
    BY <1>14 DEF Finish, BusDone, IInv, TypeOK, BanksFollowMode
  <2>2. CASE bank.write
    <3>1. bank.pkt \in 1..WQ_SIZE
      BY <1>1, <1>14, <2>1, <2>2
      DEF Finish, BusDone, IInv, TypeOK, BankPointsAtRequest, PointsInto
    <3>2. RQ' = RQ /\ WQ' = [WQ EXCEPT ![bank.pkt] = Empty]
      BY <1>14, <2>2 DEF Finish
    <3> QED  BY <1>1, <1>2, <1>3, <1>4, <3>1, <3>2, MarksEdit
  <2>3. CASE ~bank.write
    <3>1. bank.pkt \in 1..RQ_SIZE
      BY <1>1, <1>14, <2>1, <2>3
      DEF Finish, BusDone, IInv, TypeOK, BankPointsAtRequest, PointsInto
    <3>2. WQ' = WQ /\ RQ' = [RQ EXCEPT ![bank.pkt] = Empty]
      BY <1>14, <2>3 DEF Finish
    <3> QED  BY <1>1, <1>2, <1>3, <1>4, <3>1, <3>2, MarksEdit
  <2> QED  BY <2>2, <2>3
<1>15. ASSUME SwitchMode PROVE NoDuplicates'
  <2>1. ASSUME NEW n \in Nat, NEW q \in [1..n -> Request], NoDuplicatesIn(q),
               NEW write \in BOOLEAN
        PROVE  MarksFrom(q, Unscheduled(q, write))
    <3>1. ASSUME NEW s \in 1..n
          PROVE  LET r == Unscheduled(q, write) IN
                 /\ r[s].scheduled => q[s].scheduled
                 /\ r[s].forward_checked = q[s].forward_checked /\ r[s].block = q[s].block
      <4>1. CASE DroppedFrom(q, write, s)
        <5>1. Unscheduled(q, write)[s] = [q[s] EXCEPT !.scheduled = FALSE, !.age = 0]
          BY <4>1 DEF Unscheduled
        <5> QED  BY <5>1 DEF Request
      <4>2. CASE ~DroppedFrom(q, write, s)
        BY <4>2 DEF Unscheduled
      <4> QED  BY <4>1, <4>2
    <3>2. DOMAIN Unscheduled(q, write) = 1..n  BY DEF Unscheduled
    <3> QED  BY <2>1, <3>1, <3>2 DEF MarksFrom, NoDuplicatesIn
  <2> QED  BY <1>1, <1>2, <1>15, <2>1 DEF SwitchMode
<1>16. ASSUME NEW s \in RSlots, ScheduleRead(s) PROVE NoDuplicates'
  <2>1. RQ[s].forward_checked
    BY <1>1, <1>16 DEF ScheduleRead, Schedulable, NextSchedule, Waiting, IInv, StageFacts,
       AllChecked, Unchecked
  <2>2. /\ DOMAIN RQ' = DOMAIN RQ /\ \A t \in 1..RQ_SIZE : t # s => RQ'[t] = RQ[t]
        /\ RQ'[s] = [RQ[s] EXCEPT !.scheduled = TRUE, !.age = 0]
    BY <1>1, <1>16 DEF ScheduleRead
  <2>3. RQ'[s].block = RQ[s].block /\ RQ'[s].forward_checked = RQ[s].forward_checked
    BY <1>1, <2>2 DEF Request
  <2>4. MarksFrom(RQ, RQ')
    BY <1>1, <2>1, <2>2, <2>3 DEF MarksFrom, NoDuplicatesIn
  <2> QED  BY <1>2, <1>3, <1>16, <2>4 DEF ScheduleRead
<1>17. ASSUME NEW s \in WSlots, ScheduleWrite(s) PROVE NoDuplicates'
  <2>1. WQ[s].forward_checked
    BY <1>1, <1>17 DEF ScheduleWrite, Schedulable, NextSchedule, Waiting, IInv, StageFacts,
       AllChecked, Unchecked
  <2>2. /\ DOMAIN WQ' = DOMAIN WQ /\ \A t \in 1..WQ_SIZE : t # s => WQ'[t] = WQ[t]
        /\ WQ'[s] = [WQ[s] EXCEPT !.scheduled = TRUE, !.age = 0]
    BY <1>1, <1>17 DEF ScheduleWrite
  <2>3. WQ'[s].block = WQ[s].block /\ WQ'[s].forward_checked = WQ[s].forward_checked
    BY <1>1, <2>2 DEF Request
  <2>4. MarksFrom(WQ, WQ')
    BY <1>1, <2>1, <2>2, <2>3 DEF MarksFrom, NoDuplicatesIn
  <2> QED  BY <1>2, <1>3, <1>17, <2>4 DEF ScheduleWrite
<1>18. ASSUME Tick PROVE NoDuplicates'
  <2>1. ASSUME NEW n \in Nat, NEW q \in [1..n -> Request], NoDuplicatesIn(q)
        PROVE  MarksFrom(q, Aged(q))
    <3>1. ASSUME NEW s \in 1..n
          PROVE  /\ Aged(q)[s].scheduled = q[s].scheduled /\ Aged(q)[s].block = q[s].block
                 /\ Aged(q)[s].forward_checked = q[s].forward_checked
      <4>1. CASE Waiting(q[s])
        <5>1. Aged(q)[s] = [q[s] EXCEPT !.age = Cardinality(NoOlder(q, s))]
          BY <4>1 DEF Aged
        <5> QED  BY <5>1 DEF Request
      <4>2. CASE ~Waiting(q[s])  BY <4>2 DEF Aged
      <4> QED  BY <4>1, <4>2
    <3>2. DOMAIN Aged(q) = 1..n  BY DEF Aged
    <3> QED  BY <2>1, <3>1, <3>2 DEF MarksFrom, NoDuplicatesIn
  <2> QED  BY <1>1, <1>2, <1>18, <2>1 DEF Tick
<1>19. ASSUME UNCHANGED queues PROVE NoDuplicates'
  BY <1>19, <1>2, <1>3 DEF queues
<1> QED
  BY <1>5, <1>6, <1>7, <1>8, <1>9, <1>10, <1>11, <1>12, <1>13, <1>14, <1>15, <1>16, <1>17,
     <1>18, <1>19
  DEF Next, Operate, vars, queues, EndWarmup, EndInit, EndCheck, NothingToFinish, KeepMode,
      PutOnBus, BusCongested, NothingToSchedule

(***************************************************************************)
(* The facts the stages rely on.                                           *)
(***************************************************************************)
LEMMA NextStageFacts ==
  ASSUME IInv, TypeOK', [Next]_vars
  PROVE  StageFacts'
<1> USE DEF RSlots, WSlots
<1>1. /\ RQ \in [1..RQ_SIZE -> Request] /\ WQ \in [1..WQ_SIZE -> Request]
      /\ bank_request \in [Banks -> BankRequest]
      /\ \A s \in RSlots : ~Has(RQ[s]) => RQ[s] = Empty
      /\ \A s \in WSlots : (~Has(WQ[s]) => WQ[s] = Empty) /\ WQ[s].to_return = {}
  BY DEF IInv, TypeOK, StageFacts
<1>2. /\ ~Has(Empty) /\ Empty.to_return = {}
      /\ \A b \in Blocks, ret \in SUBSET Uppers : Has(NewRequest(b, ret)) /\ NewRequest(b, ret).to_return = ret
  BY DEF Empty, NewRequest, Has
<1>3. ASSUME NEW u \in Uppers, NEW b \in Blocks, AddRq(u, b) PROVE StageFacts'
  <2>1. PICK s \in RSlots : RQ' = [RQ EXCEPT ![s] = NewRequest(b, {u})]
    BY <1>3 DEF AddRq
  <2> QED  BY <1>1, <1>2, <1>3, <2>1 DEF AddRq, dram, IInv, StageFacts
<1>4. ASSUME NEW b \in Blocks, AddRqNoResponse(b) PROVE StageFacts'
  <2>1. PICK s \in RSlots : RQ' = [RQ EXCEPT ![s] = NewRequest(b, {})]
    BY <1>4 DEF AddRqNoResponse
  <2> QED  BY <1>1, <1>2, <1>4, <2>1 DEF AddRqNoResponse, dram, IInv, StageFacts
<1>5. ASSUME NEW b \in Blocks, AddWq(b) PROVE StageFacts'
  <2>1. PICK s \in WSlots : WQ' = [WQ EXCEPT ![s] = NewRequest(b, {})]
    BY <1>5 DEF AddWq
  <2> QED  BY <1>1, <1>2, <1>5, <2>1 DEF AddWq, dram, IInv, StageFacts
<1>6. ASSUME EndWarmup PROVE StageFacts'
  BY <1>1, <1>6 DEF EndWarmup, queues, dram, IInv, StageFacts
<1>7. ASSUME EndInit PROVE StageFacts'
  BY <1>1, <1>7 DEF EndInit, queues, dram, IInv, StageFacts
<1>8. ASSUME NEW s \in RSlots, FlushRead(s) PROVE StageFacts'
  BY <1>1, <1>2, <1>8 DEF FlushRead, dram, IInv, StageFacts
<1>9. ASSUME EndFlush PROVE StageFacts'
  BY <1>1, <1>2, <1>9 DEF EndFlush, dram, IInv, StageFacts, AllFree
<1>10. ASSUME NEW s \in WSlots, CheckWq(s) PROVE StageFacts'
  <2>1. CASE SameBlock(WQ, s) # {}
    <3>1. WQ' = [WQ EXCEPT ![s] = Empty]  BY <1>10, <2>1 DEF CheckWq
    <3> QED  BY <1>1, <1>2, <1>10, <3>1 DEF CheckWq, dram, IInv, StageFacts, AllFree, FirstUnchecked, Unchecked
  <2>2. CASE SameBlock(WQ, s) = {}
    <3>1. WQ' = [WQ EXCEPT ![s] = [WQ[s] EXCEPT !.forward_checked = TRUE]]
      BY <1>10, <2>2 DEF CheckWq
    <3>2. /\ WQ'[s].block = WQ[s].block /\ WQ'[s].to_return = WQ[s].to_return
          /\ \A t \in WSlots \ {s} : WQ'[t] = WQ[t]
      BY <1>1, <3>1 DEF Request
    <3>3. Has(WQ[s])  BY <1>10 DEF CheckWq, FirstUnchecked, Unchecked
    <3> QED  BY <1>1, <1>10, <3>2, <3>3 DEF CheckWq, dram, IInv, StageFacts, AllFree, Has
  <2> QED  BY <2>1, <2>2
<1>11. ASSUME NEW s \in RSlots, ForwardFromWq(s) PROVE StageFacts'
  BY <1>1, <1>2, <1>11 DEF ForwardFromWq, dram, IInv, StageFacts, AllFree, FirstUnchecked, Unchecked
<1>12. ASSUME NEW s \in RSlots, MergeRq(s) PROVE StageFacts'
  <2>1. PICK t \in RSlots \ {s} : /\ RQ[t].block = RQ[s].block
                                  /\ RQ' = [RQ EXCEPT ![t].to_return = @ \cup RQ[s].to_return,
                                                      ![s] = Empty]
    BY <1>1, <1>12 DEF MergeRq, Found, SameBlock
  <2>2. /\ RQ'[s] = Empty /\ RQ'[t] = [RQ[t] EXCEPT !.to_return = @ \cup RQ[s].to_return]
        /\ \A r \in RSlots \ {s, t} : RQ'[r] = RQ[r]
    BY <1>1, <2>1
  <2>3. RQ'[t].block = RQ[t].block  BY <1>1, <2>2 DEF Request
  <2>4. Has(RQ'[t]) /\ Has(RQ[s])
    BY <2>1, <2>3, <1>12 DEF MergeRq, FirstUnchecked, Unchecked, Has
  <2>5. StageFacts  BY DEF IInv
  <2>6. \A r \in RSlots : ~Has(RQ'[r]) => RQ'[r] = Empty
    BY <2>2, <2>4, <2>5 DEF StageFacts
  <2>7. ~AllFree(RQ)  BY <1>1, <2>4 DEF AllFree
  <2>8. pc = "check" /\ UNCHANGED <<pc, warmup, WQ, bank_request>>
    BY <1>12 DEF MergeRq, dram
  <2> QED  BY <2>5, <2>6, <2>7, <2>8 DEF StageFacts
<1>13. ASSUME NEW s \in RSlots, KeepRq(s) PROVE StageFacts'
  <2>1. RQ' = [RQ EXCEPT ![s] = [RQ[s] EXCEPT !.forward_checked = TRUE]]
    BY <1>13 DEF KeepRq
  <2>2. RQ'[s].block = RQ[s].block /\ \A t \in RSlots \ {s} : RQ'[t] = RQ[t]
    BY <1>1, <2>1 DEF Request
  <2>3. Has(RQ[s])  BY <1>13 DEF KeepRq, FirstUnchecked, Unchecked
  <2> QED  BY <1>1, <1>13, <2>2, <2>3 DEF KeepRq, dram, IInv, StageFacts, AllFree, Has
<1>14. ASSUME EndCheck PROVE StageFacts'
  BY <1>1, <1>14 DEF EndCheck, WqDone, queues, dram, IInv, StageFacts, AllChecked, Unchecked, AllFree
<1>15. ASSUME Finish PROVE StageFacts'
  <2> DEFINE a == active_request
  <2>1. a \in Banks /\ bank_request[a].valid /\ ~warmup
    BY <1>15 DEF Finish, BusDone, IInv, TypeOK, BanksFollowMode, StageFacts
  <2>2. CASE bank_request[a].write
    <3>1. WQ' = [WQ EXCEPT ![bank_request[a].pkt] = Empty] /\ RQ' = RQ
      BY <1>15, <2>2 DEF Finish
    <3> QED  BY <1>1, <1>2, <1>15, <2>1, <3>1 DEF Finish, IInv, StageFacts, AllChecked, Unchecked
  <2>3. CASE ~bank_request[a].write
    <3>1. RQ' = [RQ EXCEPT ![bank_request[a].pkt] = Empty] /\ WQ' = WQ
      BY <1>15, <2>3 DEF Finish
    <3> QED  BY <1>1, <1>2, <1>15, <2>1, <3>1 DEF Finish, IInv, StageFacts, AllChecked, Unchecked
  <2> QED  BY <2>2, <2>3
<1>16. ASSUME NothingToFinish PROVE StageFacts'
  BY <1>16 DEF NothingToFinish, queues, dram, IInv, StageFacts, AllChecked, Unchecked, AllFree
<1>17. ASSUME SwitchMode PROVE StageFacts'
  <2>1. /\ \A s \in RSlots : RQ'[s] = IF DroppedFrom(RQ, FALSE, s)
                                      THEN [RQ[s] EXCEPT !.scheduled = FALSE, !.age = 0] ELSE RQ[s]
        /\ \A s \in WSlots : WQ'[s] = IF DroppedFrom(WQ, TRUE, s)
                                      THEN [WQ[s] EXCEPT !.scheduled = FALSE, !.age = 0] ELSE WQ[s]
        /\ DOMAIN RQ' = 1..RQ_SIZE /\ DOMAIN WQ' = 1..WQ_SIZE
    BY <1>1, <1>17 DEF SwitchMode, Unscheduled
  <2>2. \A e \in Request : LET d == [e EXCEPT !.scheduled = FALSE, !.age = 0] IN
          d.block = e.block /\ d.to_return = e.to_return /\ d.forward_checked = e.forward_checked
    BY DEF Request
  <2>3. ASSUME NEW s \in RSlots, DroppedFrom(RQ, FALSE, s) PROVE Has(RQ[s])
    BY <2>3 DEF DroppedFrom, Dropped, IInv, BankPointsAtRequest, PointsInto
  <2>4. ASSUME NEW s \in WSlots, DroppedFrom(WQ, TRUE, s) PROVE Has(WQ[s])
    BY <2>4 DEF DroppedFrom, Dropped, IInv, BankPointsAtRequest, PointsInto
  <2>5. \A s \in RSlots : /\ RQ'[s].block = RQ[s].block
                          /\ RQ'[s].forward_checked = RQ[s].forward_checked
                          /\ ~Has(RQ[s]) => RQ'[s] = RQ[s]
    BY <1>1, <2>1, <2>2, <2>3
  <2>6. \A s \in WSlots : /\ WQ'[s].block = WQ[s].block /\ WQ'[s].to_return = WQ[s].to_return
                          /\ WQ'[s].forward_checked = WQ[s].forward_checked
                          /\ ~Has(WQ[s]) => WQ'[s] = WQ[s]
    BY <1>1, <2>1, <2>2, <2>4
  <2>7. \A k \in Banks : bank_request'[k].valid => bank_request[k].valid
    BY <1>17 DEF SwitchMode, Free, IInv, TypeOK
  <2>8. /\ \A s \in RSlots : ~Has(RQ'[s]) => RQ'[s] = Empty
        /\ \A s \in WSlots : (~Has(WQ'[s]) => WQ'[s] = Empty) /\ WQ'[s].to_return = {}
    BY <1>1, <2>5, <2>6 DEF Has
  <2>9. pc = "mode" /\ warmup' = warmup /\ AllChecked(RQ) /\ AllChecked(WQ)
        /\ (warmup => AllFree(RQ) /\ AllFree(WQ))
    BY <1>17 DEF SwitchMode, IInv, StageFacts
  <2>10. AllChecked(RQ)' /\ AllChecked(WQ)'
    BY <1>1, <2>1, <2>5, <2>6, <2>9 DEF AllChecked, Unchecked, Has
  <2>11. warmup' => AllFree(RQ)' /\ AllFree(WQ)'
    BY <1>1, <2>1, <2>5, <2>6, <2>9 DEF AllFree, Has
  <2>12. warmup' => \A k \in Banks : ~bank_request'[k].valid
    BY <2>7, <2>9 DEF IInv, StageFacts
  <2> QED  BY <2>8, <2>10, <2>11, <2>12 DEF StageFacts
<1>18. ASSUME KeepMode PROVE StageFacts'
  BY <1>18 DEF KeepMode, queues, dram, IInv, StageFacts, AllChecked, Unchecked, AllFree
<1>19. ASSUME NEW k \in Banks, PutOnBus(k) PROVE StageFacts'
  <2>1. bank_request[k].valid /\ ~warmup
    BY <1>19 DEF PutOnBus, ToBus, NextProcess, IInv, StageFacts
  <2> QED  BY <1>19, <2>1 DEF PutOnBus, queues, IInv, StageFacts, AllChecked, Unchecked
<1>20. ASSUME BusCongested PROVE StageFacts'
  BY <1>20 DEF BusCongested, queues, dram, IInv, StageFacts, AllChecked, Unchecked, AllFree
<1>21. ASSUME NEW s \in RSlots, ScheduleRead(s) PROVE StageFacts'
  <2>1. Has(RQ[s]) /\ ~warmup
    BY <1>1, <1>21 DEF ScheduleRead, Schedulable, NextSchedule, Waiting, IInv, StageFacts, AllFree
  <2>2. RQ' = [RQ EXCEPT ![s] = [RQ[s] EXCEPT !.scheduled = TRUE, !.age = 0]]
    BY <1>1, <1>21 DEF ScheduleRead
  <2>3. /\ RQ'[s].block = RQ[s].block /\ RQ'[s].forward_checked = RQ[s].forward_checked
        /\ DOMAIN RQ' = DOMAIN RQ /\ \A t \in RSlots \ {s} : RQ'[t] = RQ[t]
    BY <1>1, <2>2 DEF Request
  <2> QED  BY <1>1, <1>21, <2>1, <2>3 DEF ScheduleRead, IInv, StageFacts, AllChecked, Unchecked, Has
<1>22. ASSUME NEW s \in WSlots, ScheduleWrite(s) PROVE StageFacts'
  <2>1. Has(WQ[s]) /\ ~warmup
    BY <1>1, <1>22 DEF ScheduleWrite, Schedulable, NextSchedule, Waiting, IInv, StageFacts, AllFree
  <2>2. WQ' = [WQ EXCEPT ![s] = [WQ[s] EXCEPT !.scheduled = TRUE, !.age = 0]]
    BY <1>1, <1>22 DEF ScheduleWrite
  <2>3. /\ WQ'[s].block = WQ[s].block /\ WQ'[s].forward_checked = WQ[s].forward_checked
        /\ WQ'[s].to_return = WQ[s].to_return
        /\ DOMAIN WQ' = DOMAIN WQ /\ \A t \in WSlots \ {s} : WQ'[t] = WQ[t]
    BY <1>1, <2>2 DEF Request
  <2> QED  BY <1>1, <1>22, <2>1, <2>3 DEF ScheduleWrite, IInv, StageFacts, AllChecked, Unchecked, Has
<1>23. ASSUME NothingToSchedule PROVE StageFacts'
  BY <1>23 DEF NothingToSchedule, queues, dram, IInv, StageFacts, AllChecked, Unchecked, AllFree
<1>24. ASSUME Tick PROVE StageFacts'
  <2>1. ASSUME NEW n \in Nat, NEW q \in [1..n -> Request], NEW s \in 1..n
        PROVE  /\ Aged(q)[s].block = q[s].block /\ Aged(q)[s].to_return = q[s].to_return
               /\ ~Has(q[s]) => Aged(q)[s] = q[s]
    <3>1. CASE Waiting(q[s])
      <4>1. Aged(q)[s] = [q[s] EXCEPT !.age = Cardinality(NoOlder(q, s))]
        BY <3>1 DEF Aged
      <4> QED  BY <3>1, <4>1 DEF Request, Waiting
    <3>2. CASE ~Waiting(q[s])  BY <3>2 DEF Aged
    <3> QED  BY <3>1, <3>2
  <2>2. /\ \A s \in RSlots : RQ'[s].block = RQ[s].block /\ (~Has(RQ[s]) => RQ'[s] = RQ[s])
        /\ \A s \in WSlots : /\ WQ'[s].block = WQ[s].block /\ WQ'[s].to_return = WQ[s].to_return
                             /\ ~Has(WQ[s]) => WQ'[s] = WQ[s]
        /\ DOMAIN RQ' = 1..RQ_SIZE /\ DOMAIN WQ' = 1..WQ_SIZE
    BY <1>1, <1>24, <2>1 DEF Tick, Aged
  <2>3. \A k \in Banks : bank_request'[k].valid => bank_request[k].valid
    BY <1>1, <1>24 DEF Tick, BankRequest
  <2>4. /\ \A s \in RSlots : ~Has(RQ'[s]) => RQ'[s] = Empty
        /\ \A s \in WSlots : (~Has(WQ'[s]) => WQ'[s] = Empty) /\ WQ'[s].to_return = {}
    BY <1>1, <2>2 DEF Has
  <2>5. pc' = "init" /\ warmup' = warmup
    BY <1>24 DEF Tick
  <2>6. warmup' => \A k \in Banks : ~bank_request'[k].valid
    BY <2>3, <2>5 DEF IInv, StageFacts
  <2> QED  BY <2>4, <2>5, <2>6 DEF StageFacts
<1>25. ASSUME UNCHANGED vars PROVE StageFacts'
  BY <1>25 DEF vars, IInv, StageFacts, AllChecked, Unchecked, AllFree
<1> QED
  BY <1>3, <1>4, <1>5, <1>6, <1>7, <1>8, <1>9, <1>10, <1>11, <1>12, <1>13, <1>14, <1>15, <1>16,
     <1>17, <1>18, <1>19, <1>20, <1>21, <1>22, <1>23, <1>24, <1>25 DEF Next, Operate

(***************************************************************************)
(* Every read is answered exactly once.                                    *)
(***************************************************************************)
\* A stage that keeps who waits in which slot.
LEMMA SameReturns ==
  ASSUME AnsweredExactlyOnce, pending' = pending,
         \A s \in RSlots : /\ RQ'[s].to_return = RQ[s].to_return
                           /\ RQ[s].to_return # {} => RQ'[s].block = RQ[s].block
  PROVE  AnsweredExactlyOnce'
BY DEF AnsweredExactlyOnce

\* A response for a slot's block to the slot's to_return, which is then free.
LEMMA Answering ==
  ASSUME IInv, NEW s \in RSlots, Respond(RQ[s].block, RQ[s].to_return),
         RQ' = [RQ EXCEPT ![s] = Empty]
  PROVE  AnsweredExactlyOnce'
<1>1. /\ RQ'[s].to_return = {}
      /\ \A t \in RSlots \ {s} : RQ'[t] = RQ[t]
  BY DEF Empty, IInv, TypeOK
<1>2. \A u \in Uppers : pending'[u] = IF u \in RQ[s].to_return THEN pending[u] \ {RQ[s].block}
                                                               ELSE pending[u]
  BY DEF Respond
<1>3. ASSUME NEW u \in Uppers, NEW b \in pending'[u]
      PROVE  \E t \in RSlots : RQ'[t].block = b /\ u \in RQ'[t].to_return
  <2>0. b \in pending[u]  BY <1>2
  <2>1. PICK t \in RSlots : RQ[t].block = b /\ u \in RQ[t].to_return
    BY <2>0 DEF IInv, AnsweredExactlyOnce
  <2>2. t # s  BY <1>2, <2>1
  <2> QED  BY <1>1, <2>1, <2>2
<1>4. ASSUME NEW u \in Uppers, NEW t \in RSlots, u \in RQ'[t].to_return
      PROVE  RQ'[t].block \in pending'[u]
  <2>1. t # s /\ RQ'[t] = RQ[t]  BY <1>1, <1>4
  <2>2. RQ[t].block \in pending[u]
    BY <1>4, <2>1 DEF IInv, AnsweredExactlyOnce
  <2>3. u \in RQ[s].to_return => RQ[t].block # RQ[s].block
    BY <1>4, <2>1 DEF IInv, AnsweredExactlyOnce
  <2> QED  BY <1>2, <2>1, <2>2, <2>3
<1>5. ASSUME NEW u \in Uppers, NEW r \in RSlots, NEW t \in RSlots,
             u \in RQ'[r].to_return, u \in RQ'[t].to_return, RQ'[r].block = RQ'[t].block
      PROVE  r = t
  BY <1>1, <1>5 DEF IInv, AnsweredExactlyOnce
<1> QED  BY <1>3, <1>4, <1>5 DEF AnsweredExactlyOnce

LEMMA NextAnswered ==
  ASSUME IInv, TypeOK', [Next]_vars
  PROVE  AnsweredExactlyOnce'
<1> USE DEF RSlots, WSlots
<1>1. /\ RQ \in [RSlots -> Request] /\ AnsweredExactlyOnce
      /\ \A s \in RSlots : ~Has(RQ[s]) => RQ[s].to_return = {}
      /\ \A s \in WSlots : WQ[s].to_return = {}
  BY DEF IInv, TypeOK, StageFacts, Empty
<1>2. RQ' = RQ /\ pending' = pending => AnsweredExactlyOnce'
  BY <1>1, SameReturns
<1>3. ASSUME NEW u \in Uppers, NEW b \in Blocks, AddRq(u, b) PROVE AnsweredExactlyOnce'
  <2>1. PICK s \in RSlots : ~Has(RQ[s]) /\ RQ' = [RQ EXCEPT ![s] = NewRequest(b, {u})]
    BY <1>3 DEF AddRq, FirstFree
  <2>2. /\ RQ'[s].block = b /\ RQ'[s].to_return = {u} /\ RQ[s].to_return = {}
        /\ \A t \in RSlots \ {s} : RQ'[t] = RQ[t]
    BY <1>1, <2>1 DEF NewRequest, Empty
  <2>3. b \notin pending[u] /\ \A v \in Uppers : pending'[v] = IF v = u THEN pending[v] \cup {b} ELSE pending[v]
    BY <1>3 DEF AddRq, IInv, TypeOK
  <2>4. ASSUME NEW v \in Uppers, NEW c \in pending'[v]
        PROVE  \E t \in RSlots : RQ'[t].block = c /\ v \in RQ'[t].to_return
    <3>1. CASE c \in pending[v]
      <4>1. PICK t \in RSlots : RQ[t].block = c /\ v \in RQ[t].to_return
        BY <1>1, <3>1 DEF AnsweredExactlyOnce
      <4>2. t # s  BY <2>2, <4>1
      <4> QED  BY <2>2, <4>1, <4>2
    <3>2. CASE c \notin pending[v]
      BY <2>2, <2>3, <3>2
    <3> QED  BY <3>1, <3>2
  <2>5. ASSUME NEW v \in Uppers, NEW t \in RSlots, v \in RQ'[t].to_return
        PROVE  RQ'[t].block \in pending'[v]
    <3>1. CASE t = s  BY <2>2, <2>3, <2>5, <3>1
    <3>2. CASE t # s
      <4>1. RQ[t].block \in pending[v]  BY <1>1, <2>2, <2>5, <3>2 DEF AnsweredExactlyOnce
      <4> QED  BY <2>2, <2>3, <3>2, <4>1
    <3> QED  BY <3>1, <3>2
  <2>6. ASSUME NEW v \in Uppers, NEW r \in RSlots, NEW t \in RSlots,
               v \in RQ'[r].to_return, v \in RQ'[t].to_return, RQ'[r].block = RQ'[t].block
        PROVE  r = t
    <3>1. ASSUME NEW q \in RSlots \ {s}, v = u, u \in RQ'[q].to_return PROVE RQ'[q].block # b
      <4>1. RQ'[q] = RQ[q]  BY <2>2
      <4>2. RQ[q].block \in pending[u]  BY <1>1, <3>1, <4>1 DEF AnsweredExactlyOnce
      <4> QED  BY <2>3, <4>1, <4>2
    <3>2. CASE r = s
      <4>1. v = u /\ RQ'[t].block = b  BY <2>2, <2>6, <3>2
      <4> QED  BY <2>6, <3>1, <3>2, <4>1
    <3>3. CASE t = s
      <4>1. v = u /\ RQ'[r].block = b  BY <2>2, <2>6, <3>3
      <4> QED  BY <2>6, <3>1, <3>3, <4>1
    <3>4. CASE r # s /\ t # s
      <4>1. RQ'[r] = RQ[r] /\ RQ'[t] = RQ[t]  BY <2>2, <3>4
      <4> QED  BY <1>1, <2>6, <4>1 DEF AnsweredExactlyOnce
    <3> QED  BY <3>2, <3>3, <3>4
  <2> QED  BY <2>4, <2>5, <2>6 DEF AnsweredExactlyOnce
<1>4. ASSUME NEW b \in Blocks, AddRqNoResponse(b) PROVE AnsweredExactlyOnce'
  <2>1. PICK s \in RSlots : ~Has(RQ[s]) /\ RQ' = [RQ EXCEPT ![s] = NewRequest(b, {})]
    BY <1>4 DEF AddRqNoResponse, FirstFree
  <2>2. /\ RQ'[s].to_return = {} /\ RQ[s].to_return = {}
        /\ \A t \in RSlots \ {s} : RQ'[t] = RQ[t]
    BY <1>1, <2>1 DEF NewRequest, Empty
  <2> QED  BY <1>1, <1>4, <2>2, SameReturns DEF AddRqNoResponse
<1>5. ASSUME NEW s \in RSlots, FlushRead(s) PROVE AnsweredExactlyOnce'
  BY <1>5, Answering DEF FlushRead
<1>6. ASSUME NEW s \in RSlots, ForwardFromWq(s) PROVE AnsweredExactlyOnce'
  BY <1>6, Answering DEF ForwardFromWq
<1>7. ASSUME NEW s \in RSlots, MergeRq(s) PROVE AnsweredExactlyOnce'
  <2>1. PICK t \in RSlots \ {s} : /\ RQ[t].block = RQ[s].block
                                  /\ RQ' = [RQ EXCEPT ![t].to_return = @ \cup RQ[s].to_return,
                                                      ![s] = Empty]
    BY <1>1, <1>7 DEF MergeRq, Found, SameBlock
  <2>2. /\ RQ'[s] = Empty /\ RQ'[t] = [RQ[t] EXCEPT !.to_return = @ \cup RQ[s].to_return]
        /\ \A r \in RSlots \ {s, t} : RQ'[r] = RQ[r]
    BY <1>1, <2>1
  <2>3. /\ RQ'[t].block = RQ[t].block /\ RQ'[t].to_return = RQ[t].to_return \cup RQ[s].to_return
        /\ RQ'[s].to_return = {}
    BY <1>1, <2>1, <2>2 DEF Request, Empty
  <2>4. pending' = pending  BY <1>7 DEF MergeRq
  <2>5. ASSUME NEW v \in Uppers, NEW c \in pending'[v]
        PROVE  \E r \in RSlots : RQ'[r].block = c /\ v \in RQ'[r].to_return
    <3>1. PICK r \in RSlots : RQ[r].block = c /\ v \in RQ[r].to_return
      BY <1>1, <2>4 DEF AnsweredExactlyOnce
    <3>2. CASE r \in {s, t}
      <4>1. RQ'[t].block = c /\ v \in RQ'[t].to_return  BY <2>1, <2>3, <3>1, <3>2
      <4> QED  BY <4>1
    <3>3. CASE r \notin {s, t}  BY <2>2, <3>1, <3>3
    <3> QED  BY <3>2, <3>3
  <2>6. ASSUME NEW v \in Uppers, NEW r \in RSlots, v \in RQ'[r].to_return
        PROVE  \E r0 \in RSlots : /\ v \in RQ[r0].to_return /\ RQ[r0].block = RQ'[r].block
                                  /\ r = IF r0 = s THEN t ELSE r0
    <3>1. r # s  BY <2>3, <2>6
    <3>2. CASE r = t
      <4>1. v \in RQ[t].to_return \/ v \in RQ[s].to_return  BY <2>3, <2>6, <3>2
      <4>2. RQ'[r].block = RQ[t].block /\ RQ'[r].block = RQ[s].block  BY <2>1, <2>3, <3>2
      <4> QED  BY <2>1, <3>2, <4>1, <4>2
    <3>3. CASE r # t  BY <2>2, <2>6, <3>1, <3>3
    <3> QED  BY <3>2, <3>3
  <2>7. ASSUME NEW v \in Uppers, NEW r \in RSlots, v \in RQ'[r].to_return
        PROVE  RQ'[r].block \in pending'[v]
    <3>1. PICK r0 \in RSlots : v \in RQ[r0].to_return /\ RQ[r0].block = RQ'[r].block
      BY <2>6, <2>7
    <3>2. RQ[r0].block \in pending[v]  BY <1>1, <3>1 DEF AnsweredExactlyOnce
    <3> QED  BY <2>4, <3>1, <3>2
  <2>8. ASSUME NEW v \in Uppers, NEW r \in RSlots, NEW q \in RSlots,
               v \in RQ'[r].to_return, v \in RQ'[q].to_return, RQ'[r].block = RQ'[q].block
        PROVE  r = q
    <3>1. PICK r0 \in RSlots : /\ v \in RQ[r0].to_return /\ RQ[r0].block = RQ'[r].block
                               /\ r = IF r0 = s THEN t ELSE r0
      BY <2>6, <2>8
    <3>2. PICK q0 \in RSlots : /\ v \in RQ[q0].to_return /\ RQ[q0].block = RQ'[q].block
                               /\ q = IF q0 = s THEN t ELSE q0
      BY <2>6, <2>8
    <3>3. r0 = q0  BY <1>1, <2>8, <3>1, <3>2 DEF AnsweredExactlyOnce
    <3> QED  BY <3>1, <3>2, <3>3
  <2> QED  BY <2>5, <2>7, <2>8 DEF AnsweredExactlyOnce
<1>8. ASSUME NEW s \in RSlots, KeepRq(s) PROVE AnsweredExactlyOnce'
  <2>1. RQ' = [RQ EXCEPT ![s] = [RQ[s] EXCEPT !.forward_checked = TRUE]]
    BY <1>8 DEF KeepRq
  <2>2. /\ RQ'[s].block = RQ[s].block /\ RQ'[s].to_return = RQ[s].to_return
        /\ \A t \in RSlots \ {s} : RQ'[t] = RQ[t]
    BY <1>1, <2>1 DEF Request
  <2> QED  BY <1>1, <1>8, <2>2, SameReturns DEF KeepRq
<1>9. ASSUME Finish PROVE AnsweredExactlyOnce'
  <2> DEFINE bank == bank_request[active_request]
  <2>1. bank.valid /\ active_request \in Banks
    BY <1>9 DEF Finish, BusDone, IInv, TypeOK, BanksFollowMode
  <2>2. CASE bank.write
    <3>1. bank.pkt \in WSlots
      BY <2>1, <2>2 DEF IInv, BankPointsAtRequest, PointsInto, TypeOK
    <3>2. RQ' = RQ /\ Respond(WQ[bank.pkt].block, WQ[bank.pkt].to_return)
      BY <1>9, <2>2 DEF Finish
    <3>3. pending' = pending
      BY <1>1, <3>1, <3>2 DEF Respond, IInv, TypeOK
    <3> QED  BY <1>2, <3>2, <3>3
  <2>3. CASE ~bank.write
    <3>1. bank.pkt \in RSlots
      BY <2>1, <2>3 DEF IInv, BankPointsAtRequest, PointsInto, TypeOK
    <3>2. RQ' = [RQ EXCEPT ![bank.pkt] = Empty] /\ Respond(RQ[bank.pkt].block, RQ[bank.pkt].to_return)
      BY <1>9, <2>3 DEF Finish
    <3> QED  BY <3>1, <3>2, Answering
  <2> QED  BY <2>2, <2>3
<1>10. ASSUME SwitchMode PROVE AnsweredExactlyOnce'
  <2>1. \A s \in RSlots : RQ'[s] = IF DroppedFrom(RQ, FALSE, s)
                                   THEN [RQ[s] EXCEPT !.scheduled = FALSE, !.age = 0] ELSE RQ[s]
    BY <1>1, <1>10 DEF SwitchMode, Unscheduled
  <2>2. \A e \in Request : LET d == [e EXCEPT !.scheduled = FALSE, !.age = 0] IN
          d.block = e.block /\ d.to_return = e.to_return
    BY DEF Request
  <2>3. \A s \in RSlots : RQ'[s].block = RQ[s].block /\ RQ'[s].to_return = RQ[s].to_return
    BY <1>1, <2>1, <2>2
  <2> QED  BY <1>1, <1>10, <2>3, SameReturns DEF SwitchMode
<1>11. ASSUME NEW s \in RSlots, ScheduleRead(s) PROVE AnsweredExactlyOnce'
  <2>1. RQ' = [RQ EXCEPT ![s] = [RQ[s] EXCEPT !.scheduled = TRUE, !.age = 0]]
    BY <1>1, <1>11 DEF ScheduleRead
  <2>2. /\ RQ'[s].block = RQ[s].block /\ RQ'[s].to_return = RQ[s].to_return
        /\ \A t \in RSlots \ {s} : RQ'[t] = RQ[t]
    BY <1>1, <2>1 DEF Request
  <2> QED  BY <1>1, <1>11, <2>2, SameReturns DEF ScheduleRead
<1>12. ASSUME Tick PROVE AnsweredExactlyOnce'
  <2>1. ASSUME NEW s \in RSlots
        PROVE  RQ'[s].block = RQ[s].block /\ RQ'[s].to_return = RQ[s].to_return
    <3>1. CASE Waiting(RQ[s])
      <4>1. RQ'[s] = [RQ[s] EXCEPT !.age = Cardinality(NoOlder(RQ, s))]
        BY <1>1, <1>12, <3>1 DEF Tick, Aged
      <4> QED  BY <1>1, <4>1 DEF Request
    <3>2. CASE ~Waiting(RQ[s])  BY <1>1, <1>12, <3>2 DEF Tick, Aged
    <3> QED  BY <3>1, <3>2
  <2> QED  BY <1>1, <1>12, <2>1, SameReturns DEF Tick
<1> QED
  BY <1>2, <1>3, <1>4, <1>5, <1>6, <1>7, <1>8, <1>9, <1>10, <1>11, <1>12
  DEF Next, Operate, vars, queues, AddWq, EndWarmup, EndInit, EndFlush, CheckWq, EndCheck,
      NothingToFinish, KeepMode, PutOnBus, BusCongested, ScheduleWrite, NothingToSchedule

(***************************************************************************)
(* The inductive invariant, and what follows from it.                      *)
(***************************************************************************)
LEMMA NextPointers ==
  ASSUME IInv, TypeOK', [Next]_vars
  PROVE  Pointers' /\ BanksFollowMode'
<1>1. UNCHANGED <<bank_request, active_request, write_mode>> => SameBanks /\ UNCHANGED <<active_request, write_mode>>
  BY DEF SameBanks
<1>2. Tick => SameBanks /\ UNCHANGED <<active_request, write_mode>>
  BY DEF Tick, SameBanks, IInv, TypeOK, BankRequest
<1> QED
  BY <1>1, <1>2, QuietPointers, FinishPointers, SwitchPointers, BusPointers, ReadPointers, WritePointers
  DEF Next, Operate, vars, dram, queues, AddRq, AddRqNoResponse, AddWq, EndWarmup, EndInit, FlushRead,
      EndFlush, CheckWq, ForwardFromWq, MergeRq, KeepRq, EndCheck, NothingToFinish, KeepMode,
      BusCongested, NothingToSchedule

LEMMA InitIInv == Init => IInv
<1> SUFFICES ASSUME Init PROVE IInv
  OBVIOUS
<1>1. \A s \in RSlots : RQ[s] = Empty  BY DEF Init
<1>2. \A s \in WSlots : WQ[s] = Empty  BY DEF Init
<1>3. DOMAIN RQ = RSlots /\ DOMAIN WQ = WSlots  BY DEF Init
<1>4. \A k \in Banks : ~bank_request[k].valid  BY DEF Init, Free
<1>5. StageFacts  BY <1>1, <1>2, <1>3, <1>4 DEF Init, StageFacts, Empty
<1>6. BankPointsAtRequest /\ BanksFollowMode
  BY <1>4 DEF Init, BankPointsAtRequest, BanksFollowMode
<1>7. ScheduledIsServed /\ NoDuplicates
  BY <1>1, <1>2, <1>3 DEF ScheduledIsServed, Served, NoDuplicates, NoDuplicatesIn, Empty
<1>8. AnsweredExactlyOnce
  BY <1>1 DEF Init, AnsweredExactlyOnce, Empty
<1> QED  BY <1>5, <1>6, <1>7, <1>8, InitType DEF IInv

LEMMA NextIInv == IInv /\ [Next]_vars => IInv'
<1> SUFFICES ASSUME IInv, [Next]_vars PROVE IInv'
  OBVIOUS
<1>1. TypeOK'  BY NextType DEF IInv
<1> QED
  BY <1>1, NextStageFacts, NextPointers, NextNoDuplicates, NextAnswered DEF IInv, Pointers

\* The stages of operate() preserve the invariant, for every instance.
THEOREM Invariance == Spec => []IInv
BY InitIInv, NextIInv, PTL DEF Spec

\* Every busy bank points at a live request of its own, and every scheduled
\* request is served: no dangling iterator, no request stuck in its slot.
THEOREM BanksAndQueuesAgree ==
  Spec => []BanksMatchQueues
<1>1. IInv => BanksMatchQueues  BY DEF IInv, BanksMatchQueues
<1> QED  BY <1>1, Invariance, PTL

\* Merging keeps one request per block and never deletes a served one.
THEOREM MergingIsSafe == Spec => []NoDuplicates
<1>1. IInv => NoDuplicates  BY DEF IInv
<1> QED  BY <1>1, Invariance, PTL

\* Every upper level that waits for a block has exactly one read that will answer it.
THEOREM ReadsAnsweredOnce == Spec => []AnsweredExactlyOnce
<1>1. IInv => AnsweredExactlyOnce  BY DEF IInv
<1> QED  BY <1>1, Invariance, PTL

(***************************************************************************)
(* The controller implements a memory port.                                *)
(***************************************************************************)
\* Read off the slots of RQ, the waiting upper levels are the ones of the MSHRs.
LEMMA OwedIsPending == IInv => Owed = pending
<1> SUFFICES ASSUME IInv PROVE Owed = pending
  OBVIOUS
<1>1. ASSUME NEW u \in Uppers PROVE Owed[u] = pending[u]
  <2>1. Owed[u] = {RQ[s].block : s \in {r \in RSlots : u \in RQ[r].to_return}}
    BY DEF Owed
  <2>2. ASSUME NEW b \in Owed[u] PROVE b \in pending[u]
    <3>1. PICK s \in RSlots : u \in RQ[s].to_return /\ b = RQ[s].block  BY <2>1, <2>2
    <3> QED  BY <3>1 DEF IInv, AnsweredExactlyOnce
  <2>3. ASSUME NEW b \in pending[u] PROVE b \in Owed[u]
    <3>1. PICK s \in RSlots : RQ[s].block = b /\ u \in RQ[s].to_return
      BY <2>3 DEF IInv, AnsweredExactlyOnce
    <3> QED  BY <2>1, <3>1
  <2> QED  BY <2>2, <2>3
<1> QED  BY <1>1 DEF Owed, IInv, TypeOK

\* A response to the waiting levels of a slot is an answer of the port, or a stutter.
LEMMA RespondIsAnswer ==
  ASSUME IInv, NEW s \in RSlots, Has(RQ[s]), Respond(RQ[s].block, RQ[s].to_return)
  PROVE  \/ \E b \in Blocks, to \in SUBSET Uppers :
              /\ to # {} /\ \A u \in to : b \in pending[u]
              /\ pending' = [u \in Uppers |-> IF u \in to THEN pending[u] \ {b} ELSE pending[u]]
         \/ pending' = pending
<1>1. RQ[s].block \in Blocks /\ RQ[s].to_return \in SUBSET Uppers
  BY RequestUpdate DEF IInv, TypeOK
<1>2. \A u \in RQ[s].to_return : RQ[s].block \in pending[u]
  BY <1>1 DEF IInv, AnsweredExactlyOnce
<1>3. CASE RQ[s].to_return = {}
  <2>1. pending \in [Uppers -> SUBSET Blocks]  BY DEF IInv, TypeOK
  <2> QED  BY <1>3, <2>1 DEF Respond
<1>4. CASE RQ[s].to_return # {}
  <2> DEFINE b == RQ[s].block
             to == RQ[s].to_return
  <2>1. pending' = [u \in Uppers |-> IF u \in to THEN pending[u] \ {b} ELSE pending[u]]
    BY DEF Respond
  <2> HIDE DEF b, to
  <2>2. b \in Blocks /\ to \in SUBSET Uppers /\ to # {} /\ \A u \in to : b \in pending[u]
    BY <1>1, <1>2, <1>4 DEF b, to
  <2> QED  BY <2>1, <2>2
<1> QED  BY <1>3, <1>4

LEMMA PortStep ==
  ASSUME IInv, [Next]_vars
  PROVE  \/ \E u \in Uppers, b \in Blocks : /\ b \notin pending[u]
                                            /\ pending' = [pending EXCEPT ![u] = @ \cup {b}]
         \/ \E b \in Blocks, to \in SUBSET Uppers :
              /\ to # {} /\ \A u \in to : b \in pending[u]
              /\ pending' = [u \in Uppers |-> IF u \in to THEN pending[u] \ {b} ELSE pending[u]]
         \/ pending' = pending
<1>1. ASSUME NEW u \in Uppers, NEW b \in Blocks, AddRq(u, b)
      PROVE  b \notin pending[u] /\ pending' = [pending EXCEPT ![u] = @ \cup {b}]
  BY <1>1 DEF AddRq
<1>2. ASSUME NEW s \in RSlots, FlushRead(s)
      PROVE  Has(RQ[s]) /\ Respond(RQ[s].block, RQ[s].to_return)
  BY <1>2 DEF FlushRead
<1>3. ASSUME NEW s \in RSlots, ForwardFromWq(s)
      PROVE  Has(RQ[s]) /\ Respond(RQ[s].block, RQ[s].to_return)
  BY <1>3 DEF ForwardFromWq, FirstUnchecked, Unchecked
<1>4. ASSUME Finish
      PROVE  \/ \E s \in RSlots : Has(RQ[s]) /\ Respond(RQ[s].block, RQ[s].to_return)
             \/ pending' = pending
  <2> DEFINE bank == bank_request[active_request]
  <2>1. bank.valid /\ active_request \in Banks
    BY <1>4 DEF Finish, BusDone, IInv, TypeOK, BanksFollowMode
  <2>2. CASE bank.write
    <3>1. bank.pkt \in WSlots /\ WQ[bank.pkt].to_return = {}
      BY <2>1, <2>2 DEF IInv, BankPointsAtRequest, PointsInto, TypeOK, StageFacts
    <3>2. Respond(WQ[bank.pkt].block, WQ[bank.pkt].to_return)
      BY <1>4, <2>2 DEF Finish
    <3> QED  BY <3>1, <3>2 DEF Respond, IInv, TypeOK
  <2>3. CASE ~bank.write
    <3>1. bank.pkt \in RSlots /\ Has(RQ[bank.pkt])
      BY <2>1, <2>3 DEF IInv, BankPointsAtRequest, PointsInto, TypeOK
    <3>2. Respond(RQ[bank.pkt].block, RQ[bank.pkt].to_return)
      BY <1>4, <2>3 DEF Finish
    <3> QED  BY <3>1, <3>2
  <2> QED  BY <2>2, <2>3
<1>5. ASSUME ~\E u \in Uppers, b \in Blocks : AddRq(u, b),
             ~\E s \in RSlots : FlushRead(s) \/ ForwardFromWq(s),
             ~Finish
      PROVE  pending' = pending
  BY <1>5 DEF Next, Operate, vars, queues, AddRqNoResponse, AddWq, EndWarmup, EndInit, EndFlush, CheckWq,
     MergeRq, KeepRq, EndCheck, NothingToFinish, SwitchMode, KeepMode, PutOnBus, BusCongested,
     ScheduleRead, ScheduleWrite, NothingToSchedule, Tick
<1> QED  BY <1>1, <1>2, <1>3, <1>4, <1>5, RespondIsAnswer

\* The DRAM channel, whatever its queues, banks, bus and modes do, answers its
\* upper levels as the abstract memory port does.
THEOREM DramImplementsMemPort == Spec => ImplementsMemPort
<1>0. IInv' => (Owed = pending)'
  BY OwedIsPending, PTL
<1>1. Init => Port!Init
  <2> SUFFICES ASSUME Init PROVE /\ pending = [u \in Uppers |-> {}]
                                  /\ Owed = [u \in Uppers |-> {}]
    BY DEF Port!Init
  <2>1. Owed = pending  BY InitIInv, OwedIsPending
  <2> QED  BY <2>1 DEF Init
<1>2. IInv /\ IInv' /\ [Next]_vars => [Port!Next]_<<pending, Owed>>
  <2> SUFFICES ASSUME IInv, IInv', [Next]_vars PROVE Port!Next \/ UNCHANGED <<pending, Owed>>
    OBVIOUS
  <2>1. Owed = pending  BY OwedIsPending
  <2>2. Owed' = pending'  BY <1>0
  <2> QED  BY <2>1, <2>2, PortStep DEF Port!Next, Port!Ask, Port!Answer
<1> QED  BY <1>1, <1>2, Invariance, PTL DEF Spec, ImplementsMemPort, Port!Spec, Port!vars

(***************************************************************************)
(* Writes leave their queue through the bus.                               *)
(***************************************************************************)
\* The blocks of the write queue stay in it, in the same slot or merged into another.
WritesKept == \A s \in WSlots : Has(WQ[s]) => \E t \in WSlots : WQ'[t].block = WQ[s].block

\* A slot that keeps its block keeps the write.
LEMMA SameBlocks ==
  ASSUME \A s \in WSlots : Has(WQ[s]) => WQ'[s].block = WQ[s].block
  PROVE  WritesKept
BY DEF WritesKept

\* Every step but the flush and the end of a write on the bus keeps the writes.
LEMMA OthersKeepWrites ==
  ASSUME IInv, [Next]_vars, ~EndFlush, ~Finish
  PROVE  WritesKept
<1>0. WQ \in [WSlots -> Request]  BY DEF IInv, TypeOK
<1>1. ASSUME NEW b \in Blocks, AddWq(b) PROVE WritesKept
  <2>1. PICK s \in WSlots : ~Has(WQ[s]) /\ WQ' = [WQ EXCEPT ![s] = NewRequest(b, {})]
    BY <1>1 DEF AddWq, FirstFree
  <2>2. \A r \in WSlots : Has(WQ[r]) => WQ'[r] = WQ[r]  BY <1>0, <2>1
  <2> QED  BY <2>2, SameBlocks
<1>2. ASSUME NEW s \in WSlots, CheckWq(s) PROVE WritesKept
  <2>1. CASE SameBlock(WQ, s) # {}
    <3>1. PICK t \in WSlots : t # s /\ WQ[t].block = WQ[s].block
      BY <1>0, <2>1 DEF SameBlock
    <3>2. WQ' = [WQ EXCEPT ![s] = Empty]  BY <1>2, <2>1 DEF CheckWq
    <3>3. \A r \in WSlots \ {s} : WQ'[r] = WQ[r]  BY <1>0, <3>2
    <3> QED  BY <3>1, <3>3 DEF WritesKept
  <2>2. CASE SameBlock(WQ, s) = {}
    <3>1. WQ' = [WQ EXCEPT ![s].forward_checked = TRUE]  BY <1>2, <2>2 DEF CheckWq
    <3>2. \A r \in WSlots : WQ'[r].block = WQ[r].block  BY <1>0, <3>1 DEF Request
    <3> QED  BY <3>2, SameBlocks
  <2> QED  BY <2>1, <2>2
<1>3. ASSUME SwitchMode PROVE WritesKept
  <2>1. WQ' = Unscheduled(WQ, TRUE)  BY <1>3 DEF SwitchMode
  <2>2. \A r \in WSlots : WQ'[r].block = WQ[r].block  BY <1>0, <2>1 DEF Unscheduled, Request
  <2> QED  BY <2>2, SameBlocks
<1>4. ASSUME NEW s \in WSlots, ScheduleWrite(s) PROVE WritesKept
  <2>1. WQ' = [WQ EXCEPT ![s].scheduled = TRUE, ![s].age = 0]  BY <1>4 DEF ScheduleWrite
  <2>2. \A r \in WSlots : WQ'[r].block = WQ[r].block  BY <1>0, <2>1 DEF Request
  <2> QED  BY <2>2, SameBlocks
<1>5. ASSUME Tick PROVE WritesKept
  <2>1. WQ' = Aged(WQ)  BY <1>5 DEF Tick
  <2>2. ASSUME NEW r \in WSlots PROVE WQ'[r].block = WQ[r].block
    <3>1. WQ'[r] = IF Waiting(WQ[r]) THEN [WQ[r] EXCEPT !.age = Cardinality(NoOlder(WQ, r))]
                   ELSE WQ[r]
      BY <1>0, <2>1 DEF Aged
    <3>2. WQ[r] \in Request  BY <1>0
    <3> QED  BY <3>1, <3>2 DEF Request
  <2> QED  BY <2>2, SameBlocks
<1>6. ASSUME ~\E b \in Blocks : AddWq(b), ~SwitchMode, ~Tick,
             ~\E s \in WSlots : CheckWq(s) \/ ScheduleWrite(s)
      PROVE  WritesKept
  <2>1. WQ' = WQ
    BY <1>6 DEF Next, Operate, vars, queues, AddRq, AddRqNoResponse, EndWarmup, EndInit, FlushRead,
       ForwardFromWq, MergeRq, KeepRq, EndCheck, NothingToFinish, KeepMode, PutOnBus, BusCongested,
       ScheduleRead, NothingToSchedule
  <2> QED  BY <2>1, SameBlocks
<1> QED  BY <1>1, <1>2, <1>3, <1>4, <1>5, <1>6

\* No write is forgotten: merging, mode changes and scheduling keep its block in
\* the queue until a bank has put it on the data bus (or the warmup ends it).
THEOREM WritesLeaveThroughTheBus == Spec => WritesReachBank
<1> DEFINE Gone(b) == /\ \E s \in WSlots : WQ[s].block = b
                      /\ \A s \in WSlots : WQ'[s].block # b
           Done(b) == \/ warmup /\ pc = "flush"
                      \/ /\ active_request # End /\ bank_request[active_request].write
                         /\ WQ[bank_request[active_request].pkt].block = b
<1>1. ASSUME IInv, [Next]_vars, NEW b \in Blocks, Gone(b) PROVE Done(b)
  <2>0. WQ \in [WSlots -> Request]  BY <1>1 DEF IInv, TypeOK
  <2>1. PICK s \in WSlots : WQ[s].block = b  BY <1>1
  <2>2. ~WritesKept  BY <1>1, <2>1, NoneAssumption DEF WritesKept, Has
  <2>3. CASE EndFlush
    <3>1. warmup  BY <1>1, <2>3 DEF EndFlush
    <3> QED  BY <2>3, <3>1 DEF EndFlush
  <2>4. CASE Finish
    <3>1. active_request # End  BY <2>4 DEF Finish, BusDone
    <3>2. bank_request[active_request].write  BY <1>1, <2>4 DEF Finish
    <3>3. WQ' = [WQ EXCEPT ![bank_request[active_request].pkt] = Empty]  BY <2>4, <3>2 DEF Finish
    <3>4. s = bank_request[active_request].pkt  BY <1>1, <2>0, <2>1, <3>3
    <3> QED  BY <2>1, <3>1, <3>2, <3>4
  <2> QED  BY <1>1, <2>2, <2>3, <2>4, OthersKeepWrites
<1>2. IInv /\ [Next]_vars => [\A b \in Blocks : Gone(b) => Done(b)]_vars
  BY <1>1
<1> QED  BY <1>2, Invariance, PTL DEF Spec, WritesReachBank
=============================================================================
