--------------------------- MODULE Backend_proofs ---------------------------
(***************************************************************************)
(* Proofs about the back end of O3_CPU, for any trace, any registers and   *)
(* addresses, any sizes of ROB, LQ and SQ, and any widths and latencies.   *)
(* The invariant has a part for each hazard: the instructions in flight    *)
(* are consecutive and the scheduled ones the oldest (OrderInv), stores    *)
(* stand in program order behind those written (StoreInv), each memory     *)
(* operation is done or in one place (MemInv), each load that waits for a  *)
(* store is known to that store alone (DependInv), and what an instruction *)
(* counts as missing registers is what its producers will tell it          *)
(* (RegInv).                                                               *)
(***************************************************************************)
EXTENDS Backend, FiniteSetTheorems, FunctionTheorems, WellFoundedInduction, NaturalsInduction, TLAPS

\* The instructions in the ROB, and the entry of each.
Dispatched == Len(trace) - Len(DISPATCH_BUFFER)
Oldest == Dispatched - Len(ROB)
Live == Oldest + 1..Dispatched
At(id) == ROB[id - Oldest]

OrderInv ==
  /\ Oldest >= 0
  /\ \A i \in DOMAIN DISPATCH_BUFFER : DISPATCH_BUFFER[i].instr_id = Dispatched + i
  /\ \A id \in Live : At(id).instr_id = id
  /\ \A p, id \in Live : p < id /\ At(id).scheduled => At(p).scheduled
  /\ \A id \in Live : At(id).executed # "no" => At(id).scheduled

\* dispatch_instruction has looked for room for the stores that are still to be placed.
PlaceInv == pc = "place" => /\ Dispatched \in Live /\ SQRoom(trace[Dispatched])
                            /\ \A k \in DOMAIN SQ : SQ[k].instr_id # Dispatched

StoreInv ==
  /\ \A k \in DOMAIN SQ : SQ[k].instr_id <= Dispatched
  /\ \A j, k \in DOMAIN SQ : j < k => SQ[j].instr_id <= SQ[k].instr_id
  /\ \A i \in DOMAIN written : /\ written[i] <= Oldest
                               /\ \A k \in DOMAIN SQ : written[i] <= SQ[k].instr_id
  /\ \A i, j \in DOMAIN written : i < j => written[i] <= written[j]

\* What dispatch has not placed yet of instruction id.
Unread(id) == IF pc = "place" /\ id = Dispatched
              THEN Len(todo) + Len(trace[id].destination_memory) ELSE 0
MemInv ==
  /\ \A id \in Live : At(id).completed_mem_ops + Cardinality(LoadsOf(id)) + Cardinality(StoresOf(id))
                        + Unread(id) = num_mem_ops(id)
  /\ \A s \in Used : LQ[s].instr_id \in Live
  /\ \A k \in DOMAIN SQ : ~SQ[k].fetch_issued => SQ[k].instr_id \in Live
  /\ \A id \in Live : At(id).executed = "COMPLETED" => At(id).completed_mem_ops = num_mem_ops(id)

\* A load that waits for a store is known to one store.
DependInv ==
  /\ DependentsMatch
  /\ \A j, k \in DOMAIN SQ : ~SQ[j].fetch_issued /\ ~SQ[k].fetch_issued /\ j # k
                               => SQ[j].lq_depend_on_me \cap SQ[k].lq_depend_on_me = {}

Writes(p, r) == r \in trace[p].destination_registers
LastWriter(p, id, r) == /\ p \in Live /\ p < id /\ Writes(p, r)
                        /\ \A q \in Live : q < id /\ Writes(q, r) => q <= p
WaitsFor(id) == {p \in Live : At(p).executed # "COMPLETED"
                              /\ id \in At(p).registers_instrs_depend_on_me}
RegInv ==
  /\ \A r \in Registers :
       reg_producers[r] = {p \in Live : At(p).scheduled /\ At(p).executed # "COMPLETED" /\ Writes(p, r)}
  /\ \A id \in Live : At(id).num_reg_dependent = Cardinality(WaitsFor(id))
  /\ \A p \in Live : \A id \in At(p).registers_instrs_depend_on_me :
       id \in Live /\ p < id /\ At(id).scheduled
  /\ \A id \in Live : At(id).scheduled =>
       \A r \in trace[id].source_registers : \A p \in Live :
         LastWriter(p, id, r) => \/ At(p).executed = "COMPLETED"
                                 \/ id \in At(p).registers_instrs_depend_on_me

\* What executes has its registers.
ReadyInv ==
  \A id \in Live : At(id).executed # "no" =>
    \A r \in trace[id].source_registers : \A p \in Live :
      LastWriter(p, id, r) => At(p).executed = "COMPLETED"

IInv == /\ TypeOK /\ OrderInv /\ PlaceInv /\ StoreInv /\ MemInv /\ DependInv
        /\ LoadsSeeOlderStores /\ RegInv /\ ReadyInv
-----------------------------------------------------------------------------
(* Sequences, finite sets and least elements *)

LEMMA ItemFacts ==
  ASSUME NEW S, NEW q \in Seq(S), NEW i \in DOMAIN q
  PROVE  q[i] \in S
OBVIOUS

LEMMA HeadFacts ==
  ASSUME NEW S, NEW q \in Seq(S), q # <<>>
  PROVE  1 \in DOMAIN q /\ q[1] \in S
OBVIOUS

LEMMA TailFacts ==
  ASSUME NEW S, NEW q \in Seq(S), q # <<>>
  PROVE  /\ Tail(q) \in Seq(S) /\ Len(Tail(q)) = Len(q) - 1
         /\ DOMAIN Tail(q) = 1..(Len(q) - 1)
         /\ \A i \in 1..(Len(q) - 1) : Tail(q)[i] = q[i + 1]
OBVIOUS

LEMMA AppendFacts ==
  ASSUME NEW S, NEW q \in Seq(S), NEW y \in S
  PROVE  /\ Append(q, y) \in Seq(S) /\ Len(Append(q, y)) = Len(q) + 1
         /\ Append(q, y)[Len(q) + 1] = y
         /\ \A i \in 1..Len(q) : Append(q, y)[i] = q[i]
OBVIOUS

\* A sequence with other items in its places.
LEMMA ReplacedType ==
  ASSUME NEW S, NEW q \in Seq(S), NEW T, NEW f \in [DOMAIN q -> T]
  PROVE  f \in Seq(T) /\ Len(f) = Len(q) /\ DOMAIN f = DOMAIN q
OBVIOUS

LEMMA RemoveHead ==
  ASSUME NEW S, NEW q \in Seq(S), q # <<>>
  PROVE  RemoveAt(q, 1) = Tail(q)
<1>1. SubSeq(q, 1, 1 - 1) = <<>> OBVIOUS
<1>2. SubSeq(q, 1 + 1, Len(q)) = Tail(q) OBVIOUS
<1>3. Tail(q) \in Seq(S) OBVIOUS
<1>4. <<>> \o Tail(q) = Tail(q) BY <1>3
<1> QED BY <1>1, <1>2, <1>4 DEF RemoveAt

LEMMA RemoveAtType ==
  ASSUME NEW S, NEW q \in Seq(S), NEW i \in DOMAIN q
  PROVE  RemoveAt(q, i) \in Seq(S)
<1>1. i \in 1..Len(q) /\ Len(q) \in Nat OBVIOUS
<1>2. SubSeq(q, 1, i - 1) \in Seq(S) BY <1>1
<1>3. SubSeq(q, i + 1, Len(q)) \in Seq(S) BY <1>1
<1> QED BY <1>2, <1>3 DEF RemoveAt

LEMMA LeastIn ==
  ASSUME NEW R, IsWellFoundedOn(R, Nat), \A x, y \in Nat : <<y, x>> \in R <=> y < x,
         NEW S \in SUBSET Nat, S # {}
  PROVE  \E x \in S : \A m \in S : x <= m
<1>1. PICK x \in S : \A m \in S : ~ (<<m, x>> \in R) BY WFMin
<1>2. ASSUME NEW m \in S PROVE x <= m
  <2>1. x \in Nat /\ m \in Nat OBVIOUS
  <2>2. ~(m < x) BY <1>1, <2>1
  <2> QED BY <2>1, <2>2
<1> QED BY <1>2

LEMMA LeastOf ==
  ASSUME NEW S \in SUBSET Nat, S # {}
  PROVE  \E x \in S : \A m \in S : x <= m
<1>1. IsWellFoundedOn(OpToRel(<, Nat), Nat) BY NatLessThanWellFounded
<1>2. \A x, y \in Nat : <<y, x>> \in OpToRel(<, Nat) <=> y < x BY DEF OpToRel
<1> QED BY <1>1, <1>2, LeastIn

LEMMA GreatestOf ==
  ASSUME NEW S, S # {}, NEW n \in Nat, S \subseteq 0..n
  PROVE  Max(S) \in S /\ \A m \in S : m <= Max(S)
<1> DEFINE gaps == {n - m : m \in S}
<1>1. \A m \in S : m \in Nat /\ n - m \in Nat OBVIOUS
<1>2. gaps \in SUBSET Nat /\ gaps # {} BY <1>1
<1>3. PICK g \in gaps : \A m \in gaps : g <= m BY <1>2, LeastOf
<1>4. PICK x \in S : g = n - x OBVIOUS
<1>5. \A m \in S : x >= m
  <2> TAKE m \in S
  <2>1. n - x <= n - m BY <1>3, <1>4
  <2> QED BY <1>1, <2>1
<1>6. \E y \in S : \A m \in S : y >= m BY <1>5
<1>7. Max(S) \in S /\ \A m \in S : Max(S) >= m BY <1>6 DEF Max
<1>8. \A m \in S : m \in Int OBVIOUS
<1> QED BY <1>7, <1>8

LEMMA IntervalTail ==
  ASSUME NEW a \in Int, NEW b \in Int
  PROVE  a + 1 + 1..b = (a + 1..b) \ {a + 1}
OBVIOUS

LEMMA SameCount ==
  ASSUME NEW S, NEW T, IsFiniteSet(S), NEW f \in [S -> T],
         \A x, y \in S : f[x] = f[y] => x = y, \A y \in T : \E x \in S : f[x] = y
  PROVE  IsFiniteSet(T) /\ Cardinality(T) = Cardinality(S)
<1>1. f \in Bijection(S, T) BY Fun_IsBij
<1> QED BY <1>1, FS_Bijection, Fun_ExistsBij
-----------------------------------------------------------------------------
(* The instructions in the ROB *)

LEMMA Constants ==
  /\ {DISPATCH_BUFFER_SIZE, ROB_SIZE, LQ_SIZE, SQ_SIZE, SCHEDULER_SIZE} \subseteq Nat \ {0}
  /\ {RETIRE_WIDTH, EXEC_WIDTH, DISPATCH_WIDTH, LQ_WIDTH, SQ_WIDTH, L1D_BANDWIDTH} \subseteq Nat
  /\ {SCHEDULING_LATENCY, EXEC_LATENCY, DISPATCH_LATENCY, TraceLength} \subseteq Nat
  /\ Instructions \subseteq instr_type
BY BackendAssumption

LEMMA LiveFacts ==
  ASSUME TypeOK, OrderInv
  PROVE  /\ Oldest \in Nat /\ Dispatched \in Nat /\ Dispatched = Oldest + Len(ROB)
         /\ Len(ROB) \in Nat /\ DOMAIN ROB = 1..Len(ROB) /\ Dispatched <= Len(trace)
         /\ Live \subseteq 1..Len(trace) /\ Live \subseteq Ids /\ IsFiniteSet(Live)
         /\ \A id \in Live : /\ id - Oldest \in DOMAIN ROB /\ At(id) \in rob_type
                             /\ At(id).instr_id = id /\ trace[id] \in instr_type
         /\ \A i \in DOMAIN ROB : /\ Oldest + i \in Live /\ ROB[i] = At(Oldest + i)
                                  /\ ROB[i].instr_id = Oldest + i
<1>1. /\ Len(trace) \in Nat /\ Len(ROB) \in Nat /\ Len(DISPATCH_BUFFER) \in Nat
      /\ Len(trace) <= TraceLength /\ ROB \in Seq(rob_type) /\ trace \in Seq(instr_type)
  BY DEF TypeOK
<1>2. /\ Oldest \in Nat /\ Dispatched \in Nat /\ Dispatched = Oldest + Len(ROB)
      /\ Dispatched <= Len(trace)
  BY <1>1 DEF OrderInv, Oldest, Dispatched
<1>3. DOMAIN ROB = 1..Len(ROB) BY <1>1
<1>4. Live \subseteq 1..Len(trace) BY <1>1, <1>2 DEF Live
<1>5. Live \subseteq Ids
  <2>1. TraceLength \in Nat BY Constants
  <2> QED BY <1>1, <1>4, <2>1 DEF Ids
<1>6. IsFiniteSet(Live) BY <1>2, FS_Interval DEF Live
<1>7. ASSUME NEW id \in Live
      PROVE  /\ id - Oldest \in DOMAIN ROB /\ At(id) \in rob_type
             /\ At(id).instr_id = id /\ trace[id] \in instr_type
  <2>1. id - Oldest \in 1..Len(ROB) BY <1>1, <1>2 DEF Live
  <2>2. ROB[id - Oldest] \in rob_type BY <1>1, <2>1
  <2>3. trace[id] \in instr_type BY <1>1, <1>4
  <2> QED BY <1>3, <2>1, <2>2, <2>3 DEF At, OrderInv
<1>8. ASSUME NEW i \in DOMAIN ROB
      PROVE  Oldest + i \in Live /\ ROB[i] = At(Oldest + i) /\ ROB[i].instr_id = Oldest + i
  <2>1. Oldest + i \in Live BY <1>1, <1>2, <1>3 DEF Live
  <2>2. (Oldest + i) - Oldest = i BY <1>2, <1>3
  <2> QED BY <2>1, <2>2 DEF At, OrderInv
<1> QED BY <1>1, <1>2, <1>3, <1>4, <1>5, <1>6, <1>7, <1>8

LEMMA LiveNumbers ==
  ASSUME TypeOK, OrderInv
  PROVE  \A id \in Live : id \in Nat /\ id # None /\ Oldest + 1 <= id /\ id <= Dispatched
<1>1. Oldest \in Nat /\ Dispatched \in Nat BY LiveFacts
<1> QED BY <1>1 DEF Live, None

LEMMA LiveIndex ==
  ASSUME TypeOK, OrderInv
  PROVE  /\ \A i, j \in DOMAIN ROB : ROB[i].instr_id = ROB[j].instr_id => i = j
         /\ \A id : InROB(id) <=> id \in Live
         /\ ROB # <<>> => ROB[1].instr_id = Oldest + 1 /\ me = Dispatched
         /\ ROB = <<>> => Live = {}
<1>1. \A i, j \in DOMAIN ROB : ROB[i].instr_id = ROB[j].instr_id => i = j BY LiveFacts
<1>2. ASSUME NEW id PROVE InROB(id) <=> id \in Live
  <2>1. CASE InROB(id) BY <2>1, LiveFacts DEF InROB
  <2>2. CASE id \in Live
    <3>1. id - Oldest \in DOMAIN ROB /\ ROB[id - Oldest].instr_id = id BY <2>2, LiveFacts DEF At
    <3> QED BY <2>2, <3>1 DEF InROB
  <2> QED BY <2>1, <2>2
<1>3. ASSUME ROB # <<>> PROVE ROB[1].instr_id = Oldest + 1 /\ me = Dispatched
  <2>1. Len(ROB) > 0 BY <1>3, LiveFacts DEF TypeOK
  <2>2. 1 \in DOMAIN ROB /\ Len(ROB) \in DOMAIN ROB BY <2>1, LiveFacts
  <2>3. ROB[1].instr_id = Oldest + 1 /\ ROB[Len(ROB)].instr_id = Oldest + Len(ROB)
    BY <2>2, LiveFacts
  <2> QED BY <2>3, LiveFacts DEF me, Last
<1>4. ROB = <<>> => Live = {} BY LiveFacts DEF Live
<1> QED BY <1>1, <1>2, <1>3, <1>4

\* A step that leaves the same instructions in the ROB.
Mapped == /\ ROB' = [i \in DOMAIN ROB |-> ROB'[i]]
          /\ Len(trace)' - Len(DISPATCH_BUFFER)' = Dispatched

LEMMA MappedFacts ==
  ASSUME TypeOK, OrderInv, Mapped
  PROVE  /\ Len(ROB') = Len(ROB) /\ DOMAIN ROB' = DOMAIN ROB
         /\ Oldest' = Oldest /\ Dispatched' = Dispatched /\ Live' = Live
         /\ \A id \in Live : At(id)' = ROB'[id - Oldest]
         /\ (\A id \in Live : At(id)' \in rob_type) => ROB' \in Seq(rob_type)
<1>1. ROB \in Seq(rob_type) BY DEF TypeOK
<1>2. DOMAIN ROB' = DOMAIN ROB BY DEF Mapped
<1>3. ROB' \in [DOMAIN ROB -> {ROB'[i] : i \in DOMAIN ROB}] BY DEF Mapped
<1>4. Len(ROB') = Len(ROB) BY <1>1, <1>3, ReplacedType
<1>5. Dispatched' = Dispatched BY DEF Mapped, Dispatched
<1>6. Oldest' = Oldest BY <1>4, <1>5 DEF Oldest
<1>7. Live' = Live BY <1>5, <1>6 DEF Live
<1>8. \A id \in Live : At(id)' = ROB'[id - Oldest] BY <1>6 DEF At
<1>9. ASSUME \A id \in Live : At(id)' \in rob_type PROVE ROB' \in Seq(rob_type)
  <2>1. \A i \in DOMAIN ROB : ROB'[i] \in rob_type
    <3> TAKE i \in DOMAIN ROB
    <3>1. Oldest + i \in Live /\ (Oldest + i) - Oldest = i BY LiveFacts
    <3> QED BY <1>8, <1>9, <3>1
  <2>2. ROB' \in [DOMAIN ROB -> rob_type] BY <2>1 DEF Mapped
  <2> QED BY <1>1, <2>2, ReplacedType
<1> QED BY <1>2, <1>4, <1>5, <1>6, <1>7, <1>8, <1>9
-----------------------------------------------------------------------------
(* What each action does to the entries *)

\* An instruction completes and tells those that wait for its registers.
LEMMA CompleteEffect ==
  ASSUME TypeOK, OrderInv, NEW i \in DOMAIN ROB, Complete(i)
  PROVE  /\ Mapped
         /\ \E c \in Live :
              /\ At(c).executed = "INFLIGHT" /\ At(c).completed_mem_ops = num_mem_ops(c)
              /\ At(c)' = [At(c) EXCEPT !.executed = "COMPLETED"]
              /\ \A id \in Live \ {c} :
                   At(id)' = IF id \in At(c).registers_instrs_depend_on_me
                             THEN [At(id) EXCEPT !.num_reg_dependent = @ - 1] ELSE At(id)
              /\ reg_producers' = [r \in Registers |-> IF Writes(c, r) THEN reg_producers[r] \ {c}
                                                       ELSE reg_producers[r]]
<1> DEFINE e == ROB[i]
<1>0. PICK c \in Live : c = Oldest + i BY LiveFacts
<1>1. ROB' = [j \in DOMAIN ROB |->
                IF j = i THEN [e EXCEPT !.executed = "COMPLETED"]
                ELSE IF ROB[j].instr_id \in e.registers_instrs_depend_on_me
                THEN [ROB[j] EXCEPT !.num_reg_dependent = @ - 1] ELSE ROB[j]]
  BY DEF Complete
<1>2. UNCHANGED <<trace, DISPATCH_BUFFER>> BY DEF Complete
<1>3. Mapped
  <2>1. ROB' = [j \in DOMAIN ROB |-> ROB'[j]] BY <1>1
  <2> QED BY <1>2, <2>1 DEF Mapped, Dispatched
<1>4. At(c) = e /\ c - Oldest = i /\ e.instr_id = c BY <1>0, LiveFacts
<1>5. e.executed = "INFLIGHT" /\ e.completed_mem_ops = num_mem_ops(c)
  BY <1>4 DEF Complete, First, Completable, MemOpsDone
<1>6. At(c)' = [At(c) EXCEPT !.executed = "COMPLETED"] BY <1>1, <1>3, <1>4, MappedFacts
<1>7. ASSUME NEW id \in Live \ {c}
      PROVE  At(id)' = IF id \in At(c).registers_instrs_depend_on_me
                       THEN [At(id) EXCEPT !.num_reg_dependent = @ - 1] ELSE At(id)
  <2>1. /\ id - Oldest \in DOMAIN ROB /\ At(id)' = ROB'[id - Oldest]
        /\ At(id).instr_id = id /\ ROB[id - Oldest] = At(id)
    BY <1>3, LiveFacts, MappedFacts DEF At
  <2>2. id - Oldest # i BY <1>4, <1>7, LiveFacts
  <2> QED BY <1>1, <1>4, <2>1, <2>2
<1>8. reg_producers' = [r \in Registers |-> IF Writes(c, r) THEN reg_producers[r] \ {c}
                                            ELSE reg_producers[r]]
  BY <1>4 DEF Complete, Writes
<1> QED BY <1>3, <1>4, <1>5, <1>6, <1>7, <1>8

\* An instruction executes; its loads and stores become due.
LEMMA ExecuteEffect ==
  ASSUME TypeOK, OrderInv, NEW i \in DOMAIN ROB, Execute(i)
  PROVE  /\ Mapped
         /\ \E c \in Live :
              /\ At(c).scheduled /\ At(c).executed = "no" /\ At(c).num_reg_dependent = 0
              /\ At(c)' = [At(c) EXCEPT !.executed = "INFLIGHT", !.left = Latency(EXEC_LATENCY)]
              /\ \A id \in Live \ {c} : At(id)' = At(id)
<1>0. PICK c \in Live : c = Oldest + i BY LiveFacts
<1>1. ROB' = [ROB EXCEPT ![i].executed = "INFLIGHT", ![i].left = Latency(EXEC_LATENCY)]
  BY DEF Execute
<1>2. Mapped
  <2>1. ROB' = [j \in DOMAIN ROB |-> ROB'[j]] BY <1>1
  <2> QED BY <2>1 DEF Execute, Mapped, Dispatched
<1>3. At(c) = ROB[i] /\ c - Oldest = i BY <1>0, LiveFacts
<1>4. At(c).scheduled /\ At(c).executed = "no" /\ At(c).num_reg_dependent = 0
  BY <1>3 DEF Execute, First, Executable
<1>5. At(c)' = [At(c) EXCEPT !.executed = "INFLIGHT", !.left = Latency(EXEC_LATENCY)]
  BY <1>1, <1>2, <1>3, MappedFacts
<1>6. ASSUME NEW id \in Live \ {c} PROVE At(id)' = At(id)
  <2>1. id - Oldest \in DOMAIN ROB /\ At(id)' = ROB'[id - Oldest] /\ ROB[id - Oldest] = At(id)
    BY <1>2, LiveFacts, MappedFacts DEF At
  <2>2. id - Oldest # i BY <1>3, <1>6, LiveFacts
  <2> QED BY <1>1, <2>1, <2>2
<1> QED BY <1>2, <1>3, <1>4, <1>5, <1>6

\* The instructions that are scheduled are the oldest, so the next one is the oldest
\* of the others.
LEMMA ScheduleEffect ==
  ASSUME TypeOK, OrderInv, NEW i \in DOMAIN ROB, Schedule(i)
  PROVE  /\ Mapped
         /\ \E c \in Live :
              /\ ~At(c).scheduled /\ \A p \in Live : p < c => At(p).scheduled
              /\ At(c)' = [At(c) EXCEPT !.scheduled = TRUE, !.left = Latency(SCHEDULING_LATENCY),
                             !.num_reg_dependent = @ + Cardinality(Producers(trace[c]))]
              /\ \A id \in Live \ {c} :
                   At(id)' = IF id \in Producers(trace[c])
                             THEN [At(id) EXCEPT !.registers_instrs_depend_on_me = @ \cup {c}]
                             ELSE At(id)
              /\ reg_producers' = [r \in Registers |-> IF Writes(c, r) THEN reg_producers[r] \cup {c}
                                                       ELSE reg_producers[r]]
<1>0. PICK c \in Live : c = Oldest + i BY LiveFacts
<1>1. At(c) = ROB[i] /\ c - Oldest = i /\ ROB[i].instr_id = c BY <1>0, LiveFacts
<1> DEFINE prior == Producers(trace[c])
<1>2. ROB' = [j \in DOMAIN ROB |->
                IF j = i
                THEN [ROB[j] EXCEPT !.scheduled = TRUE, !.left = Latency(SCHEDULING_LATENCY),
                                    !.num_reg_dependent = @ + Cardinality(prior)]
                ELSE IF ROB[j].instr_id \in prior
                THEN [ROB[j] EXCEPT !.registers_instrs_depend_on_me = @ \cup {c}]
                ELSE ROB[j]]
  BY <1>1 DEF Schedule
<1>3. Mapped
  <2>1. ROB' = [j \in DOMAIN ROB |-> ROB'[j]] BY <1>2
  <2> QED BY <2>1 DEF Schedule, Mapped, Dispatched
<1>4. i \in Window /\ ~ROB[i].scheduled /\ \A j \in Window : ~ROB[j].scheduled => i <= j
  BY DEF Schedule, First, Schedulable
<1>5. ASSUME NEW p \in Live, p < c PROVE At(p).scheduled
  <2>1. PICK j \in DOMAIN ROB : j = p - Oldest /\ ROB[j] = At(p) BY LiveFacts DEF At
  <2>2. j < i /\ j \in Nat /\ i \in Nat
    <3>1. p \in Nat /\ c \in Nat /\ Oldest \in Nat /\ Oldest + 1 <= p BY LiveNumbers, LiveFacts
    <3> QED BY <1>1, <1>5, <2>1, <3>1
  <2>3. j \in Window
    <3> DEFINE before(n) == {k \in 1..(n - 1) : ROB[k].executed = "no"}
    <3>1. before(j) \subseteq before(i)
      <4>1. 1..(j - 1) \subseteq 1..(i - 1) BY <2>2
      <4> QED BY <4>1, Zenon
    <3>2. IsFiniteSet(before(i))
      <4>1. 1 \in Int /\ i - 1 \in Int BY <2>2
      <4>2. IsFiniteSet(1..(i - 1)) BY <4>1, FS_Interval
      <4>3. before(i) \subseteq 1..(i - 1) BY Zenon
      <4> QED BY <4>2, <4>3, FS_Subset
    <3>3. IsFiniteSet(before(j)) /\ Cardinality(before(j)) <= Cardinality(before(i))
      BY <3>1, <3>2, FS_Subset
    <3>4. Cardinality(before(i)) \in Nat /\ Cardinality(before(j)) \in Nat
      BY <3>2, <3>3, FS_CardinalityType
    <3>5. Cardinality(before(i)) < SCHEDULER_SIZE BY <1>4 DEF Window
    <3> HIDE DEF before
    <3>6. Cardinality(before(j)) < SCHEDULER_SIZE BY <3>3, <3>4, <3>5, Constants
    <3> QED BY <2>1, <3>6 DEF Window, before
  <2> QED BY <1>4, <2>1, <2>2, <2>3
<1>6. At(c)' = [At(c) EXCEPT !.scheduled = TRUE, !.left = Latency(SCHEDULING_LATENCY),
                             !.num_reg_dependent = @ + Cardinality(prior)]
  <2> HIDE DEF prior
  <2> QED BY <1>1, <1>2, <1>3, MappedFacts
<1>7. ASSUME NEW id \in Live \ {c}
      PROVE  At(id)' = IF id \in prior
                       THEN [At(id) EXCEPT !.registers_instrs_depend_on_me = @ \cup {c}]
                       ELSE At(id)
  <2> HIDE DEF prior
  <2>1. /\ id - Oldest \in DOMAIN ROB /\ At(id)' = ROB'[id - Oldest]
        /\ At(id).instr_id = id /\ ROB[id - Oldest] = At(id)
    BY <1>3, LiveFacts, MappedFacts DEF At
  <2>2. id - Oldest # i BY <1>1, <1>7, LiveFacts
  <2> QED BY <1>2, <2>1, <2>2
<1>8. reg_producers' = [r \in Registers |-> IF Writes(c, r) THEN reg_producers[r] \cup {c}
                                            ELSE reg_producers[r]]
  BY <1>1 DEF Schedule, Writes
<1>9. ~At(c).scheduled BY <1>1, <1>4
<1> QED BY <1>3, <1>5, <1>6, <1>7, <1>8, <1>9

\* Memory operations that end are counted.
LEMMA FinishEffect ==
  ASSUME TypeOK, OrderInv, NEW S, NEW d, Finish(S, d), UNCHANGED <<trace, DISPATCH_BUFFER>>
  PROVE  /\ Mapped
         /\ \A id \in Live :
              At(id)' = [At(id) EXCEPT !.completed_mem_ops =
                           @ + Cardinality({s \in S : LQ[s].instr_id = id}) + (IF id = d THEN 1 ELSE 0)]
<1> DEFINE ended(id) == Cardinality({s \in S : LQ[s].instr_id = id})
<1>1. ROB' = [j \in DOMAIN ROB |->
                [ROB[j] EXCEPT !.completed_mem_ops =
                   @ + ended(ROB[j].instr_id) + (IF ROB[j].instr_id = d THEN 1 ELSE 0)]]
  BY DEF Finish
<1> HIDE DEF ended
<1>2. Mapped
  <2>1. ROB' = [j \in DOMAIN ROB |-> ROB'[j]] BY <1>1
  <2> QED BY <2>1 DEF Mapped, Dispatched
<1>3. ASSUME NEW id \in Live
      PROVE  At(id)' = [At(id) EXCEPT !.completed_mem_ops =
                          @ + ended(id) + (IF id = d THEN 1 ELSE 0)]
  <2>1. /\ id - Oldest \in DOMAIN ROB /\ At(id)' = ROB'[id - Oldest]
        /\ At(id).instr_id = id /\ ROB[id - Oldest] = At(id)
    BY <1>2, LiveFacts, MappedFacts DEF At
  <2> QED BY <1>1, <2>1
<1> QED BY <1>2, <1>3 DEF ended

LEMMA ForwardEffect ==
  ASSUME TypeOK, OrderInv, PlaceInv, NEW k \in DOMAIN SQ, ForwardLoad(k)
  PROVE  /\ Mapped
         /\ At(Dispatched)' = [At(Dispatched) EXCEPT !.completed_mem_ops = @ + 1]
         /\ \A id \in Live \ {Dispatched} : At(id)' = At(id)
<1>1. /\ ROB' = [ROB EXCEPT ![Len(ROB)].completed_mem_ops = @ + 1]
      /\ UNCHANGED <<trace, DISPATCH_BUFFER>> /\ pc = "place"
  BY DEF ForwardLoad
<1>2. Mapped
  <2>1. ROB' = [j \in DOMAIN ROB |-> ROB'[j]] BY <1>1
  <2> QED BY <1>1, <2>1 DEF Mapped, Dispatched
<1>3. Dispatched \in Live /\ Dispatched - Oldest = Len(ROB) /\ Len(ROB) \in DOMAIN ROB
  BY <1>1, LiveFacts DEF PlaceInv
<1>4. PICK d \in Live : d = Dispatched BY <1>3
<1>5. At(d)' = [At(d) EXCEPT !.completed_mem_ops = @ + 1]
  <2>1. At(d)' = ROB'[Len(ROB)] /\ At(d) = ROB[Len(ROB)] BY <1>2, <1>3, <1>4, MappedFacts DEF At
  <2> QED BY <1>1, <1>3, <2>1
<1>6. ASSUME NEW id \in Live \ {d} PROVE At(id)' = At(id)
  <2>1. id - Oldest \in DOMAIN ROB /\ At(id)' = ROB'[id - Oldest] /\ ROB[id - Oldest] = At(id)
    BY <1>2, LiveFacts, MappedFacts DEF At
  <2>2. id - Oldest # Len(ROB) BY <1>3, <1>4, <1>6, LiveFacts
  <2> QED BY <1>1, <2>1, <2>2
<1>7. Dispatched' = d BY <1>2, <1>4, MappedFacts
<1> QED BY <1>2, <1>4, <1>5, <1>6, <1>7 DEF At

LEMMA TickEffect ==
  ASSUME TypeOK, OrderInv, Tick
  PROVE  Mapped /\ \A id \in Live : At(id)' = [At(id) EXCEPT !.left = Sooner(@)]
<1>1. ROB' = [j \in DOMAIN ROB |-> [ROB[j] EXCEPT !.left = Sooner(@)]] BY DEF Tick, SoonerAll
<1>2. /\ trace' = trace
      /\ DISPATCH_BUFFER' = [j \in DOMAIN DISPATCH_BUFFER |->
                               [DISPATCH_BUFFER[j] EXCEPT !.left = Sooner(@)]]
  BY DEF Tick, SoonerAll
<1>3. Len(DISPATCH_BUFFER') = Len(DISPATCH_BUFFER)
  <2>1. DISPATCH_BUFFER' \in [DOMAIN DISPATCH_BUFFER -> {DISPATCH_BUFFER'[j] : j \in DOMAIN DISPATCH_BUFFER}]
    BY <1>2
  <2>2. DISPATCH_BUFFER \in Seq([instr_id : Ids, left : Int]) BY DEF TypeOK
  <2> QED BY <2>1, <2>2, ReplacedType
<1>4. Mapped
  <2>1. ROB' = [j \in DOMAIN ROB |-> ROB'[j]] BY <1>1
  <2> QED BY <1>2, <1>3, <2>1 DEF Mapped, Dispatched
<1>5. ASSUME NEW id \in Live PROVE At(id)' = [At(id) EXCEPT !.left = Sooner(@)]
  <2>1. id - Oldest \in DOMAIN ROB /\ At(id)' = ROB'[id - Oldest] /\ ROB[id - Oldest] = At(id)
    BY <1>4, LiveFacts, MappedFacts DEF At
  <2> QED BY <1>1, <2>1
<1> QED BY <1>4, <1>5

\* The rest leaves the entries alone.
LEMMA SameEffect ==
  ASSUME TypeOK, OrderInv, ROB' = ROB, Len(trace)' - Len(DISPATCH_BUFFER)' = Dispatched
  PROVE  Mapped /\ \A id \in Live : At(id)' = At(id)
<1>1. ROB' = [j \in DOMAIN ROB |-> ROB'[j]] BY DEF TypeOK
<1>2. Mapped BY <1>1 DEF Mapped
<1>3. \A id \in Live : At(id)' = At(id) BY <1>2, MappedFacts DEF At
<1> QED BY <1>2, <1>3

\* The oldest instruction leaves when it has completed.
LEMMA RetireEffect ==
  ASSUME TypeOK, OrderInv, NEW i \in DOMAIN ROB, Retire(i)
  PROVE  \E c \in Live :
           /\ c = Oldest + 1 /\ At(c).executed = "COMPLETED"
           /\ Oldest' = c /\ Dispatched' = Dispatched /\ Live' = Live \ {c}
           /\ \A id \in Live \ {c} : At(id)' = At(id)
           /\ ROB' \in Seq(rob_type) /\ Len(ROB') = Len(ROB) - 1
<1>1. i = 1 /\ ROB[1].executed = "COMPLETED" /\ ROB' = RemoveAt(ROB, 1)
      /\ UNCHANGED <<trace, DISPATCH_BUFFER>>
  BY DEF Retire, Retirable
<1>2. ROB \in Seq(rob_type) /\ ROB # <<>> BY <1>1 DEF TypeOK
<1>3. ROB' = Tail(ROB) BY <1>1, <1>2, RemoveHead
<1>4. /\ ROB' \in Seq(rob_type) /\ Len(ROB') = Len(ROB) - 1
      /\ \A k \in 1..(Len(ROB) - 1) : ROB'[k] = ROB[k + 1]
  BY <1>2, <1>3, TailFacts
<1>5. PICK c \in Live : c = Oldest + 1 BY <1>1, LiveFacts
<1>6. At(c).executed = "COMPLETED" BY <1>1, <1>5, LiveFacts
<1>7. Dispatched' = Dispatched BY <1>1 DEF Dispatched
<1>8. Oldest' = c
  <2>1. Dispatched \in Nat /\ Len(ROB) \in Nat /\ Oldest = Dispatched - Len(ROB)
    BY LiveFacts DEF Oldest
  <2>2. Oldest' = Dispatched - (Len(ROB) - 1) BY <1>4, <1>7 DEF Oldest
  <2> QED BY <1>5, <2>1, <2>2
<1>9. Live' = Live \ {c}
  <2>1. Live' = c + 1..Dispatched BY <1>7, <1>8 DEF Live
  <2>2. Oldest \in Int /\ Dispatched \in Int BY LiveFacts
  <2>3. Oldest + 1 + 1..Dispatched = (Oldest + 1..Dispatched) \ {Oldest + 1} BY <2>2, IntervalTail
  <2> QED BY <1>5, <2>1, <2>3 DEF Live
<1>10. ASSUME NEW id \in Live \ {c} PROVE At(id)' = At(id)
  <2>1. PICK k : k = id - c OBVIOUS
  <2>4. id \in Nat /\ id \in Oldest + 1..Dispatched /\ id # Oldest + 1 BY <1>5, LiveFacts DEF Live
  <2>5. Oldest \in Nat /\ Len(ROB) \in Nat /\ Dispatched = Oldest + Len(ROB) BY LiveFacts
  <2>2. k \in 1..(Len(ROB) - 1) /\ k + 1 = id - Oldest BY <1>5, <2>1, <2>4, <2>5
  <2>3. At(id)' = ROB'[k] BY <1>8, <2>1 DEF At
  <2> QED BY <1>4, <2>2, <2>3 DEF At
<1> QED BY <1>4, <1>5, <1>6, <1>7, <1>8, <1>9, <1>10

\* The first of the dispatch buffer enters, with nothing done.
LEMMA DispatchEffect ==
  ASSUME TypeOK, OrderInv, Dispatch
  PROVE  \E d \in 1..Len(trace) :
           /\ d = Dispatched + 1 /\ d \notin Live
           /\ Dispatched' = d /\ Oldest' = Oldest /\ Live' = Live \cup {d}
           /\ \A id \in Live : At(id)' = At(id)
           /\ At(d)' = [instr_id |-> d, scheduled |-> FALSE, executed |-> "no",
                        left |-> DISPATCH_BUFFER[1].left, completed_mem_ops |-> 0,
                        num_reg_dependent |-> 0, registers_instrs_depend_on_me |-> {}]
           /\ At(d)' \in rob_type
           /\ ROB' \in Seq(rob_type) /\ Len(ROB') = Len(ROB) + 1
           /\ DISPATCH_BUFFER # <<>> /\ DISPATCH_BUFFER[1].instr_id = d
           /\ todo' = trace[d].source_memory
<1>1. DISPATCH_BUFFER # <<>> /\ DISPATCH_BUFFER' = Tail(DISPATCH_BUFFER) /\ trace' = trace
  BY DEF Dispatch, Dispatchable
<1>2. /\ DISPATCH_BUFFER \in Seq([instr_id : Ids, left : Int]) /\ ROB \in Seq(rob_type)
      /\ trace \in Seq(instr_type)
  BY DEF TypeOK
<1>3. Len(DISPATCH_BUFFER) \in Nat \ {0} /\ Len(trace) \in Nat BY <1>1, <1>2
<1>4. Len(DISPATCH_BUFFER') = Len(DISPATCH_BUFFER) - 1 BY <1>1, <1>2, TailFacts
<1>5. 1 \in DOMAIN DISPATCH_BUFFER /\ DISPATCH_BUFFER[1] \in [instr_id : Ids, left : Int]
  BY <1>1, <1>2, HeadFacts
<1>6. PICK d \in 1..Len(trace) : d = Dispatched + 1
  <2>1. Dispatched \in Nat BY LiveFacts
  <2>2. Dispatched = Len(trace) - Len(DISPATCH_BUFFER) BY DEF Dispatched
  <2>3. Dispatched + 1 \in 1..Len(trace) BY <1>3, <2>1, <2>2
  <2> QED BY <2>3
<1>7. DISPATCH_BUFFER[1].instr_id = d BY <1>5, <1>6 DEF OrderInv
<1> DEFINE e == [instr_id |-> d, scheduled |-> FALSE, executed |-> "no",
                 left |-> DISPATCH_BUFFER[1].left, completed_mem_ops |-> 0,
                 num_reg_dependent |-> 0, registers_instrs_depend_on_me |-> {}]
<1>8. ROB' = Append(ROB, e) /\ todo' = trace[d].source_memory BY <1>7 DEF Dispatch
<1>9. e \in rob_type
  <2>1. d \in Ids /\ DISPATCH_BUFFER[1].left \in Int BY <1>5, <1>7
  <2> QED BY <2>1 DEF rob_type
<1>13. e = [instr_id |-> d, scheduled |-> FALSE, executed |-> "no",
            left |-> DISPATCH_BUFFER[1].left, completed_mem_ops |-> 0,
            num_reg_dependent |-> 0, registers_instrs_depend_on_me |-> {}]
  OBVIOUS
<1> HIDE DEF e
<1>10. /\ ROB' \in Seq(rob_type) /\ Len(ROB') = Len(ROB) + 1 /\ ROB'[Len(ROB) + 1] = e
       /\ \A k \in 1..Len(ROB) : ROB'[k] = ROB[k]
  BY <1>2, <1>8, <1>9, AppendFacts
<1>11. Dispatched' = d /\ Oldest' = Oldest
  <2>1. Dispatched' = d BY <1>1, <1>3, <1>4, <1>6 DEF Dispatched
  <2>2. Dispatched \in Nat /\ Len(ROB) \in Nat BY LiveFacts
  <2>3. (Dispatched + 1) - (Len(ROB) + 1) = Dispatched - Len(ROB) BY <2>2
  <2> QED BY <1>6, <1>10, <2>1, <2>3 DEF Oldest
<1>12. Live' = Live \cup {d} /\ d \notin Live BY <1>6, <1>11, LiveFacts DEF Live
<1>14. ASSUME NEW id \in Live PROVE At(id)' = At(id)
  <2>1. At(id)' = ROB'[id - Oldest] BY <1>11 DEF At
  <2> QED BY <1>10, <2>1, LiveFacts DEF At
<1>15. At(d)' = e
  <2>1. d - Oldest = Len(ROB) + 1 BY <1>6, LiveFacts
  <2> QED BY <1>10, <1>11, <2>1 DEF At
<1> QED BY <1>1, <1>6, <1>7, <1>8, <1>9, <1>10, <1>11, <1>12, <1>13, <1>14, <1>15
-----------------------------------------------------------------------------
(* The queues *)

LEMMA QueueFacts ==
  ASSUME TypeOK
  PROVE  /\ IsFiniteSet(Slots) /\ Used \subseteq Slots
         /\ \A s \in Slots : /\ s \in Used <=> LQ[s].instr_id # None
                             /\ s \in Used => LQ[s] \in load_type /\ LQ[s].instr_id \in Ids
                             /\ s \notin Used => LQ[s] = NoLoad
         /\ Len(SQ) \in Nat /\ DOMAIN SQ = 1..Len(SQ) /\ IsFiniteSet(DOMAIN SQ)
         /\ \A k \in DOMAIN SQ : /\ SQ[k] \in store_type /\ SQ[k].instr_id \in Ids
                                 /\ SQ[k].lq_depend_on_me \subseteq Slots
<1>1. LQ_SIZE \in Nat /\ TraceLength \in Nat BY Constants
<1>2. IsFiniteSet(Slots) BY <1>1, FS_Interval DEF Slots
<1>3. LQ \in [Slots -> load_type \cup {NoLoad}] /\ SQ \in Seq(store_type) BY DEF TypeOK
<1>4. ASSUME NEW s \in Slots
      PROVE  /\ s \in Used <=> LQ[s].instr_id # None
             /\ s \in Used => LQ[s] \in load_type /\ LQ[s].instr_id \in Ids
             /\ s \notin Used => LQ[s] = NoLoad
  <2>1. LQ[s] \in load_type \cup {NoLoad} BY <1>3
  <2>2. \A e \in load_type : e.instr_id \in Ids /\ e.instr_id # None
    BY <1>1 DEF load_type, Ids, None
  <2>3. NoLoad.instr_id = None BY DEF NoLoad
  <2> QED BY <2>1, <2>2, <2>3 DEF Used
<1>5. Len(SQ) \in Nat /\ DOMAIN SQ = 1..Len(SQ) BY <1>3
<1>6. IsFiniteSet(DOMAIN SQ) BY <1>5, FS_Interval
<1>7. ASSUME NEW k \in DOMAIN SQ
      PROVE  /\ SQ[k] \in store_type /\ SQ[k].instr_id \in Ids
             /\ SQ[k].lq_depend_on_me \subseteq Slots
  <2>1. SQ[k] \in store_type BY <1>3
  <2> QED BY <2>1 DEF store_type
<1>8. Used \subseteq Slots BY DEF Used
<1> QED BY <1>2, <1>4, <1>5, <1>6, <1>7, <1>8

LEMMA LatencyType ==
  /\ \A n \in Nat : Latency(n) \in Nat
  /\ \A n \in Int : Sooner(n) \in Int
BY DEF Latency, Sooner

\* What the scheduler finds to wait for is in the ROB, older and not completed.
LEMMA ProducersFacts ==
  ASSUME TypeOK, OrderInv, RegInv, NEW c \in Live
  PROVE  /\ IsFiniteSet(Producers(trace[c]))
         /\ \A p \in Producers(trace[c]) : /\ p \in Live /\ At(p).scheduled
                                           /\ At(p).executed # "COMPLETED"
<1>1. trace[c].source_registers \subseteq Registers BY LiveFacts DEF instr_type
<1>2. ASSUME NEW r \in Registers, reg_producers[r] # {}
      PROVE  Max(reg_producers[r]) \in reg_producers[r]
  <2>1. reg_producers[r] \subseteq Live BY DEF RegInv
  <2>2. Len(trace) \in Nat /\ 1..Len(trace) \subseteq 0..Len(trace) BY DEF TypeOK
  <2>3. reg_producers[r] \subseteq 0..Len(trace) BY <2>1, <2>2, LiveFacts
  <2> QED BY <1>2, <2>2, <2>3, GreatestOf
<1>3. ASSUME NEW p \in Producers(trace[c])
      PROVE  p \in Live /\ At(p).scheduled /\ At(p).executed # "COMPLETED"
  <2>1. PICK r \in trace[c].source_registers : reg_producers[r] # {} /\ p = Max(reg_producers[r])
    BY DEF Producers
  <2>2. r \in Registers /\ p \in reg_producers[r] BY <1>1, <1>2, <2>1
  <2> QED BY <2>2 DEF RegInv
<1>4. Producers(trace[c]) \subseteq Live BY <1>3
<1>5. IsFiniteSet(Producers(trace[c])) BY <1>4, LiveFacts, FS_Subset
<1> QED BY <1>3, <1>5

LEMMA WaitsForFacts ==
  ASSUME TypeOK, OrderInv, NEW id
  PROVE  IsFiniteSet(WaitsFor(id)) /\ Cardinality(WaitsFor(id)) \in Nat
<1>1. WaitsFor(id) \subseteq Live BY DEF WaitsFor
<1> QED BY <1>1, LiveFacts, FS_Subset, FS_CardinalityType
-----------------------------------------------------------------------------
(* Types *)

\* The steps from one stage to the next.
NextStage == StartCycle \/ EndRetire \/ EndComplete \/ EndExecute \/ EndSchedule \/ EndMemory
               \/ EndFinish \/ EndStore \/ EndLoad

LEMMA NextStageFacts ==
  ASSUME NextStage
  PROVE  /\ UNCHANGED <<warmup, trace, DISPATCH_BUFFER, ROB, LQ, SQ, reg_producers, todo>>
         /\ UNCHANGED <<asked, returned, written, taken>>
         /\ pc \notin {"dispatch", "place"}
         /\ pc' \in {"retire", "complete", "execute", "schedule", "memory", "finish", "store",
                     "load", "dispatch"}
         /\ bw' \in {RETIRE_WIDTH, EXEC_WIDTH, 0, L1D_BANDWIDTH, SQ_WIDTH, bw, LQ_WIDTH, DISPATCH_WIDTH}
BY DEF NextStage, StartCycle, EndRetire, EndComplete, EndExecute, EndSchedule, EndMemory, EndFinish,
       EndStore, EndLoad, GoTo, queues, L1D

LEMMA TypeNextStage ==
  ASSUME TypeOK, NextStage
  PROVE  TypeOK'
<1>1. bw' \in Nat
  <2>1. {RETIRE_WIDTH, EXEC_WIDTH, L1D_BANDWIDTH, SQ_WIDTH, LQ_WIDTH, DISPATCH_WIDTH} \subseteq Nat
    BY Constants
  <2>2. bw \in Nat BY DEF TypeOK
  <2> QED BY <2>1, <2>2, NextStageFacts
<1> QED BY <1>1, NextStageFacts DEF TypeOK

\* The steps of the front end and of the L1D.
LEMMA TypeIdle ==
  ASSUME TypeOK, (\E n \in Instructions : Decode(n)) \/ Memory \/ EndWarmup
  PROVE  TypeOK'
<1>1. ASSUME NEW n \in Instructions, Decode(n) PROVE TypeOK'
  <2>1. /\ trace' = Append(trace, IF warmup THEN Bare(n) ELSE n) /\ Len(trace) < TraceLength
        /\ DISPATCH_BUFFER' = Append(DISPATCH_BUFFER, [instr_id |-> Len(trace) + 1,
                                                left |-> Sooner(Latency(DISPATCH_LATENCY))])
        /\ UNCHANGED <<pc, bw, warmup, ROB, LQ, SQ, reg_producers, todo, asked, returned, written, taken>>
    BY <1>1 DEF Decode, queues, L1D
  <2>2. n \in instr_type /\ Bare(n) \in instr_type BY Constants DEF Bare, instr_type
  <2>3. trace' \in Seq(instr_type) /\ Len(trace') = Len(trace) + 1
    BY <2>1, <2>2, AppendFacts DEF TypeOK
  <2>4. Len(trace) + 1 \in Ids /\ Len(trace') <= TraceLength
    <3>1. Len(trace) \in Nat BY DEF TypeOK
    <3>2. TraceLength \in Nat BY Constants
    <3> QED BY <2>1, <2>3, <3>1, <3>2 DEF Ids
  <2>5. Sooner(Latency(DISPATCH_LATENCY)) \in Int BY Constants, LatencyType
  <2>6. DISPATCH_BUFFER' \in Seq([instr_id : Ids, left : Int])
    BY <2>1, <2>4, <2>5, AppendFacts DEF TypeOK
  <2> QED BY <2>1, <2>3, <2>4, <2>6 DEF TypeOK
<1>2. ASSUME NEW i \in DOMAIN asked, L1DAnswers(i) PROVE TypeOK'
  <2> DEFINE B == {BlockOf[a] : a \in Addresses}
  <2>1. asked \in Seq(B) /\ returned \in Seq(B) BY DEF TypeOK
  <2>2. asked[i] \in B BY <2>1
  <2> HIDE DEF B
  <2>3. RemoveAt(asked, i) \in Seq(B) BY <2>1, RemoveAtType
  <2>4. Append(returned, asked[i]) \in Seq(B) BY <2>1, <2>2
  <2>5. asked' \in Seq(B) /\ returned' \in Seq(B) BY <1>2, <2>1, <2>3, <2>4 DEF L1DAnswers
  <2>6. UNCHANGED <<pc, bw, warmup, trace, DISPATCH_BUFFER, ROB, LQ, SQ, reg_producers, todo,
                    written, taken>>
    BY <1>2 DEF L1DAnswers, queues
  <2> QED BY <2>5, <2>6 DEF TypeOK, B
<1>3. CASE L1DTakesWrite
  <2>1. UNCHANGED <<pc, bw, warmup, trace, DISPATCH_BUFFER, ROB, LQ, SQ, reg_producers, todo,
                    asked, returned, written>>
    BY <1>3 DEF L1DTakesWrite, queues
  <2>2. taken' \in 0..Len(written) BY <1>3 DEF L1DTakesWrite, TypeOK
  <2> QED BY <2>1, <2>2 DEF TypeOK
<1>4. CASE EndWarmup BY <1>4 DEF EndWarmup, queues, L1D, TypeOK
<1> QED BY <1>1, <1>2, <1>3, <1>4 DEF Memory

LEMMA EntryUpdates ==
  ASSUME NEW e \in rob_type
  PROVE  /\ [e EXCEPT !.executed = "COMPLETED"] \in rob_type
         /\ \A n \in Int : /\ [e EXCEPT !.left = n] \in rob_type
                           /\ [e EXCEPT !.executed = "INFLIGHT", !.left = n] \in rob_type
         /\ \A n \in Int, m \in Nat :
              [e EXCEPT !.scheduled = TRUE, !.left = n, !.num_reg_dependent = m] \in rob_type
         /\ \A m \in Nat : /\ [e EXCEPT !.num_reg_dependent = m] \in rob_type
                           /\ [e EXCEPT !.completed_mem_ops = m] \in rob_type
         /\ \A D \in SUBSET Ids : [e EXCEPT !.registers_instrs_depend_on_me = D] \in rob_type
BY DEF rob_type

LEMMA LoadUpdates ==
  ASSUME NEW l \in load_type
  PROVE  /\ \A n \in Int : [l EXCEPT !.left = n] \in load_type
         /\ [l EXCEPT !.fetch_issued = TRUE] \in load_type
BY DEF load_type

LEMMA StoreUpdates ==
  ASSUME NEW q \in store_type
  PROVE  /\ \A n \in Int : [q EXCEPT !.left = n] \in store_type
         /\ [q EXCEPT !.fetch_issued = TRUE, !.left = 0] \in store_type
         /\ \A D \in SUBSET Slots : [q EXCEPT !.lq_depend_on_me = D] \in store_type
<1>1. \A e \in store_type : \A n \in Int : [e EXCEPT !.left = n] \in store_type BY DEF store_type
<1>2. [q EXCEPT !.fetch_issued = TRUE] \in store_type BY DEF store_type
<1>3. \A D \in SUBSET Slots : [q EXCEPT !.lq_depend_on_me = D] \in store_type BY DEF store_type
<1>4. [q EXCEPT !.fetch_issued = TRUE, !.left = 0] \in store_type
  <2> DEFINE e == [q EXCEPT !.fetch_issued = TRUE]
  <2>1. e \in store_type BY <1>2
  <2>2. [q EXCEPT !.fetch_issued = TRUE, !.left = 0] = [e EXCEPT !.left = 0] BY Zenon
  <2> HIDE DEF e
  <2>3. [e EXCEPT !.left = 0] \in store_type BY <1>1, <2>1
  <2> QED BY <2>2, <2>3
<1> QED BY <1>1, <1>3, <1>4

\* retire_rob, complete_inflight_instruction, execute_instruction, schedule_instruction
LEMMA TypeRegisters ==
  ASSUME TypeOK, OrderInv, RegInv, NEW i \in DOMAIN ROB,
         Retire(i) \/ Complete(i) \/ Execute(i) \/ Schedule(i)
  PROVE  TypeOK'
<1>0. bw \in Nat /\ Len(ROB) \in Nat /\ Len(ROB) <= ROB_SIZE /\ ROB_SIZE \in Nat
  BY Constants DEF TypeOK
<1>1. CASE Retire(i)
  <2>1. ROB' \in Seq(rob_type) /\ Len(ROB') = Len(ROB) - 1 BY <1>1, RetireEffect
  <2>2. Len(ROB') <= ROB_SIZE BY <1>0, <2>1
  <2>3. bw' \in Nat BY <1>0, <1>1 DEF Retire
  <2>4. UNCHANGED <<pc, warmup, trace, DISPATCH_BUFFER, LQ, SQ, reg_producers, todo, asked,
                    returned, written, taken>>
    BY <1>1 DEF Retire, queues, L1D
  <2> QED BY <2>1, <2>2, <2>3, <2>4 DEF TypeOK
<1>2. CASE Complete(i)
  <2>1. PICK c \in Live :
          /\ At(c).executed = "INFLIGHT"
          /\ At(c)' = [At(c) EXCEPT !.executed = "COMPLETED"]
          /\ \A id \in Live \ {c} :
               At(id)' = IF id \in At(c).registers_instrs_depend_on_me
                         THEN [At(id) EXCEPT !.num_reg_dependent = @ - 1] ELSE At(id)
          /\ reg_producers' = [r \in Registers |-> IF Writes(c, r) THEN reg_producers[r] \ {c}
                                                   ELSE reg_producers[r]]
    BY <1>2, CompleteEffect
  <2>2. Mapped BY <1>2, CompleteEffect
  <2>3. ASSUME NEW id \in Live PROVE At(id)' \in rob_type
    <3>1. At(id) \in rob_type BY LiveFacts
    <3>2. CASE id = c BY <2>1, <3>1, <3>2, EntryUpdates
    <3>3. CASE id # c /\ id \in At(c).registers_instrs_depend_on_me
      <4>1. c \in WaitsFor(id) BY <2>1, <3>3 DEF WaitsFor
      <4>2. Cardinality(WaitsFor(id)) # 0 BY <4>1, WaitsForFacts, FS_EmptySet
      <4>3. At(id).num_reg_dependent = Cardinality(WaitsFor(id)) BY DEF RegInv
      <4>4. At(id).num_reg_dependent - 1 \in Nat BY <4>2, <4>3, WaitsForFacts
      <4>5. [At(id) EXCEPT !.num_reg_dependent = At(id).num_reg_dependent - 1] \in rob_type
        BY <3>1, <4>4, EntryUpdates
      <4> QED BY <2>1, <3>3, <4>5
    <3>4. CASE id # c /\ id \notin At(c).registers_instrs_depend_on_me BY <2>1, <3>1, <3>4
    <3> QED BY <3>2, <3>3, <3>4
  <2>4. ROB' \in Seq(rob_type) /\ Len(ROB') = Len(ROB) BY <2>2, <2>3, MappedFacts
  <2>5. reg_producers' \in [Registers -> SUBSET Ids]
    <3>1. reg_producers \in [Registers -> SUBSET Ids] BY DEF TypeOK
    <3> QED BY <2>1, <3>1
  <2>6. bw' \in Nat BY <1>0, <1>2 DEF Complete
  <2>7. UNCHANGED <<pc, warmup, trace, DISPATCH_BUFFER, LQ, SQ, todo, asked, returned, written, taken>>
    BY <1>2 DEF Complete, queues, L1D
  <2> QED BY <1>0, <2>4, <2>5, <2>6, <2>7 DEF TypeOK
<1>3. CASE Execute(i)
  <2> DEFINE lat == Latency(EXEC_LATENCY)
  <2>0. lat \in Int BY Constants, LatencyType
  <2> HIDE DEF lat
  <2>1. PICK c \in Live : /\ At(c)' = [At(c) EXCEPT !.executed = "INFLIGHT", !.left = lat]
                          /\ \A id \in Live \ {c} : At(id)' = At(id)
    BY <1>3, ExecuteEffect DEF lat
  <2>2. Mapped BY <1>3, ExecuteEffect
  <2>3. ASSUME NEW id \in Live PROVE At(id)' \in rob_type
    <3>1. At(id) \in rob_type BY LiveFacts
    <3>2. [At(id) EXCEPT !.executed = "INFLIGHT", !.left = lat] \in rob_type
      BY <2>0, <3>1, EntryUpdates
    <3> QED BY <2>1, <3>1, <3>2
  <2>4. ROB' \in Seq(rob_type) /\ Len(ROB') = Len(ROB) BY <2>2, <2>3, MappedFacts
  <2>5. ROB[i].instr_id # None
    <3>1. ROB[i].instr_id \in Ids BY LiveFacts
    <3> QED BY <3>1, Constants DEF Ids, None
  <2>6. LQ' \in [Slots -> load_type \cup {NoLoad}]
    <3>1. \A s \in Slots : LQ[s] \in load_type \cup {NoLoad}
                           /\ (LQ[s].instr_id # None => LQ[s] \in load_type)
      BY QueueFacts DEF TypeOK
    <3>2. \A s \in Slots : LQ[s] \in load_type => [LQ[s] EXCEPT !.left = lat] \in load_type
      BY <2>0, LoadUpdates
    <3>3. LQ' = [s \in Slots |-> IF LQ[s].instr_id = ROB[i].instr_id
                                 THEN [LQ[s] EXCEPT !.left = lat] ELSE LQ[s]]
      BY <1>3 DEF Execute, lat
    <3> QED BY <2>5, <3>1, <3>2, <3>3
  <2>7. SQ' \in Seq(store_type) /\ Len(SQ') = Len(SQ)
    <3>1. SQ \in Seq(store_type) BY DEF TypeOK
    <3>2. SQ' = [k \in DOMAIN SQ |-> IF SQ[k].instr_id = ROB[i].instr_id
                                     THEN [SQ[k] EXCEPT !.left = lat] ELSE SQ[k]]
      BY <1>3 DEF Execute, lat
    <3>3. \A k \in DOMAIN SQ : SQ[k] \in store_type /\ [SQ[k] EXCEPT !.left = lat] \in store_type
      BY <2>0, QueueFacts, StoreUpdates
    <3>4. SQ' \in [DOMAIN SQ -> store_type] BY <3>2, <3>3
    <3> QED BY <3>1, <3>4, ReplacedType
  <2>8. bw' \in Nat BY <1>0, <1>3 DEF Execute
  <2>9. UNCHANGED <<pc, warmup, trace, DISPATCH_BUFFER, reg_producers, todo, asked, returned,
                    written, taken>>
    BY <1>3 DEF Execute, L1D
  <2> QED BY <1>0, <2>4, <2>6, <2>7, <2>8, <2>9 DEF TypeOK
<1>4. CASE Schedule(i)
  <2>1. PICK c \in Live :
          /\ At(c)' = [At(c) EXCEPT !.scheduled = TRUE, !.left = Latency(SCHEDULING_LATENCY),
                         !.num_reg_dependent = @ + Cardinality(Producers(trace[c]))]
          /\ \A id \in Live \ {c} :
               At(id)' = IF id \in Producers(trace[c])
                         THEN [At(id) EXCEPT !.registers_instrs_depend_on_me = @ \cup {c}]
                         ELSE At(id)
          /\ reg_producers' = [r \in Registers |-> IF Writes(c, r) THEN reg_producers[r] \cup {c}
                                                   ELSE reg_producers[r]]
    BY <1>4, ScheduleEffect
  <2>2. Mapped BY <1>4, ScheduleEffect
  <2>3. Cardinality(Producers(trace[c])) \in Nat BY ProducersFacts, FS_CardinalityType
  <2>4. Latency(SCHEDULING_LATENCY) \in Int BY Constants, LatencyType
  <2>5. c \in Ids BY LiveFacts
  <2>6. ASSUME NEW id \in Live PROVE At(id)' \in rob_type
    <3>1. At(id) \in rob_type BY LiveFacts
    <3>2. CASE id = c
      <4>1. At(c).num_reg_dependent + Cardinality(Producers(trace[c])) \in Nat
        <5>1. At(c).num_reg_dependent \in Nat BY <3>1, <3>2 DEF rob_type
        <5> QED BY <2>3, <5>1
      <4>2. [At(c) EXCEPT !.scheduled = TRUE, !.left = Latency(SCHEDULING_LATENCY),
               !.num_reg_dependent = At(c).num_reg_dependent + Cardinality(Producers(trace[c]))]
              \in rob_type
        BY <2>4, <3>1, <3>2, <4>1, EntryUpdates
      <4> QED BY <2>1, <3>2, <4>2
    <3>3. CASE id # c
      <4>1. At(id).registers_instrs_depend_on_me \cup {c} \subseteq Ids
        BY <2>5, <3>1 DEF rob_type
      <4>2. [At(id) EXCEPT !.registers_instrs_depend_on_me =
               At(id).registers_instrs_depend_on_me \cup {c}] \in rob_type
        BY <3>1, <4>1, EntryUpdates
      <4> QED BY <2>1, <3>1, <3>3, <4>2
    <3> QED BY <3>2, <3>3
  <2>7. ROB' \in Seq(rob_type) /\ Len(ROB') = Len(ROB) BY <2>2, <2>6, MappedFacts
  <2>8. reg_producers' \in [Registers -> SUBSET Ids]
    <3>1. reg_producers \in [Registers -> SUBSET Ids] BY DEF TypeOK
    <3> QED BY <2>1, <2>5, <3>1
  <2>9. UNCHANGED <<pc, bw, warmup, trace, DISPATCH_BUFFER, LQ, SQ, todo, asked, returned,
                    written, taken>>
    BY <1>4 DEF Schedule, queues, L1D
  <2> QED BY <1>0, <2>7, <2>8, <2>9 DEF TypeOK
<1> QED BY <1>1, <1>2, <1>3, <1>4

\* Memory operations end: their slots are emptied and their instructions told.
LEMMA TypeFinish ==
  ASSUME TypeOK, OrderInv, NEW S \in SUBSET Slots, NEW d, Finish(S, d), Reset(S),
         UNCHANGED <<trace, DISPATCH_BUFFER>>
  PROVE  /\ ROB' \in Seq(rob_type) /\ Len(ROB') = Len(ROB)
         /\ LQ' \in [Slots -> load_type \cup {NoLoad}]
<1>0. \A id \in Live :
        At(id)' = [At(id) EXCEPT !.completed_mem_ops =
                     @ + Cardinality({s \in S : LQ[s].instr_id = id}) + (IF id = d THEN 1 ELSE 0)]
  BY FinishEffect
<1>1. ASSUME NEW id \in Live PROVE At(id)' \in rob_type
  <2> DEFINE n == Cardinality({s \in S : LQ[s].instr_id = id})
  <2>1. {s \in S : LQ[s].instr_id = id} \subseteq Slots OBVIOUS
  <2>2. n \in Nat BY <2>1, QueueFacts, FS_Subset, FS_CardinalityType
  <2>3. At(id)' = [At(id) EXCEPT !.completed_mem_ops = @ + n + (IF id = d THEN 1 ELSE 0)]
    BY <1>0
  <2> HIDE DEF n
  <2>4. At(id) \in rob_type /\ At(id).completed_mem_ops \in Nat BY LiveFacts DEF rob_type
  <2>5. At(id).completed_mem_ops + n + (IF id = d THEN 1 ELSE 0) \in Nat BY <2>2, <2>4
  <2> QED BY <2>3, <2>4, <2>5, EntryUpdates
<1>2. ROB' \in Seq(rob_type) /\ Len(ROB') = Len(ROB) BY <1>1, FinishEffect, MappedFacts
<1>3. LQ' \in [Slots -> load_type \cup {NoLoad}]
  <2>1. LQ \in [Slots -> load_type \cup {NoLoad}] BY DEF TypeOK
  <2> QED BY <2>1 DEF Reset
<1> QED BY <1>2, <1>3

\* handle_memory_return and operate_lsq
LEMMA TypeMemory ==
  ASSUME TypeOK, OrderInv,
         MemoryReturn \/ (\E k \in DOMAIN SQ : FinishStore(k)) \/ CompleteStore
           \/ (\E s \in Slots : ExecuteLoad(s))
  PROVE  TypeOK'
<1>0. bw \in Nat /\ Len(ROB) \in Nat /\ Len(ROB) <= ROB_SIZE /\ ROB_SIZE \in Nat
      /\ SQ \in Seq(store_type) /\ Len(SQ) <= SQ_SIZE
  BY Constants DEF TypeOK
<1>1. CASE MemoryReturn
  <2>1. Answered(returned[1]) \subseteq Slots BY QueueFacts DEF Answered
  <2>2. /\ ROB' \in Seq(rob_type) /\ Len(ROB') = Len(ROB)
        /\ LQ' \in [Slots -> load_type \cup {NoLoad}]
    BY <1>1, <2>1, TypeFinish DEF MemoryReturn
  <2>3. bw' \in Nat BY <1>0, <1>1 DEF MemoryReturn
  <2>4. returned' \in Seq({BlockOf[a] : a \in Addresses})
    BY <1>1, TailFacts DEF MemoryReturn, TypeOK
  <2>5. UNCHANGED <<pc, warmup, trace, DISPATCH_BUFFER, SQ, reg_producers, todo, asked, written, taken>>
    BY <1>1 DEF MemoryReturn
  <2> QED BY <1>0, <2>2, <2>3, <2>4, <2>5 DEF TypeOK
<1>2. ASSUME NEW k \in DOMAIN SQ, FinishStore(k) PROVE TypeOK'
  <2>1. SQ[k].lq_depend_on_me \subseteq Slots BY QueueFacts
  <2>6. /\ pc = "finish" /\ bw > 0 /\ bw' = bw - 1
        /\ Finish(SQ[k].lq_depend_on_me, SQ[k].instr_id) /\ Reset(SQ[k].lq_depend_on_me)
        /\ SQ' = [SQ EXCEPT ![k].fetch_issued = TRUE, ![k].left = 0]
        /\ UNCHANGED <<pc, warmup, trace, DISPATCH_BUFFER, reg_producers, todo, L1D>>
    BY <1>2 DEF FinishStore
  <2>2. /\ ROB' \in Seq(rob_type) /\ Len(ROB') = Len(ROB)
        /\ LQ' \in [Slots -> load_type \cup {NoLoad}]
    BY <2>1, <2>6, TypeFinish
  <2>3. bw' \in Nat BY <1>0, <2>6
  <2>4. SQ' \in Seq(store_type) /\ Len(SQ') = Len(SQ)
    <3> DEFINE q == [SQ[k] EXCEPT !.fetch_issued = TRUE, !.left = 0]
    <3>4. SQ[k] \in store_type BY QueueFacts
    <3>1. q \in store_type BY <3>4, StoreUpdates
    <3>2. SQ' = [SQ EXCEPT ![k] = q] BY <2>6
    <3> HIDE DEF q
    <3>3. SQ' \in [DOMAIN SQ -> store_type] BY <1>0, <3>1, <3>2
    <3> QED BY <1>0, <3>3, ReplacedType
  <2>5. UNCHANGED <<pc, warmup, trace, DISPATCH_BUFFER, reg_producers, todo, asked, returned,
                    written, taken>>
    BY <2>6 DEF L1D
  <2> QED BY <1>0, <2>2, <2>3, <2>4, <2>5 DEF TypeOK
<1>3. CASE CompleteStore
  <2>1. SQ # <<>> /\ written' = Append(written, SQ[1].instr_id) /\ SQ' = Tail(SQ)
    BY <1>3 DEF CompleteStore, Storable
  <2>2. SQ[1].instr_id \in Ids BY <1>0, <2>1, HeadFacts, QueueFacts
  <2>3. written' \in Seq(Ids) /\ Len(written') = Len(written) + 1
    BY <2>1, <2>2, AppendFacts DEF TypeOK
  <2>4. taken' \in 0..Len(written')
    <3>1. taken \in 0..Len(written) /\ Len(written) \in Nat BY DEF TypeOK
    <3> QED BY <1>3, <2>3, <3>1 DEF CompleteStore
  <2>5. SQ' \in Seq(store_type) /\ Len(SQ') = Len(SQ) - 1 BY <1>0, <2>1, TailFacts
  <2>6. Len(SQ') <= SQ_SIZE
    <3>1. Len(SQ) \in Nat /\ SQ_SIZE \in Nat BY <1>0, Constants
    <3> QED BY <1>0, <2>5, <3>1
  <2>7. bw' \in Nat BY <1>0, <1>3 DEF CompleteStore
  <2>8. UNCHANGED <<pc, warmup, trace, DISPATCH_BUFFER, ROB, LQ, reg_producers, todo, asked, returned>>
    BY <1>3 DEF CompleteStore
  <2> QED BY <2>3, <2>4, <2>5, <2>6, <2>7, <2>8 DEF TypeOK
<1>4. ASSUME NEW s \in Slots, ExecuteLoad(s) PROVE TypeOK'
  <2>1. s \in Used /\ asked' = Append(asked, BlockOf[LQ[s].address])
        /\ LQ' = [LQ EXCEPT ![s] = [LQ[s] EXCEPT !.fetch_issued = TRUE]]
    BY <1>4 DEF ExecuteLoad, First, Loadable
  <2>2. LQ[s] \in load_type BY <2>1, QueueFacts
  <2>3. BlockOf[LQ[s].address] \in {BlockOf[a] : a \in Addresses} BY <2>2 DEF load_type
  <2>4. asked' \in Seq({BlockOf[a] : a \in Addresses}) BY <2>1, <2>3, AppendFacts DEF TypeOK
  <2>5. LQ' \in [Slots -> load_type \cup {NoLoad}]
    <3>1. LQ \in [Slots -> load_type \cup {NoLoad}] BY DEF TypeOK
    <3>2. [LQ[s] EXCEPT !.fetch_issued = TRUE] \in load_type BY <2>2, LoadUpdates
    <3> QED BY <2>1, <3>1, <3>2
  <2>6. bw' \in Nat BY <1>0, <1>4 DEF ExecuteLoad
  <2>7. UNCHANGED <<pc, warmup, trace, DISPATCH_BUFFER, ROB, SQ, reg_producers, todo, returned,
                    written, taken>>
    BY <1>4 DEF ExecuteLoad
  <2> QED BY <2>4, <2>5, <2>6, <2>7 DEF TypeOK
<1> QED BY <1>1, <1>2, <1>3, <1>4

LEMMA NewEntries ==
  ASSUME TypeOK, OrderInv, PlaceInv, pc = "place"
  PROVE  /\ me = Dispatched /\ me \in Ids /\ ROB # <<>>
         /\ \A a \in Addresses : NewStore(a) \in store_type
         /\ todo # <<>> => /\ todo[1] \in Addresses
                           /\ \A p \in Ids \cup {None} : NewLoad(p) \in load_type
<1>1. Dispatched \in Live BY DEF PlaceInv
<1>2. ROB # <<>> BY <1>1, LiveIndex
<1>3. me = Dispatched /\ me \in Ids BY <1>1, <1>2, LiveIndex, LiveFacts
<1>4. \A a \in Addresses : NewStore(a) \in store_type BY <1>3 DEF NewStore, store_type
<1>5. ASSUME todo # <<>> PROVE todo[1] \in Addresses BY <1>5, HeadFacts DEF TypeOK
<1>6. ASSUME todo # <<>>, NEW p \in Ids \cup {None} PROVE NewLoad(p) \in load_type
  BY <1>3, <1>5, <1>6 DEF NewLoad, load_type
<1> QED BY <1>2, <1>3, <1>4, <1>5, <1>6

\* do_memory_scheduling of a load
LEMMA TypePlaceLoad ==
  ASSUME TypeOK, OrderInv, PlaceInv,
         (\E s \in Slots : PlaceLoad(s)) \/ (\E k \in DOMAIN SQ : ForwardLoad(k))
           \/ (\E k \in DOMAIN SQ, s \in Slots : PlaceDependentLoad(s, k))
  PROVE  TypeOK'
<1>1. ASSUME pc = "place", todo # <<>>, todo' = Tail(todo) PROVE todo' \in Seq(Addresses)
  BY <1>1, TailFacts DEF TypeOK
<1>2. ASSUME NEW s \in Slots, PlaceLoad(s) PROVE TypeOK'
  <2>1. LQ' = [LQ EXCEPT ![s] = NewLoad(None)] /\ NewLoad(None) \in load_type
    BY <1>2, NewEntries DEF PlaceLoad
  <2>2. LQ' \in [Slots -> load_type \cup {NoLoad}]
    <3>1. LQ \in [Slots -> load_type \cup {NoLoad}] BY DEF TypeOK
    <3> QED BY <2>1, <3>1
  <2>3. todo' \in Seq(Addresses) BY <1>1, <1>2 DEF PlaceLoad
  <2>4. UNCHANGED <<pc, bw, warmup, trace, DISPATCH_BUFFER, ROB, SQ, reg_producers, asked,
                    returned, written, taken>>
    BY <1>2 DEF PlaceLoad, L1D
  <2> QED BY <2>2, <2>3, <2>4 DEF TypeOK
<1>3. ASSUME NEW k \in DOMAIN SQ, ForwardLoad(k) PROVE TypeOK'
  <2>1. pc = "place" BY <1>3 DEF ForwardLoad
  <2>2. PICK d \in Live : d = Dispatched BY <2>1 DEF PlaceInv
  <2>3. /\ Mapped /\ \A id \in Live \ {d} : At(id)' = At(id)
        /\ Dispatched' = d /\ At(d)' = [At(d) EXCEPT !.completed_mem_ops = @ + 1]
    <3>1. Mapped /\ \A id \in Live \ {d} : At(id)' = At(id) BY <1>3, <2>2, ForwardEffect
    <3>2. Dispatched' = d BY <2>2, <3>1, MappedFacts
    <3>3. At(Dispatched)' = [At(Dispatched) EXCEPT !.completed_mem_ops = @ + 1]
      BY <1>3, ForwardEffect
    <3> QED BY <2>2, <3>1, <3>2, <3>3 DEF At
  <2>4. ASSUME NEW id \in Live PROVE At(id)' \in rob_type
    <3>1. At(id) \in rob_type BY LiveFacts
    <3>2. At(id).completed_mem_ops + 1 \in Nat BY <3>1 DEF rob_type
    <3>3. [At(id) EXCEPT !.completed_mem_ops = At(id).completed_mem_ops + 1] \in rob_type
      BY <3>1, <3>2, EntryUpdates
    <3> QED BY <2>3, <3>1, <3>3
  <2>5. ROB' \in Seq(rob_type) /\ Len(ROB') = Len(ROB) BY <2>3, <2>4, MappedFacts
  <2>6. todo' \in Seq(Addresses) BY <1>1, <1>3 DEF ForwardLoad
  <2>7. UNCHANGED <<pc, bw, warmup, trace, DISPATCH_BUFFER, LQ, SQ, reg_producers, asked,
                    returned, written, taken>>
    BY <1>3 DEF ForwardLoad, queues, L1D
  <2> QED BY <2>5, <2>6, <2>7 DEF TypeOK
<1>4. ASSUME NEW k \in DOMAIN SQ, NEW s \in Slots, PlaceDependentLoad(s, k) PROVE TypeOK'
  <2> DEFINE D == SQ[k].lq_depend_on_me \cup {s}
             q == [SQ[k] EXCEPT !.lq_depend_on_me = D]
             l == NewLoad(SQ[k].instr_id)
  <2>1. LQ' = [LQ EXCEPT ![s] = l] /\ SQ' = [SQ EXCEPT ![k] = q]
    BY <1>4 DEF PlaceDependentLoad
  <2>2. SQ[k] \in store_type /\ SQ[k].instr_id \in Ids /\ D \subseteq Slots BY QueueFacts
  <2>3. l \in load_type BY <1>4, <2>2, NewEntries DEF PlaceDependentLoad
  <2> HIDE DEF l, D
  <2>4. q \in store_type BY <2>2, StoreUpdates
  <2> HIDE DEF q
  <2>5. LQ \in [Slots -> load_type \cup {NoLoad}] /\ SQ \in Seq(store_type) BY DEF TypeOK
  <2>6. LQ' \in [Slots -> load_type \cup {NoLoad}] BY <2>1, <2>3, <2>5
  <2>7. SQ' \in Seq(store_type) /\ Len(SQ') = Len(SQ)
    <3>1. SQ' \in [DOMAIN SQ -> store_type] BY <2>1, <2>4, <2>5
    <3> QED BY <2>5, <3>1, ReplacedType
  <2>8. todo' \in Seq(Addresses) BY <1>1, <1>4 DEF PlaceDependentLoad
  <2>9. UNCHANGED <<pc, bw, warmup, trace, DISPATCH_BUFFER, ROB, reg_producers, asked,
                    returned, written, taken>>
    BY <1>4 DEF PlaceDependentLoad, L1D
  <2> QED BY <2>6, <2>7, <2>8, <2>9 DEF TypeOK
<1> QED BY <1>2, <1>3, <1>4

\* The stores of an instruction enter behind the others.
LEMMA PlaceStoresEffect ==
  ASSUME TypeOK, OrderInv, PlaceInv, PlaceStores
  PROVE  \E d \in Seq(Addresses) :
           /\ d = trace[Dispatched].destination_memory
           /\ SQ' \in Seq(store_type) /\ Len(SQ') = Len(SQ) + Len(d) /\ Len(SQ') <= SQ_SIZE
           /\ \A k \in DOMAIN SQ : SQ'[k] = SQ[k]
           /\ \A k \in DOMAIN d : SQ'[Len(SQ) + k] = NewStore(d[k])
<1>1. pc = "place" BY DEF PlaceStores
<1>2. Dispatched \in Live /\ me = Dispatched BY <1>1, NewEntries DEF PlaceInv
<1>3. PICK d \in Seq(Addresses) : d = trace[Dispatched].destination_memory
  BY <1>2, LiveFacts DEF instr_type
<1>4. SQ' = SQ \o [i \in DOMAIN d |-> NewStore(d[i])] BY <1>2, <1>3 DEF PlaceStores
<1> DEFINE new == [i \in DOMAIN d |-> NewStore(d[i])]
<1>5. new \in Seq(store_type) /\ Len(new) = Len(d)
  <2>1. \A a \in Addresses : NewStore(a) \in store_type BY <1>1, NewEntries
  <2>2. \A i \in DOMAIN d : d[i] \in Addresses OBVIOUS
  <2>3. new \in [DOMAIN d -> store_type] BY <2>1, <2>2
  <2> QED BY <2>3, ReplacedType
<1>6. SQ \in Seq(store_type) BY DEF TypeOK
<1>7. \A i \in DOMAIN d : new[i] = NewStore(d[i]) OBVIOUS
<1>8. SQ' = SQ \o new BY <1>4
<1> HIDE DEF new
<1>9. SQ' \in Seq(store_type) /\ Len(SQ') = Len(SQ) + Len(d)
  <2>1. SQ \o new \in Seq(store_type) /\ Len(SQ \o new) = Len(SQ) + Len(new) BY <1>5, <1>6
  <2> QED BY <1>5, <1>8, <2>1
<1>10. \A k \in DOMAIN SQ : SQ'[k] = SQ[k] BY <1>5, <1>6, <1>8
<1>11. \A k \in DOMAIN d : SQ'[Len(SQ) + k] = NewStore(d[k])
  <2> TAKE k \in DOMAIN d
  <2>1. k \in 1..Len(new) BY <1>5
  <2>2. (SQ \o new)[Len(SQ) + k] = new[k] BY <1>5, <1>6, <2>1
  <2> QED BY <1>7, <1>8, <2>2
<1>12. Len(SQ') <= SQ_SIZE
  <2>1. Len(d) + Len(SQ) <= SQ_SIZE BY <1>1, <1>3 DEF PlaceInv, SQRoom
  <2>2. Len(d) \in Nat /\ Len(SQ) \in Nat BY <1>6
  <2> QED BY <1>9, <2>1, <2>2
<1> QED BY <1>3, <1>9, <1>10, <1>11, <1>12

\* Dispatch, the stores, and the end of the cycle
LEMMA TypeDispatch ==
  ASSUME TypeOK, OrderInv, PlaceInv, Dispatch \/ PlaceStores \/ Tick
  PROVE  TypeOK'
<1>0. bw \in Nat /\ Len(ROB) \in Nat /\ Len(ROB) <= ROB_SIZE /\ ROB_SIZE \in Nat
  BY Constants DEF TypeOK
<1>1. CASE Dispatch
  <2>1. PICK d \in 1..Len(trace) :
          /\ ROB' \in Seq(rob_type) /\ Len(ROB') = Len(ROB) + 1
          /\ DISPATCH_BUFFER # <<>> /\ todo' = trace[d].source_memory
    BY <1>1, DispatchEffect
  <2>2. Len(ROB') <= ROB_SIZE
    <3>1. Len(ROB) # ROB_SIZE BY <1>1 DEF Dispatch, Dispatchable
    <3> QED BY <1>0, <2>1, <3>1
  <2>3. todo' \in Seq(Addresses)
    <3>1. trace[d] \in instr_type BY DEF TypeOK
    <3> QED BY <2>1, <3>1 DEF instr_type
  <2>4. DISPATCH_BUFFER' \in Seq([instr_id : Ids, left : Int])
    <3>1. DISPATCH_BUFFER' = Tail(DISPATCH_BUFFER) BY <1>1 DEF Dispatch
    <3> QED BY <2>1, <3>1, TailFacts DEF TypeOK
  <2>5. bw' \in Nat /\ pc' = "place" BY <1>0, <1>1 DEF Dispatch, GoTo
  <2>6. UNCHANGED <<warmup, trace, LQ, SQ, reg_producers, asked, returned, written, taken>>
    BY <1>1 DEF Dispatch, queues, L1D
  <2> QED BY <2>1, <2>2, <2>3, <2>4, <2>5, <2>6 DEF TypeOK
<1>2. CASE PlaceStores
  <2>1. SQ' \in Seq(store_type) /\ Len(SQ') <= SQ_SIZE BY <1>2, PlaceStoresEffect
  <2>2. pc' = "dispatch" /\ UNCHANGED <<bw, warmup, trace, DISPATCH_BUFFER, ROB, LQ, reg_producers,
                                        todo, asked, returned, written, taken>>
    BY <1>2 DEF PlaceStores, L1D
  <2> QED BY <2>1, <2>2 DEF TypeOK
<1>3. CASE Tick
  <2>1. /\ DISPATCH_BUFFER' = [i \in DOMAIN DISPATCH_BUFFER |->
                                 [DISPATCH_BUFFER[i] EXCEPT !.left = Sooner(@)]]
        /\ SQ' = [i \in DOMAIN SQ |-> [SQ[i] EXCEPT !.left = Sooner(@)]]
        /\ LQ' = [s \in Slots |-> IF s \in Used THEN [LQ[s] EXCEPT !.left = Sooner(@)] ELSE NoLoad]
    BY <1>3 DEF Tick, SoonerAll
  <2>2. ROB' \in Seq(rob_type) /\ Len(ROB') = Len(ROB)
    <3>1. ASSUME NEW id \in Live PROVE At(id)' \in rob_type
      <4>1. At(id) \in rob_type /\ At(id)' = [At(id) EXCEPT !.left = Sooner(@)]
        BY <1>3, LiveFacts, TickEffect
      <4>2. At(id).left \in Int BY <4>1 DEF rob_type
      <4>3. Sooner(At(id).left) \in Int BY <4>2, LatencyType
      <4> QED BY <4>1, <4>3, EntryUpdates
    <3> QED BY <1>3, <3>1, TickEffect, MappedFacts
  <2>3. DISPATCH_BUFFER' \in Seq([instr_id : Ids, left : Int])
    <3> DEFINE T == [instr_id : Ids, left : Int]
    <3>1. DISPATCH_BUFFER \in Seq(T) BY DEF TypeOK
    <3>2. \A e \in T : [e EXCEPT !.left = Sooner(e.left)] \in T BY LatencyType
    <3> HIDE DEF T
    <3>3. \A i \in DOMAIN DISPATCH_BUFFER : DISPATCH_BUFFER[i] \in T BY <3>1
    <3>4. DISPATCH_BUFFER' \in [DOMAIN DISPATCH_BUFFER -> T] BY <2>1, <3>2, <3>3
    <3>5. DISPATCH_BUFFER' \in Seq(T) BY <3>1, <3>4, ReplacedType
    <3> QED BY <3>5 DEF T
  <2>4. SQ' \in Seq(store_type) /\ Len(SQ') = Len(SQ)
    <3>1. \A e \in store_type : [e EXCEPT !.left = Sooner(e.left)] \in store_type
      <4>1. \A e \in store_type : Sooner(e.left) \in Int BY LatencyType DEF store_type
      <4> QED BY <4>1, StoreUpdates
    <3>2. SQ \in Seq(store_type) BY DEF TypeOK
    <3>3. SQ' \in [DOMAIN SQ -> store_type] BY <2>1, <3>1, QueueFacts
    <3> QED BY <3>2, <3>3, ReplacedType
  <2>5. LQ' \in [Slots -> load_type \cup {NoLoad}]
    <3>1. \A e \in load_type : [e EXCEPT !.left = Sooner(e.left)] \in load_type
      <4>1. \A e \in load_type : Sooner(e.left) \in Int BY LatencyType DEF load_type
      <4> QED BY <4>1, LoadUpdates
    <3> QED BY <2>1, <3>1, QueueFacts
  <2>6. pc' = "idle" /\ bw' = 0 /\ UNCHANGED <<warmup, trace, reg_producers, todo, asked, returned,
                                               written, taken>>
    BY <1>3 DEF Tick, GoTo, L1D
  <2> QED BY <1>0, <2>2, <2>3, <2>4, <2>5, <2>6 DEF TypeOK
<1> QED BY <1>1, <1>2, <1>3
-----------------------------------------------------------------------------
(* The actions in groups *)

IdleStep     == (\E n \in Instructions : Decode(n)) \/ Memory \/ EndWarmup
RegisterStep == \E i \in DOMAIN ROB : Retire(i) \/ Complete(i) \/ Execute(i) \/ Schedule(i)
MemoryStep   == \/ MemoryReturn \/ (\E k \in DOMAIN SQ : FinishStore(k)) \/ CompleteStore
                \/ (\E s \in Slots : ExecuteLoad(s))
PlaceStep    == \/ (\E s \in Slots : PlaceLoad(s)) \/ (\E k \in DOMAIN SQ : ForwardLoad(k))
                \/ (\E k \in DOMAIN SQ, s \in Slots : PlaceDependentLoad(s, k))
DispatchStep == Dispatch \/ PlaceStores \/ Tick

LEMMA NextCases ==
  Next => IdleStep \/ NextStage \/ RegisterStep \/ MemoryStep \/ PlaceStep \/ DispatchStep
BY DEF Next, Operate, IdleStep, NextStage, RegisterStep, MemoryStep, PlaceStep, DispatchStep

LEMMA TypeStep ==
  ASSUME TypeOK, OrderInv, PlaceInv, RegInv, Next
  PROVE  TypeOK'
<1>1. CASE IdleStep BY <1>1, TypeIdle DEF IdleStep
<1>2. CASE NextStage BY <1>2, TypeNextStage
<1>3. CASE RegisterStep BY <1>3, TypeRegisters DEF RegisterStep
<1>4. CASE MemoryStep BY <1>4, TypeMemory DEF MemoryStep
<1>5. CASE PlaceStep BY <1>5, TypePlaceLoad DEF PlaceStep
<1>6. CASE DispatchStep BY <1>6, TypeDispatch DEF DispatchStep
<1> QED BY <1>1, <1>2, <1>3, <1>4, <1>5, <1>6, NextCases
-----------------------------------------------------------------------------
(* The order of the instructions and what they know of each other *)

\* A step that keeps the instructions in the ROB and what is known of their registers.
Kept ==
  /\ Mapped /\ reg_producers' = reg_producers
  /\ \A id \in Live :
       /\ trace'[id] = trace[id]
       /\ At(id).instr_id' = At(id).instr_id /\ At(id).scheduled' = At(id).scheduled
       /\ At(id).executed' = At(id).executed
       /\ At(id).num_reg_dependent' = At(id).num_reg_dependent
       /\ At(id).registers_instrs_depend_on_me' = At(id).registers_instrs_depend_on_me
  /\ \A i \in DOMAIN DISPATCH_BUFFER' : DISPATCH_BUFFER'[i].instr_id = Dispatched + i

LEMMA KeptEntry ==
  ASSUME TypeOK, OrderInv, Mapped, UNCHANGED <<trace, DISPATCH_BUFFER, reg_producers>>,
         \A id \in Live : \E m, n : At(id)' = At(id)
                                     \/ At(id)' = [At(id) EXCEPT !.completed_mem_ops = m]
                                     \/ At(id)' = [At(id) EXCEPT !.left = n]
  PROVE  Kept
<1>1. ASSUME NEW id \in Live
      PROVE  /\ trace'[id] = trace[id]
             /\ At(id).instr_id' = At(id).instr_id /\ At(id).scheduled' = At(id).scheduled
             /\ At(id).executed' = At(id).executed
             /\ At(id).num_reg_dependent' = At(id).num_reg_dependent
             /\ At(id).registers_instrs_depend_on_me' = At(id).registers_instrs_depend_on_me
  <2> DEFINE e == At(id)
  <2>1. e \in rob_type BY LiveFacts
  <2>2. PICK m, n : \/ e' = e \/ e' = [e EXCEPT !.completed_mem_ops = m]
                    \/ e' = [e EXCEPT !.left = n]
    OBVIOUS
  <2>3. /\ e'.instr_id = e.instr_id /\ e'.scheduled = e.scheduled /\ e'.executed = e.executed
        /\ e'.num_reg_dependent = e.num_reg_dependent
        /\ e'.registers_instrs_depend_on_me = e.registers_instrs_depend_on_me
    <3> HIDE DEF e
    <3> QED BY <2>1, <2>2 DEF rob_type
  <2> QED BY <2>3
<1>2. \A i \in DOMAIN DISPATCH_BUFFER' : DISPATCH_BUFFER'[i].instr_id = Dispatched + i
  BY DEF OrderInv
<1> QED BY <1>1, <1>2 DEF Kept

LEMMA KeptStep ==
  ASSUME TypeOK, OrderInv, PlaceInv,
         IdleStep \/ NextStage \/ MemoryStep \/ PlaceStep \/ PlaceStores \/ Tick
  PROVE  Kept
<1>1. ASSUME UNCHANGED <<trace, DISPATCH_BUFFER, ROB, reg_producers>> PROVE Kept
  <2>1. Len(trace)' - Len(DISPATCH_BUFFER)' = Dispatched BY <1>1 DEF Dispatched
  <2>2. Mapped /\ \A id \in Live : At(id)' = At(id) BY <1>1, <2>1, SameEffect
  <2> QED BY <1>1, <2>2, KeptEntry
<1>2. ASSUME NEW n \in Instructions, Decode(n) PROVE Kept
  <2> DEFINE t == IF warmup THEN Bare(n) ELSE n
             e == [instr_id |-> Len(trace) + 1, left |-> Sooner(Latency(DISPATCH_LATENCY))]
  <2>1. /\ trace' = Append(trace, t) /\ DISPATCH_BUFFER' = Append(DISPATCH_BUFFER, e)
        /\ ROB' = ROB /\ reg_producers' = reg_producers
    BY <1>2 DEF Decode
  <2>2. e.instr_id = Len(trace) + 1 OBVIOUS
  <2> HIDE DEF t, e
  <2>3. trace \in Seq(instr_type) /\ DISPATCH_BUFFER \in Seq([instr_id : Ids, left : Int])
    BY DEF TypeOK
  <2>4. /\ Len(trace') = Len(trace) + 1 /\ Len(DISPATCH_BUFFER') = Len(DISPATCH_BUFFER) + 1
        /\ \A i \in 1..Len(trace) : trace'[i] = trace[i]
        /\ DOMAIN DISPATCH_BUFFER' = 1..(Len(DISPATCH_BUFFER) + 1)
        /\ DISPATCH_BUFFER'[Len(DISPATCH_BUFFER) + 1] = e
        /\ \A i \in 1..Len(DISPATCH_BUFFER) : DISPATCH_BUFFER'[i] = DISPATCH_BUFFER[i]
    BY <2>1, <2>3
  <2>5. Len(trace) \in Nat /\ Len(DISPATCH_BUFFER) \in Nat
        /\ DOMAIN DISPATCH_BUFFER = 1..Len(DISPATCH_BUFFER)
    BY <2>3
  <2>6. Len(trace)' - Len(DISPATCH_BUFFER)' = Dispatched BY <2>4, <2>5 DEF Dispatched
  <2>7. Mapped /\ \A id \in Live : At(id)' = At(id) BY <2>1, <2>6, SameEffect
  <2>8. \A i \in DOMAIN DISPATCH_BUFFER' : DISPATCH_BUFFER'[i].instr_id = Dispatched + i
    <3> TAKE i \in DOMAIN DISPATCH_BUFFER'
    <3>1. CASE i \in 1..Len(DISPATCH_BUFFER) BY <2>4, <2>5, <3>1 DEF OrderInv
    <3>2. CASE i = Len(DISPATCH_BUFFER) + 1
      <4>1. Dispatched + i = Len(trace) + 1 BY <2>5, <3>2 DEF Dispatched
      <4> QED BY <2>2, <2>4, <3>2, <4>1
    <3> QED BY <2>4, <2>5, <3>1, <3>2
  <2>9. \A id \in Live : trace'[id] = trace[id] BY <2>4, LiveFacts
  <2> QED BY <2>1, <2>7, <2>8, <2>9 DEF Kept
<1>3. ASSUME NEW S, NEW d, Finish(S, d), UNCHANGED <<trace, DISPATCH_BUFFER, reg_producers>>
      PROVE  Kept
  <2>1. Mapped /\ \A id \in Live :
                    At(id)' = [At(id) EXCEPT !.completed_mem_ops =
                      @ + Cardinality({s \in S : LQ[s].instr_id = id}) + (IF id = d THEN 1 ELSE 0)]
    BY <1>3, FinishEffect
  <2>2. \A id \in Live : \E m : At(id)' = [At(id) EXCEPT !.completed_mem_ops = m] BY <2>1
  <2> QED BY <1>3, <2>1, <2>2, KeptEntry
<1>4. CASE IdleStep
  <2>1. ASSUME Memory \/ EndWarmup PROVE UNCHANGED <<trace, DISPATCH_BUFFER, ROB, reg_producers>>
    BY <2>1 DEF Memory, L1DAnswers, L1DTakesWrite, EndWarmup
  <2> QED BY <1>1, <1>2, <1>4, <2>1 DEF IdleStep
<1>5. CASE NextStage BY <1>1, <1>5, NextStageFacts
<1>6. CASE MemoryStep
  <2>1. CASE MemoryReturn
    <3>1. /\ Finish(Answered(returned[1]), None)
          /\ UNCHANGED <<trace, DISPATCH_BUFFER, reg_producers>>
      BY <2>1 DEF MemoryReturn
    <3> QED BY <1>3, <3>1
  <2>2. ASSUME NEW k \in DOMAIN SQ, FinishStore(k) PROVE Kept
    <3>1. /\ Finish(SQ[k].lq_depend_on_me, SQ[k].instr_id)
          /\ UNCHANGED <<trace, DISPATCH_BUFFER, reg_producers>>
      BY <2>2 DEF FinishStore
    <3> QED BY <1>3, <3>1
  <2>3. CASE CompleteStore BY <1>1, <2>3 DEF CompleteStore
  <2>4. ASSUME NEW s \in Slots, ExecuteLoad(s) PROVE Kept BY <1>1, <2>4 DEF ExecuteLoad
  <2> QED BY <1>6, <2>1, <2>2, <2>3, <2>4 DEF MemoryStep
<1>7. CASE PlaceStep
  <2>1. ASSUME NEW s \in Slots, PlaceLoad(s) PROVE Kept BY <1>1, <2>1 DEF PlaceLoad
  <2>2. ASSUME NEW k \in DOMAIN SQ, NEW s \in Slots, PlaceDependentLoad(s, k) PROVE Kept
    BY <1>1, <2>2 DEF PlaceDependentLoad
  <2>3. ASSUME NEW k \in DOMAIN SQ, ForwardLoad(k) PROVE Kept
    <3>1. pc = "place" /\ UNCHANGED <<trace, DISPATCH_BUFFER, reg_producers>>
      BY <2>3 DEF ForwardLoad
    <3>2. PICK d \in Live : d = Dispatched BY <3>1 DEF PlaceInv
    <3>3. Mapped /\ \A id \in Live \ {d} : At(id)' = At(id) BY <2>3, <3>2, ForwardEffect
    <3>4. Dispatched' = d BY <3>2, <3>3, MappedFacts
    <3>5. At(Dispatched)' = [At(Dispatched) EXCEPT !.completed_mem_ops = @ + 1]
      BY <2>3, ForwardEffect
    <3>6. At(d)' = [At(d) EXCEPT !.completed_mem_ops = At(d).completed_mem_ops + 1]
      BY <3>2, <3>4, <3>5 DEF At
    <3>7. ASSUME NEW id \in Live
          PROVE  \E m : At(id)' = At(id) \/ At(id)' = [At(id) EXCEPT !.completed_mem_ops = m]
      <4>1. CASE id = d BY <3>6, <4>1
      <4>2. CASE id # d BY <3>3, <4>2
      <4> QED BY <4>1, <4>2
    <3> QED BY <3>1, <3>3, <3>7, KeptEntry
  <2> QED BY <1>7, <2>1, <2>2, <2>3 DEF PlaceStep
<1>8. CASE PlaceStores BY <1>1, <1>8 DEF PlaceStores
<1>9. CASE Tick
  <2>1. Mapped /\ \A id \in Live : At(id)' = [At(id) EXCEPT !.left = Sooner(@)]
    BY <1>9, TickEffect
  <2>2. \A id \in Live : \E n : At(id)' = [At(id) EXCEPT !.left = n] BY <2>1
  <2>3. /\ trace' = trace /\ reg_producers' = reg_producers
        /\ DISPATCH_BUFFER' = [i \in DOMAIN DISPATCH_BUFFER |->
                                 [DISPATCH_BUFFER[i] EXCEPT !.left = Sooner(@)]]
    BY <1>9 DEF Tick, SoonerAll
  <2>4. \A i \in DOMAIN DISPATCH_BUFFER : DISPATCH_BUFFER'[i].instr_id = DISPATCH_BUFFER[i].instr_id
    <3> TAKE i \in DOMAIN DISPATCH_BUFFER
    <3>1. DISPATCH_BUFFER \in Seq([instr_id : Ids, left : Int]) BY DEF TypeOK
    <3>2. DISPATCH_BUFFER[i] \in [instr_id : Ids, left : Int] BY <3>1, ItemFacts
    <3> QED BY <2>3, <3>2
  <2>5. DOMAIN DISPATCH_BUFFER' = DOMAIN DISPATCH_BUFFER BY <2>3
  <2>6. \A i \in DOMAIN DISPATCH_BUFFER' : DISPATCH_BUFFER'[i].instr_id = Dispatched + i
    BY <2>4, <2>5 DEF OrderInv
  <2>7. \A id \in Live : /\ At(id).instr_id' = At(id).instr_id /\ At(id).scheduled' = At(id).scheduled
                         /\ At(id).executed' = At(id).executed
                         /\ At(id).num_reg_dependent' = At(id).num_reg_dependent
                         /\ At(id).registers_instrs_depend_on_me' = At(id).registers_instrs_depend_on_me
    BY <2>1, LiveFacts DEF rob_type
  <2> QED BY <2>1, <2>3, <2>6, <2>7 DEF Kept
<1> QED BY <1>4, <1>5, <1>6, <1>7, <1>8, <1>9

LEMMA KeptInv ==
  ASSUME TypeOK, OrderInv, Kept
  PROVE  OrderInv' /\ (RegInv => RegInv') /\ (ReadyInv => ReadyInv')
<1>1. Live' = Live /\ Dispatched' = Dispatched /\ Oldest' = Oldest BY MappedFacts DEF Kept
<1>2. \A id \in Live :
        /\ trace'[id] = trace[id]
        /\ At(id).instr_id' = At(id).instr_id /\ At(id).scheduled' = At(id).scheduled
        /\ At(id).executed' = At(id).executed
        /\ At(id).num_reg_dependent' = At(id).num_reg_dependent
        /\ At(id).registers_instrs_depend_on_me' = At(id).registers_instrs_depend_on_me
  BY DEF Kept
<1>3. OrderInv'
  <2>1. (Oldest >= 0)' BY <1>1 DEF OrderInv
  <2>2. (\A i \in DOMAIN DISPATCH_BUFFER : DISPATCH_BUFFER[i].instr_id = Dispatched + i)'
    BY <1>1 DEF Kept
  <2>3. (\A id \in Live : At(id).instr_id = id)' BY <1>1, <1>2 DEF OrderInv
  <2>4. (\A p, id \in Live : p < id /\ At(id).scheduled => At(p).scheduled)'
    BY <1>1, <1>2 DEF OrderInv
  <2>5. (\A id \in Live : At(id).executed # "no" => At(id).scheduled)' BY <1>1, <1>2 DEF OrderInv
  <2> QED BY <2>1, <2>2, <2>3, <2>4, <2>5 DEF OrderInv
<1>4. \A p \in Live : \A r : Writes(p, r)' <=> Writes(p, r) BY <1>2 DEF Writes
<1>5. \A id : WaitsFor(id)' = WaitsFor(id) BY <1>1, <1>2 DEF WaitsFor
<1>6. \A p, id, r : LastWriter(p, id, r)' <=> LastWriter(p, id, r) BY <1>1, <1>4 DEF LastWriter
<1>7. ASSUME RegInv PROVE RegInv'
  <2>1. (\A r \in Registers : reg_producers[r] =
           {p \in Live : At(p).scheduled /\ At(p).executed # "COMPLETED" /\ Writes(p, r)})'
    BY <1>1, <1>2, <1>4, <1>7 DEF RegInv, Kept
  <2>2. (\A id \in Live : At(id).num_reg_dependent = Cardinality(WaitsFor(id)))'
    BY <1>1, <1>2, <1>5, <1>7 DEF RegInv
  <2>3. (\A p \in Live : \A id \in At(p).registers_instrs_depend_on_me :
           id \in Live /\ p < id /\ At(id).scheduled)'
    BY <1>1, <1>2, <1>7 DEF RegInv
  <2>4. (\A id \in Live : At(id).scheduled =>
           \A r \in trace[id].source_registers : \A p \in Live :
             LastWriter(p, id, r) => \/ At(p).executed = "COMPLETED"
                                     \/ id \in At(p).registers_instrs_depend_on_me)'
    BY <1>1, <1>2, <1>6, <1>7 DEF RegInv
  <2> QED BY <2>1, <2>2, <2>3, <2>4 DEF RegInv
<1>8. ASSUME ReadyInv PROVE ReadyInv' BY <1>1, <1>2, <1>6, <1>8 DEF ReadyInv
<1> QED BY <1>3, <1>7, <1>8

\* Nobody waits for an instruction that retires: it has completed, and it is the oldest.
LEMMA RetireRegisters ==
  ASSUME TypeOK, OrderInv, RegInv, ReadyInv, NEW i \in DOMAIN ROB, Retire(i)
  PROVE  OrderInv' /\ RegInv' /\ ReadyInv'
<1>1. PICK c \in Live : /\ c = Oldest + 1 /\ At(c).executed = "COMPLETED"
                        /\ Oldest' = c /\ Dispatched' = Dispatched /\ Live' = Live \ {c}
                        /\ \A id \in Live \ {c} : At(id)' = At(id)
  BY RetireEffect
<1>2. UNCHANGED <<trace, DISPATCH_BUFFER, reg_producers>> BY DEF Retire
<1>3. \A id \in Live : id \in Nat /\ c <= id BY <1>1, LiveFacts DEF Live
<1>4. \A p, r : Writes(p, r)' <=> Writes(p, r) BY <1>2 DEF Writes
<1>5. \A id : WaitsFor(id)' = WaitsFor(id) BY <1>1 DEF WaitsFor
<1>6. ASSUME NEW p, NEW id, NEW r, LastWriter(p, id, r)' PROVE LastWriter(p, id, r) /\ p \in Live'
  <2>1. p \in Live' /\ p < id /\ Writes(p, r) /\ \A q \in Live' : q < id /\ Writes(q, r) => q <= p
    BY <1>4, <1>6 DEF LastWriter
  <2>2. \A q \in Live : q < id /\ Writes(q, r) => q <= p BY <1>1, <1>3, <2>1
  <2> QED BY <1>1, <2>1, <2>2 DEF LastWriter
<1>7. OrderInv'
  <2>1. (Oldest >= 0)' BY <1>1, <1>3
  <2>2. (\A j \in DOMAIN DISPATCH_BUFFER : DISPATCH_BUFFER[j].instr_id = Dispatched + j)'
    BY <1>1, <1>2 DEF OrderInv
  <2>3. (\A id \in Live : At(id).instr_id = id)' BY <1>1 DEF OrderInv
  <2>4. (\A p, id \in Live : p < id /\ At(id).scheduled => At(p).scheduled)' BY <1>1 DEF OrderInv
  <2>5. (\A id \in Live : At(id).executed # "no" => At(id).scheduled)' BY <1>1 DEF OrderInv
  <2> QED BY <2>1, <2>2, <2>3, <2>4, <2>5 DEF OrderInv
<1>8. RegInv'
  <2>1. (\A r \in Registers : reg_producers[r] =
           {p \in Live : At(p).scheduled /\ At(p).executed # "COMPLETED" /\ Writes(p, r)})'
    BY <1>1, <1>2, <1>4 DEF RegInv
  <2>2. (\A id \in Live : At(id).num_reg_dependent = Cardinality(WaitsFor(id)))'
    BY <1>1, <1>5 DEF RegInv
  <2>3. ASSUME NEW p \in Live', NEW id \in At(p).registers_instrs_depend_on_me'
        PROVE  id \in Live' /\ p < id /\ At(id).scheduled'
    <3>1. p \in Live \ {c} /\ At(p)' = At(p) BY <1>1
    <3>2. id \in Live /\ p < id /\ At(id).scheduled BY <3>1 DEF RegInv
    <3>3. id # c BY <1>3, <3>1, <3>2
    <3> QED BY <1>1, <3>2, <3>3
  <2>4. ASSUME NEW id \in Live', At(id).scheduled', NEW r \in trace[id].source_registers',
               NEW p \in Live', LastWriter(p, id, r)'
        PROVE  At(p).executed' = "COMPLETED" \/ id \in At(p).registers_instrs_depend_on_me'
    <3>1. LastWriter(p, id, r) BY <1>6, <2>4
    <3>2. id \in Live \ {c} /\ p \in Live \ {c} /\ At(id)' = At(id) /\ At(p)' = At(p) BY <1>1
    <3>3. r \in trace[id].source_registers BY <1>2
    <3>4. At(id).scheduled BY <2>4, <3>2
    <3>5. At(p).executed = "COMPLETED" \/ id \in At(p).registers_instrs_depend_on_me
      BY <3>1, <3>2, <3>3, <3>4 DEF RegInv
    <3> QED BY <3>2, <3>5
  <2> QED BY <2>1, <2>2, <2>3, <2>4 DEF RegInv
<1>9. ReadyInv'
  <2> SUFFICES ASSUME NEW id \in Live', At(id).executed' # "no", NEW r \in trace[id].source_registers',
                      NEW p \in Live', LastWriter(p, id, r)'
               PROVE  At(p).executed' = "COMPLETED"
    BY DEF ReadyInv
  <2>1. LastWriter(p, id, r) BY <1>6
  <2>2. id \in Live \ {c} /\ p \in Live \ {c} /\ At(id)' = At(id) /\ At(p)' = At(p) BY <1>1
  <2>3. r \in trace[id].source_registers BY <1>2
  <2> QED BY <2>1, <2>2, <2>3 DEF ReadyInv
<1> QED BY <1>7, <1>8, <1>9

\* An instruction completes: those that wait for it count one register less.
LEMMA CompleteRegisters ==
  ASSUME TypeOK, OrderInv, RegInv, ReadyInv, NEW i \in DOMAIN ROB, Complete(i)
  PROVE  OrderInv' /\ RegInv' /\ ReadyInv'
<1>1. PICK c \in Live :
        /\ At(c).executed = "INFLIGHT"
        /\ At(c)' = [At(c) EXCEPT !.executed = "COMPLETED"]
        /\ \A id \in Live \ {c} :
             At(id)' = IF id \in At(c).registers_instrs_depend_on_me
                       THEN [At(id) EXCEPT !.num_reg_dependent = @ - 1] ELSE At(id)
        /\ reg_producers' = [r \in Registers |-> IF Writes(c, r) THEN reg_producers[r] \ {c}
                                                 ELSE reg_producers[r]]
  BY CompleteEffect
<1>2. UNCHANGED <<trace, DISPATCH_BUFFER>> BY DEF Complete
<1>3. Live' = Live /\ Dispatched' = Dispatched /\ Oldest' = Oldest BY CompleteEffect, MappedFacts
<1>4. \A id \in Live : /\ At(id).instr_id' = At(id).instr_id /\ At(id).scheduled' = At(id).scheduled
                       /\ At(id).registers_instrs_depend_on_me' = At(id).registers_instrs_depend_on_me
                       /\ At(id).executed' = IF id = c THEN "COMPLETED" ELSE At(id).executed
  <2> TAKE id \in Live
  <2>1. At(id) \in rob_type BY LiveFacts
  <2>2. CASE id = c BY <1>1, <2>1, <2>2 DEF rob_type
  <2>3. CASE id # c /\ id \in At(c).registers_instrs_depend_on_me
    <3>1. At(id)' = [At(id) EXCEPT !.num_reg_dependent = @ - 1] BY <1>1, <2>3
    <3> QED BY <2>1, <2>3, <3>1 DEF rob_type
  <2>4. CASE id # c /\ id \notin At(c).registers_instrs_depend_on_me
    <3>1. At(id)' = At(id) BY <1>1, <2>4
    <3> QED BY <2>4, <3>1
  <2> QED BY <2>2, <2>3, <2>4
<1>5. \A p, r : Writes(p, r)' <=> Writes(p, r) BY <1>2 DEF Writes
<1>6. \A id : WaitsFor(id)' = WaitsFor(id) \ {c} BY <1>3, <1>4 DEF WaitsFor
<1>7. \A p, id, r : LastWriter(p, id, r)' <=> LastWriter(p, id, r) BY <1>3, <1>5 DEF LastWriter
<1>8. c \notin At(c).registers_instrs_depend_on_me
  <2>1. c \in Nat BY LiveFacts
  <2> QED BY <2>1 DEF RegInv
<1>9. OrderInv'
  <2>1. (Oldest >= 0)' BY <1>3 DEF OrderInv
  <2>2. (\A j \in DOMAIN DISPATCH_BUFFER : DISPATCH_BUFFER[j].instr_id = Dispatched + j)'
    BY <1>2, <1>3 DEF OrderInv
  <2>3. (\A id \in Live : At(id).instr_id = id)' BY <1>3, <1>4 DEF OrderInv
  <2>4. (\A p, id \in Live : p < id /\ At(id).scheduled => At(p).scheduled)'
    BY <1>3, <1>4 DEF OrderInv
  <2>5. (\A id \in Live : At(id).executed # "no" => At(id).scheduled)'
    BY <1>1, <1>3, <1>4 DEF OrderInv
  <2> QED BY <2>1, <2>2, <2>3, <2>4, <2>5 DEF OrderInv
<1>10. RegInv'
  <2>1. (\A r \in Registers : reg_producers[r] =
           {p \in Live : At(p).scheduled /\ At(p).executed # "COMPLETED" /\ Writes(p, r)})'
    <3> SUFFICES ASSUME NEW r \in Registers
                 PROVE  reg_producers'[r] = {p \in Live : /\ At(p).scheduled'
                                                          /\ At(p).executed' # "COMPLETED"
                                                          /\ Writes(p, r)}
      BY <1>3, <1>5
    <3>1. reg_producers'[r] = reg_producers[r] \ {c} BY <1>1 DEF RegInv
    <3> QED BY <1>4, <3>1 DEF RegInv
  <2>2. ASSUME NEW id \in Live PROVE At(id).num_reg_dependent' = Cardinality(WaitsFor(id))'
    <3>1. At(id) \in rob_type /\ At(id).num_reg_dependent = Cardinality(WaitsFor(id))
      BY LiveFacts DEF RegInv
    <3>2. CASE id \in At(c).registers_instrs_depend_on_me
      <4>1. c \in WaitsFor(id) /\ id # c BY <1>1, <1>8, <3>2 DEF WaitsFor
      <4>2. Cardinality(WaitsFor(id) \ {c}) = Cardinality(WaitsFor(id)) - 1
        BY <4>1, WaitsForFacts, FS_RemoveElement
      <4>3. At(id).num_reg_dependent' = At(id).num_reg_dependent - 1
        BY <1>1, <3>1, <3>2, <4>1 DEF rob_type
      <4> QED BY <1>6, <3>1, <4>2, <4>3
    <3>3. CASE id \notin At(c).registers_instrs_depend_on_me
      <4>1. WaitsFor(id) \ {c} = WaitsFor(id) BY <3>3 DEF WaitsFor
      <4>2. At(id).num_reg_dependent' = At(id).num_reg_dependent
        BY <1>1, <3>1, <3>3 DEF rob_type
      <4> QED BY <1>6, <3>1, <4>1, <4>2
    <3> QED BY <3>2, <3>3
  <2>3. (\A p \in Live : \A id \in At(p).registers_instrs_depend_on_me :
           id \in Live /\ p < id /\ At(id).scheduled)'
    BY <1>3, <1>4 DEF RegInv
  <2>4. (\A id \in Live : At(id).scheduled =>
           \A r \in trace[id].source_registers : \A p \in Live :
             LastWriter(p, id, r) => \/ At(p).executed = "COMPLETED"
                                     \/ id \in At(p).registers_instrs_depend_on_me)'
    BY <1>2, <1>3, <1>4, <1>7 DEF RegInv
  <2> QED BY <1>3, <2>1, <2>2, <2>3, <2>4 DEF RegInv
<1>11. ReadyInv' BY <1>1, <1>2, <1>3, <1>4, <1>7 DEF ReadyInv
<1> QED BY <1>9, <1>10, <1>11

\* An instruction executes: nobody is left that would tell it about a register.
LEMMA ExecuteRegisters ==
  ASSUME TypeOK, OrderInv, RegInv, ReadyInv, NEW i \in DOMAIN ROB, Execute(i)
  PROVE  OrderInv' /\ RegInv' /\ ReadyInv'
<1>1. PICK c \in Live :
        /\ At(c).scheduled /\ At(c).executed = "no" /\ At(c).num_reg_dependent = 0
        /\ At(c)' = [At(c) EXCEPT !.executed = "INFLIGHT", !.left = Latency(EXEC_LATENCY)]
        /\ \A id \in Live \ {c} : At(id)' = At(id)
  BY ExecuteEffect
<1>2. UNCHANGED <<trace, DISPATCH_BUFFER, reg_producers>> BY DEF Execute
<1>3. Live' = Live /\ Dispatched' = Dispatched /\ Oldest' = Oldest BY ExecuteEffect, MappedFacts
<1>4. \A id \in Live : /\ At(id).instr_id' = At(id).instr_id /\ At(id).scheduled' = At(id).scheduled
                       /\ At(id).registers_instrs_depend_on_me' = At(id).registers_instrs_depend_on_me
                       /\ At(id).num_reg_dependent' = At(id).num_reg_dependent
                       /\ At(id).executed' = IF id = c THEN "INFLIGHT" ELSE At(id).executed
  <2> TAKE id \in Live
  <2>1. CASE id = c
    <3>1. At(c) \in rob_type BY LiveFacts
    <3> QED BY <1>1, <2>1, <3>1 DEF rob_type
  <2>2. CASE id # c BY <1>1, <2>2
  <2> QED BY <2>1, <2>2
<1>5. \A p, r : Writes(p, r)' <=> Writes(p, r) BY <1>2 DEF Writes
<1>6. \A id : WaitsFor(id)' = WaitsFor(id) BY <1>1, <1>3, <1>4 DEF WaitsFor
<1>7. \A p, id, r : LastWriter(p, id, r)' <=> LastWriter(p, id, r) BY <1>3, <1>5 DEF LastWriter
<1>8. OrderInv'
  <2>1. (Oldest >= 0)' BY <1>3 DEF OrderInv
  <2>2. (\A j \in DOMAIN DISPATCH_BUFFER : DISPATCH_BUFFER[j].instr_id = Dispatched + j)'
    BY <1>2, <1>3 DEF OrderInv
  <2>3. (\A id \in Live : At(id).instr_id = id)' BY <1>3, <1>4 DEF OrderInv
  <2>4. (\A p, id \in Live : p < id /\ At(id).scheduled => At(p).scheduled)'
    BY <1>3, <1>4 DEF OrderInv
  <2>5. (\A id \in Live : At(id).executed # "no" => At(id).scheduled)'
    BY <1>1, <1>3, <1>4 DEF OrderInv
  <2> QED BY <2>1, <2>2, <2>3, <2>4, <2>5 DEF OrderInv
<1>9. RegInv'
  <2>1. (\A r \in Registers : reg_producers[r] =
           {p \in Live : At(p).scheduled /\ At(p).executed # "COMPLETED" /\ Writes(p, r)})'
    BY <1>1, <1>2, <1>3, <1>4, <1>5 DEF RegInv
  <2>2. (\A id \in Live : At(id).num_reg_dependent = Cardinality(WaitsFor(id)))'
    BY <1>3, <1>4, <1>6 DEF RegInv
  <2>3. (\A p \in Live : \A id \in At(p).registers_instrs_depend_on_me :
           id \in Live /\ p < id /\ At(id).scheduled)'
    BY <1>3, <1>4 DEF RegInv
  <2>4. (\A id \in Live : At(id).scheduled =>
           \A r \in trace[id].source_registers : \A p \in Live :
             LastWriter(p, id, r) => \/ At(p).executed = "COMPLETED"
                                     \/ id \in At(p).registers_instrs_depend_on_me)'
    BY <1>1, <1>2, <1>3, <1>4, <1>7 DEF RegInv
  <2> QED BY <2>1, <2>2, <2>3, <2>4 DEF RegInv
<1>10. WaitsFor(c) = {}
  <2>1. Cardinality(WaitsFor(c)) = 0 BY <1>1 DEF RegInv
  <2> QED BY <2>1, WaitsForFacts, FS_EmptySet
<1>11. ASSUME NEW r \in trace[c].source_registers, NEW p \in Live, LastWriter(p, c, r)
       PROVE  At(p).executed = "COMPLETED"
  <2>1. At(p).executed = "COMPLETED" \/ c \in At(p).registers_instrs_depend_on_me
    BY <1>1, <1>11 DEF RegInv
  <2> QED BY <1>10, <2>1 DEF WaitsFor
<1>12. ReadyInv' BY <1>1, <1>2, <1>3, <1>4, <1>7, <1>11 DEF ReadyInv
<1> QED BY <1>8, <1>9, <1>12

\* An instruction enters: it is not scheduled, and nobody knows of it.
LEMMA DispatchRegisters ==
  ASSUME TypeOK, OrderInv, RegInv, ReadyInv, Dispatch
  PROVE  OrderInv' /\ RegInv' /\ ReadyInv'
<1>1. PICK d \in 1..Len(trace) :
        /\ d = Dispatched + 1 /\ d \notin Live
        /\ Dispatched' = d /\ Oldest' = Oldest /\ Live' = Live \cup {d}
        /\ \A id \in Live : At(id)' = At(id)
        /\ At(d)' = [instr_id |-> d, scheduled |-> FALSE, executed |-> "no",
                     left |-> DISPATCH_BUFFER[1].left, completed_mem_ops |-> 0,
                     num_reg_dependent |-> 0, registers_instrs_depend_on_me |-> {}]
        /\ DISPATCH_BUFFER # <<>>
  BY DispatchEffect
<1>2. UNCHANGED <<trace, reg_producers>> /\ DISPATCH_BUFFER' = Tail(DISPATCH_BUFFER)
  BY DEF Dispatch
<1>3. /\ At(d).instr_id' = d /\ At(d).scheduled' = FALSE /\ At(d).executed' = "no"
      /\ At(d).num_reg_dependent' = 0 /\ At(d).registers_instrs_depend_on_me' = {}
  BY <1>1
<1>4. \A id \in Live : id \in Nat /\ id < d BY <1>1, LiveFacts DEF Live
<1>5. \A p, r : Writes(p, r)' <=> Writes(p, r) BY <1>2 DEF Writes
<1>6. \A id : WaitsFor(id)' = WaitsFor(id) BY <1>1, <1>3 DEF WaitsFor
<1>7. ASSUME NEW id \in Live, NEW p, NEW r, LastWriter(p, id, r)'
      PROVE  LastWriter(p, id, r)
  <2>1. p \in Live' /\ p < id /\ Writes(p, r) /\ \A q \in Live' : q < id /\ Writes(q, r) => q <= p
    BY <1>5, <1>7 DEF LastWriter
  <2>2. p # d BY <1>1, <1>4, <2>1
  <2> QED BY <1>1, <2>1, <2>2 DEF LastWriter
<1>8. OrderInv'
  <2>1. (Oldest >= 0)' BY <1>1 DEF OrderInv
  <2>2. (\A j \in DOMAIN DISPATCH_BUFFER : DISPATCH_BUFFER[j].instr_id = Dispatched + j)'
    <3>1. DISPATCH_BUFFER \in Seq([instr_id : Ids, left : Int]) BY DEF TypeOK
    <3>2. /\ DOMAIN DISPATCH_BUFFER' = 1..(Len(DISPATCH_BUFFER) - 1)
          /\ \A j \in 1..(Len(DISPATCH_BUFFER) - 1) : DISPATCH_BUFFER'[j] = DISPATCH_BUFFER[j + 1]
      BY <1>1, <1>2, <3>1, TailFacts
    <3>3. ASSUME NEW j \in 1..(Len(DISPATCH_BUFFER) - 1)
          PROVE  DISPATCH_BUFFER[j + 1].instr_id = d + j
      <4>1. DOMAIN DISPATCH_BUFFER = 1..Len(DISPATCH_BUFFER) /\ Len(DISPATCH_BUFFER) \in Nat
        BY <3>1
      <4>2. j + 1 \in DOMAIN DISPATCH_BUFFER BY <4>1
      <4>3. DISPATCH_BUFFER[j + 1].instr_id = Dispatched + (j + 1) BY <4>2 DEF OrderInv
      <4>4. Dispatched \in Nat BY LiveFacts
      <4> QED BY <1>1, <4>3, <4>4
    <3> QED BY <1>1, <3>2, <3>3
  <2>3. (\A id \in Live : At(id).instr_id = id)' BY <1>1, <1>3 DEF OrderInv
  <2>4. ASSUME NEW p \in Live', NEW id \in Live', p < id, At(id).scheduled' PROVE At(p).scheduled'
    <3>1. id \in Live BY <1>1, <1>3, <2>4
    <3>2. p \in Live BY <1>1, <1>4, <2>4, <3>1
    <3> QED BY <1>1, <2>4, <3>1, <3>2 DEF OrderInv
  <2>5. (\A id \in Live : At(id).executed # "no" => At(id).scheduled)' BY <1>1, <1>3 DEF OrderInv
  <2> QED BY <2>1, <2>2, <2>3, <2>4, <2>5 DEF OrderInv
<1>9. RegInv'
  <2>1. (\A r \in Registers : reg_producers[r] =
           {p \in Live : At(p).scheduled /\ At(p).executed # "COMPLETED" /\ Writes(p, r)})'
    BY <1>1, <1>2, <1>3, <1>5 DEF RegInv
  <2>2. (\A id \in Live : At(id).num_reg_dependent = Cardinality(WaitsFor(id)))'
    <3>1. WaitsFor(d) = {} BY <1>1 DEF RegInv, WaitsFor
    <3>2. Cardinality(WaitsFor(d)) = 0 BY <3>1, FS_EmptySet
    <3> QED BY <1>1, <1>3, <1>6, <3>2 DEF RegInv
  <2>3. (\A p \in Live : \A id \in At(p).registers_instrs_depend_on_me :
           id \in Live /\ p < id /\ At(id).scheduled)'
    BY <1>1, <1>3 DEF RegInv
  <2>4. ASSUME NEW id \in Live', At(id).scheduled', NEW r \in trace[id].source_registers',
               NEW p \in Live', LastWriter(p, id, r)'
        PROVE  At(p).executed' = "COMPLETED" \/ id \in At(p).registers_instrs_depend_on_me'
    <3>1. id \in Live BY <1>1, <1>3, <2>4
    <3>2. LastWriter(p, id, r) /\ p \in Live BY <1>7, <2>4, <3>1 DEF LastWriter
    <3> QED BY <1>1, <1>2, <2>4, <3>1, <3>2 DEF RegInv
  <2> QED BY <2>1, <2>2, <2>3, <2>4 DEF RegInv
<1>10. ReadyInv'
  <2> SUFFICES ASSUME NEW id \in Live', At(id).executed' # "no", NEW r \in trace[id].source_registers',
                      NEW p \in Live', LastWriter(p, id, r)'
               PROVE  At(p).executed' = "COMPLETED"
    BY DEF ReadyInv
  <2>1. id \in Live BY <1>1, <1>3
  <2>2. LastWriter(p, id, r) /\ p \in Live BY <1>7, <2>1 DEF LastWriter
  <2> QED BY <1>1, <1>2, <2>1, <2>2 DEF ReadyInv
<1> QED BY <1>8, <1>9, <1>10

\* The last writer of a register is the producer that the scheduler finds.
LEMMA LastWriterIsProducer ==
  ASSUME TypeOK, OrderInv, RegInv, NEW c \in Live, ~At(c).scheduled,
         \A p \in Live : p < c => At(p).scheduled,
         NEW r \in trace[c].source_registers, NEW p \in Live, LastWriter(p, c, r),
         At(p).executed # "COMPLETED"
  PROVE  p \in Producers(trace[c])
<1>1. r \in Registers BY LiveFacts DEF instr_type
<1>2. reg_producers[r] = {q \in Live : At(q).scheduled /\ At(q).executed # "COMPLETED" /\ Writes(q, r)}
  BY <1>1 DEF RegInv
<1>3. p \in reg_producers[r] BY <1>2 DEF LastWriter
<1>4. ASSUME NEW q \in reg_producers[r] PROVE q <= p
  <2>1. q \in Live /\ At(q).scheduled /\ Writes(q, r) BY <1>2
  <2>2. q \in Nat /\ c \in Nat BY <2>1, LiveNumbers
  <2>3. q < c
    <3>1. q # c BY <2>1
    <3>2. ~(c < q) BY <2>1 DEF OrderInv
    <3> QED BY <2>2, <3>1, <3>2
  <2> QED BY <2>1, <2>3 DEF LastWriter
<1>5. Max(reg_producers[r]) \in reg_producers[r]
      /\ \A q \in reg_producers[r] : q <= Max(reg_producers[r])
  <2>1. reg_producers[r] \subseteq Live /\ 1..Len(trace) \subseteq 0..Len(trace) /\ Len(trace) \in Nat
    BY <1>2 DEF TypeOK
  <2>2. reg_producers[r] \subseteq 0..Len(trace) BY <2>1, LiveFacts
  <2> QED BY <1>3, <2>1, <2>2, GreatestOf
<1>6. Max(reg_producers[r]) = p
  <2>1. Max(reg_producers[r]) <= p /\ p <= Max(reg_producers[r]) BY <1>3, <1>4, <1>5
  <2>2. p \in Nat /\ Max(reg_producers[r]) \in Nat
    <3>1. \A q \in Live : q \in Nat BY LiveNumbers
    <3>2. Max(reg_producers[r]) \in Live BY <1>2, <1>5
    <3> QED BY <3>1, <3>2
  <2> QED BY <2>1, <2>2
<1> QED BY <1>3, <1>6 DEF Producers

\* An instruction is scheduled: the producers of its registers will tell it.
LEMMA ScheduleRegisters ==
  ASSUME TypeOK, OrderInv, RegInv, ReadyInv, NEW i \in DOMAIN ROB, Schedule(i)
  PROVE  OrderInv' /\ RegInv' /\ ReadyInv'
<1>1. PICK c \in Live :
        /\ ~At(c).scheduled /\ \A p \in Live : p < c => At(p).scheduled
        /\ At(c)' = [At(c) EXCEPT !.scheduled = TRUE, !.left = Latency(SCHEDULING_LATENCY),
                       !.num_reg_dependent = @ + Cardinality(Producers(trace[c]))]
        /\ \A id \in Live \ {c} :
             At(id)' = IF id \in Producers(trace[c])
                       THEN [At(id) EXCEPT !.registers_instrs_depend_on_me = @ \cup {c}]
                       ELSE At(id)
        /\ reg_producers' = [r \in Registers |-> IF Writes(c, r) THEN reg_producers[r] \cup {c}
                                                 ELSE reg_producers[r]]
  BY ScheduleEffect
<1> DEFINE prior == Producers(trace[c])
<1>2. UNCHANGED <<trace, DISPATCH_BUFFER>> BY DEF Schedule
<1>3. Live' = Live /\ Dispatched' = Dispatched /\ Oldest' = Oldest BY ScheduleEffect, MappedFacts
<1>4. /\ IsFiniteSet(prior)
      /\ \A p \in prior : p \in Live /\ At(p).scheduled /\ At(p).executed # "COMPLETED"
  BY ProducersFacts
<1>5. c \notin prior /\ At(c).executed = "no" BY <1>1, <1>4, LiveFacts DEF OrderInv, rob_type
<1>6. ASSUME NEW r \in trace[c].source_registers, NEW p \in Live, LastWriter(p, c, r),
             At(p).executed # "COMPLETED"
      PROVE  p \in prior
  BY <1>1, <1>6, LastWriterIsProducer
<1>7. At(c)' = [At(c) EXCEPT !.scheduled = TRUE, !.left = Latency(SCHEDULING_LATENCY),
                  !.num_reg_dependent = @ + Cardinality(prior)]
  BY <1>1
<1>8. \A id \in Live \ {c} :
        At(id)' = IF id \in prior
                  THEN [At(id) EXCEPT !.registers_instrs_depend_on_me = @ \cup {c}] ELSE At(id)
  BY <1>1
<1> HIDE DEF prior
<1>9. \A id \in Live : /\ At(id).instr_id' = At(id).instr_id /\ At(id).executed' = At(id).executed
                       /\ At(id).scheduled' = (At(id).scheduled \/ id = c)
                       /\ At(id).registers_instrs_depend_on_me' =
                            IF id \in prior THEN At(id).registers_instrs_depend_on_me \cup {c}
                            ELSE At(id).registers_instrs_depend_on_me
                       /\ At(id).num_reg_dependent' =
                            IF id = c THEN At(id).num_reg_dependent + Cardinality(prior)
                            ELSE At(id).num_reg_dependent
  <2> TAKE id \in Live
  <2>1. At(id) \in rob_type BY LiveFacts
  <2>2. CASE id = c
    <3>1. At(c)'.scheduled = TRUE /\ At(c)'.instr_id = At(c).instr_id /\ At(c)'.executed = At(c).executed
      BY <1>7, <2>1, <2>2 DEF rob_type
    <3>2. /\ At(c)'.registers_instrs_depend_on_me = At(c).registers_instrs_depend_on_me
          /\ At(c)'.num_reg_dependent = At(c).num_reg_dependent + Cardinality(prior)
      BY <1>7, <2>1, <2>2 DEF rob_type
    <3> QED BY <1>5, <2>2, <3>1, <3>2
  <2>3. CASE id # c /\ id \in prior
    <3>1. At(id)' = [At(id) EXCEPT !.registers_instrs_depend_on_me = @ \cup {c}] BY <1>8, <2>3
    <3> QED BY <2>1, <2>3, <3>1 DEF rob_type
  <2>4. CASE id # c /\ id \notin prior
    <3>1. At(id)' = At(id) BY <1>8, <2>4
    <3>2. At(id).scheduled = (At(id).scheduled \/ id = c) BY <2>1, <2>4 DEF rob_type
    <3> QED BY <2>4, <3>1, <3>2
  <2> QED BY <2>2, <2>3, <2>4
<1>10. \A p, r : Writes(p, r)' <=> Writes(p, r) BY <1>2 DEF Writes
<1>11. \A p, id, r : LastWriter(p, id, r)' <=> LastWriter(p, id, r) BY <1>3, <1>10 DEF LastWriter
<1>12. \A id \in Live : id \in Nat BY LiveNumbers
<1>13. \A p \in Live : c \notin At(p).registers_instrs_depend_on_me BY <1>1 DEF RegInv
<1>14. OrderInv'
  <2>1. (Oldest >= 0)' BY <1>3 DEF OrderInv
  <2>2. (\A j \in DOMAIN DISPATCH_BUFFER : DISPATCH_BUFFER[j].instr_id = Dispatched + j)'
    BY <1>2, <1>3 DEF OrderInv
  <2>3. (\A id \in Live : At(id).instr_id = id)' BY <1>3, <1>9 DEF OrderInv
  <2>4. ASSUME NEW p \in Live, NEW id \in Live, p < id, At(id).scheduled' PROVE At(p).scheduled'
    <3>1. CASE id = c BY <1>1, <1>9, <2>4, <3>1
    <3>2. CASE id # c
      <4>1. At(id).scheduled BY <1>9, <2>4, <3>2
      <4>2. At(p).scheduled BY <2>4, <4>1 DEF OrderInv
      <4> QED BY <1>9, <4>2
    <3> QED BY <3>1, <3>2
  <2>5. (\A id \in Live : At(id).executed # "no" => At(id).scheduled)'
    BY <1>3, <1>9 DEF OrderInv
  <2> QED BY <1>3, <2>1, <2>2, <2>3, <2>4, <2>5 DEF OrderInv
<1>15. RegInv'
  <2>1. (\A r \in Registers : reg_producers[r] =
           {p \in Live : At(p).scheduled /\ At(p).executed # "COMPLETED" /\ Writes(p, r)})'
    <3> SUFFICES ASSUME NEW r \in Registers
                 PROVE  reg_producers'[r] = {p \in Live : /\ At(p).scheduled'
                                                          /\ At(p).executed' # "COMPLETED"
                                                          /\ Writes(p, r)}
      BY <1>3, <1>10
    <3>1. {p \in Live : At(p).scheduled' /\ At(p).executed' # "COMPLETED" /\ Writes(p, r)}
            = {p \in Live : (At(p).scheduled \/ p = c) /\ At(p).executed # "COMPLETED" /\ Writes(p, r)}
      BY <1>9
    <3>2. reg_producers[r] = {p \in Live : At(p).scheduled /\ At(p).executed # "COMPLETED" /\ Writes(p, r)}
      BY DEF RegInv
    <3>3. reg_producers'[r] = IF Writes(c, r) THEN reg_producers[r] \cup {c} ELSE reg_producers[r]
      BY <1>1
    <3> QED BY <1>5, <3>1, <3>2, <3>3
  <2>2. ASSUME NEW id \in Live PROVE At(id).num_reg_dependent' = Cardinality(WaitsFor(id))'
    <3>1. At(id) \in rob_type /\ At(id).num_reg_dependent = Cardinality(WaitsFor(id))
      BY LiveFacts DEF RegInv
    <3>2. WaitsFor(id)' = {p \in Live : At(p).executed' # "COMPLETED"
                                        /\ id \in At(p).registers_instrs_depend_on_me'}
      BY <1>3 DEF WaitsFor
    <3>3. CASE id = c
      <4>1. WaitsFor(c) = {} BY <1>13 DEF WaitsFor
      <4>2. WaitsFor(c)' = prior
        <5>1. WaitsFor(c)' \subseteq prior BY <1>9, <1>13, <3>2, <3>3
        <5>2. prior \subseteq WaitsFor(c)' BY <1>4, <1>9, <3>2, <3>3
        <5> QED BY <5>1, <5>2
      <4>3. At(c).num_reg_dependent = 0 BY <3>1, <3>3, <4>1, FS_EmptySet
      <4>4. Cardinality(prior) \in Nat BY <1>4, FS_CardinalityType
      <4>5. At(c).num_reg_dependent' = Cardinality(prior)
        <5>1. At(c).num_reg_dependent' = At(c).num_reg_dependent + Cardinality(prior) BY <1>9, <3>3
        <5> QED BY <4>3, <4>4, <5>1
      <4> QED BY <3>3, <4>2, <4>5
    <3>4. CASE id # c
      <4>1. WaitsFor(id)' = WaitsFor(id)
        <5>1. \A p \in Live : id \in At(p).registers_instrs_depend_on_me'
                                <=> id \in At(p).registers_instrs_depend_on_me
          BY <1>9, <3>4
        <5> QED BY <1>9, <3>2, <5>1 DEF WaitsFor
      <4>2. At(id).num_reg_dependent' = At(id).num_reg_dependent BY <1>9, <3>4
      <4> QED BY <3>1, <4>1, <4>2
    <3> QED BY <3>3, <3>4
  <2>3. ASSUME NEW p \in Live, NEW id \in At(p).registers_instrs_depend_on_me'
        PROVE  id \in Live /\ p < id /\ At(id).scheduled'
    <3>1. CASE id \in At(p).registers_instrs_depend_on_me
      <4>1. id \in Live /\ p < id /\ At(id).scheduled BY <3>1 DEF RegInv
      <4> QED BY <1>9, <4>1
    <3>2. CASE id \notin At(p).registers_instrs_depend_on_me
      <4>1. id = c /\ p \in prior BY <1>9, <2>3, <3>2
      <4>2. ~(c < p) /\ p # c BY <1>1, <1>4, <1>5, <4>1 DEF OrderInv
      <4>3. p < c BY <1>12, <4>2
      <4> QED BY <1>9, <4>1, <4>3
    <3> QED BY <3>1, <3>2
  <2>4. ASSUME NEW id \in Live, At(id).scheduled', NEW r \in trace[id].source_registers,
               NEW p \in Live, LastWriter(p, id, r)
        PROVE  At(p).executed' = "COMPLETED" \/ id \in At(p).registers_instrs_depend_on_me'
    <3>1. CASE id = c BY <1>6, <1>9, <2>4, <3>1
    <3>2. CASE id # c
      <4>1. At(id).scheduled BY <1>9, <2>4, <3>2
      <4>2. At(p).executed = "COMPLETED" \/ id \in At(p).registers_instrs_depend_on_me
        BY <2>4, <4>1 DEF RegInv
      <4> QED BY <1>9, <4>2
    <3> QED BY <3>1, <3>2
  <2> QED BY <1>2, <1>3, <1>11, <2>1, <2>2, <2>3, <2>4 DEF RegInv
<1>16. ReadyInv'
  <2> SUFFICES ASSUME NEW id \in Live, At(id).executed' # "no", NEW r \in trace[id].source_registers,
                      NEW p \in Live, LastWriter(p, id, r)
               PROVE  At(p).executed' = "COMPLETED"
    BY <1>2, <1>3, <1>11 DEF ReadyInv
  <2>1. At(id).executed # "no" BY <1>9
  <2>2. At(p).executed = "COMPLETED" BY <2>1 DEF ReadyInv
  <2> QED BY <1>9, <2>2
<1> QED BY <1>14, <1>15, <1>16

LEMMA RegistersStep ==
  ASSUME TypeOK, OrderInv, PlaceInv, RegInv, ReadyInv, Next
  PROVE  OrderInv' /\ RegInv' /\ ReadyInv'
<1>1. CASE RegisterStep
  BY <1>1, RetireRegisters, CompleteRegisters, ExecuteRegisters, ScheduleRegisters DEF RegisterStep
<1>2. CASE Dispatch BY <1>2, DispatchRegisters
<1>3. CASE IdleStep \/ NextStage \/ MemoryStep \/ PlaceStep \/ PlaceStores \/ Tick
  <2>1. Kept BY <1>3, KeptStep
  <2> QED BY <2>1, KeptInv
<1> QED BY <1>1, <1>2, <1>3, NextCases DEF DispatchStep
-----------------------------------------------------------------------------
(* Stores in program order, and room for those that are still to be placed *)

\* A step that keeps the loads and the stores in their places.
QueuesKept ==
  /\ Len(SQ') = Len(SQ)
  /\ \A k \in DOMAIN SQ : /\ SQ'[k].instr_id = SQ[k].instr_id /\ SQ'[k].address = SQ[k].address
                          /\ SQ'[k].fetch_issued = SQ[k].fetch_issued
                          /\ SQ'[k].lq_depend_on_me = SQ[k].lq_depend_on_me
  /\ \A s \in Slots : LQ'[s].instr_id = LQ[s].instr_id
  /\ \A s \in Used : /\ LQ'[s].address = LQ[s].address /\ LQ'[s].producer_id = LQ[s].producer_id
                     /\ LQ[s].producer_id = None \/ LQ'[s].fetch_issued = LQ[s].fetch_issued

LEMMA QueuesKeptStep ==
  ASSUME TypeOK, OrderInv,
         \/ IdleStep \/ NextStage \/ RegisterStep \/ Dispatch \/ Tick
         \/ (\E s \in Slots : ExecuteLoad(s)) \/ (\E k \in DOMAIN SQ : ForwardLoad(k))
  PROVE  QueuesKept
<1>1. ASSUME UNCHANGED <<LQ, SQ>> PROVE QueuesKept BY <1>1 DEF QueuesKept
<1>2. CASE IdleStep \/ NextStage \/ Dispatch
  <2>1. UNCHANGED <<LQ, SQ>>
    BY <1>2, NextStageFacts DEF IdleStep, Decode, Memory, L1DAnswers, L1DTakesWrite, EndWarmup,
                                Dispatch, queues
  <2> QED BY <1>1, <2>1
<1>3. ASSUME NEW i \in DOMAIN ROB, Retire(i) \/ Complete(i) \/ Schedule(i) PROVE QueuesKept
  <2>1. UNCHANGED <<LQ, SQ>> BY <1>3 DEF Retire, Complete, Schedule, queues
  <2> QED BY <1>1, <2>1
<1>4. ASSUME NEW k \in DOMAIN SQ, ForwardLoad(k) PROVE QueuesKept
  <2>1. UNCHANGED <<LQ, SQ>> BY <1>4 DEF ForwardLoad, queues
  <2> QED BY <1>1, <2>1
<1>5. ASSUME \A k \in DOMAIN SQ : \E n : SQ'[k] = SQ[k] \/ SQ'[k] = [SQ[k] EXCEPT !.left = n],
             Len(SQ') = Len(SQ),
             \A s \in Slots \ Used : LQ'[s] = LQ[s],
             \A s \in Used : \E n : \/ LQ'[s] = LQ[s] \/ LQ'[s] = [LQ[s] EXCEPT !.left = n]
                                    \/ LQ[s].producer_id = None
                                         /\ LQ'[s] = [LQ[s] EXCEPT !.fetch_issued = TRUE]
      PROVE  QueuesKept
  <2>1. ASSUME NEW k \in DOMAIN SQ
        PROVE  /\ SQ'[k].instr_id = SQ[k].instr_id /\ SQ'[k].address = SQ[k].address
               /\ SQ'[k].fetch_issued = SQ[k].fetch_issued
               /\ SQ'[k].lq_depend_on_me = SQ[k].lq_depend_on_me
    <3>1. PICK n : SQ'[k] = SQ[k] \/ SQ'[k] = [SQ[k] EXCEPT !.left = n] BY <1>5
    <3>2. SQ[k] \in store_type BY QueueFacts
    <3> QED BY <3>1, <3>2 DEF store_type
  <2>2. ASSUME NEW s \in Used
        PROVE  /\ LQ'[s].instr_id = LQ[s].instr_id
               /\ LQ'[s].address = LQ[s].address /\ LQ'[s].producer_id = LQ[s].producer_id
               /\ LQ[s].producer_id = None \/ LQ'[s].fetch_issued = LQ[s].fetch_issued
    <3>1. PICK n : \/ LQ'[s] = LQ[s] \/ LQ'[s] = [LQ[s] EXCEPT !.left = n]
                   \/ LQ[s].producer_id = None /\ LQ'[s] = [LQ[s] EXCEPT !.fetch_issued = TRUE]
      BY <1>5
    <3>2. LQ[s] \in load_type BY QueueFacts
    <3> QED BY <3>1, <3>2 DEF load_type
  <2>3. \A s \in Slots : LQ'[s].instr_id = LQ[s].instr_id BY <1>5, <2>2
  <2> QED BY <1>5, <2>1, <2>2, <2>3 DEF QueuesKept
<1>6. ASSUME NEW i \in DOMAIN ROB, Execute(i) PROVE QueuesKept
  <2> DEFINE lat == Latency(EXEC_LATENCY)
             id == ROB[i].instr_id
  <2>1. /\ LQ' = [s \in Slots |-> IF LQ[s].instr_id = id THEN [LQ[s] EXCEPT !.left = lat] ELSE LQ[s]]
        /\ SQ' = [k \in DOMAIN SQ |-> IF SQ[k].instr_id = id THEN [SQ[k] EXCEPT !.left = lat] ELSE SQ[k]]
    BY <1>6 DEF Execute
  <2>2. id # None
    <3>1. id \in Ids BY LiveFacts
    <3> QED BY <3>1, Constants DEF Ids, None
  <2> HIDE DEF lat, id
  <2>3. Used \subseteq Slots /\ \A s \in Slots \ Used : LQ[s].instr_id = None BY QueueFacts
  <2>4. \A s \in Slots \ Used : LQ'[s] = LQ[s] BY <2>1, <2>2, <2>3
  <2>5. \A s \in Used : \E n : LQ'[s] = LQ[s] \/ LQ'[s] = [LQ[s] EXCEPT !.left = n] BY <2>1, <2>3
  <2>6. \A k \in DOMAIN SQ : \E n : SQ'[k] = SQ[k] \/ SQ'[k] = [SQ[k] EXCEPT !.left = n] BY <2>1
  <2>7. Len(SQ') = Len(SQ)
    <3>1. SQ' \in [DOMAIN SQ -> {SQ'[k] : k \in DOMAIN SQ}] BY <2>1
    <3>2. SQ \in Seq(store_type) BY DEF TypeOK
    <3> QED BY <3>1, <3>2, ReplacedType
  <2> QED BY <1>5, <2>4, <2>5, <2>6, <2>7
<1>7. ASSUME NEW s \in Slots, ExecuteLoad(s) PROVE QueuesKept
  <2>1. /\ s \in Used /\ LQ[s].producer_id = None /\ SQ' = SQ
        /\ LQ' = [LQ EXCEPT ![s] = [LQ[s] EXCEPT !.fetch_issued = TRUE]]
    BY <1>7 DEF ExecuteLoad, First, Loadable
  <2>2. LQ \in [Slots -> load_type \cup {NoLoad}] BY DEF TypeOK
  <2>3. LQ'[s] = [LQ[s] EXCEPT !.fetch_issued = TRUE] BY <2>1, <2>2
  <2>4. \A t \in Slots \ {s} : LQ'[t] = LQ[t] BY <2>1, <2>2
  <2>5. Used \subseteq Slots BY QueueFacts
  <2> QED BY <1>5, <2>1, <2>3, <2>4, <2>5
<1>8. CASE Tick
  <2>1. /\ LQ' = [s \in Slots |-> IF s \in Used THEN [LQ[s] EXCEPT !.left = Sooner(@)] ELSE NoLoad]
        /\ SQ' = [k \in DOMAIN SQ |-> [SQ[k] EXCEPT !.left = Sooner(@)]]
    BY <1>8 DEF Tick, SoonerAll
  <2>2. Used \subseteq Slots /\ \A s \in Slots \ Used : LQ[s] = NoLoad BY QueueFacts
  <2>3. \A s \in Slots \ Used : LQ'[s] = LQ[s] BY <2>1, <2>2
  <2>4. \A s \in Used : \E n : LQ'[s] = [LQ[s] EXCEPT !.left = n] BY <2>1, <2>2
  <2>5. \A k \in DOMAIN SQ : \E n : SQ'[k] = [SQ[k] EXCEPT !.left = n] BY <2>1
  <2>6. Len(SQ') = Len(SQ)
    <3>1. SQ' \in [DOMAIN SQ -> {SQ'[k] : k \in DOMAIN SQ}] BY <2>1
    <3>2. SQ \in Seq(store_type) BY DEF TypeOK
    <3> QED BY <3>1, <3>2, ReplacedType
  <2> QED BY <1>5, <2>3, <2>4, <2>5, <2>6
<1> QED BY <1>2, <1>3, <1>4, <1>6, <1>7, <1>8 DEF RegisterStep

LEMMA FinishStoreEffect ==
  ASSUME TypeOK, NEW k \in DOMAIN SQ, FinishStore(k)
  PROVE  /\ ~SQ[k].fetch_issued /\ Len(SQ') = Len(SQ)
         /\ SQ'[k].instr_id = SQ[k].instr_id /\ SQ'[k].address = SQ[k].address
         /\ SQ'[k].fetch_issued = TRUE /\ SQ'[k].lq_depend_on_me = SQ[k].lq_depend_on_me
         /\ \A j \in DOMAIN SQ \ {k} : SQ'[j] = SQ[j]
         /\ Finish(SQ[k].lq_depend_on_me, SQ[k].instr_id) /\ Reset(SQ[k].lq_depend_on_me)
         /\ SQ[k].lq_depend_on_me \subseteq Slots
<1>1. /\ Finish(SQ[k].lq_depend_on_me, SQ[k].instr_id) /\ Reset(SQ[k].lq_depend_on_me)
      /\ SQ' = [SQ EXCEPT ![k].fetch_issued = TRUE, ![k].left = 0]
  BY DEF FinishStore
<1>2. ~SQ[k].fetch_issued BY DEF FinishStore, Finishable, First
<1>3. SQ[k] \in store_type /\ SQ[k].lq_depend_on_me \subseteq Slots BY QueueFacts
<1> DEFINE e == [SQ[k] EXCEPT !.fetch_issued = TRUE]
           q == [e EXCEPT !.left = 0]
<1>4. e.instr_id = SQ[k].instr_id /\ e.address = SQ[k].address /\ e.fetch_issued = TRUE
      /\ e.lq_depend_on_me = SQ[k].lq_depend_on_me /\ e \in store_type
  BY <1>3 DEF store_type
<1>5. SQ' = [SQ EXCEPT ![k] = q] BY <1>1
<1> HIDE DEF e
<1>6. q.instr_id = SQ[k].instr_id /\ q.address = SQ[k].address /\ q.fetch_issued = TRUE
      /\ q.lq_depend_on_me = SQ[k].lq_depend_on_me
  BY <1>4 DEF store_type
<1> HIDE DEF q
<1>7. SQ \in Seq(store_type) BY DEF TypeOK
<1>8. SQ'[k] = q /\ \A j \in DOMAIN SQ \ {k} : SQ'[j] = SQ[j] BY <1>5
<1>9. Len(SQ') = Len(SQ) BY <1>5, <1>7
<1> QED BY <1>1, <1>2, <1>3, <1>6, <1>8, <1>9

LEMMA PlaceLoadEffect ==
  ASSUME TypeOK, OrderInv, PlaceInv, NEW s \in Slots, PlaceLoad(s)
  PROVE  /\ pc = "place" /\ pc' = "place" /\ todo # <<>> /\ todo' = Tail(todo)
         /\ s \notin Used /\ todo[1] \in Addresses /\ StoresTo(todo[1]) = {}
         /\ LQ'[s].instr_id = Dispatched /\ LQ'[s].address = todo[1]
         /\ LQ'[s].producer_id = None
         /\ \A t \in Slots \ {s} : LQ'[t] = LQ[t]
         /\ UNCHANGED <<trace, DISPATCH_BUFFER, ROB, SQ, written>>
<1>1. /\ pc = "place" /\ pc' = pc /\ todo # <<>> /\ todo' = Tail(todo) /\ s \notin Used
      /\ LQ' = [LQ EXCEPT ![s] = NewLoad(None)]
      /\ UNCHANGED <<trace, DISPATCH_BUFFER, ROB, SQ, written>> /\ StoresTo(todo[1]) = {}
  BY DEF PlaceLoad, First, L1D
<1>2. me = Dispatched /\ todo[1] \in Addresses BY <1>1, NewEntries
<1>3. LQ \in [Slots -> load_type \cup {NoLoad}] BY DEF TypeOK
<1>4. LQ'[s] = NewLoad(None) /\ \A t \in Slots \ {s} : LQ'[t] = LQ[t] BY <1>1, <1>3
<1> QED BY <1>1, <1>2, <1>4 DEF NewLoad

LEMMA PlaceDependentEffect ==
  ASSUME TypeOK, OrderInv, PlaceInv, NEW s \in Slots, NEW k \in DOMAIN SQ, PlaceDependentLoad(s, k)
  PROVE  /\ pc = "place" /\ pc' = "place" /\ todo # <<>> /\ todo' = Tail(todo)
         /\ s \notin Used /\ todo[1] \in Addresses
         /\ ~SQ[k].fetch_issued /\ SQ[k].address = todo[1]
         /\ \A j \in StoresTo(todo[1]) : SQ[j].instr_id <= SQ[k].instr_id
         /\ LQ'[s].instr_id = Dispatched /\ LQ'[s].address = todo[1]
         /\ LQ'[s].producer_id = SQ[k].instr_id /\ LQ'[s].fetch_issued = FALSE
         /\ \A t \in Slots \ {s} : LQ'[t] = LQ[t]
         /\ Len(SQ') = Len(SQ)
         /\ SQ'[k].instr_id = SQ[k].instr_id /\ SQ'[k].address = SQ[k].address
         /\ SQ'[k].fetch_issued = SQ[k].fetch_issued
         /\ SQ'[k].lq_depend_on_me = SQ[k].lq_depend_on_me \cup {s}
         /\ \A j \in DOMAIN SQ \ {k} : SQ'[j] = SQ[j]
         /\ UNCHANGED <<trace, DISPATCH_BUFFER, ROB, written>>
<1> DEFINE l == NewLoad(SQ[k].instr_id)
           q == [SQ[k] EXCEPT !.lq_depend_on_me = @ \cup {s}]
<1>1. /\ pc = "place" /\ pc' = pc /\ todo # <<>> /\ todo' = Tail(todo) /\ s \notin Used
      /\ LQ' = [LQ EXCEPT ![s] = l] /\ SQ' = [SQ EXCEPT ![k] = q]
      /\ UNCHANGED <<trace, DISPATCH_BUFFER, ROB, written>>
      /\ ~SQ[k].fetch_issued /\ k \in YoungestStore(todo[1])
  BY DEF PlaceDependentLoad, First, L1D
<1>2. SQ[k].address = todo[1] /\ \A j \in StoresTo(todo[1]) : SQ[j].instr_id <= SQ[k].instr_id
  BY <1>1 DEF YoungestStore, StoresTo
<1>3. me = Dispatched /\ todo[1] \in Addresses BY <1>1, NewEntries
<1>4. l.instr_id = Dispatched /\ l.address = todo[1] /\ l.producer_id = SQ[k].instr_id
      /\ l.fetch_issued = FALSE
  BY <1>3 DEF NewLoad
<1>5. SQ[k] \in store_type BY QueueFacts
<1>6. /\ q.instr_id = SQ[k].instr_id /\ q.address = SQ[k].address
      /\ q.fetch_issued = SQ[k].fetch_issued /\ q.lq_depend_on_me = SQ[k].lq_depend_on_me \cup {s}
  BY <1>5 DEF store_type
<1> HIDE DEF l, q
<1>7. LQ \in [Slots -> load_type \cup {NoLoad}] /\ SQ \in Seq(store_type) BY DEF TypeOK
<1>8. LQ'[s] = l /\ \A t \in Slots \ {s} : LQ'[t] = LQ[t] BY <1>1, <1>7
<1>9. SQ'[k] = q /\ \A j \in DOMAIN SQ \ {k} : SQ'[j] = SQ[j] BY <1>1
<1>10. Len(SQ') = Len(SQ) BY <1>1, <1>7
<1> QED BY <1>1, <1>2, <1>3, <1>4, <1>6, <1>8, <1>9, <1>10

\* A store is written when its instruction has left the ROB; it has executed by then.
LEMMA CompleteStoreEffect ==
  ASSUME TypeOK, OrderInv, StoreInv, CompleteStore
  PROVE  /\ SQ # <<>> /\ SQ[1].instr_id <= Oldest /\ SQ[1].instr_id \notin Live
         /\ Len(SQ') = Len(SQ) - 1 /\ DOMAIN SQ' = 1..(Len(SQ) - 1)
         /\ \A k \in 1..(Len(SQ) - 1) : SQ'[k] = SQ[k + 1]
         /\ written' = Append(written, SQ[1].instr_id) /\ SQ[1].instr_id \in Ids
         /\ UNCHANGED <<trace, DISPATCH_BUFFER, ROB, LQ, todo, pc>> /\ pc = "store"
<1>1. /\ SQ # <<>> /\ Retired(SQ[1].instr_id) /\ SQ' = Tail(SQ) /\ pc = "store"
      /\ written' = Append(written, SQ[1].instr_id)
      /\ UNCHANGED <<trace, DISPATCH_BUFFER, ROB, LQ, todo, pc>>
  BY DEF CompleteStore, Storable
<1>2. SQ \in Seq(store_type) BY DEF TypeOK
<1>3. 1 \in DOMAIN SQ BY <1>1, <1>2, HeadFacts
<1>4. SQ[1].instr_id \in Ids /\ SQ[1].instr_id \in Nat /\ SQ[1].instr_id <= Dispatched
  <2>1. Ids \subseteq Nat BY Constants DEF Ids
  <2> QED BY <1>3, <2>1, QueueFacts DEF StoreInv
<1>5. SQ[1].instr_id <= Oldest
  <2>1. CASE ROB = <<>>
    <3>1. Len(ROB) = 0 BY <2>1
    <3>2. Oldest \in Nat /\ Dispatched = Oldest + Len(ROB) BY LiveFacts
    <3> QED BY <1>4, <3>1, <3>2
  <2>2. CASE ROB # <<>>
    <3>1. SQ[1].instr_id < Oldest + 1 BY <1>1, <2>2, LiveIndex DEF Retired
    <3> QED BY <1>4, <3>1, LiveFacts
  <2> QED BY <2>1, <2>2
<1>6. SQ[1].instr_id \notin Live
  <2>1. Oldest \in Nat /\ \A id \in Live : id >= Oldest + 1 BY LiveFacts DEF Live
  <2> QED BY <1>4, <1>5, <2>1
<1>7. /\ Len(SQ') = Len(SQ) - 1 /\ DOMAIN SQ' = 1..(Len(SQ) - 1)
      /\ \A k \in 1..(Len(SQ) - 1) : SQ'[k] = SQ[k + 1]
  BY <1>1, <1>2, TailFacts
<1> QED BY <1>1, <1>4, <1>5, <1>6, <1>7

\* The new stores belong to the youngest instruction.
LEMMA NewStoresFacts ==
  ASSUME TypeOK, OrderInv, PlaceInv, PlaceStores
  PROVE  \E d \in Seq(Addresses) :
           /\ d = trace[Dispatched].destination_memory
           /\ Dispatched \in Live /\ todo = <<>> /\ pc = "place" /\ pc' = "dispatch"
           /\ Len(SQ') = Len(SQ) + Len(d)
           /\ \A k \in DOMAIN SQ : SQ'[k] = SQ[k]
           /\ \A k \in (Len(SQ) + 1)..(Len(SQ) + Len(d)) :
                /\ SQ'[k].instr_id = Dispatched /\ SQ'[k].fetch_issued = FALSE
                /\ SQ'[k].lq_depend_on_me = {}
           /\ UNCHANGED <<trace, DISPATCH_BUFFER, ROB, LQ, todo, written>>
<1>1. /\ pc = "place" /\ todo = <<>> /\ pc' = "dispatch"
      /\ UNCHANGED <<trace, DISPATCH_BUFFER, ROB, LQ, todo, written>>
  BY DEF PlaceStores, L1D
<1>2. Dispatched \in Live /\ me = Dispatched BY <1>1, NewEntries DEF PlaceInv
<1>3. PICK d \in Seq(Addresses) :
        /\ d = trace[Dispatched].destination_memory /\ Len(SQ') = Len(SQ) + Len(d)
        /\ \A k \in DOMAIN SQ : SQ'[k] = SQ[k]
        /\ \A k \in DOMAIN d : SQ'[Len(SQ) + k] = NewStore(d[k])
  BY PlaceStoresEffect
<1>4. ASSUME NEW k \in (Len(SQ) + 1)..(Len(SQ) + Len(d))
      PROVE  /\ SQ'[k].instr_id = Dispatched /\ SQ'[k].fetch_issued = FALSE
             /\ SQ'[k].lq_depend_on_me = {}
  <2> DEFINE j == k - Len(SQ)
  <2>1. j \in DOMAIN d /\ k = Len(SQ) + j
    <3>1. Len(SQ) \in Nat /\ Len(d) \in Nat /\ DOMAIN d = 1..Len(d) BY QueueFacts
    <3>2. k \in Int /\ j \in 1..Len(d) /\ k = Len(SQ) + j BY <3>1
    <3> QED BY <3>1, <3>2
  <2> HIDE DEF j
  <2>2. SQ'[k] = NewStore(d[j]) BY <1>3, <2>1
  <2> QED BY <1>2, <2>2 DEF NewStore
<1> QED BY <1>1, <1>2, <1>3, <1>4

LEMMA StepsPast ==
  ASSUME Next, pc' = "place"
  PROVE  Dispatch \/ PlaceStep
<1>1. ASSUME IdleStep PROVE FALSE
  BY <1>1 DEF IdleStep, Decode, Memory, L1DAnswers, L1DTakesWrite, EndWarmup
<1>2. ASSUME NextStage PROVE FALSE BY <1>2, NextStageFacts
<1>3. ASSUME RegisterStep PROVE FALSE
  BY <1>3 DEF RegisterStep, Retire, Complete, Execute, Schedule
<1>4. ASSUME MemoryStep PROVE FALSE
  BY <1>4 DEF MemoryStep, MemoryReturn, FinishStore, CompleteStore, ExecuteLoad
<1>5. ASSUME PlaceStores \/ Tick PROVE FALSE BY <1>5 DEF PlaceStores, Tick, GoTo
<1> QED BY <1>1, <1>2, <1>3, <1>4, <1>5, NextCases DEF DispatchStep

\* The stores, but for those that enter or are written, keep their places.
LEMMA StoresKept ==
  ASSUME TypeOK, OrderInv, PlaceInv, Next, ~CompleteStore, ~PlaceStores
  PROVE  /\ Len(SQ') = Len(SQ) /\ DOMAIN SQ = 1..Len(SQ) /\ written' = written
         /\ \A k \in DOMAIN SQ : SQ'[k].instr_id = SQ[k].instr_id
         /\ \A k \in DOMAIN SQ : SQ'[k].address = SQ[k].address
<1>1. DOMAIN SQ = 1..Len(SQ) BY QueueFacts
<1>2. ASSUME QueuesKept
      PROVE  /\ Len(SQ') = Len(SQ)
             /\ \A k \in DOMAIN SQ : SQ'[k].instr_id = SQ[k].instr_id
             /\ \A k \in DOMAIN SQ : SQ'[k].address = SQ[k].address
  BY <1>2 DEF QueuesKept
<1>3. ASSUME \/ IdleStep \/ NextStage \/ RegisterStep \/ Dispatch \/ Tick
             \/ (\E s \in Slots : ExecuteLoad(s)) \/ (\E k \in DOMAIN SQ : ForwardLoad(k))
      PROVE  written' = written
  <2>1. CASE IdleStep \/ NextStage
    BY <2>1, NextStageFacts DEF IdleStep, Decode, Memory, L1DAnswers, L1DTakesWrite, EndWarmup, L1D
  <2>2. CASE RegisterStep
    BY <2>2 DEF RegisterStep, Retire, Complete, Execute, Schedule, L1D
  <2>3. CASE Dispatch \/ Tick BY <2>3 DEF Dispatch, Tick, L1D
  <2>4. ASSUME NEW s \in Slots, ExecuteLoad(s) PROVE written' = written BY <2>4 DEF ExecuteLoad
  <2>5. ASSUME NEW k \in DOMAIN SQ, ForwardLoad(k) PROVE written' = written
    BY <2>5 DEF ForwardLoad, L1D
  <2> QED BY <1>3, <2>1, <2>2, <2>3, <2>4, <2>5
<1>4. CASE MemoryReturn BY <1>1, <1>4 DEF MemoryReturn
<1>5. ASSUME NEW k \in DOMAIN SQ, FinishStore(k)
      PROVE  /\ Len(SQ') = Len(SQ) /\ written' = written
             /\ \A j \in DOMAIN SQ : SQ'[j].instr_id = SQ[j].instr_id
             /\ \A j \in DOMAIN SQ : SQ'[j].address = SQ[j].address
  <2>1. written' = written BY <1>5 DEF FinishStore, L1D
  <2>2. /\ Len(SQ') = Len(SQ) /\ \A j \in DOMAIN SQ \ {k} : SQ'[j] = SQ[j]
        /\ SQ'[k].instr_id = SQ[k].instr_id /\ SQ'[k].address = SQ[k].address
    BY <1>5, FinishStoreEffect
  <2> QED BY <2>1, <2>2
<1>6. ASSUME NEW s \in Slots, PlaceLoad(s) PROVE UNCHANGED <<SQ, written>>
  BY <1>6 DEF PlaceLoad, L1D
<1>7. ASSUME NEW s \in Slots, NEW k \in DOMAIN SQ, PlaceDependentLoad(s, k)
      PROVE  /\ Len(SQ') = Len(SQ) /\ written' = written
             /\ \A j \in DOMAIN SQ : SQ'[j].instr_id = SQ[j].instr_id
             /\ \A j \in DOMAIN SQ : SQ'[j].address = SQ[j].address
  <2>1. /\ Len(SQ') = Len(SQ) /\ written' = written /\ \A j \in DOMAIN SQ \ {k} : SQ'[j] = SQ[j]
        /\ SQ'[k].instr_id = SQ[k].instr_id /\ SQ'[k].address = SQ[k].address
    BY <1>7, PlaceDependentEffect
  <2> QED BY <2>1
<1>8. CASE \/ IdleStep \/ NextStage \/ RegisterStep \/ Dispatch \/ Tick
           \/ (\E s \in Slots : ExecuteLoad(s)) \/ (\E k \in DOMAIN SQ : ForwardLoad(k))
  BY <1>1, <1>2, <1>3, <1>8, QueuesKeptStep
<1>9. CASE MemoryReturn \/ (\E k \in DOMAIN SQ : FinishStore(k)) \/ (\E s \in Slots : PlaceLoad(s))
           \/ (\E k \in DOMAIN SQ, s \in Slots : PlaceDependentLoad(s, k))
  BY <1>1, <1>4, <1>5, <1>6, <1>7, <1>9
<1> QED BY <1>8, <1>9, NextCases DEF MemoryStep, PlaceStep, DispatchStep

LEMMA RobGrows ==
  ASSUME TypeOK, OrderInv, PlaceInv, Next
  PROVE  /\ trace' = trace \/ (\E n \in Instructions : Decode(n))
         /\ Dispatched \in Nat /\ Oldest \in Nat /\ Oldest <= Dispatched
         /\ Dispatched' \in Nat /\ Dispatched <= Dispatched' /\ Oldest' \in Nat /\ Oldest <= Oldest'
         /\ ~Dispatch => Dispatched' = Dispatched
         /\ ~Dispatch /\ ~RegisterStep => Live' = Live /\ Oldest' = Oldest
<1>1. Dispatched \in Nat /\ Oldest \in Nat /\ Len(ROB) \in Nat /\ Dispatched = Oldest + Len(ROB)
  BY LiveFacts
<1>2. ASSUME NEW i \in DOMAIN ROB, Retire(i)
      PROVE  Dispatched' = Dispatched /\ Oldest' = Oldest + 1 /\ trace' = trace
  BY <1>2, RetireEffect DEF Retire
<1>3. ASSUME Mapped PROVE Dispatched' = Dispatched /\ Oldest' = Oldest /\ Live' = Live
  BY <1>3, MappedFacts
<1>4. ASSUME NEW i \in DOMAIN ROB, Complete(i) \/ Execute(i) \/ Schedule(i)
      PROVE  Mapped /\ trace' = trace
  BY <1>4, CompleteEffect, ExecuteEffect, ScheduleEffect DEF Complete, Execute, Schedule
<1>5. CASE RegisterStep BY <1>1, <1>2, <1>3, <1>4, <1>5 DEF RegisterStep
<1>6. CASE Dispatch
  <2>1. Dispatched' = Dispatched + 1 /\ Oldest' = Oldest BY <1>6, DispatchEffect
  <2>2. trace' = trace BY <1>6 DEF Dispatch
  <2> QED BY <1>1, <1>6, <2>1, <2>2
<1>7. CASE IdleStep \/ NextStage \/ MemoryStep \/ PlaceStep \/ PlaceStores \/ Tick
  <2>1. Mapped BY <1>7, KeptStep DEF Kept
  <2>2. trace' = trace \/ \E n \in Instructions : Decode(n)
    <3>1. CASE IdleStep BY <3>1 DEF IdleStep, Memory, L1DAnswers, L1DTakesWrite, EndWarmup
    <3>2. CASE NextStage BY <3>2, NextStageFacts
    <3>3. CASE MemoryStep
      BY <3>3 DEF MemoryStep, MemoryReturn, FinishStore, CompleteStore, ExecuteLoad
    <3>4. CASE PlaceStep \/ PlaceStores \/ Tick
      BY <3>4 DEF PlaceStep, PlaceLoad, ForwardLoad, PlaceDependentLoad, PlaceStores, Tick
    <3> QED BY <1>7, <3>1, <3>2, <3>3, <3>4
  <2>3. CASE ~Dispatch /\ ~RegisterStep BY <1>1, <1>3, <2>1, <2>2, <2>3
  <2>4. CASE RegisterStep BY <1>5, <2>4
  <2>5. CASE Dispatch BY <1>6, <2>5
  <2> QED BY <2>3, <2>4, <2>5
<1> QED BY <1>5, <1>6, <1>7, NextCases DEF DispatchStep

LEMMA StoresStep ==
  ASSUME TypeOK, OrderInv, PlaceInv, StoreInv, Next, TypeOK'
  PROVE  StoreInv'
<1>0. /\ Dispatched \in Nat /\ Oldest \in Nat /\ Oldest <= Dispatched
      /\ Dispatched' \in Nat /\ Dispatched <= Dispatched' /\ Oldest' \in Nat /\ Oldest <= Oldest'
      /\ ~Dispatch => Dispatched' = Dispatched
      /\ ~Dispatch /\ ~RegisterStep => Oldest' = Oldest
  BY RobGrows
<1>1. /\ DOMAIN SQ = 1..Len(SQ) /\ Len(SQ) \in Nat /\ DOMAIN written = 1..Len(written)
      /\ Len(written) \in Nat /\ written \in Seq(Ids)
  <2>1. written \in Seq(Ids) BY DEF TypeOK
  <2>2. DOMAIN written = 1..Len(written) /\ Len(written) \in Nat BY <2>1
  <2> QED BY <2>1, <2>2, QueueFacts
<1>2. /\ \A k \in DOMAIN SQ : SQ[k].instr_id \in Nat
      /\ \A j \in DOMAIN written : written[j] \in Nat
  <2>1. Ids \subseteq Nat BY Constants DEF Ids
  <2>2. \A j \in DOMAIN written : written[j] \in Ids BY <1>1
  <2> QED BY <2>1, <2>2, QueueFacts
<1>3. CASE CompleteStore
  <2>1. /\ SQ # <<>> /\ SQ[1].instr_id <= Oldest /\ Len(SQ') = Len(SQ) - 1
        /\ DOMAIN SQ' = 1..(Len(SQ) - 1)
        /\ \A k \in 1..(Len(SQ) - 1) : SQ'[k] = SQ[k + 1]
        /\ written' = Append(written, SQ[1].instr_id) /\ SQ[1].instr_id \in Ids
        /\ UNCHANGED <<trace, DISPATCH_BUFFER, ROB>>
    BY <1>3, CompleteStoreEffect
  <2>2. Dispatched' = Dispatched /\ Oldest' = Oldest BY <2>1 DEF Dispatched, Oldest
  <2>3. /\ DOMAIN written' = 1..(Len(written) + 1) /\ written'[Len(written) + 1] = SQ[1].instr_id
        /\ \A j \in 1..Len(written) : written'[j] = written[j]
    BY <1>1, <2>1
  <2>4. 1 \in DOMAIN SQ BY <1>1, <2>1, HeadFacts DEF TypeOK
  <2>5. \A k \in 1..(Len(SQ) - 1) : k + 1 \in DOMAIN SQ /\ 1 < k + 1 BY <1>1
  <2>6. \A k \in DOMAIN SQ : SQ[1].instr_id <= SQ[k].instr_id
    <3> TAKE k \in DOMAIN SQ
    <3>1. k = 1 \/ 1 < k BY <1>1
    <3> QED BY <1>2, <2>4, <3>1 DEF StoreInv
  <2>7. \A k \in DOMAIN SQ' : SQ'[k].instr_id <= Dispatched BY <2>1, <2>5 DEF StoreInv
  <2>8. ASSUME NEW j \in DOMAIN SQ', NEW k \in DOMAIN SQ', j < k
        PROVE  SQ'[j].instr_id <= SQ'[k].instr_id
    <3>1. j + 1 < k + 1 BY <1>1, <2>1, <2>8
    <3> QED BY <2>1, <2>5, <3>1 DEF StoreInv
  <2>9. ASSUME NEW j \in DOMAIN written'
        PROVE  written'[j] <= Oldest /\ \A k \in DOMAIN SQ' : written'[j] <= SQ'[k].instr_id
    <3>1. CASE j \in 1..Len(written)
      <4>1. written'[j] = written[j] /\ j \in DOMAIN written BY <1>1, <2>3, <3>1
      <4>2. written[j] <= Oldest /\ \A k \in DOMAIN SQ : written[j] <= SQ[k].instr_id
        BY <4>1 DEF StoreInv
      <4> QED BY <2>1, <2>5, <4>1, <4>2
    <3>2. CASE j = Len(written) + 1 BY <2>1, <2>3, <2>5, <2>6, <3>2
    <3> QED BY <1>1, <2>3, <3>1, <3>2
  <2>10. ASSUME NEW j \in DOMAIN written', NEW k \in DOMAIN written', j < k
         PROVE  written'[j] <= written'[k]
    <3>1. j \in 1..Len(written) /\ (k \in 1..Len(written) \/ k = Len(written) + 1)
      BY <1>1, <2>3, <2>10
    <3>2. CASE k \in 1..Len(written) BY <1>1, <2>3, <2>10, <3>1, <3>2 DEF StoreInv
    <3>3. CASE k = Len(written) + 1 BY <1>1, <2>3, <2>4, <3>1, <3>3 DEF StoreInv
    <3> QED BY <3>1, <3>2, <3>3
  <2> QED BY <2>2, <2>7, <2>8, <2>9, <2>10 DEF StoreInv
<1>4. CASE PlaceStores
  <2>1. PICK d \in Seq(Addresses) :
          /\ Len(SQ') = Len(SQ) + Len(d)
          /\ \A k \in DOMAIN SQ : SQ'[k] = SQ[k]
          /\ \A k \in (Len(SQ) + 1)..(Len(SQ) + Len(d)) : SQ'[k].instr_id = Dispatched
          /\ UNCHANGED <<trace, DISPATCH_BUFFER, ROB, written>>
    BY <1>4, NewStoresFacts
  <2>2. Dispatched' = Dispatched /\ Oldest' = Oldest BY <2>1 DEF Dispatched, Oldest
  <2>3. DOMAIN SQ' = 1..(Len(SQ) + Len(d)) /\ Len(d) \in Nat
    <3>1. SQ' \in Seq(store_type) BY <1>4, PlaceStoresEffect
    <3> QED BY <2>1, <3>1
  <2>4. \A k \in DOMAIN SQ' : k \in DOMAIN SQ \/ k \in (Len(SQ) + 1)..(Len(SQ) + Len(d))
    BY <1>1, <2>3
  <2>5. \A k \in DOMAIN SQ' : SQ'[k].instr_id <= Dispatched
    BY <1>0, <2>1, <2>4 DEF StoreInv
  <2>6. ASSUME NEW j \in DOMAIN SQ', NEW k \in DOMAIN SQ', j < k
        PROVE  SQ'[j].instr_id <= SQ'[k].instr_id
    <3>1. CASE k \in DOMAIN SQ
      <4>1. j \in DOMAIN SQ BY <1>1, <2>3, <2>6, <3>1
      <4> QED BY <2>1, <2>6, <3>1, <4>1 DEF StoreInv
    <3>2. CASE k \in (Len(SQ) + 1)..(Len(SQ) + Len(d)) BY <2>1, <2>5, <3>2
    <3> QED BY <2>4, <3>1, <3>2
  <2>7. ASSUME NEW j \in DOMAIN written
        PROVE  written[j] <= Oldest /\ \A k \in DOMAIN SQ' : written[j] <= SQ'[k].instr_id
    <3>1. written[j] <= Oldest /\ \A k \in DOMAIN SQ : written[j] <= SQ[k].instr_id BY DEF StoreInv
    <3>2. written[j] <= Dispatched BY <1>0, <1>2, <3>1
    <3> QED BY <2>1, <2>4, <3>1, <3>2
  <2> QED BY <2>1, <2>2, <2>5, <2>6, <2>7 DEF StoreInv
<1>5. CASE ~CompleteStore /\ ~PlaceStores
  <2>1. /\ Len(SQ') = Len(SQ) /\ written' = written
        /\ \A k \in DOMAIN SQ : SQ'[k].instr_id = SQ[k].instr_id
    BY <1>5, StoresKept
  <2>2. DOMAIN SQ' = DOMAIN SQ
    <3>1. SQ' \in Seq(store_type) BY DEF TypeOK
    <3> QED BY <1>1, <2>1, <3>1
  <2>3. \A k \in DOMAIN SQ : SQ[k].instr_id <= Dispatched' BY <1>0, <1>2 DEF StoreInv
  <2>4. \A j \in DOMAIN written : written[j] <= Oldest' BY <1>0, <1>2 DEF StoreInv
  <2> QED BY <2>1, <2>2, <2>3, <2>4 DEF StoreInv
<1> QED BY <1>3, <1>4, <1>5

LEMMA PlaceStepInv ==
  ASSUME TypeOK, OrderInv, PlaceInv, StoreInv, Next
  PROVE  PlaceInv'
<1> SUFFICES ASSUME pc' = "place"
             PROVE  /\ Dispatched' \in Live' /\ SQRoom(trace[Dispatched])'
                    /\ \A k \in DOMAIN SQ' : SQ'[k].instr_id # Dispatched'
  BY DEF PlaceInv
<1>1. CASE Dispatch
  <2>1. PICK d \in 1..Len(trace) : /\ d = Dispatched + 1 /\ Dispatched' = d /\ Live' = Live \cup {d}
                                   /\ DISPATCH_BUFFER[1].instr_id = d
    BY <1>1, DispatchEffect
  <2>2. SQRoom(trace[d]) /\ UNCHANGED <<trace, SQ>> BY <1>1, <2>1 DEF Dispatch, Dispatchable, queues
  <2>3. SQRoom(trace[d])' BY <2>2 DEF SQRoom
  <2>4. ASSUME NEW k \in DOMAIN SQ PROVE SQ[k].instr_id # d
    <3>1. SQ[k].instr_id <= Dispatched BY DEF StoreInv
    <3>2. Dispatched \in Nat BY LiveFacts
    <3> QED BY <2>1, <3>1, <3>2
  <2> QED BY <2>1, <2>2, <2>3, <2>4 DEF SQRoom
<1>2. CASE PlaceStep
  <2>1. pc = "place" BY <1>2 DEF PlaceStep, PlaceLoad, ForwardLoad, PlaceDependentLoad
  <2>2. ~CompleteStore /\ ~PlaceStores /\ ~Dispatch /\ ~RegisterStep
    BY <2>1 DEF CompleteStore, PlaceStores, Dispatch, RegisterStep, Retire, Complete, Execute, Schedule
  <2>3. /\ Len(SQ') = Len(SQ) /\ \A k \in DOMAIN SQ : SQ'[k].instr_id = SQ[k].instr_id
    BY <2>2, StoresKept
  <2>4. Live' = Live /\ Dispatched' = Dispatched BY <2>2, RobGrows
  <2>5. trace' = trace BY <1>2 DEF PlaceStep, PlaceLoad, ForwardLoad, PlaceDependentLoad
  <2>6. SQRoom(trace[Dispatched])' BY <2>1, <2>3, <2>4, <2>5 DEF PlaceInv, SQRoom
  <2>7. DOMAIN SQ' = DOMAIN SQ
    <3>1. CASE \E k \in DOMAIN SQ, s \in Slots : PlaceDependentLoad(s, k)
      BY <3>1 DEF PlaceDependentLoad
    <3>2. CASE (\E s \in Slots : PlaceLoad(s)) \/ (\E k \in DOMAIN SQ : ForwardLoad(k))
      BY <3>2 DEF PlaceLoad, ForwardLoad, queues
    <3> QED BY <1>2, <3>1, <3>2 DEF PlaceStep
  <2> QED BY <2>1, <2>3, <2>4, <2>6, <2>7 DEF PlaceInv
<1> QED BY <1>1, <1>2, StepsPast
-----------------------------------------------------------------------------
(* Each memory operation is done, in one place, or still to be placed *)

LEMMA MemFacts ==
  ASSUME TypeOK, OrderInv
  PROVE  /\ \A id : IsFiniteSet(LoadsOf(id)) /\ Cardinality(LoadsOf(id)) \in Nat
         /\ \A id : IsFiniteSet(StoresOf(id)) /\ Cardinality(StoresOf(id)) \in Nat
         /\ \A id \in Live : /\ At(id).completed_mem_ops \in Nat /\ num_mem_ops(id) \in Nat
                             /\ Unread(id) \in Nat
<1>1. ASSUME NEW id PROVE IsFiniteSet(LoadsOf(id)) /\ Cardinality(LoadsOf(id)) \in Nat
  <2>1. LoadsOf(id) \subseteq Slots BY DEF LoadsOf
  <2> QED BY <2>1, QueueFacts, FS_Subset, FS_CardinalityType
<1>2. ASSUME NEW id PROVE IsFiniteSet(StoresOf(id)) /\ Cardinality(StoresOf(id)) \in Nat
  <2>1. StoresOf(id) \subseteq DOMAIN SQ BY DEF StoresOf
  <2> QED BY <2>1, QueueFacts, FS_Subset, FS_CardinalityType
<1>3. ASSUME NEW id \in Live
      PROVE  /\ At(id).completed_mem_ops \in Nat /\ num_mem_ops(id) \in Nat
             /\ Unread(id) \in Nat
  <2>1. At(id) \in rob_type /\ trace[id] \in instr_type BY LiveFacts
  <2>2. Len(trace[id].source_memory) \in Nat /\ Len(trace[id].destination_memory) \in Nat
    BY <2>1 DEF instr_type
  <2>3. Len(todo) \in Nat BY DEF TypeOK
  <2>4. At(id).completed_mem_ops \in Nat BY <2>1 DEF rob_type
  <2>5. num_mem_ops(id) \in Nat
    <3> DEFINE m == Len(trace[id].source_memory)
               n == Len(trace[id].destination_memory)
    <3>1. m \in Nat /\ n \in Nat BY <2>2
    <3>2. num_mem_ops(id) = m + n BY DEF num_mem_ops
    <3> HIDE DEF m, n
    <3> QED BY <3>1, <3>2
  <2>6. Unread(id) \in Nat
    <3> DEFINE n == Len(trace[id].destination_memory)
    <3>1. Unread(id) = IF pc = "place" /\ id = Dispatched THEN Len(todo) + n ELSE 0 BY DEF Unread
    <3>2. n \in Nat BY <2>2
    <3> HIDE DEF n
    <3>3. Len(todo) + n \in Nat BY <2>3, <3>2
    <3> QED BY <3>1, <3>3
  <2> QED BY <2>4, <2>5, <2>6
<1> QED BY <1>1, <1>2, <1>3

\* What a step has to keep: the sum for each instruction.
LEMMA MemKept ==
  ASSUME TypeOK, OrderInv, MemInv, TypeOK', Mapped,
         \A id \in Live :
           /\ trace'[id] = trace[id]
           /\ At(id).completed_mem_ops' + Cardinality(LoadsOf(id))' + Cardinality(StoresOf(id))'
                + Unread(id)'
              = At(id).completed_mem_ops + Cardinality(LoadsOf(id)) + Cardinality(StoresOf(id))
                + Unread(id)
           /\ At(id).completed_mem_ops <= At(id).completed_mem_ops'
           /\ At(id).executed' = "COMPLETED" =>
                At(id).executed = "COMPLETED" \/ At(id).completed_mem_ops = num_mem_ops(id),
         \A s \in Used' : LQ'[s].instr_id \in Live,
         \A k \in DOMAIN SQ' : ~SQ'[k].fetch_issued => SQ'[k].instr_id \in Live
  PROVE  MemInv'
<1>1. ASSUME NEW id \in Live
      PROVE  /\ At(id).completed_mem_ops' + Cardinality(LoadsOf(id))' + Cardinality(StoresOf(id))'
                  + Unread(id)' = num_mem_ops(id)'
             /\ At(id).executed' = "COMPLETED" => At(id).completed_mem_ops' = num_mem_ops(id)'
  <2>1. num_mem_ops(id)' = num_mem_ops(id) BY DEF num_mem_ops
  <2>2. /\ At(id).completed_mem_ops' \in Nat /\ Cardinality(LoadsOf(id))' \in Nat
        /\ Cardinality(StoresOf(id))' \in Nat /\ Unread(id)' \in Nat
        /\ num_mem_ops(id) \in Nat /\ At(id).completed_mem_ops \in Nat
    <3>1. LoadsOf(id)' \subseteq Slots BY DEF LoadsOf
    <3>2. Cardinality(LoadsOf(id))' \in Nat BY <3>1, QueueFacts, FS_Subset, FS_CardinalityType
    <3>3. StoresOf(id)' \subseteq DOMAIN SQ' /\ SQ' \in Seq(store_type) BY DEF StoresOf, TypeOK
    <3>4. Len(SQ') \in Nat /\ DOMAIN SQ' = 1..Len(SQ') BY <3>3
    <3>5. IsFiniteSet(DOMAIN SQ') BY <3>4, FS_Interval
    <3>6. Cardinality(StoresOf(id))' \in Nat BY <3>3, <3>5, FS_Subset, FS_CardinalityType
    <3>7. id - Oldest \in DOMAIN ROB' /\ At(id)' = ROB'[id - Oldest] BY LiveFacts, MappedFacts
    <3>8. ROB' \in Seq(rob_type) BY DEF TypeOK
    <3>9. At(id)' \in rob_type BY <3>7, <3>8, ItemFacts
    <3>10. At(id).completed_mem_ops' \in Nat BY <3>9 DEF rob_type
    <3>11. Unread(id)' \in Nat
      <4> DEFINE n == Len(trace[id].destination_memory)
      <4>1. Unread(id)' = IF pc' = "place" /\ id = Dispatched' THEN Len(todo') + n ELSE 0 BY DEF Unread
      <4>2. trace[id] \in instr_type BY LiveFacts
      <4>3. n \in Nat BY <4>2 DEF instr_type
      <4> HIDE DEF n
      <4>4. Len(todo') + n \in Nat BY <4>3 DEF TypeOK
      <4> QED BY <4>1, <4>4
    <3> QED BY <3>2, <3>6, <3>10, <3>11, MemFacts
  <2>3. At(id).completed_mem_ops + Cardinality(LoadsOf(id)) + Cardinality(StoresOf(id))
          + Unread(id) = num_mem_ops(id)
    BY DEF MemInv
  <2>4. /\ At(id).completed_mem_ops' + Cardinality(LoadsOf(id))' + Cardinality(StoresOf(id))'
             + Unread(id)' = num_mem_ops(id)
        /\ At(id).completed_mem_ops <= At(id).completed_mem_ops'
    BY <2>3
  <2>5. At(id).executed' = "COMPLETED" => At(id).completed_mem_ops = num_mem_ops(id)
    BY DEF MemInv
  <2>6. ASSUME At(id).executed' = "COMPLETED"
        PROVE  At(id).completed_mem_ops' = num_mem_ops(id)
    BY <2>2, <2>4, <2>5, <2>6
  <2> QED BY <2>1, <2>4, <2>6
<1>2. Live' = Live BY MappedFacts
<1> QED BY <1>1, <1>2 DEF MemInv

LEMMA QueuesKeptFacts ==
  ASSUME TypeOK, TypeOK', QueuesKept
  PROVE  /\ DOMAIN SQ' = DOMAIN SQ /\ Used' = Used
         /\ \A id : LoadsOf(id)' = LoadsOf(id) /\ StoresOf(id)' = StoresOf(id)
<1>1. DOMAIN SQ' = DOMAIN SQ
  <2>1. SQ \in Seq(store_type) /\ SQ' \in Seq(store_type) BY DEF TypeOK
  <2> QED BY <2>1 DEF QueuesKept
<1>2. Used' = Used
  <2>1. \A s \in Slots : s \in Used <=> LQ[s].instr_id # None BY QueueFacts
  <2>2. \A s \in Slots : s \in Used' <=> LQ'[s].instr_id # None
    <3> TAKE s \in Slots
    <3>1. LQ'[s] \in load_type \cup {NoLoad} BY DEF TypeOK
    <3>2. \A e \in load_type : e.instr_id # None
      <4>1. 0 \notin Ids BY Constants DEF Ids
      <4> QED BY <4>1 DEF load_type, None
    <3>3. NoLoad.instr_id = None BY DEF NoLoad
    <3> QED BY <3>1, <3>2, <3>3 DEF Used
  <2>3. \A s \in Slots : LQ'[s].instr_id = LQ[s].instr_id BY DEF QueuesKept
  <2>4. \A s \in Slots : s \in Used' <=> s \in Used BY <2>1, <2>2, <2>3
  <2>5. Used \subseteq Slots /\ Used' \subseteq Slots BY DEF Used
  <2> QED BY <2>4, <2>5
<1>3. \A id : LoadsOf(id)' = LoadsOf(id) BY DEF LoadsOf, QueuesKept
<1>4. \A id : StoresOf(id)' = StoresOf(id) BY <1>1 DEF StoresOf, QueuesKept
<1> QED BY <1>1, <1>2, <1>3, <1>4

\* The steps that move no memory operation.
LEMMA MemQueuesKept ==
  ASSUME TypeOK, OrderInv, PlaceInv, MemInv, TypeOK', QueuesKept, Mapped,
         \A id \in Live :
           /\ trace'[id] = trace[id] /\ At(id).completed_mem_ops' = At(id).completed_mem_ops
           /\ Unread(id)' = Unread(id)
           /\ At(id).executed' = "COMPLETED" =>
                At(id).executed = "COMPLETED" \/ At(id).completed_mem_ops = num_mem_ops(id)
  PROVE  MemInv'
<1>1. DOMAIN SQ' = DOMAIN SQ /\ Used' = Used BY QueuesKeptFacts
<1>2. \A id : LoadsOf(id)' = LoadsOf(id) /\ StoresOf(id)' = StoresOf(id) BY QueuesKeptFacts
<1>3. \A s \in Used' : LQ'[s].instr_id \in Live
  <2>1. Used \subseteq Slots BY QueueFacts
  <2> QED BY <1>1, <2>1 DEF QueuesKept, MemInv
<1>4. \A k \in DOMAIN SQ' : ~SQ'[k].fetch_issued => SQ'[k].instr_id \in Live
  BY <1>1 DEF QueuesKept, MemInv
<1>5. ASSUME NEW id \in Live
      PROVE  /\ At(id).completed_mem_ops' + Cardinality(LoadsOf(id))' + Cardinality(StoresOf(id))'
                  + Unread(id)'
                = At(id).completed_mem_ops + Cardinality(LoadsOf(id)) + Cardinality(StoresOf(id))
                  + Unread(id)
             /\ At(id).completed_mem_ops <= At(id).completed_mem_ops'
  <2>1. At(id).completed_mem_ops \in Nat BY MemFacts
  <2> QED BY <1>2, <2>1
<1> QED BY <1>3, <1>4, <1>5, MemKept

LEMMA MemStill ==
  ASSUME TypeOK, OrderInv, PlaceInv, MemInv, TypeOK',
         \/ IdleStep \/ NextStage \/ Tick \/ (\E s \in Slots : ExecuteLoad(s))
         \/ \E i \in DOMAIN ROB : Complete(i) \/ Execute(i) \/ Schedule(i)
  PROVE  MemInv'
<1>1. QueuesKept
  BY QueuesKeptStep DEF RegisterStep
<1>2. Mapped
  BY KeptStep, CompleteEffect, ExecuteEffect, ScheduleEffect DEF MemoryStep, Kept
<1>3. Dispatched' = Dispatched BY <1>2, MappedFacts
<1>4. pc # "place" /\ pc' # "place"
  <2>1. CASE IdleStep
    BY <2>1 DEF IdleStep, Decode, Memory, L1DAnswers, L1DTakesWrite, EndWarmup
  <2>2. CASE NextStage BY <2>2, NextStageFacts
  <2>3. CASE Tick BY <2>3 DEF Tick, GoTo
  <2>4. CASE \E s \in Slots : ExecuteLoad(s) BY <2>4 DEF ExecuteLoad
  <2>5. CASE \E i \in DOMAIN ROB : Complete(i) \/ Execute(i) \/ Schedule(i)
    BY <2>5 DEF Complete, Execute, Schedule
  <2> QED BY <2>1, <2>2, <2>3, <2>4, <2>5
<1>5. \A id : Unread(id)' = Unread(id) BY <1>4 DEF Unread
<1>6. ASSUME NEW id \in Live
      PROVE  /\ trace'[id] = trace[id] /\ At(id).completed_mem_ops' = At(id).completed_mem_ops
             /\ At(id).executed' = "COMPLETED" =>
                  At(id).executed = "COMPLETED" \/ At(id).completed_mem_ops = num_mem_ops(id)
  <2>0. At(id) \in rob_type BY LiveFacts
  <2>1. CASE IdleStep \/ NextStage \/ (\E s \in Slots : ExecuteLoad(s))
    <3>1. Kept BY <2>1, KeptStep DEF MemoryStep
    <3>2. ROB' = ROB
      BY <2>1, NextStageFacts DEF IdleStep, Decode, Memory, L1DAnswers, L1DTakesWrite, EndWarmup,
                                  ExecuteLoad
    <3>3. Len(trace)' - Len(DISPATCH_BUFFER)' = Dispatched BY <1>2 DEF Mapped
    <3>4. At(id)' = At(id) BY <3>2, <3>3, SameEffect
    <3> QED BY <3>1, <3>4 DEF Kept
  <2>2. CASE Tick
    <3>1. Kept BY <2>2, KeptStep
    <3>2. At(id)' = [At(id) EXCEPT !.left = Sooner(@)] BY <2>2, TickEffect
    <3>3. At(id).completed_mem_ops' = At(id).completed_mem_ops BY <2>0, <3>2 DEF rob_type
    <3> QED BY <3>1, <3>3 DEF Kept
  <2>3. ASSUME NEW i \in DOMAIN ROB, Execute(i) \/ Schedule(i)
        PROVE  /\ trace' = trace /\ At(id).completed_mem_ops' = At(id).completed_mem_ops
               /\ At(id).executed' = "COMPLETED" => At(id).executed = "COMPLETED"
    <3>1. trace' = trace BY <2>3 DEF Execute, Schedule
    <3>2. CASE Execute(i)
      <4>1. \/ At(id)' = At(id)
            \/ At(id)' = [At(id) EXCEPT !.executed = "INFLIGHT", !.left = Latency(EXEC_LATENCY)]
        BY <3>2, ExecuteEffect
      <4> QED BY <2>0, <3>1, <4>1 DEF rob_type
    <3>3. CASE Schedule(i)
      <4>1. \E n, m, D :
              \/ At(id)' = At(id)
              \/ At(id)' = [At(id) EXCEPT !.registers_instrs_depend_on_me = D]
              \/ At(id)' = [At(id) EXCEPT !.scheduled = TRUE, !.left = n, !.num_reg_dependent = m]
        <5>1. PICK c \in Live :
                /\ At(c)' = [At(c) EXCEPT !.scheduled = TRUE, !.left = Latency(SCHEDULING_LATENCY),
                               !.num_reg_dependent = @ + Cardinality(Producers(trace[c]))]
                /\ \A p \in Live \ {c} :
                     At(p)' = IF p \in Producers(trace[c])
                              THEN [At(p) EXCEPT !.registers_instrs_depend_on_me = @ \cup {c}]
                              ELSE At(p)
          BY <3>3, ScheduleEffect
        <5>2. CASE id = c BY <5>1, <5>2
        <5>3. CASE id # c BY <5>1, <5>3
        <5> QED BY <5>2, <5>3
      <4>2. At(id).completed_mem_ops' = At(id).completed_mem_ops
            /\ At(id).executed' = At(id).executed
        BY <2>0, <4>1 DEF rob_type
      <4> QED BY <3>1, <4>2
    <3> QED BY <2>3, <3>2, <3>3
  <2>4. ASSUME NEW i \in DOMAIN ROB, Complete(i)
        PROVE  /\ trace' = trace /\ At(id).completed_mem_ops' = At(id).completed_mem_ops
               /\ At(id).executed' = "COMPLETED" =>
                    At(id).executed = "COMPLETED" \/ At(id).completed_mem_ops = num_mem_ops(id)
    <3>1. trace' = trace BY <2>4 DEF Complete
    <3>2. PICK c \in Live :
            /\ At(c).completed_mem_ops = num_mem_ops(c)
            /\ At(c)' = [At(c) EXCEPT !.executed = "COMPLETED"]
            /\ \A p \in Live \ {c} :
                 At(p)' = IF p \in At(c).registers_instrs_depend_on_me
                          THEN [At(p) EXCEPT !.num_reg_dependent = @ - 1] ELSE At(p)
      BY <2>4, CompleteEffect
    <3>3. CASE id = c
      <4>1. At(c).completed_mem_ops' = At(c).completed_mem_ops BY <2>0, <3>2, <3>3 DEF rob_type
      <4> QED BY <3>1, <3>2, <3>3, <4>1
    <3>4. CASE id # c
      <4>1. \E m : At(id)' = At(id) \/ At(id)' = [At(id) EXCEPT !.num_reg_dependent = m]
        BY <3>2, <3>4
      <4> QED BY <2>0, <3>1, <4>1 DEF rob_type
    <3> QED BY <3>3, <3>4
  <2> QED BY <2>1, <2>2, <2>3, <2>4
<1> QED BY <1>1, <1>2, <1>5, <1>6, MemQueuesKept

\* What has retired has nothing left in the queues.
LEMMA MemRetire ==
  ASSUME TypeOK, OrderInv, MemInv, TypeOK', NEW i \in DOMAIN ROB, Retire(i)
  PROVE  MemInv'
<1>1. PICK c \in Live : /\ At(c).executed = "COMPLETED" /\ Live' = Live \ {c}
                        /\ \A id \in Live \ {c} : At(id)' = At(id)
  BY RetireEffect
<1>2. /\ QueuesKept /\ pc = "retire" /\ pc' = "retire" /\ trace' = trace
  BY QueuesKeptStep DEF RegisterStep, Retire
<1>3. DOMAIN SQ' = DOMAIN SQ /\ Used' = Used BY <1>2, QueuesKeptFacts
<1>4. \A id : LoadsOf(id)' = LoadsOf(id) /\ StoresOf(id)' = StoresOf(id) BY <1>2, QueuesKeptFacts
<1>5. \A id : Unread(id) = 0 /\ Unread(id)' = 0 BY <1>2 DEF Unread
<1>6. \A id : num_mem_ops(id)' = num_mem_ops(id) BY <1>2 DEF num_mem_ops
<1>7. LoadsOf(c) = {} /\ StoresOf(c) = {}
  <2>1. /\ At(c).completed_mem_ops = num_mem_ops(c)
        /\ At(c).completed_mem_ops + Cardinality(LoadsOf(c)) + Cardinality(StoresOf(c)) + Unread(c)
             = num_mem_ops(c)
    BY <1>1 DEF MemInv
  <2>2. /\ At(c).completed_mem_ops \in Nat /\ Unread(c) \in Nat
        /\ Cardinality(LoadsOf(c)) \in Nat /\ Cardinality(StoresOf(c)) \in Nat
        /\ IsFiniteSet(LoadsOf(c)) /\ IsFiniteSet(StoresOf(c))
    BY MemFacts
  <2>3. Cardinality(LoadsOf(c)) = 0 /\ Cardinality(StoresOf(c)) = 0
    <3> DEFINE a == At(c).completed_mem_ops
               b == Cardinality(LoadsOf(c))
               d == Cardinality(StoresOf(c))
               u == Unread(c)
    <3>1. a \in Nat /\ b \in Nat /\ d \in Nat /\ u \in Nat /\ a + b + d + u = a BY <2>1, <2>2
    <3> HIDE DEF a, b, d, u
    <3>2. b = 0 /\ d = 0 BY <3>1
    <3> QED BY <3>2 DEF b, d
  <2> QED BY <2>2, <2>3, FS_EmptySet
<1>8. ASSUME NEW s \in Used' PROVE LQ'[s].instr_id \in Live \ {c}
  <2>1. s \in Used /\ s \in Slots /\ LQ'[s].instr_id = LQ[s].instr_id
    BY <1>2, <1>3, QueueFacts DEF QueuesKept
  <2>2. LQ[s].instr_id # c BY <1>7, <2>1 DEF LoadsOf
  <2> QED BY <2>1, <2>2 DEF MemInv
<1>9. ASSUME NEW k \in DOMAIN SQ', ~SQ'[k].fetch_issued PROVE SQ'[k].instr_id \in Live \ {c}
  <2>1. k \in DOMAIN SQ /\ ~SQ[k].fetch_issued /\ SQ'[k].instr_id = SQ[k].instr_id
    BY <1>2, <1>3, <1>9 DEF QueuesKept
  <2>2. SQ[k].instr_id # c BY <1>7, <2>1 DEF StoresOf
  <2> QED BY <2>1, <2>2 DEF MemInv
<1>10. \A id \in Live \ {c} :
         /\ At(id).completed_mem_ops' + Cardinality(LoadsOf(id))' + Cardinality(StoresOf(id))'
              + Unread(id)' = num_mem_ops(id)'
         /\ At(id).executed' = "COMPLETED" => At(id).completed_mem_ops' = num_mem_ops(id)'
  BY <1>1, <1>4, <1>5, <1>6 DEF MemInv
<1> QED BY <1>1, <1>8, <1>9, <1>10 DEF MemInv

\* What is dispatched has everything left to place.
LEMMA MemDispatch ==
  ASSUME TypeOK, OrderInv, MemInv, TypeOK', Dispatch
  PROVE  MemInv'
<1>1. PICK d \in 1..Len(trace) :
        /\ d = Dispatched + 1 /\ d \notin Live /\ Dispatched' = d /\ Live' = Live \cup {d}
        /\ \A id \in Live : At(id)' = At(id)
        /\ At(d)' = [instr_id |-> d, scheduled |-> FALSE, executed |-> "no",
                     left |-> DISPATCH_BUFFER[1].left, completed_mem_ops |-> 0,
                     num_reg_dependent |-> 0, registers_instrs_depend_on_me |-> {}]
        /\ todo' = trace[d].source_memory
  BY DispatchEffect
<1>2. QueuesKept /\ pc = "dispatch" /\ pc' = "place" /\ trace' = trace
  BY QueuesKeptStep DEF Dispatch, GoTo
<1>3. DOMAIN SQ' = DOMAIN SQ /\ Used' = Used BY <1>2, QueuesKeptFacts
<1>4. \A id : LoadsOf(id)' = LoadsOf(id) /\ StoresOf(id)' = StoresOf(id) BY <1>2, QueuesKeptFacts
<1>5. \A id : num_mem_ops(id)' = num_mem_ops(id) BY <1>2 DEF num_mem_ops
<1>6. \A id \in Live : Unread(id) = 0 /\ Unread(id)' = 0 BY <1>1, <1>2 DEF Unread
<1>7. Unread(d)' = num_mem_ops(d) /\ num_mem_ops(d) \in Nat
  <2> DEFINE m == Len(trace[d].source_memory)
             n == Len(trace[d].destination_memory)
  <2>1. trace[d] \in instr_type
    <3>1. trace \in Seq(instr_type) BY DEF TypeOK
    <3> QED BY <3>1
  <2>2. m \in Nat /\ n \in Nat BY <2>1 DEF instr_type
  <2>3. num_mem_ops(d) = m + n BY DEF num_mem_ops
  <2>4. Unread(d)' = m + n BY <1>1, <1>2 DEF Unread
  <2> HIDE DEF m, n
  <2> QED BY <2>2, <2>3, <2>4
<1>8. LoadsOf(d) = {} /\ StoresOf(d) = {}
  <2>1. \A s \in Slots : LQ[s].instr_id # d
    <3>1. d # None BY DEF None
    <3> QED BY <1>1, <3>1, QueueFacts DEF MemInv
  <2>2. \A k \in DOMAIN SQ : ~SQ[k].fetch_issued => SQ[k].instr_id # d BY <1>1 DEF MemInv
  <2> QED BY <2>1, <2>2 DEF LoadsOf, StoresOf
<1>9. /\ At(d).completed_mem_ops' + Cardinality(LoadsOf(d))' + Cardinality(StoresOf(d))'
           + Unread(d)' = num_mem_ops(d)'
      /\ At(d).executed' # "COMPLETED"
  <2>1. At(d).completed_mem_ops' = 0 /\ At(d).executed' = "no" BY <1>1
  <2>2. Cardinality(LoadsOf(d)') = 0 /\ Cardinality(StoresOf(d)') = 0 BY <1>4, <1>8, FS_EmptySet
  <2> QED BY <1>5, <1>7, <2>1, <2>2
<1>10. \A id \in Live :
         /\ At(id).completed_mem_ops' + Cardinality(LoadsOf(id))' + Cardinality(StoresOf(id))'
              + Unread(id)' = num_mem_ops(id)'
         /\ At(id).executed' = "COMPLETED" => At(id).completed_mem_ops' = num_mem_ops(id)'
  BY <1>1, <1>4, <1>5, <1>6 DEF MemInv
<1>11. \A s \in Used' : LQ'[s].instr_id \in Live
  <2>1. Used \subseteq Slots BY QueueFacts
  <2> QED BY <1>2, <1>3, <2>1 DEF QueuesKept, MemInv
<1>12. \A k \in DOMAIN SQ' : ~SQ'[k].fetch_issued => SQ'[k].instr_id \in Live
  BY <1>2, <1>3 DEF QueuesKept, MemInv
<1> QED BY <1>1, <1>9, <1>10, <1>11, <1>12 DEF MemInv

LEMMA SumKept ==
  ASSUME NEW a \in Nat, NEW b \in Nat, NEW c \in Nat, NEW u \in Nat, NEW v \in Nat, NEW w \in Nat,
         v + w = a + u
  PROVE  v + b + c + w = a + b + c + u
OBVIOUS

\* A load that is served at once is done.
LEMMA MemForward ==
  ASSUME TypeOK, OrderInv, PlaceInv, MemInv, TypeOK', NEW k \in DOMAIN SQ, ForwardLoad(k)
  PROVE  MemInv'
<1>1. QueuesKept BY QueuesKeptStep
<1>2. /\ pc = "place" /\ pc' = "place" /\ trace' = trace /\ todo # <<>> /\ todo' = Tail(todo)
  BY DEF ForwardLoad
<1>3. PICK d \in Live : d = Dispatched BY <1>2 DEF PlaceInv
<1>4. Mapped /\ \A id \in Live \ {d} : At(id)' = At(id) BY <1>3, ForwardEffect
<1>5. Dispatched' = d BY <1>3, <1>4, MappedFacts
<1>6. At(d)' = [At(d) EXCEPT !.completed_mem_ops = @ + 1]
  <2>1. At(Dispatched)' = [At(Dispatched) EXCEPT !.completed_mem_ops = @ + 1] BY ForwardEffect
  <2> QED BY <1>3, <1>5, <2>1 DEF At
<1>7. Unread(d)' = Unread(d) - 1 /\ \A id \in Live \ {d} : Unread(id)' = Unread(id)
  <2> DEFINE n == Len(trace[d].destination_memory)
             m == Len(todo)
  <2>1. trace[d] \in instr_type BY LiveFacts
  <2>2. n \in Nat BY <2>1 DEF instr_type
  <2>3. m \in Nat /\ Len(todo') = m - 1 BY <1>2, TailFacts DEF TypeOK
  <2>4. Unread(d) = m + n /\ Unread(d)' = Len(todo') + n BY <1>2, <1>3, <1>5 DEF Unread
  <2>5. \A id \in Live \ {d} : Unread(id) = 0 /\ Unread(id)' = 0 BY <1>3, <1>5 DEF Unread
  <2> HIDE DEF m, n
  <2>6. Unread(d)' = Unread(d) - 1 BY <2>2, <2>3, <2>4
  <2> QED BY <2>5, <2>6
<1>8. ASSUME NEW id \in Live
      PROVE  /\ At(id).completed_mem_ops' + Unread(id)' = At(id).completed_mem_ops + Unread(id)
             /\ At(id).completed_mem_ops <= At(id).completed_mem_ops'
             /\ At(id).executed' = At(id).executed
             /\ At(id).completed_mem_ops' \in Nat /\ Unread(id)' \in Nat
  <2>0. At(id) \in rob_type /\ At(id).completed_mem_ops \in Nat /\ Unread(id) \in Nat
    BY LiveFacts, MemFacts
  <2>1. CASE id = d
    <3>1. At(d).completed_mem_ops' = At(d).completed_mem_ops + 1 /\ At(d).executed' = At(d).executed
      BY <1>6, <2>0, <2>1 DEF rob_type
    <3>2. Unread(d)' \in Nat
      <4>1. Len(todo') \in Nat BY DEF TypeOK
      <4>2. trace[d] \in instr_type BY LiveFacts
      <4>3. Len(trace[d].destination_memory) \in Nat BY <4>2 DEF instr_type
      <4>4. Unread(d)' = Len(todo') + Len(trace[d].destination_memory) BY <1>2, <1>5 DEF Unread
      <4> HIDE DEF TypeOK
      <4> DEFINE n == Len(trace[d].destination_memory)
                 m == Len(todo')
      <4>5. Unread(d)' = m + n /\ m \in Nat /\ n \in Nat BY <4>1, <4>3, <4>4
      <4> HIDE DEF m, n
      <4> QED BY <4>5
    <3> DEFINE a == At(d).completed_mem_ops
               u == Unread(d)
    <3>3. a \in Nat /\ u \in Nat /\ a' = a + 1 /\ u' = u - 1 BY <1>7, <2>0, <2>1, <3>1
    <3> HIDE DEF a, u
    <3>4. a' + u' = a + u /\ a <= a' /\ a' \in Nat BY <3>3
    <3> QED BY <2>1, <3>1, <3>2, <3>4 DEF a, u
  <2>2. CASE id # d
    <3>1. At(id)' = At(id) /\ Unread(id)' = Unread(id) BY <1>4, <1>7, <2>2
    <3> QED BY <2>0, <3>1
  <2> QED BY <2>1, <2>2
<1>9. ASSUME NEW id \in Live
      PROVE  At(id).completed_mem_ops' + Cardinality(LoadsOf(id))' + Cardinality(StoresOf(id))'
                 + Unread(id)'
               = At(id).completed_mem_ops + Cardinality(LoadsOf(id)) + Cardinality(StoresOf(id))
                 + Unread(id)
  <2>1. LoadsOf(id)' = LoadsOf(id) /\ StoresOf(id)' = StoresOf(id) BY <1>1, QueuesKeptFacts
  <2>2. /\ Cardinality(LoadsOf(id)) \in Nat /\ Cardinality(StoresOf(id)) \in Nat
        /\ At(id).completed_mem_ops \in Nat /\ Unread(id) \in Nat
    BY MemFacts
  <2>3. /\ At(id).completed_mem_ops' \in Nat /\ Unread(id)' \in Nat
        /\ At(id).completed_mem_ops' + Unread(id)' = At(id).completed_mem_ops + Unread(id)
    BY <1>8
  <2> QED BY <2>1, <2>2, <2>3, SumKept
<1>10. DOMAIN SQ' = DOMAIN SQ /\ Used' = Used BY <1>1, QueuesKeptFacts
<1>11. \A s \in Used' : LQ'[s].instr_id \in Live
  <2>1. Used \subseteq Slots BY QueueFacts
  <2> QED BY <1>1, <1>10, <2>1 DEF QueuesKept, MemInv
<1>12. \A j \in DOMAIN SQ' : ~SQ'[j].fetch_issued => SQ'[j].instr_id \in Live
  BY <1>1, <1>10 DEF QueuesKept, MemInv
<1> QED BY <1>2, <1>4, <1>8, <1>9, <1>11, <1>12, MemKept

LEMMA SumFinished ==
  ASSUME NEW a \in Nat, NEW b \in Nat, NEW c \in Nat, NEW u \in Nat,
         NEW n \in Nat, NEW e \in Nat, NEW w \in Nat, NEW v \in Nat, NEW y \in Nat,
         v = a + n + e, w = b - n, y + e = c
  PROVE  v + w + y + u = a + b + c + u /\ a <= v
OBVIOUS

\* A slot that is not emptied keeps its load.
LEMMA ResetFacts ==
  ASSUME TypeOK, NEW S \in SUBSET Slots, Reset(S)
  PROVE  /\ Used' = Used \ S
         /\ \A s \in Slots \ S : LQ'[s] = LQ[s]
         /\ \A id \in Ids : /\ LoadsOf(id)' = LoadsOf(id) \ S
                            /\ {s \in S : LQ[s].instr_id = id} = LoadsOf(id) \cap S
<1>1. \A s \in Slots : LQ'[s] = IF s \in S THEN NoLoad ELSE LQ[s] BY DEF Reset
<1>2. Used' = Used \ S BY <1>1 DEF Used
<1>3. ASSUME NEW id \in Ids
      PROVE  /\ LoadsOf(id)' = LoadsOf(id) \ S
             /\ {s \in S : LQ[s].instr_id = id} = LoadsOf(id) \cap S
  <2>1. NoLoad.instr_id # id
    <3>1. 0 \notin Ids BY Constants DEF Ids
    <3> QED BY <3>1 DEF NoLoad, None
  <2>2. LoadsOf(id)' = {s \in Slots : LQ'[s].instr_id = id} BY DEF LoadsOf
  <2>3. \A s \in Slots : LQ'[s].instr_id = id <=> (LQ[s].instr_id = id /\ s \notin S)
    BY <1>1, <2>1
  <2>4. LoadsOf(id)' = LoadsOf(id) \ S BY <2>2, <2>3 DEF LoadsOf
  <2> QED BY <2>4 DEF LoadsOf
<1> QED BY <1>1, <1>2, <1>3

LEMMA FinishCounts ==
  ASSUME TypeOK, OrderInv, NEW S, NEW d, Finish(S, d), UNCHANGED <<trace, DISPATCH_BUFFER>>
  PROVE  /\ Mapped
         /\ \A id \in Live :
              /\ At(id).completed_mem_ops' = At(id).completed_mem_ops
                   + Cardinality({s \in S : LQ[s].instr_id = id}) + (IF id = d THEN 1 ELSE 0)
              /\ At(id).executed' = At(id).executed
<1>1. /\ Mapped
      /\ \A id \in Live :
           At(id)' = [At(id) EXCEPT !.completed_mem_ops =
                        @ + Cardinality({s \in S : LQ[s].instr_id = id}) + (IF id = d THEN 1 ELSE 0)]
  BY FinishEffect
<1>2. ASSUME NEW id \in Live
      PROVE  /\ At(id).completed_mem_ops' = At(id).completed_mem_ops
                  + Cardinality({s \in S : LQ[s].instr_id = id}) + (IF id = d THEN 1 ELSE 0)
             /\ At(id).executed' = At(id).executed
  <2> DEFINE m == At(id).completed_mem_ops
                   + Cardinality({s \in S : LQ[s].instr_id = id}) + (IF id = d THEN 1 ELSE 0)
  <2>1. At(id)' = [At(id) EXCEPT !.completed_mem_ops = m] BY <1>1, Zenon
  <2>2. At(id) \in rob_type BY LiveFacts
  <2> HIDE DEF m
  <2>3. At(id).completed_mem_ops' = m /\ At(id).executed' = At(id).executed
    BY <2>1, <2>2 DEF rob_type
  <2> QED BY <2>3 DEF m
<1> QED BY <1>1, <1>2

\* The operations that finish leave their places and are counted.
LEMMA MemFinish ==
  ASSUME TypeOK, OrderInv, MemInv, TypeOK', NEW S \in SUBSET Slots, NEW d, Finish(S, d), Reset(S),
         UNCHANGED <<trace, DISPATCH_BUFFER, pc, todo>>,
         \A id \in Live : Cardinality(StoresOf(id))' + (IF id = d THEN 1 ELSE 0)
                            = Cardinality(StoresOf(id))
                          /\ Cardinality(StoresOf(id))' \in Nat,
         \A k \in DOMAIN SQ' : ~SQ'[k].fetch_issued => SQ'[k].instr_id \in Live
  PROVE  MemInv'
<1>0. UNCHANGED <<trace, DISPATCH_BUFFER>> OBVIOUS
<1>1. /\ Mapped
      /\ \A id \in Live :
           /\ At(id).completed_mem_ops' = At(id).completed_mem_ops
                + Cardinality({s \in S : LQ[s].instr_id = id}) + (IF id = d THEN 1 ELSE 0)
           /\ At(id).executed' = At(id).executed
  BY <1>0, FinishCounts
<1>2. Dispatched' = Dispatched BY <1>1, MappedFacts
<1>3. \A s \in Used' : LQ'[s].instr_id \in Live
  <2>1. Used \subseteq Slots /\ Used' = Used \ S /\ \A s \in Slots \ S : LQ'[s] = LQ[s]
    BY QueueFacts, ResetFacts
  <2> QED BY <2>1 DEF MemInv
<1>4. ASSUME NEW id \in Live
      PROVE  /\ At(id).completed_mem_ops' + Cardinality(LoadsOf(id))' + Cardinality(StoresOf(id))'
                  + Unread(id)'
                = At(id).completed_mem_ops + Cardinality(LoadsOf(id)) + Cardinality(StoresOf(id))
                  + Unread(id)
             /\ At(id).completed_mem_ops <= At(id).completed_mem_ops'
             /\ At(id).executed' = At(id).executed
  <2> DEFINE n == Cardinality({s \in S : LQ[s].instr_id = id})
             e == IF id = d THEN 1 ELSE 0
  <2>1. /\ At(id).completed_mem_ops' = At(id).completed_mem_ops + n + e
        /\ At(id).executed' = At(id).executed
    BY <1>1
  <2>2. n \in Nat /\ Cardinality(LoadsOf(id))' = Cardinality(LoadsOf(id)) - n
        /\ Cardinality(LoadsOf(id))' \in Nat
    <3>1. /\ LoadsOf(id)' = LoadsOf(id) \ S
          /\ {s \in S : LQ[s].instr_id = id} = LoadsOf(id) \cap S
      BY LiveFacts, ResetFacts
    <3>2. IsFiniteSet(LoadsOf(id)) BY MemFacts
    <3>3. /\ IsFiniteSet(LoadsOf(id) \ S)
          /\ Cardinality(LoadsOf(id) \ S) = Cardinality(LoadsOf(id)) - Cardinality(LoadsOf(id) \cap S)
      BY <3>2, FS_Difference
    <3>4. IsFiniteSet(LoadsOf(id) \cap S) BY <3>2, FS_Subset
    <3>5. n \in Nat BY <3>1, <3>4, FS_CardinalityType
    <3>6. Cardinality(LoadsOf(id) \ S) \in Nat BY <3>3, FS_CardinalityType
    <3> QED BY <3>1, <3>3, <3>5, <3>6
  <2>3. e \in Nat OBVIOUS
  <2>4. Cardinality(StoresOf(id))' + e = Cardinality(StoresOf(id))
        /\ Cardinality(StoresOf(id))' \in Nat
    OBVIOUS
  <2>5. Unread(id)' = Unread(id) BY <1>2 DEF Unread
  <2>7. /\ At(id).completed_mem_ops \in Nat /\ Cardinality(LoadsOf(id)) \in Nat
        /\ Cardinality(StoresOf(id)) \in Nat /\ Unread(id) \in Nat
    BY MemFacts
  <2> HIDE DEF n, e
  <2>9. At(id).completed_mem_ops' \in Nat
    <3> DEFINE a == At(id).completed_mem_ops
    <3>1. a \in Nat /\ a + n + e = At(id).completed_mem_ops' BY <2>1, <2>7
    <3> HIDE DEF a
    <3>2. a + n + e \in Nat BY <2>2, <2>3, <3>1
    <3> QED BY <3>1, <3>2
  <2>10. /\ At(id).completed_mem_ops' + Cardinality(LoadsOf(id))' + Cardinality(StoresOf(id))'
              + Unread(id)
            = At(id).completed_mem_ops + Cardinality(LoadsOf(id)) + Cardinality(StoresOf(id))
              + Unread(id)
         /\ At(id).completed_mem_ops <= At(id).completed_mem_ops'
    BY <2>1, <2>2, <2>3, <2>4, <2>7, <2>9, SumFinished
  <2> QED BY <2>1, <2>5, <2>10
<1> QED BY <1>1, <1>3, <1>4, MemKept

LEMMA MemReturnOrFinish ==
  ASSUME TypeOK, OrderInv, MemInv, TypeOK', MemoryReturn \/ (\E k \in DOMAIN SQ : FinishStore(k))
  PROVE  MemInv'
<1>1. CASE MemoryReturn
  <2>1. /\ Finish(Answered(returned[1]), None) /\ Reset(Answered(returned[1])) /\ SQ' = SQ
        /\ UNCHANGED <<trace, DISPATCH_BUFFER, pc, todo>>
    BY <1>1 DEF MemoryReturn
  <2>2. Answered(returned[1]) \subseteq Slots BY QueueFacts DEF Answered
  <2>3. ASSUME NEW id \in Live
        PROVE  /\ Cardinality(StoresOf(id))' + (IF id = None THEN 1 ELSE 0) = Cardinality(StoresOf(id))
               /\ Cardinality(StoresOf(id))' \in Nat
    <3>1. id # None
      <4>1. 0 \notin Ids BY Constants DEF Ids
      <4> QED BY <4>1, LiveFacts DEF None
    <3>2. StoresOf(id)' = StoresOf(id) BY <2>1 DEF StoresOf
    <3>3. Cardinality(StoresOf(id)) \in Nat BY MemFacts
    <3> QED BY <3>1, <3>2, <3>3
  <2>4. \A k \in DOMAIN SQ' : ~SQ'[k].fetch_issued => SQ'[k].instr_id \in Live
    BY <2>1 DEF MemInv
  <2> QED BY <2>1, <2>2, <2>3, <2>4, MemFinish
<1>2. ASSUME NEW k \in DOMAIN SQ, FinishStore(k) PROVE MemInv'
  <2> DEFINE d == SQ[k].instr_id
  <2>1. /\ ~SQ[k].fetch_issued /\ Len(SQ') = Len(SQ)
        /\ SQ'[k].instr_id = d /\ SQ'[k].fetch_issued = TRUE
        /\ \A j \in DOMAIN SQ \ {k} : SQ'[j] = SQ[j]
        /\ Finish(SQ[k].lq_depend_on_me, d) /\ Reset(SQ[k].lq_depend_on_me)
        /\ SQ[k].lq_depend_on_me \subseteq Slots
    BY <1>2, FinishStoreEffect
  <2>2. UNCHANGED <<trace, DISPATCH_BUFFER, pc, todo>> BY <1>2 DEF FinishStore
  <2>3. DOMAIN SQ' = DOMAIN SQ
    <3>1. SQ \in Seq(store_type) /\ SQ' \in Seq(store_type) BY DEF TypeOK
    <3> QED BY <2>1, <3>1
  <2>4. ASSUME NEW id \in Live
        PROVE  /\ Cardinality(StoresOf(id))' + (IF id = d THEN 1 ELSE 0) = Cardinality(StoresOf(id))
               /\ Cardinality(StoresOf(id))' \in Nat
    <3>1. StoresOf(id)' = StoresOf(id) \ {k} BY <2>1, <2>3 DEF StoresOf
    <3>2. k \in StoresOf(id) <=> id = d BY <2>1 DEF StoresOf
    <3>3. IsFiniteSet(StoresOf(id)) /\ Cardinality(StoresOf(id)) \in Nat BY MemFacts
    <3>4. /\ IsFiniteSet(StoresOf(id) \ {k})
          /\ Cardinality(StoresOf(id) \ {k})
               = IF k \in StoresOf(id) THEN Cardinality(StoresOf(id)) - 1 ELSE Cardinality(StoresOf(id))
      BY <3>3, FS_RemoveElement
    <3>5. Cardinality(StoresOf(id) \ {k}) \in Nat BY <3>4, FS_CardinalityType
    <3> HIDE DEF d
    <3> QED BY <3>1, <3>2, <3>3, <3>4, <3>5
  <2>5. \A j \in DOMAIN SQ' : ~SQ'[j].fetch_issued => SQ'[j].instr_id \in Live
    BY <2>1, <2>3 DEF MemInv
  <2> QED BY <2>1, <2>2, <2>4, <2>5, MemFinish
<1> QED BY <1>1, <1>2

\* The store that is written had finished: its instruction has retired.
LEMMA MemCompleteStore ==
  ASSUME TypeOK, OrderInv, StoreInv, MemInv, TypeOK', CompleteStore
  PROVE  MemInv'
<1>1. /\ SQ # <<>> /\ SQ[1].instr_id \notin Live
      /\ DOMAIN SQ' = 1..(Len(SQ) - 1) /\ \A k \in 1..(Len(SQ) - 1) : SQ'[k] = SQ[k + 1]
      /\ UNCHANGED <<trace, DISPATCH_BUFFER, ROB, LQ, todo, pc>>
  BY CompleteStoreEffect
<1>2. Len(trace)' - Len(DISPATCH_BUFFER)' = Dispatched BY <1>1 DEF Dispatched
<1>3. Mapped /\ \A id \in Live : At(id)' = At(id) BY <1>1, <1>2, SameEffect
<1>4. Dispatched' = Dispatched BY <1>3, MappedFacts
<1>5. Len(SQ) \in Nat /\ DOMAIN SQ = 1..Len(SQ) BY QueueFacts
<1>6. ASSUME NEW id \in Live PROVE Cardinality(StoresOf(id))' = Cardinality(StoresOf(id))
  <2> DEFINE f == [k \in StoresOf(id)' |-> k + 1]
  <2>1. StoresOf(id)' = {k \in 1..(Len(SQ) - 1) : SQ[k + 1].instr_id = id /\ ~SQ[k + 1].fetch_issued}
    BY <1>1 DEF StoresOf
  <2>2. \A k \in StoresOf(id)' : k \in Int /\ k + 1 \in StoresOf(id)
    <3> TAKE k \in StoresOf(id)'
    <3>1. k \in Int /\ k + 1 \in 1..Len(SQ) BY <1>5, <2>1
    <3> QED BY <1>5, <2>1, <3>1 DEF StoresOf
  <2>3. ASSUME NEW k \in StoresOf(id) PROVE k - 1 \in StoresOf(id)' /\ (k - 1) + 1 = k
    <3>1. k \in 1..Len(SQ) /\ k # 1 BY <1>1, <1>5 DEF StoresOf
    <3>2. k - 1 \in 1..(Len(SQ) - 1) /\ (k - 1) + 1 = k BY <1>5, <3>1
    <3> QED BY <2>1, <3>2 DEF StoresOf
  <2>4. IsFiniteSet(StoresOf(id)')
    <3>1. StoresOf(id)' \subseteq 1..(Len(SQ) - 1) BY <2>1
    <3>2. IsFiniteSet(1..(Len(SQ) - 1)) BY <1>5, FS_Interval
    <3> QED BY <3>1, <3>2, FS_Subset
  <2>5. f \in [StoresOf(id)' -> StoresOf(id)] BY <2>2
  <2>6. \A x, y \in StoresOf(id)' : f[x] = f[y] => x = y BY <2>2
  <2>7. \A y \in StoresOf(id) : \E x \in StoresOf(id)' : f[x] = y BY <2>3
  <2> HIDE DEF f
  <2> QED BY <2>4, <2>5, <2>6, <2>7, SameCount
<1>7. ASSUME NEW id \in Live
      PROVE  /\ At(id).completed_mem_ops' + Cardinality(LoadsOf(id))' + Cardinality(StoresOf(id))'
                  + Unread(id)'
                = At(id).completed_mem_ops + Cardinality(LoadsOf(id)) + Cardinality(StoresOf(id))
                  + Unread(id)
             /\ At(id).completed_mem_ops <= At(id).completed_mem_ops'
             /\ At(id).executed' = At(id).executed
  <2>1. LoadsOf(id)' = LoadsOf(id) BY <1>1 DEF LoadsOf
  <2>2. Unread(id)' = Unread(id) BY <1>1, <1>4 DEF Unread
  <2>3. At(id).completed_mem_ops \in Nat BY MemFacts
  <2> QED BY <1>3, <1>6, <2>1, <2>2, <2>3
<1>8. \A s \in Used' : LQ'[s].instr_id \in Live
  <2>1. Used' = Used BY <1>1 DEF Used
  <2> QED BY <1>1, <2>1 DEF MemInv
<1>9. \A k \in DOMAIN SQ' : ~SQ'[k].fetch_issued => SQ'[k].instr_id \in Live
  <2> TAKE k \in DOMAIN SQ'
  <2>1. k + 1 \in DOMAIN SQ /\ SQ'[k] = SQ[k + 1] BY <1>1, <1>5
  <2> QED BY <2>1 DEF MemInv
<1> QED BY <1>1, <1>3, <1>7, <1>8, <1>9, MemKept

\* The first address that is still to be loaded.
LEMMA UnreadLoad ==
  ASSUME TypeOK, OrderInv, PlaceInv, pc = "place", pc' = "place", todo # <<>>, todo' = Tail(todo),
         trace' = trace, Dispatched' = Dispatched
  PROVE  /\ \A id \in Live \ {Dispatched} : Unread(id)' = Unread(id)
         /\ Unread(Dispatched) - 1 \in Nat
         /\ \A id \in Live : id = Dispatched => Unread(id)' = Unread(Dispatched) - 1
<1> DEFINE n == Len(trace[Dispatched].destination_memory)
           m == Len(todo)
<1>1. trace[Dispatched] \in instr_type BY LiveFacts DEF PlaceInv
<1>2. n \in Nat BY <1>1 DEF instr_type
<1>3. m \in Nat /\ m # 0 /\ Len(todo') = m - 1 BY TailFacts DEF TypeOK
<1>4. Unread(Dispatched) = m + n BY DEF Unread
<1>5. \A id \in Live : id = Dispatched => Unread(id)' = Len(todo') + n BY DEF Unread
<1>6. \A id \in Live \ {Dispatched} : Unread(id)' = Unread(id) BY DEF Unread
<1> HIDE DEF m, n
<1>7. (m + n) - 1 \in Nat /\ Len(todo') + n = (m + n) - 1 BY <1>2, <1>3
<1> QED BY <1>4, <1>5, <1>6, <1>7

\* A load that is placed takes a free slot.
LEMMA MemPlaceLoad ==
  ASSUME TypeOK, OrderInv, PlaceInv, MemInv, TypeOK',
         pc = "place", pc' = "place", todo # <<>>, todo' = Tail(todo),
         NEW s \in Slots \ Used, LQ'[s].instr_id = Dispatched, \A t \in Slots \ {s} : LQ'[t] = LQ[t],
         Len(SQ') = Len(SQ),
         \A k \in DOMAIN SQ : SQ'[k].instr_id = SQ[k].instr_id /\ SQ'[k].fetch_issued = SQ[k].fetch_issued,
         UNCHANGED <<trace, DISPATCH_BUFFER, ROB>>
  PROVE  MemInv'
<1>1. PICK d \in Live : d = Dispatched BY DEF PlaceInv
<1>2. Len(trace)' - Len(DISPATCH_BUFFER)' = Dispatched BY DEF Dispatched
<1>3. Mapped /\ \A id \in Live : At(id)' = At(id) BY <1>2, SameEffect
<1>4. Dispatched' = Dispatched BY <1>3, MappedFacts
<1>5. /\ \A id \in Live \ {d} : Unread(id)' = Unread(id)
      /\ Unread(d)' = Unread(d) - 1 /\ Unread(d) - 1 \in Nat
  BY <1>1, <1>4, UnreadLoad
<1>6. DOMAIN SQ' = DOMAIN SQ
  <2>1. SQ \in Seq(store_type) /\ SQ' \in Seq(store_type) BY DEF TypeOK
  <2> QED BY <2>1
<1>7. \A id : StoresOf(id)' = StoresOf(id) BY <1>6 DEF StoresOf
<1>8. \A id \in Live : LoadsOf(id)' = IF id = d THEN LoadsOf(d) \cup {s} ELSE LoadsOf(id)
  <2> TAKE id \in Live
  <2>1. \A t \in Slots : LQ'[t].instr_id = IF t = s THEN d ELSE LQ[t].instr_id BY <1>1
  <2>2. LQ[s].instr_id # id
    <3>1. LQ[s].instr_id = None BY QueueFacts
    <3> QED BY <3>1, LiveNumbers
  <2> QED BY <2>1, <2>2 DEF LoadsOf
<1>9. ASSUME NEW id \in Live
      PROVE  /\ At(id).completed_mem_ops' + Cardinality(LoadsOf(id))' + Cardinality(StoresOf(id))'
                  + Unread(id)'
                = At(id).completed_mem_ops + Cardinality(LoadsOf(id)) + Cardinality(StoresOf(id))
                  + Unread(id)
             /\ At(id).completed_mem_ops <= At(id).completed_mem_ops'
             /\ At(id).executed' = At(id).executed
  <2>1. /\ At(id).completed_mem_ops \in Nat /\ Cardinality(LoadsOf(id)) \in Nat
        /\ Cardinality(StoresOf(id)) \in Nat /\ Unread(id) \in Nat
    BY MemFacts
  <2>2. At(id)' = At(id) /\ StoresOf(id)' = StoresOf(id) BY <1>3, <1>7
  <2>3. CASE id = d
    <3>1. s \notin LoadsOf(d)
      <4>1. LQ[s].instr_id = None BY QueueFacts
      <4> QED BY <4>1, LiveNumbers DEF LoadsOf
    <3>2. IsFiniteSet(LoadsOf(d)) BY MemFacts
    <3>3. Cardinality(LoadsOf(d) \cup {s}) = Cardinality(LoadsOf(d)) + 1 BY <3>1, <3>2, FS_AddElement
    <3>4. Cardinality(LoadsOf(id))' = Cardinality(LoadsOf(id)) + 1 BY <1>8, <2>3, <3>3
    <3>5. Unread(id)' = Unread(id) - 1 BY <1>5, <2>3
    <3>6. Unread(id)' \in Nat /\ Unread(id)' + 1 = Unread(id) /\ Cardinality(LoadsOf(id))' \in Nat
      BY <1>5, <2>1, <2>3, <3>4, <3>5
    <3> DEFINE a == At(id).completed_mem_ops
               b == Cardinality(LoadsOf(id))
               c == Cardinality(StoresOf(id))
               u == Unread(id)
    <3>7. PICK v, w \in Nat : v = Cardinality(LoadsOf(id))' /\ w = Unread(id)' BY <3>6
    <3>8. a \in Nat /\ b \in Nat /\ c \in Nat /\ u \in Nat BY <2>1
    <3>9. v = b + 1 /\ w + 1 = u BY <3>4, <3>6, <3>7
    <3> HIDE DEF a, b, c, u
    <3>10. a + v + c + w = a + b + c + u BY <3>8, <3>9
    <3> QED BY <2>1, <2>2, <3>7, <3>10 DEF a, b, c, u
  <2>4. CASE id # d
    <3>1. LoadsOf(id)' = LoadsOf(id) /\ Unread(id)' = Unread(id) BY <1>5, <1>8, <2>4
    <3> QED BY <2>1, <2>2, <3>1
  <2> QED BY <2>3, <2>4
<1>10. \A t \in Used' : LQ'[t].instr_id \in Live
  <2> TAKE t \in Used'
  <2>1. t \in Slots /\ LQ'[t] # NoLoad BY DEF Used
  <2>2. CASE t = s BY <1>1, <2>2
  <2>3. CASE t # s
    <3>1. LQ'[t] = LQ[t] BY <2>1, <2>3
    <3>2. t \in Used BY <2>1, <3>1 DEF Used
    <3> QED BY <3>1, <3>2 DEF MemInv
  <2> QED BY <2>2, <2>3
<1>11. \A k \in DOMAIN SQ' : ~SQ'[k].fetch_issued => SQ'[k].instr_id \in Live
  BY <1>6 DEF MemInv
<1> QED BY <1>3, <1>9, <1>10, <1>11, MemKept

LEMMA MemPlaceStores ==
  ASSUME TypeOK, OrderInv, PlaceInv, MemInv, TypeOK', PlaceStores
  PROVE  MemInv'
<1>1. PICK m \in Seq(Addresses) :
        /\ m = trace[Dispatched].destination_memory
        /\ Dispatched \in Live /\ todo = <<>> /\ pc = "place" /\ pc' = "dispatch"
        /\ Len(SQ') = Len(SQ) + Len(m)
        /\ \A k \in DOMAIN SQ : SQ'[k] = SQ[k]
        /\ \A k \in (Len(SQ) + 1)..(Len(SQ) + Len(m)) :
             SQ'[k].instr_id = Dispatched /\ SQ'[k].fetch_issued = FALSE
        /\ UNCHANGED <<trace, DISPATCH_BUFFER, ROB, LQ, todo>>
  BY NewStoresFacts
<1>2. PICK d \in Live : d = Dispatched BY <1>1
<1>3. Len(trace)' - Len(DISPATCH_BUFFER)' = Dispatched BY <1>1 DEF Dispatched
<1>4. Mapped /\ \A id \in Live : At(id)' = At(id) BY <1>1, <1>3, SameEffect
<1>5. Len(m) \in Nat /\ Len(SQ) \in Nat /\ DOMAIN SQ = 1..Len(SQ) BY QueueFacts
<1> DEFINE new == (Len(SQ) + 1)..(Len(SQ) + Len(m))
<1>6. DOMAIN SQ' = DOMAIN SQ \cup new /\ DOMAIN SQ \cap new = {}
  <2>1. SQ' \in Seq(store_type) BY DEF TypeOK
  <2>2. DOMAIN SQ' = 1..(Len(SQ) + Len(m)) BY <1>1, <2>1
  <2> QED BY <1>5, <2>2
<1>7. IsFiniteSet(new) /\ Cardinality(new) = Len(m)
  <2>1. Len(SQ) + 1 \in Int /\ Len(SQ) + Len(m) \in Int BY <1>5
  <2>2. IsFiniteSet(new) /\ Cardinality(new) = IF Len(SQ) + 1 > Len(SQ) + Len(m) THEN 0
                                   ELSE (Len(SQ) + Len(m)) - (Len(SQ) + 1) + 1
    BY <2>1, FS_Interval
  <2> HIDE DEF new
  <2> QED BY <1>5, <2>2
<1>8. \A k \in new : SQ'[k].instr_id = d /\ SQ'[k].fetch_issued = FALSE BY <1>1, <1>2
<1> HIDE DEF new
<1>9. StoresOf(d)' = new /\ StoresOf(d) = {}
  <2>1. \A k \in DOMAIN SQ : SQ[k].instr_id # d BY <1>1, <1>2 DEF PlaceInv
  <2> QED BY <1>1, <1>6, <1>8, <2>1 DEF StoresOf
<1>10. \A id \in Live \ {d} : StoresOf(id)' = StoresOf(id) BY <1>1, <1>6, <1>8 DEF StoresOf
<1>11. Unread(d) = Len(m) /\ \A id \in Live : Unread(id)' = 0
  <2>1. Unread(d) = Len(todo) + Len(m) BY <1>1, <1>2 DEF Unread
  <2>2. Len(todo) = 0 BY <1>1
  <2> QED BY <1>1, <1>5, <2>1, <2>2 DEF Unread
<1>12. \A id \in Live \ {d} : Unread(id) = 0 BY <1>2 DEF Unread
<1>13. ASSUME NEW id \in Live
       PROVE  /\ At(id).completed_mem_ops' + Cardinality(LoadsOf(id))' + Cardinality(StoresOf(id))'
                   + Unread(id)'
                 = At(id).completed_mem_ops + Cardinality(LoadsOf(id)) + Cardinality(StoresOf(id))
                   + Unread(id)
              /\ At(id).completed_mem_ops <= At(id).completed_mem_ops'
              /\ At(id).executed' = At(id).executed
  <2>1. /\ At(id).completed_mem_ops \in Nat /\ Cardinality(LoadsOf(id)) \in Nat
    BY MemFacts
  <2>2. At(id)' = At(id) /\ LoadsOf(id)' = LoadsOf(id) BY <1>1, <1>4 DEF LoadsOf
  <2>3. CASE id = d
    <3> DEFINE a == At(id).completed_mem_ops
               b == Cardinality(LoadsOf(id))
               n == Len(m)
    <3>1. Cardinality(StoresOf(id))' = n /\ Unread(id)' = 0 /\ Unread(id) = n
      BY <1>7, <1>9, <1>11, <2>3
    <3>2. Cardinality(StoresOf(id)) = 0 BY <1>9, <2>3, FS_EmptySet
    <3>3. a \in Nat /\ b \in Nat /\ n \in Nat BY <1>5, <2>1
    <3>4. At(id).completed_mem_ops' = a /\ Cardinality(LoadsOf(id))' = b BY <2>2
    <3> HIDE DEF a, b, n
    <3>5. a + b + n + 0 = a + b + 0 + n /\ a <= a BY <3>3
    <3> QED BY <2>2, <3>1, <3>2, <3>4, <3>5 DEF a, b
  <2>4. CASE id # d
    <3>1. StoresOf(id)' = StoresOf(id) /\ Unread(id)' = Unread(id) BY <1>10, <1>11, <1>12, <2>4
    <3> QED BY <2>1, <2>2, <3>1
  <2> QED BY <2>3, <2>4
<1>14. \A s \in Used' : LQ'[s].instr_id \in Live
  <2>1. Used' = Used BY <1>1 DEF Used
  <2> QED BY <1>1, <2>1 DEF MemInv
<1>15. \A k \in DOMAIN SQ' : ~SQ'[k].fetch_issued => SQ'[k].instr_id \in Live
  BY <1>1, <1>6, <1>8 DEF MemInv
<1> QED BY <1>1, <1>4, <1>13, <1>14, <1>15, MemKept

LEMMA MemStep ==
  ASSUME TypeOK, OrderInv, PlaceInv, StoreInv, MemInv, Next, TypeOK'
  PROVE  MemInv'
<1>1. CASE IdleStep \/ NextStage \/ Tick BY <1>1, MemStill
<1>2. CASE RegisterStep
  BY <1>2, MemRetire, MemStill DEF RegisterStep
<1>3. CASE MemoryStep
  BY <1>3, MemStill, MemReturnOrFinish, MemCompleteStore DEF MemoryStep
<1>4. CASE PlaceStep
  <2>1. ASSUME NEW s \in Slots, PlaceLoad(s) PROVE MemInv'
    <3>1. /\ pc = "place" /\ pc' = "place" /\ todo # <<>> /\ todo' = Tail(todo) /\ s \notin Used
          /\ LQ'[s].instr_id = Dispatched /\ \A t \in Slots \ {s} : LQ'[t] = LQ[t]
          /\ UNCHANGED <<trace, DISPATCH_BUFFER, ROB, SQ>>
      BY <2>1, PlaceLoadEffect
    <3> QED BY <3>1, MemPlaceLoad
  <2>2. ASSUME NEW s \in Slots, NEW k \in DOMAIN SQ, PlaceDependentLoad(s, k) PROVE MemInv'
    <3>1. /\ pc = "place" /\ pc' = "place" /\ todo # <<>> /\ todo' = Tail(todo) /\ s \notin Used
          /\ LQ'[s].instr_id = Dispatched /\ \A t \in Slots \ {s} : LQ'[t] = LQ[t]
          /\ Len(SQ') = Len(SQ)
          /\ \A j \in DOMAIN SQ : SQ'[j].instr_id = SQ[j].instr_id
                                  /\ SQ'[j].fetch_issued = SQ[j].fetch_issued
          /\ UNCHANGED <<trace, DISPATCH_BUFFER, ROB>>
      <4>1. /\ SQ'[k].instr_id = SQ[k].instr_id /\ SQ'[k].fetch_issued = SQ[k].fetch_issued
            /\ \A j \in DOMAIN SQ \ {k} : SQ'[j] = SQ[j]
        BY <2>2, PlaceDependentEffect
      <4>2. \A j \in DOMAIN SQ : SQ'[j].instr_id = SQ[j].instr_id
                                 /\ SQ'[j].fetch_issued = SQ[j].fetch_issued
        BY <4>1
      <4> QED BY <2>2, <4>2, PlaceDependentEffect
    <3> QED BY <3>1, MemPlaceLoad
  <2> QED BY <1>4, <2>1, <2>2, MemForward DEF PlaceStep
<1>5. CASE Dispatch \/ PlaceStores BY <1>5, MemDispatch, MemPlaceStores
<1> QED BY <1>1, <1>2, <1>3, <1>4, <1>5, NextCases DEF DispatchStep
-----------------------------------------------------------------------------
(* The loads that wait for a store, and the store each load reads *)

LEMMA DependFacts ==
  ASSUME TypeOK, DependInv
  PROVE  \A k \in DOMAIN SQ : ~SQ[k].fetch_issued =>
           \A s \in SQ[k].lq_depend_on_me :
             /\ s \in Used /\ s \in Slots /\ LQ[s].producer_id = SQ[k].instr_id
             /\ LQ[s].producer_id # None /\ LQ[s].address = SQ[k].address /\ ~LQ[s].fetch_issued
<1>1. 0 \notin Ids BY Constants DEF Ids
<1> QED BY <1>1, QueueFacts DEF DependInv, DependentsMatch, None

LEMMA DependKept ==
  ASSUME TypeOK, DependInv, LoadsSeeOlderStores, TypeOK', QueuesKept
  PROVE  DependInv' /\ LoadsSeeOlderStores'
<1>1. DOMAIN SQ' = DOMAIN SQ /\ Used' = Used BY QueuesKeptFacts
<1>2. /\ \A k \in DOMAIN SQ : /\ SQ'[k].instr_id = SQ[k].instr_id /\ SQ'[k].address = SQ[k].address
                              /\ SQ'[k].fetch_issued = SQ[k].fetch_issued
                              /\ SQ'[k].lq_depend_on_me = SQ[k].lq_depend_on_me
      /\ \A s \in Used : /\ LQ'[s].address = LQ[s].address /\ LQ'[s].producer_id = LQ[s].producer_id
                         /\ LQ[s].producer_id = None \/ LQ'[s].fetch_issued = LQ[s].fetch_issued
                         /\ LQ'[s].instr_id = LQ[s].instr_id
  BY QueueFacts DEF QueuesKept
<1>3. ASSUME NEW k \in DOMAIN SQ', ~SQ'[k].fetch_issued, NEW s \in SQ'[k].lq_depend_on_me
      PROVE  /\ s \in Used' /\ LQ'[s].producer_id = SQ'[k].instr_id
             /\ LQ'[s].address = SQ'[k].address /\ ~LQ'[s].fetch_issued
  <2>1. k \in DOMAIN SQ /\ ~SQ[k].fetch_issued /\ s \in SQ[k].lq_depend_on_me BY <1>1, <1>2, <1>3
  <2>2. /\ s \in Used /\ LQ[s].producer_id = SQ[k].instr_id /\ LQ[s].producer_id # None
        /\ LQ[s].address = SQ[k].address /\ ~LQ[s].fetch_issued
    BY <2>1, DependFacts
  <2> QED BY <1>1, <1>2, <2>1, <2>2
<1>4. ASSUME NEW s \in Used', LQ'[s].producer_id # None
      PROVE  \E k \in DOMAIN SQ' : ~SQ'[k].fetch_issued /\ s \in SQ'[k].lq_depend_on_me
  <2>1. PICK k \in DOMAIN SQ : ~SQ[k].fetch_issued /\ s \in SQ[k].lq_depend_on_me
    BY <1>1, <1>2, <1>4 DEF DependInv, DependentsMatch
  <2> QED BY <1>1, <1>2, <2>1
<1>5. DependentsMatch' BY <1>3, <1>4 DEF DependentsMatch
<1>6. DependInv' BY <1>1, <1>2, <1>5 DEF DependInv
<1>7. LoadsSeeOlderStores' BY <1>1, <1>2 DEF LoadsSeeOlderStores
<1> QED BY <1>6, <1>7

\* The loads of the stores that finish, and no others, leave the queue.
LEMMA DependReset ==
  ASSUME TypeOK, DependInv, LoadsSeeOlderStores, NEW S \in SUBSET Slots, Reset(S),
         DOMAIN SQ' = DOMAIN SQ,
         \A k \in DOMAIN SQ : /\ SQ'[k].instr_id = SQ[k].instr_id /\ SQ'[k].address = SQ[k].address
                              /\ SQ'[k].lq_depend_on_me = SQ[k].lq_depend_on_me
                              /\ ~SQ'[k].fetch_issued =>
                                   ~SQ[k].fetch_issued /\ SQ[k].lq_depend_on_me \cap S = {}
                              /\ ~SQ[k].fetch_issued =>
                                   ~SQ'[k].fetch_issued \/ SQ[k].lq_depend_on_me \subseteq S
  PROVE  DependInv' /\ LoadsSeeOlderStores'
<1>1. Used' = Used \ S /\ Used \subseteq Slots /\ \A s \in Slots \ S : LQ'[s] = LQ[s]
  BY ResetFacts, QueueFacts
<1>2. ASSUME NEW k \in DOMAIN SQ', ~SQ'[k].fetch_issued, NEW s \in SQ'[k].lq_depend_on_me
      PROVE  /\ s \in Used' /\ LQ'[s].producer_id = SQ'[k].instr_id
             /\ LQ'[s].address = SQ'[k].address /\ ~LQ'[s].fetch_issued
  <2>1. /\ k \in DOMAIN SQ /\ ~SQ[k].fetch_issued /\ s \in SQ[k].lq_depend_on_me /\ s \notin S
        /\ SQ'[k].instr_id = SQ[k].instr_id /\ SQ'[k].address = SQ[k].address
    BY <1>2
  <2>2. /\ s \in Used /\ LQ[s].producer_id = SQ[k].instr_id
        /\ LQ[s].address = SQ[k].address /\ ~LQ[s].fetch_issued
    BY <2>1, DependFacts
  <2> QED BY <1>1, <2>1, <2>2
<1>3. ASSUME NEW s \in Used', LQ'[s].producer_id # None
      PROVE  \E k \in DOMAIN SQ' : ~SQ'[k].fetch_issued /\ s \in SQ'[k].lq_depend_on_me
  <2>1. s \in Used /\ s \notin S /\ LQ[s].producer_id # None BY <1>1, <1>3
  <2>2. PICK k \in DOMAIN SQ : ~SQ[k].fetch_issued /\ s \in SQ[k].lq_depend_on_me
    BY <2>1 DEF DependInv, DependentsMatch
  <2> QED BY <2>1, <2>2
<1>4. DependentsMatch' BY <1>2, <1>3 DEF DependentsMatch
<1>5. ASSUME NEW j \in DOMAIN SQ', NEW k \in DOMAIN SQ', ~SQ'[j].fetch_issued, ~SQ'[k].fetch_issued, j # k
      PROVE  SQ'[j].lq_depend_on_me \cap SQ'[k].lq_depend_on_me = {}
  <2>1. ~SQ[j].fetch_issued /\ ~SQ[k].fetch_issued BY <1>5
  <2> QED BY <1>5, <2>1 DEF DependInv
<1>6. LoadsSeeOlderStores'
  <2>1. \A s \in Used' : s \in Used /\ LQ'[s] = LQ[s] BY <1>1
  <2> QED BY <2>1 DEF LoadsSeeOlderStores
<1> QED BY <1>4, <1>5, <1>6 DEF DependInv

LEMMA DependReturnOrFinish ==
  ASSUME TypeOK, DependInv, LoadsSeeOlderStores, TypeOK',
         MemoryReturn \/ (\E k \in DOMAIN SQ : FinishStore(k))
  PROVE  DependInv' /\ LoadsSeeOlderStores'
<1>1. CASE MemoryReturn
  <2> DEFINE S == Answered(returned[1])
  <2>1. Reset(S) /\ SQ' = SQ BY <1>1 DEF MemoryReturn
  <2>2. S \subseteq Slots /\ \A s \in S : LQ[s].fetch_issued BY QueueFacts DEF Answered
  <2> HIDE DEF S
  <2>3. \A k \in DOMAIN SQ : ~SQ[k].fetch_issued => SQ[k].lq_depend_on_me \cap S = {}
    BY <2>2, DependFacts
  <2> QED BY <2>1, <2>2, <2>3, DependReset
<1>2. ASSUME NEW k \in DOMAIN SQ, FinishStore(k) PROVE DependInv' /\ LoadsSeeOlderStores'
  <2> DEFINE S == SQ[k].lq_depend_on_me
  <2>1. /\ ~SQ[k].fetch_issued /\ Len(SQ') = Len(SQ)
        /\ SQ'[k].instr_id = SQ[k].instr_id /\ SQ'[k].address = SQ[k].address
        /\ SQ'[k].fetch_issued = TRUE /\ SQ'[k].lq_depend_on_me = SQ[k].lq_depend_on_me
        /\ \A j \in DOMAIN SQ \ {k} : SQ'[j] = SQ[j]
        /\ Reset(S) /\ S \subseteq Slots
    BY <1>2, FinishStoreEffect
  <2>2. DOMAIN SQ' = DOMAIN SQ
    <3>1. SQ \in Seq(store_type) /\ SQ' \in Seq(store_type) BY DEF TypeOK
    <3> QED BY <2>1, <3>1
  <2>3. \A j \in DOMAIN SQ :
          /\ SQ'[j].instr_id = SQ[j].instr_id /\ SQ'[j].address = SQ[j].address
          /\ SQ'[j].lq_depend_on_me = SQ[j].lq_depend_on_me
          /\ ~SQ'[j].fetch_issued => ~SQ[j].fetch_issued /\ SQ[j].lq_depend_on_me \cap S = {}
          /\ ~SQ[j].fetch_issued => ~SQ'[j].fetch_issued \/ SQ[j].lq_depend_on_me \subseteq S
    <3> TAKE j \in DOMAIN SQ
    <3>1. CASE j = k BY <2>1, <3>1
    <3>2. CASE j # k
      <4>1. SQ'[j] = SQ[j] BY <2>1, <3>2
      <4>2. ~SQ[j].fetch_issued => SQ[j].lq_depend_on_me \cap S = {}
        BY <2>1, <3>2 DEF DependInv
      <4> QED BY <4>1, <4>2
    <3> QED BY <3>1, <3>2
  <2> HIDE DEF S
  <2> QED BY <2>1, <2>2, <2>3, DependReset
<1> QED BY <1>1, <1>2

LEMMA DependCompleteStore ==
  ASSUME TypeOK, OrderInv, StoreInv, MemInv, DependInv, LoadsSeeOlderStores, CompleteStore
  PROVE  DependInv' /\ LoadsSeeOlderStores'
<1>1. /\ SQ # <<>> /\ SQ[1].instr_id \notin Live
      /\ DOMAIN SQ' = 1..(Len(SQ) - 1) /\ \A k \in 1..(Len(SQ) - 1) : SQ'[k] = SQ[k + 1]
      /\ LQ' = LQ
  BY CompleteStoreEffect
<1>2. Len(SQ) \in Nat /\ DOMAIN SQ = 1..Len(SQ) /\ 1 \in DOMAIN SQ
  BY <1>1, QueueFacts, HeadFacts DEF TypeOK
<1>3. \A k \in DOMAIN SQ' : k \in Int /\ k + 1 \in DOMAIN SQ /\ SQ'[k] = SQ[k + 1] BY <1>1, <1>2
<1>4. SQ[1].fetch_issued BY <1>1, <1>2 DEF MemInv
<1>5. \A k \in DOMAIN SQ : ~SQ[k].fetch_issued => k - 1 \in DOMAIN SQ' /\ SQ'[k - 1] = SQ[k]
  <2> SUFFICES ASSUME NEW k \in DOMAIN SQ, ~SQ[k].fetch_issued
               PROVE  k - 1 \in DOMAIN SQ' /\ SQ'[k - 1] = SQ[k]
    OBVIOUS
  <2>1. k # 1 BY <1>4
  <2>2. k - 1 \in DOMAIN SQ' /\ (k - 1) + 1 = k BY <1>1, <1>2, <2>1
  <2> QED BY <1>3, <2>2
<1>6. Used' = Used BY <1>1 DEF Used
<1>7. DependentsMatch'
  <2>1. ASSUME NEW k \in DOMAIN SQ', ~SQ'[k].fetch_issued, NEW s \in SQ'[k].lq_depend_on_me
        PROVE  /\ s \in Used' /\ LQ'[s].producer_id = SQ'[k].instr_id
               /\ LQ'[s].address = SQ'[k].address /\ ~LQ'[s].fetch_issued
    <3>1. k + 1 \in DOMAIN SQ /\ SQ'[k] = SQ[k + 1] BY <1>3
    <3> QED BY <1>1, <1>6, <2>1, <3>1, DependFacts
  <2>2. ASSUME NEW s \in Used', LQ'[s].producer_id # None
        PROVE  \E k \in DOMAIN SQ' : ~SQ'[k].fetch_issued /\ s \in SQ'[k].lq_depend_on_me
    <3>1. PICK k \in DOMAIN SQ : ~SQ[k].fetch_issued /\ s \in SQ[k].lq_depend_on_me
      BY <1>1, <1>6, <2>2 DEF DependInv, DependentsMatch
    <3> QED BY <1>5, <3>1
  <2> QED BY <2>1, <2>2 DEF DependentsMatch
<1>8. ASSUME NEW j \in DOMAIN SQ', NEW k \in DOMAIN SQ', ~SQ'[j].fetch_issued, ~SQ'[k].fetch_issued, j # k
      PROVE  SQ'[j].lq_depend_on_me \cap SQ'[k].lq_depend_on_me = {}
  <2>1. /\ j + 1 \in DOMAIN SQ /\ SQ'[j] = SQ[j + 1]
        /\ k + 1 \in DOMAIN SQ /\ SQ'[k] = SQ[k + 1] /\ j + 1 # k + 1
    BY <1>3, <1>8
  <2> QED BY <1>8, <2>1 DEF DependInv
<1>9. LoadsSeeOlderStores' BY <1>1, <1>3, <1>6 DEF LoadsSeeOlderStores
<1> QED BY <1>7, <1>8, <1>9 DEF DependInv

LEMMA NewSlot ==
  ASSUME NEW s \in Slots \ Used, LQ'[s].instr_id \in Ids, \A t \in Slots \ {s} : LQ'[t] = LQ[t]
  PROVE  Used' = Used \cup {s}
<1>1. LQ'[s] # NoLoad
  <2>1. 0 \notin Ids BY Constants DEF Ids
  <2> QED BY <2>1 DEF NoLoad, None
<1>2. \A t \in Slots : LQ'[t] # NoLoad <=> (t \in Used \/ t = s) BY <1>1 DEF Used
<1>3. Used \subseteq Slots BY DEF Used
<1> QED BY <1>2, <1>3 DEF Used

LEMMA DependPlaceLoad ==
  ASSUME TypeOK, OrderInv, PlaceInv, DependInv, LoadsSeeOlderStores, NEW s \in Slots, PlaceLoad(s)
  PROVE  DependInv' /\ LoadsSeeOlderStores'
<1>1. /\ s \notin Used /\ StoresTo(todo[1]) = {}
      /\ LQ'[s].instr_id = Dispatched /\ LQ'[s].address = todo[1] /\ LQ'[s].producer_id = None
      /\ \A t \in Slots \ {s} : LQ'[t] = LQ[t]
      /\ SQ' = SQ /\ pc = "place"
  BY PlaceLoadEffect
<1>2. Dispatched \in Ids BY <1>1, LiveFacts DEF PlaceInv
<1>3. Used' = Used \cup {s} BY <1>1, <1>2, NewSlot
<1>4. Used \subseteq Slots /\ \A t \in Used : t # s BY <1>1, QueueFacts
<1>5. DependentsMatch'
  <2>1. ASSUME NEW k \in DOMAIN SQ, ~SQ[k].fetch_issued, NEW t \in SQ[k].lq_depend_on_me
        PROVE  /\ t \in Used' /\ LQ'[t].producer_id = SQ[k].instr_id
               /\ LQ'[t].address = SQ[k].address /\ ~LQ'[t].fetch_issued
    <3>1. /\ t \in Used /\ LQ[t].producer_id = SQ[k].instr_id
          /\ LQ[t].address = SQ[k].address /\ ~LQ[t].fetch_issued
      BY <2>1, DependFacts
    <3>2. LQ'[t] = LQ[t] BY <1>1, <1>4, <3>1
    <3> QED BY <1>3, <3>1, <3>2
  <2>2. ASSUME NEW t \in Used', LQ'[t].producer_id # None
        PROVE  \E k \in DOMAIN SQ : ~SQ[k].fetch_issued /\ t \in SQ[k].lq_depend_on_me
    <3>1. t \in Used /\ LQ'[t] = LQ[t] BY <1>1, <1>3, <1>4, <2>2
    <3> QED BY <2>2, <3>1 DEF DependInv, DependentsMatch
  <2> QED BY <1>1, <2>1, <2>2 DEF DependentsMatch
<1>6. DependInv' BY <1>1, <1>5 DEF DependInv
<1>7. LoadsSeeOlderStores'
  <2> SUFFICES ASSUME NEW t \in Used', NEW k \in DOMAIN SQ,
                      SQ[k].instr_id < LQ'[t].instr_id, SQ[k].address = LQ'[t].address
               PROVE  LQ'[t].producer_id # None /\ SQ[k].instr_id <= LQ'[t].producer_id
    BY <1>1 DEF LoadsSeeOlderStores
  <2>1. t # s BY <1>1 DEF StoresTo
  <2>2. t \in Used /\ LQ'[t] = LQ[t] BY <1>1, <1>3, <1>4, <2>1
  <2> QED BY <2>2 DEF LoadsSeeOlderStores
<1> QED BY <1>6, <1>7

\* A load that waits becomes known to the youngest store to its address.
LEMMA DependPlaceDependent ==
  ASSUME TypeOK, OrderInv, PlaceInv, DependInv, LoadsSeeOlderStores, TypeOK',
         NEW s \in Slots, NEW k \in DOMAIN SQ, PlaceDependentLoad(s, k)
  PROVE  DependInv' /\ LoadsSeeOlderStores'
<1>1. /\ s \notin Used /\ ~SQ[k].fetch_issued /\ SQ[k].address = todo[1] /\ pc = "place"
      /\ \A j \in StoresTo(todo[1]) : SQ[j].instr_id <= SQ[k].instr_id
      /\ LQ'[s].instr_id = Dispatched /\ LQ'[s].address = todo[1]
      /\ LQ'[s].producer_id = SQ[k].instr_id /\ LQ'[s].fetch_issued = FALSE
      /\ \A t \in Slots \ {s} : LQ'[t] = LQ[t]
      /\ Len(SQ') = Len(SQ)
      /\ SQ'[k].instr_id = SQ[k].instr_id /\ SQ'[k].address = SQ[k].address
      /\ SQ'[k].fetch_issued = SQ[k].fetch_issued
      /\ SQ'[k].lq_depend_on_me = SQ[k].lq_depend_on_me \cup {s}
      /\ \A j \in DOMAIN SQ \ {k} : SQ'[j] = SQ[j]
  BY PlaceDependentEffect
<1>2. Dispatched \in Ids BY <1>1, LiveFacts DEF PlaceInv
<1>3. Used' = Used \cup {s} BY <1>1, <1>2, NewSlot
<1>4. Used \subseteq Slots /\ \A t \in Used : t # s BY <1>1, QueueFacts
<1>5. DOMAIN SQ' = DOMAIN SQ
  <2>1. SQ \in Seq(store_type) /\ SQ' \in Seq(store_type) BY DEF TypeOK
  <2> QED BY <1>1, <2>1
<1>6. ASSUME NEW j \in DOMAIN SQ
      PROVE  /\ SQ'[j].instr_id = SQ[j].instr_id /\ SQ'[j].address = SQ[j].address
             /\ SQ'[j].fetch_issued = SQ[j].fetch_issued
             /\ SQ[j].lq_depend_on_me \subseteq SQ'[j].lq_depend_on_me
             /\ \A t \in SQ'[j].lq_depend_on_me : t \in SQ[j].lq_depend_on_me \/ (t = s /\ j = k)
  <2>1. CASE j = k BY <1>1, <2>1
  <2>2. CASE j # k BY <1>1, <2>2
  <2> QED BY <2>1, <2>2
<1>7. DependentsMatch'
  <2>1. ASSUME NEW j \in DOMAIN SQ, ~SQ'[j].fetch_issued, NEW t \in SQ'[j].lq_depend_on_me
        PROVE  /\ t \in Used' /\ LQ'[t].producer_id = SQ'[j].instr_id
               /\ LQ'[t].address = SQ'[j].address /\ ~LQ'[t].fetch_issued
    <3>1. CASE t = s /\ j = k BY <1>1, <1>3, <3>1
    <3>2. CASE t \in SQ[j].lq_depend_on_me
      <4>1. /\ t \in Used /\ LQ[t].producer_id = SQ[j].instr_id
            /\ LQ[t].address = SQ[j].address /\ ~LQ[t].fetch_issued
        BY <1>6, <2>1, <3>2, DependFacts
      <4>2. LQ'[t] = LQ[t] BY <1>1, <1>4, <4>1
      <4> QED BY <1>3, <1>6, <4>1, <4>2
    <3> QED BY <1>6, <3>1, <3>2
  <2>2. ASSUME NEW t \in Used', LQ'[t].producer_id # None
        PROVE  \E j \in DOMAIN SQ : ~SQ'[j].fetch_issued /\ t \in SQ'[j].lq_depend_on_me
    <3>1. CASE t = s BY <1>1, <3>1
    <3>2. CASE t # s
      <4>1. t \in Used /\ LQ'[t] = LQ[t] BY <1>1, <1>3, <1>4, <3>2
      <4>2. PICK j \in DOMAIN SQ : ~SQ[j].fetch_issued /\ t \in SQ[j].lq_depend_on_me
        BY <2>2, <4>1 DEF DependInv, DependentsMatch
      <4> QED BY <1>6, <4>2
    <3> QED BY <3>1, <3>2
  <2> QED BY <1>5, <2>1, <2>2 DEF DependentsMatch
<1>8. ASSUME NEW i \in DOMAIN SQ, NEW j \in DOMAIN SQ, ~SQ'[i].fetch_issued, ~SQ'[j].fetch_issued, i # j
      PROVE  SQ'[i].lq_depend_on_me \cap SQ'[j].lq_depend_on_me = {}
  <2>1. ~SQ[i].fetch_issued /\ ~SQ[j].fetch_issued BY <1>6, <1>8
  <2>2. SQ[i].lq_depend_on_me \cap SQ[j].lq_depend_on_me = {} BY <1>8, <2>1 DEF DependInv
  <2>3. s \notin SQ[i].lq_depend_on_me /\ s \notin SQ[j].lq_depend_on_me
    BY <1>1, <2>1, DependFacts
  <2> QED BY <1>6, <1>8, <2>2, <2>3
<1>9. LoadsSeeOlderStores'
  <2> SUFFICES ASSUME NEW t \in Used', NEW j \in DOMAIN SQ,
                      SQ[j].instr_id < LQ'[t].instr_id, SQ[j].address = LQ'[t].address
               PROVE  LQ'[t].producer_id # None /\ SQ[j].instr_id <= LQ'[t].producer_id
    BY <1>5, <1>6 DEF LoadsSeeOlderStores
  <2>1. CASE t = s
    <3>1. SQ[k].instr_id # None
      <4>1. 0 \notin Ids BY Constants DEF Ids
      <4> QED BY <4>1, QueueFacts DEF None
    <3> QED BY <1>1, <2>1, <3>1 DEF StoresTo
  <2>2. CASE t # s
    <3>1. t \in Used /\ LQ'[t] = LQ[t] BY <1>1, <1>3, <1>4, <2>2
    <3> QED BY <3>1 DEF LoadsSeeOlderStores
  <2> QED BY <2>1, <2>2
<1> QED BY <1>5, <1>7, <1>8, <1>9 DEF DependInv

\* The loads in the queue are not younger than the new stores.
LEMMA DependPlaceStores ==
  ASSUME TypeOK, OrderInv, PlaceInv, MemInv, DependInv, LoadsSeeOlderStores, TypeOK', PlaceStores
  PROVE  DependInv' /\ LoadsSeeOlderStores'
<1>1. PICK m \in Seq(Addresses) :
        /\ Len(SQ') = Len(SQ) + Len(m) /\ \A k \in DOMAIN SQ : SQ'[k] = SQ[k]
        /\ \A k \in (Len(SQ) + 1)..(Len(SQ) + Len(m)) :
             SQ'[k].instr_id = Dispatched /\ SQ'[k].lq_depend_on_me = {}
        /\ LQ' = LQ
  BY NewStoresFacts
<1>2. /\ \A k \in DOMAIN SQ' : \/ k \in DOMAIN SQ /\ SQ'[k] = SQ[k]
                               \/ SQ'[k].instr_id = Dispatched /\ SQ'[k].lq_depend_on_me = {}
      /\ DOMAIN SQ \subseteq DOMAIN SQ'
  <2>1. SQ' \in Seq(store_type) BY DEF TypeOK
  <2>2. DOMAIN SQ' = 1..(Len(SQ) + Len(m)) BY <1>1, <2>1
  <2>3. Len(m) \in Nat /\ Len(SQ) \in Nat /\ DOMAIN SQ = 1..Len(SQ) BY QueueFacts
  <2>4. DOMAIN SQ \subseteq DOMAIN SQ' /\ DOMAIN SQ' = DOMAIN SQ \cup (Len(SQ) + 1)..(Len(SQ) + Len(m))
    BY <2>2, <2>3
  <2> QED BY <1>1, <2>4
<1>3. Used' = Used BY <1>1 DEF Used
<1>4. DependentsMatch'
  <2>1. ASSUME NEW k \in DOMAIN SQ', ~SQ'[k].fetch_issued, NEW s \in SQ'[k].lq_depend_on_me
        PROVE  /\ s \in Used' /\ LQ'[s].producer_id = SQ'[k].instr_id
               /\ LQ'[s].address = SQ'[k].address /\ ~LQ'[s].fetch_issued
    <3>1. k \in DOMAIN SQ /\ SQ'[k] = SQ[k] BY <1>2, <2>1
    <3> QED BY <1>1, <1>3, <2>1, <3>1, DependFacts
  <2>2. ASSUME NEW s \in Used', LQ'[s].producer_id # None
        PROVE  \E k \in DOMAIN SQ' : ~SQ'[k].fetch_issued /\ s \in SQ'[k].lq_depend_on_me
    <3>1. PICK k \in DOMAIN SQ : ~SQ[k].fetch_issued /\ s \in SQ[k].lq_depend_on_me
      BY <1>1, <1>3, <2>2 DEF DependInv, DependentsMatch
    <3> QED BY <1>1, <1>2, <3>1
  <2> QED BY <2>1, <2>2 DEF DependentsMatch
<1>5. ASSUME NEW j \in DOMAIN SQ', NEW k \in DOMAIN SQ', ~SQ'[j].fetch_issued, ~SQ'[k].fetch_issued, j # k
      PROVE  SQ'[j].lq_depend_on_me \cap SQ'[k].lq_depend_on_me = {}
  <2>1. CASE SQ'[j].lq_depend_on_me = {} \/ SQ'[k].lq_depend_on_me = {} BY <2>1
  <2>2. CASE j \in DOMAIN SQ /\ SQ'[j] = SQ[j] /\ k \in DOMAIN SQ /\ SQ'[k] = SQ[k]
    BY <1>5, <2>2 DEF DependInv
  <2> QED BY <1>2, <2>1, <2>2
<1>6. LoadsSeeOlderStores'
  <2> SUFFICES ASSUME NEW s \in Used, NEW k \in DOMAIN SQ',
                      SQ'[k].instr_id < LQ[s].instr_id, SQ'[k].address = LQ[s].address
               PROVE  LQ[s].producer_id # None /\ SQ'[k].instr_id <= LQ[s].producer_id
    BY <1>1, <1>3 DEF LoadsSeeOlderStores
  <2>1. SQ'[k].instr_id # Dispatched
    <3>1. LQ[s].instr_id \in Live BY DEF MemInv
    <3>2. LQ[s].instr_id <= Dispatched /\ LQ[s].instr_id \in Nat BY <3>1, LiveFacts DEF Live
    <3>3. Dispatched \in Nat BY LiveFacts
    <3> QED BY <3>2, <3>3
  <2>2. k \in DOMAIN SQ /\ SQ'[k] = SQ[k] BY <1>2, <2>1
  <2> QED BY <2>2 DEF LoadsSeeOlderStores
<1> QED BY <1>4, <1>5, <1>6 DEF DependInv

LEMMA DependStep ==
  ASSUME TypeOK, OrderInv, PlaceInv, StoreInv, MemInv, DependInv, LoadsSeeOlderStores, Next, TypeOK'
  PROVE  DependInv' /\ LoadsSeeOlderStores'
<1>1. CASE \/ IdleStep \/ NextStage \/ RegisterStep \/ Dispatch \/ Tick
           \/ (\E s \in Slots : ExecuteLoad(s)) \/ (\E k \in DOMAIN SQ : ForwardLoad(k))
  <2>1. QueuesKept BY <1>1, QueuesKeptStep
  <2> QED BY <2>1, DependKept
<1>2. CASE MemoryReturn \/ (\E k \in DOMAIN SQ : FinishStore(k)) BY <1>2, DependReturnOrFinish
<1>3. CASE CompleteStore BY <1>3, DependCompleteStore
<1>4. CASE \E s \in Slots : PlaceLoad(s) BY <1>4, DependPlaceLoad
<1>5. CASE \E k \in DOMAIN SQ, s \in Slots : PlaceDependentLoad(s, k) BY <1>5, DependPlaceDependent
<1>6. CASE PlaceStores BY <1>6, DependPlaceStores
<1> QED BY <1>1, <1>2, <1>3, <1>4, <1>5, <1>6, NextCases DEF MemoryStep, PlaceStep, DispatchStep
-----------------------------------------------------------------------------
(* The theorems *)

LEMMA InitInv ==
  Init => IInv
<1> SUFFICES ASSUME Init PROVE IInv OBVIOUS
<1>1. /\ pc = "idle" /\ bw = 0 /\ warmup \in BOOLEAN
      /\ trace = <<>> /\ DISPATCH_BUFFER = <<>> /\ ROB = <<>>
      /\ LQ = [s \in Slots |-> NoLoad] /\ SQ = <<>>
      /\ reg_producers = [r \in Registers |-> {}] /\ todo = <<>>
      /\ asked = <<>> /\ returned = <<>> /\ written = <<>> /\ taken = 0
  BY DEF Init
<1>2. TypeOK
  <2>1. trace \in Seq(instr_type) /\ Len(trace) <= TraceLength BY <1>1, Constants
  <2>2. ROB \in Seq(rob_type) /\ Len(ROB) <= ROB_SIZE BY <1>1, Constants
  <2>3. SQ \in Seq(store_type) /\ Len(SQ) <= SQ_SIZE BY <1>1, Constants
  <2>4. LQ \in [Slots -> load_type \cup {NoLoad}] BY <1>1
  <2>5. reg_producers \in [Registers -> SUBSET Ids] BY <1>1
  <2>6. written \in Seq(Ids) /\ taken \in 0..Len(written) /\ todo \in Seq(Addresses) BY <1>1
  <2>7. /\ {asked, returned} \subseteq Seq({BlockOf[a] : a \in Addresses})
        /\ DISPATCH_BUFFER \in Seq([instr_id : Ids, left : Int])
    BY <1>1
  <2>8. pc = "idle" /\ bw \in Nat /\ warmup \in BOOLEAN BY <1>1
  <2> QED BY <2>1, <2>2, <2>3, <2>4, <2>5, <2>6, <2>7, <2>8 DEF TypeOK
<1>3. Dispatched = 0 /\ Oldest = 0
  <2>1. Len(trace) = 0 /\ Len(DISPATCH_BUFFER) = 0 /\ Len(ROB) = 0 BY <1>1
  <2> QED BY <2>1 DEF Dispatched, Oldest
<1>4. Live = {} BY <1>3 DEF Live
<1>5. Used = {} BY <1>1 DEF Used
<1>6. DOMAIN SQ = {} /\ DOMAIN written = {} /\ DOMAIN DISPATCH_BUFFER = {} BY <1>1
<1>7. OrderInv BY <1>3, <1>4, <1>6 DEF OrderInv
<1>8. PlaceInv /\ StoreInv BY <1>1, <1>6 DEF PlaceInv, StoreInv
<1>9. MemInv /\ DependInv /\ LoadsSeeOlderStores
  BY <1>4, <1>5, <1>6 DEF MemInv, DependInv, DependentsMatch, LoadsSeeOlderStores
<1>10. RegInv BY <1>1, <1>4 DEF RegInv
<1>11. ReadyInv BY <1>4 DEF ReadyInv
<1> QED BY <1>2, <1>7, <1>8, <1>9, <1>10, <1>11 DEF IInv

LEMMA InvStep ==
  IInv /\ [Next]_vars => IInv'
<1> SUFFICES ASSUME IInv, [Next]_vars PROVE IInv' OBVIOUS
<1>0. TypeOK /\ OrderInv /\ PlaceInv /\ StoreInv /\ MemInv /\ DependInv
      /\ LoadsSeeOlderStores /\ RegInv /\ ReadyInv
  BY DEF IInv
<1>1. CASE Next
  <2>1. TypeOK' BY <1>0, <1>1, TypeStep
  <2>2. OrderInv' /\ RegInv' /\ ReadyInv' BY <1>0, <1>1, RegistersStep
  <2>3. StoreInv' BY <1>0, <1>1, <2>1, StoresStep
  <2>4. PlaceInv' BY <1>0, <1>1, PlaceStepInv
  <2>5. MemInv' BY <1>0, <1>1, <2>1, MemStep
  <2>6. DependInv' /\ LoadsSeeOlderStores' BY <1>0, <1>1, <2>1, DependStep
  <2> QED BY <2>1, <2>2, <2>3, <2>4, <2>5, <2>6 DEF IInv
<1>2. CASE UNCHANGED vars
  <2>1. UNCHANGED <<pc, bw, warmup, trace, DISPATCH_BUFFER, ROB, LQ, SQ, reg_producers, todo,
                    asked, returned, written, taken>>
    BY <1>2 DEF vars, queues, L1D
  <2>2. Dispatched' = Dispatched /\ Oldest' = Oldest BY <2>1 DEF Dispatched, Oldest
  <2>3. Live' = Live /\ Used' = Used BY <2>1, <2>2 DEF Live, Used
  <2>4. \A id : At(id)' = At(id) BY <2>1, <2>2 DEF At
  <2>5. TypeOK' /\ StoreInv' BY <1>0, <2>1, <2>2 DEF TypeOK, StoreInv
  <2>6. OrderInv' BY <1>0, <2>1, <2>2, <2>3, <2>4 DEF OrderInv
  <2>7. PlaceInv' BY <1>0, <2>1, <2>2, <2>3 DEF PlaceInv, SQRoom
  <2>8. MemInv'
    <3>1. \A id : /\ LoadsOf(id)' = LoadsOf(id) /\ StoresOf(id)' = StoresOf(id)
                  /\ Unread(id)' = Unread(id) /\ num_mem_ops(id)' = num_mem_ops(id)
      BY <2>1, <2>2 DEF LoadsOf, StoresOf, Unread, num_mem_ops
    <3> QED BY <1>0, <2>1, <2>3, <2>4, <3>1 DEF MemInv
  <2>9. DependInv' /\ LoadsSeeOlderStores'
    BY <1>0, <2>1, <2>3 DEF DependInv, DependentsMatch, LoadsSeeOlderStores
  <2>10. RegInv'
    <3>1. \A id : WaitsFor(id)' = WaitsFor(id) BY <2>3, <2>4 DEF WaitsFor
    <3>2. \A p, id, r : /\ Writes(p, r)' = Writes(p, r)
                        /\ LastWriter(p, id, r)' = LastWriter(p, id, r)
      BY <2>1, <2>3 DEF Writes, LastWriter
    <3> QED BY <1>0, <2>1, <2>3, <2>4, <3>1, <3>2 DEF RegInv
  <2>11. ReadyInv'
    <3>1. \A p, id, r : LastWriter(p, id, r)' = LastWriter(p, id, r)
      BY <2>1, <2>3 DEF Writes, LastWriter
    <3> QED BY <1>0, <2>1, <2>3, <2>4, <3>1 DEF ReadyInv
  <2> QED BY <2>5, <2>6, <2>7, <2>8, <2>9, <2>10, <2>11 DEF IInv
<1> QED BY <1>1, <1>2

\* The back end keeps ROB, LQ, SQ, the producers of the registers and what the L1D
\* has been given in agreement with the program order.
THEOREM Invariance ==
  Spec => []IInv
BY InitInv, InvStep, PTL DEF Spec

\* Every memory operation of an instruction is done, or waits in one slot of LQ or
\* SQ or is still to be placed, so that do_complete_execution comes neither early
\* nor never; LSQ_ENTRY::finish finds its instruction in the ROB, do_finish_store
\* finds the loads that depend on it in their slots, and the L1D is given the stores
\* in program order, after they have retired.
THEOREM QueuesAlwaysAgree ==
  Spec => []QueuesAgree
<1>1. IInv => QueuesAgree
  <2> SUFFICES ASSUME IInv PROVE QueuesAgree OBVIOUS
  <2>0. TypeOK /\ OrderInv /\ PlaceInv /\ StoreInv /\ MemInv /\ DependInv BY DEF IInv
  <2>1. MemOpsAccounted
    <3>1. ASSUME NEW i \in DOMAIN ROB
          PROVE  LET id == ROB[i].instr_id
                 IN ROB[i].completed_mem_ops + Cardinality(LoadsOf(id)) + Cardinality(StoresOf(id))
                      + Unplaced(id) = num_mem_ops(id)
      <4>1. PICK id \in Live : ROB[i].instr_id = id /\ ROB[i] = At(id) BY <2>0, LiveFacts
      <4>2. ROB # <<>> OBVIOUS
      <4>3. Unplaced(id) = Unread(id)
        <5>1. me = Dispatched BY <2>0, <4>2, LiveIndex
        <5> QED BY <5>1 DEF Unplaced, Unread
      <4> QED BY <2>0, <4>1, <4>3 DEF MemInv
    <3>2. \A s \in Used : InROB(LQ[s].instr_id) BY <2>0, LiveIndex DEF MemInv
    <3>3. \A k \in DOMAIN SQ : ~SQ[k].fetch_issued => InROB(SQ[k].instr_id)
      BY <2>0, LiveIndex DEF MemInv
    <3> QED BY <3>1, <3>2, <3>3 DEF MemOpsAccounted
  <2>2. StoresInOrder
    <3>1. ASSUME NEW i \in DOMAIN written PROVE ~InROB(written[i])
      <4>1. written[i] <= Oldest BY <2>0 DEF StoreInv
      <4>2. Oldest \in Nat /\ \A id \in Live : id >= Oldest + 1 BY <2>0, LiveFacts DEF Live
      <4>3. written[i] \in Nat
        <5>1. written[i] \in Ids BY <2>0 DEF TypeOK
        <5> QED BY <5>1, Constants DEF Ids
      <4>4. written[i] \notin Live BY <4>1, <4>2, <4>3
      <4> QED BY <2>0, <4>4, LiveIndex
    <3> QED BY <2>0, <3>1 DEF StoresInOrder, StoreInv
  <2> QED BY <2>0, <2>1, <2>2 DEF QueuesAgree, DependInv
<1> QED BY <1>1, Invariance, PTL

\* A load never misses an older store to its address that has not been written: it
\* waits for the youngest one.
THEOREM LoadsAlwaysSeeOlderStores ==
  Spec => []LoadsSeeOlderStores
<1>1. IInv => LoadsSeeOlderStores BY DEF IInv
<1> QED BY <1>1, Invariance, PTL

\* An instruction executes only when the last older writer of each of its registers
\* has completed, whatever the order in which the others complete and retire.
THEOREM RegistersAreAlwaysReady ==
  Spec => []RegistersAreReady
<1>1. IInv => RegistersAreReady
  <2> SUFFICES ASSUME IInv, NEW i \in DOMAIN ROB, ROB[i].executed # "no",
                      NEW r \in trace[ROB[i].instr_id].source_registers, Writers(i, r) # {}
               PROVE  ROB[Max(Writers(i, r))].executed = "COMPLETED"
    BY DEF RegistersAreReady
  <2>0. TypeOK /\ OrderInv /\ ReadyInv BY DEF IInv
  <2>1. PICK id \in Live : id = Oldest + i /\ ROB[i].instr_id = id /\ ROB[i] = At(id)
    BY <2>0, LiveFacts
  <2>2. Oldest \in Nat /\ Len(ROB) \in Nat /\ DOMAIN ROB = 1..Len(ROB) BY <2>0, LiveFacts
  <2>3. i \in Nat /\ 1..(i - 1) \subseteq DOMAIN ROB BY <2>2
  <2>4. Writers(i, r) \subseteq 1..(i - 1) BY DEF Writers
  <2>5. \A j \in Writers(i, r) : Writes(Oldest + j, r)
    BY <2>0, <2>3, <2>4, LiveFacts DEF Writers, Writes
  <2> DEFINE m == Max(Writers(i, r))
  <2>6. m \in Writers(i, r) /\ \A j \in Writers(i, r) : j <= m
    <3>1. Writers(i, r) \subseteq 0..i BY <2>3, <2>4
    <3> QED BY <2>3, <3>1, GreatestOf
  <2> HIDE DEF m
  <2>7. m \in 1..(i - 1) /\ m \in DOMAIN ROB BY <2>3, <2>4, <2>6
  <2>8. PICK p \in Live : p = Oldest + m /\ ROB[m] = At(p) BY <2>0, <2>7, LiveFacts
  <2>9. p < id BY <2>1, <2>2, <2>3, <2>7, <2>8
  <2>10. ASSUME NEW q \in Live, q < id, Writes(q, r) PROVE q <= p
    <3>1. q - Oldest \in DOMAIN ROB /\ q \in Int /\ ROB[q - Oldest].instr_id = q
      BY <2>0, LiveFacts DEF At, Live
    <3>2. q - Oldest \in 1..(i - 1) BY <2>1, <2>2, <2>3, <2>10, <3>1
    <3>3. q - Oldest \in Writers(i, r) BY <2>10, <3>1, <3>2 DEF Writers, Writes
    <3>4. q - Oldest <= m BY <2>6, <3>3
    <3> QED BY <2>2, <2>7, <2>8, <3>1, <3>4
  <2>11. LastWriter(p, id, r) BY <2>5, <2>6, <2>8, <2>9, <2>10 DEF LastWriter
  <2>12. At(p).executed = "COMPLETED" BY <2>0, <2>1, <2>11 DEF ReadyInv
  <2> QED BY <2>8, <2>12 DEF m
<1> QED BY <1>1, Invariance, PTL
==============================================================================
