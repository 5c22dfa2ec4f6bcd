---------------------------- MODULE Cache_proofs ----------------------------
(***************************************************************************)
(* Proofs about one cache of physical addresses, for any number of upper   *)
(* levels, loads, blocks, sets and ways, any sizes, latencies and          *)
(* bandwidths.  The invariant has a part for each hazard: what each queue  *)
(* and pipeline may hold (TypeInv), that a queue has one checked request   *)
(* for a block, in front of those not checked (MergedInv), that what is    *)
(* due stands in front (TimeInv), that the MSHRs and the level below agree *)
(* (LowerInv), that tag checks stay within their bandwidth (BoundInv), and *)
(* that a load is held once, by something that answers it (HeldInv).       *)
(***************************************************************************)
EXTENDS Cache, FiniteSetTheorems, WellFoundedInduction, NaturalsInduction, TLAPS

Readers == {r \in Request : r.type # "WRITE"}
Writers == {r \in Request : r.type = "WRITE" /\ r.instr_depend_on_me = {}}
TagEntries == {e \in tag_lookup_type :
                 e.type = "WRITE" \/ e.prefetch_from_this => e.instr_depend_on_me = {}}
OwnPrefetches == {e \in TagEntries : e.prefetch_from_this /\ e.type # "WRITE"}
MissEntries == {e \in mshr_type : e.type = "WRITE" => match_offset_bits}
WriteEntries == {e \in mshr_type :
                   e.type = "WRITE" /\ e.left # Never /\ e.instr_depend_on_me = {}}
Lines == {v \in BLOCK : v.valid <=> v.block # None}
Questions == [block : Blocks, queue : {"rq", "pq"}]

StageOK == /\ pc \in {"idle", "collide", "finish", "fill", "write", "start", "check", "cycle"}
           /\ bw \in 0..(MAX_TAG + MAX_FILL) /\ warmup \in BOOLEAN
QueuesOK == /\ RQ \in [Uppers -> Seq(Readers)] /\ PQ \in [Uppers -> Seq(Readers)]
            /\ WQ \in [Uppers -> Seq(Writers)]
PipesOK == /\ inflight_tag_check \in Seq(TagEntries) /\ internal_PQ \in Seq(OwnPrefetches)
           /\ MSHR \in Seq(MissEntries) /\ inflight_writes \in Seq(WriteEntries)
StoreOK == /\ block \in [Sets -> [Ways -> Lines]]
           /\ lower_WQ \in Seq(Blocks) /\ unwritten \subseteq Blocks
LowerOK == asked \subseteq Questions /\ returned \in Seq(Blocks)
WaitingOK == waiting \in [Loads -> Wanted \cup {None}]
TypeInv == StageOK /\ QueuesOK /\ PipesOK /\ StoreOK /\ LowerOK /\ WaitingOK

\* What is not checked stands behind what is, which has every key once.
KeyOnce(q, Key) == \A i, j \in DOMAIN q :
                     q[i].forward_checked /\ q[j].forward_checked /\ i < j =>
                       Key[q[i].address] # Key[q[j].address]
CheckedInFront(q) == \A i, j \in DOMAIN q : i < j /\ q[j].forward_checked => q[i].forward_checked
WriteKeys == [a \in Addresses |-> WriteKey(a)]
MergedInv == \A u \in Uppers :
               /\ CheckedInFront(RQ[u]) /\ CheckedInFront(PQ[u]) /\ CheckedInFront(WQ[u])
               /\ KeyOnce(RQ[u], BlockOf) /\ KeyOnce(PQ[u], BlockOf)
               /\ KeyOnce(WQ[u], WriteKeys)

\* A pipeline is in order, and nothing in it is further away than what comes next.
InTime(q, latency) == /\ \A i \in DOMAIN q : q[i].left # Never => q[i].left \in 0..latency
                      /\ Ordered(q)
TimeInv == /\ InTime(MSHR, Fill_latency) /\ InTime(inflight_writes, Fill_latency)
           /\ InTime(inflight_tag_check, Hit_latency)

OnePerBlock(q) == \A i, j \in DOMAIN q : q[i].block = q[j].block => i = j
OutstandingBlocks(q) == {q[i].block : i \in Outstanding(q)}
LowerInv == /\ Len(MSHR) <= MSHR_SIZE /\ OnePerBlock(MSHR) /\ IsFiniteSet(asked)
            /\ \A r, s \in asked : r.block = s.block => r = s
            /\ \A i, j \in DOMAIN returned : returned[i] = returned[j] => i = j
            /\ \A r \in asked : r.block \notin ToSet(returned)
            /\ OutstandingBlocks(MSHR) = BlocksOf(asked) \cup ToSet(returned)

BoundInv == /\ TagsBounded
            /\ pc = "start" /\ bw > 0 => Len(inflight_tag_check) + bw <= MAX_TAG * HIT_LATENCY

\* The loads of each place are waited for, by a level that it answers.
RequestsServe(q, u) ==
  \A i \in DOMAIN q : \A l \in q[i].instr_depend_on_me :
    q[i].response_requested /\ waiting[l] = [upper |-> u, block |-> BlockOf[q[i].address]]
Serves(e) == \A l \in e.instr_depend_on_me :
               /\ waiting[l] \in Wanted
               /\ waiting[l].upper \in e.to_return /\ waiting[l].block = e.block
EntriesServe(q) == \A i \in DOMAIN q : Serves(q[i])
ServeInv == /\ \A u \in Uppers : RequestsServe(RQ[u], u) /\ RequestsServe(PQ[u], u)
            /\ EntriesServe(inflight_tag_check) /\ EntriesServe(MSHR)

\* Of the queues and pipelines that hold loads, one holds each that is waited for, once.
NoneIn(q, l) == \A i \in DOMAIN q : l \notin q[i].instr_depend_on_me
OneIn(q, l) == \E i \in DOMAIN q : /\ l \in q[i].instr_depend_on_me
                                   /\ \A j \in DOMAIN q \ {i} : l \notin q[j].instr_depend_on_me
Rows == 1..(2 * NumUppers + 2)
PqRow(u) == NumUppers + u
TagRow == 2 * NumUppers + 1
MshrRow == 2 * NumUppers + 2
Layout(rq, pq, t, m) == [k \in Rows |-> IF k \in Uppers THEN rq[k]
                                        ELSE IF k = TagRow THEN t
                                        ELSE IF k = MshrRow THEN m ELSE pq[k - NumUppers]]
Queues == Layout(RQ, PQ, inflight_tag_check, MSHR)
Absent(Q, l) == \A k \in Rows : NoneIn(Q[k], l)
Once(Q, l) == \E k \in Rows : OneIn(Q[k], l) /\ \A n \in Rows \ {k} : NoneIn(Q[n], l)
HeldInv == \A l \in Loads : IF waiting[l] = None THEN Absent(Queues, l) ELSE Once(Queues, l)

\* A write that is not below yet: on its way in, or in a dirty way.
DirtyAt(b) == \E s \in Sets, w \in Ways : block[s][w] = [valid |-> TRUE, dirty |-> TRUE, block |-> b]
DirtyInv ==
  ~match_offset_bits =>
    \A b \in unwritten :
      \/ \E u \in Uppers : \E i \in DOMAIN WQ[u] : BlockOf[WQ[u][i].address] = b
      \/ \E q \in {inflight_tag_check, inflight_writes} : \E i \in Writes(q) : q[i].block = b
      \/ DirtyAt(b)

IInv == TypeInv /\ MergedInv /\ TimeInv /\ LowerInv /\ BoundInv /\ ServeInv /\ HeldInv /\ DirtyInv
-----------------------------------------------------------------------------
(* Sequences *)

LEMMA SeqGrows == ASSUME NEW S, NEW T, S \subseteq T, NEW s \in Seq(S) PROVE s \in Seq(T)
OBVIOUS

LEMMA ConcatAt ==
  ASSUME NEW S, NEW a \in Seq(S), NEW b \in Seq(S), NEW n \in 1..Len(b)
  PROVE  (a \o b)[Len(a) + n] = b[n]
OBVIOUS

LEMMA RemoveAtFacts ==
  ASSUME NEW S, NEW s \in Seq(S), NEW i \in DOMAIN s
  PROVE  /\ RemoveAt(s, i) \in Seq(S)
         /\ Len(RemoveAt(s, i)) = Len(s) - 1
         /\ \A j \in 1..(Len(s) - 1) : RemoveAt(s, i)[j] = s[IF j < i THEN j ELSE j + 1]
<1>1. Len(s) \in Nat /\ i \in 1..Len(s) OBVIOUS
<1>2. SubSeq(s, 1, i - 1) \in Seq(S) /\ Len(SubSeq(s, 1, i - 1)) = i - 1
      /\ \A j \in 1..(i - 1) : SubSeq(s, 1, i - 1)[j] = s[j]
  BY <1>1
<1>3. SubSeq(s, i + 1, Len(s)) \in Seq(S) /\ Len(SubSeq(s, i + 1, Len(s))) = Len(s) - i
      /\ \A j \in 1..(Len(s) - i) : SubSeq(s, i + 1, Len(s))[j] = s[i + j]
  BY <1>1
<1> DEFINE a == SubSeq(s, 1, i - 1)  b == SubSeq(s, i + 1, Len(s))
<1>4. RemoveAt(s, i) = a \o b BY DEF RemoveAt
<1> HIDE DEF a, b
<1>5. /\ a \in Seq(S) /\ Len(a) = i - 1 /\ \A j \in 1..(i - 1) : a[j] = s[j]
      /\ b \in Seq(S) /\ Len(b) = Len(s) - i /\ \A j \in 1..(Len(s) - i) : b[j] = s[i + j]
  BY <1>2, <1>3 DEF a, b
<1>6. a \o b \in Seq(S) /\ Len(a \o b) = Len(s) - 1 BY <1>1, <1>5
<1>7. ASSUME NEW j \in 1..(Len(s) - 1) PROVE (a \o b)[j] = s[IF j < i THEN j ELSE j + 1]
  <2>1. CASE j < i BY <1>1, <1>5, <2>1
  <2>2. CASE ~(j < i)
    <3>1. PICK n : n = j - (i - 1) OBVIOUS
    <3>2. n \in 1..(Len(s) - i) /\ j = (i - 1) + n /\ i + n = j + 1 BY <1>1, <2>2, <3>1
    <3>3. a \in Seq(S) /\ b \in Seq(S) /\ n \in 1..Len(b) BY <1>5, <3>2
    <3>4. (a \o b)[Len(a) + n] = b[n] BY <3>3, ConcatAt
    <3>5. Len(a) + n = j /\ b[n] = s[i + n] BY <1>5, <3>2
    <3> QED BY <2>2, <3>2, <3>4, <3>5
  <2> QED BY <2>1, <2>2
<1> QED BY <1>4, <1>6, <1>7

LEMMA AppendFacts ==
  ASSUME NEW S, NEW q \in Seq(S), NEW y \in S
  PROVE  /\ Append(q, y) \in Seq(S) /\ Len(Append(q, y)) = Len(q) + 1
         /\ DOMAIN Append(q, y) = DOMAIN q \cup {Len(q) + 1} /\ Len(q) + 1 \notin DOMAIN q
         /\ Append(q, y)[Len(q) + 1] = y
         /\ \A i \in DOMAIN q : Append(q, y)[i] = q[i] /\ i < Len(q) + 1
OBVIOUS

LEMMA TailFacts ==
  ASSUME NEW S, NEW q \in Seq(S), q # <<>>
  PROVE  /\ Tail(q) \in Seq(S) /\ Len(Tail(q)) = Len(q) - 1 /\ Len(q) \in Nat \ {0}
         /\ 1 \in DOMAIN q /\ q[1] \in S
         /\ \A i \in DOMAIN Tail(q) : i \in Nat /\ i + 1 \in DOMAIN q /\ Tail(q)[i] = q[i + 1]
         /\ \A i \in DOMAIN q : i # 1 => i - 1 \in DOMAIN Tail(q) /\ Tail(q)[i - 1] = q[i]
<1>1. Len(q) \in Nat \ {0} /\ DOMAIN q = 1..Len(q) OBVIOUS
<1>2. Tail(q) \in Seq(S) /\ Len(Tail(q)) = Len(q) - 1 /\ DOMAIN Tail(q) = 1..(Len(q) - 1)
      /\ \A i \in DOMAIN Tail(q) : Tail(q)[i] = q[i + 1]
  BY <1>1
<1>3. ASSUME NEW i \in DOMAIN q, i # 1 PROVE i - 1 \in DOMAIN Tail(q) /\ Tail(q)[i - 1] = q[i]
  <2>1. i - 1 \in 1..(Len(q) - 1) /\ (i - 1) + 1 = i BY <1>1, <1>3
  <2> QED BY <1>2, <2>1
<1>4. \A i \in DOMAIN Tail(q) : i \in Nat /\ i + 1 \in DOMAIN q BY <1>1, <1>2
<1>5. 1 \in DOMAIN q /\ q[1] \in S BY <1>1
<1> QED BY <1>1, <1>2, <1>3, <1>4, <1>5
-----------------------------------------------------------------------------
(* One queue of a channel *)

\* What do_collision_for_merge makes of an entry and the one that joins it.
Joined(a, b) ==
  [a EXCEPT !.response_requested = @ \/ b.response_requested,
            !.instr_depend_on_me = @ \cup b.instr_depend_on_me]

LEMMA JoinedFacts ==
  ASSUME NEW a \in Request, NEW b \in Request
  PROVE  /\ Joined(a, b) \in Request
         /\ Joined(a, b).address = a.address /\ Joined(a, b).type = a.type
         /\ Joined(a, b).forward_checked = a.forward_checked
         /\ Joined(a, b).instr_depend_on_me = a.instr_depend_on_me \cup b.instr_depend_on_me
         /\ Joined(a, b).response_requested = (a.response_requested \/ b.response_requested)
BY DEF Joined, Request

LEMMA MergeFacts ==
  ASSUME NEW q \in Seq(Request), NEW i \in DOMAIN q, NEW j \in DOMAIN q, i < j
  PROVE  /\ Len(Merge(q, i, j)) = Len(q) - 1 /\ Merge(q, i, j) \in Seq(Request)
         /\ \A k \in 1..(Len(q) - 1) :
              Merge(q, i, j)[k] = IF k = i THEN Joined(q[i], q[j])
                                  ELSE q[IF k < j THEN k ELSE k + 1]
<1> DEFINE m == [q EXCEPT ![i].response_requested = @ \/ q[j].response_requested,
                          ![i].instr_depend_on_me = @ \cup q[j].instr_depend_on_me]
<1>1. q[i] \in Request /\ q[j] \in Request /\ Len(q) \in Nat /\ DOMAIN q = 1..Len(q) OBVIOUS
<1>2. m = [q EXCEPT ![i] = Joined(q[i], q[j])] BY <1>1 DEF Joined, Request
<1> HIDE DEF m
<1>3. /\ m \in Seq(Request) /\ Len(m) = Len(q) /\ DOMAIN m = DOMAIN q
      /\ m[i] = Joined(q[i], q[j]) /\ \A k \in DOMAIN q : k # i => m[k] = q[k]
  BY <1>1, <1>2, JoinedFacts
<1>4. Merge(q, i, j) = RemoveAt(m, j) BY DEF Merge, m
<1>5. /\ RemoveAt(m, j) \in Seq(Request) /\ Len(RemoveAt(m, j)) = Len(q) - 1
      /\ \A k \in 1..(Len(q) - 1) : RemoveAt(m, j)[k] = m[IF k < j THEN k ELSE k + 1]
  BY <1>3, RemoveAtFacts
<1>6. ASSUME NEW k \in 1..(Len(q) - 1)
      PROVE  Merge(q, i, j)[k] = IF k = i THEN Joined(q[i], q[j])
                                 ELSE q[IF k < j THEN k ELSE k + 1]
  <2>1. Merge(q, i, j)[k] = m[IF k < j THEN k ELSE k + 1] BY <1>4, <1>5
  <2>2. CASE k = i BY <2>1, <2>2, <1>3
  <2>3. CASE k # i /\ k < j BY <2>1, <2>3, <1>1, <1>3
  <2>4. CASE k # i /\ ~(k < j)
    <3>1. k + 1 \in DOMAIN q /\ k + 1 # i BY <1>1, <2>4
    <3> QED BY <2>1, <2>4, <3>1, <1>3
  <2> QED BY <2>2, <2>3, <2>4
<1> QED BY <1>4, <1>5, <1>6

LEMMA CheckedFacts ==
  ASSUME NEW q \in Seq(Request), NEW j \in DOMAIN q
  PROVE  /\ Checked(q, j) \in Seq(Request) /\ Len(Checked(q, j)) = Len(q)
         /\ DOMAIN Checked(q, j) = DOMAIN q
         /\ \A i \in DOMAIN q : i # j => Checked(q, j)[i] = q[i]
         /\ Checked(q, j)[j] = [q[j] EXCEPT !.forward_checked = TRUE]
<1>1. q[j] \in Request OBVIOUS
<1>2. [q[j] EXCEPT !.forward_checked = TRUE] \in Request BY <1>1 DEF Request
<1>3. Checked(q, j) = [q EXCEPT ![j] = [q[j] EXCEPT !.forward_checked = TRUE]] BY DEF Checked
<1> QED BY <1>2, <1>3

LEMMA FirstOf ==
  ASSUME NEW S \in SUBSET Nat, S # {}
  PROVE  /\ \E i \in S : First(S, i)
         /\ First(S, CHOOSE i \in S : First(S, i)) /\ (CHOOSE i \in S : First(S, i)) \in S
<1>1. PICK i \in S : \A j \in Nat : <<j, i>> \in OpToRel(<, Nat) => j \notin S
  BY NatLessThanWellFounded, WFMin
<1>2. \A j \in S : ~(j < i) BY <1>1 DEF OpToRel
<1>3. \A j \in S : i <= j BY <1>2
<1>4. First(S, i) BY <1>3 DEF First
<1> QED BY <1>4 DEF First

\* The three ways of a read or a prefetch that is looked at: answered from WQ, merged
\* into an earlier one, or kept.
Forwarded(u, q, j) == SameWrite(WQ[u], Len(WQ[u]), q[j]) # {}
LEMMA CheckedReadsCases ==
  ASSUME NEW u, NEW q \in Seq(Request), NEW j \in DOMAIN q
  PROVE  \/ Forwarded(u, q, j) /\ CheckedReads(u, q, j) = RemoveAt(q, j)
         \/ /\ ~Forwarded(u, q, j)
            /\ \E i \in DOMAIN q : /\ i < j /\ BlockOf[q[i].address] = BlockOf[q[j].address]
                                   /\ CheckedReads(u, q, j) = Merge(q, i, j)
         \/ /\ ~Forwarded(u, q, j) /\ CheckedReads(u, q, j) = Checked(q, j)
            /\ \A i \in DOMAIN q : i < j => BlockOf[q[i].address] # BlockOf[q[j].address]
<1> DEFINE same == SameRead(q, j - 1, q[j])
<1>1. DOMAIN q = 1..Len(q) /\ Len(q) \in Nat OBVIOUS
<1>2. \A i : i \in same <=> /\ i \in DOMAIN q /\ i < j
                            /\ BlockOf[q[i].address] = BlockOf[q[j].address]
  BY <1>1 DEF SameRead
<1>3. same \in SUBSET Nat BY <1>1, <1>2
<1>4. CheckedReads(u, q, j) = IF Forwarded(u, q, j) THEN RemoveAt(q, j)
                              ELSE IF same # {} THEN Merge(q, CHOOSE i \in same : First(same, i), j)
                              ELSE Checked(q, j)
  BY DEF CheckedReads, Forwarded
<1> HIDE DEF same
<1>5. CASE Forwarded(u, q, j) BY <1>4, <1>5
<1>6. CASE ~Forwarded(u, q, j) /\ same # {}
  <2>1. PICK i : i = CHOOSE k \in same : First(same, k) OBVIOUS
  <2>2. i \in same BY <1>3, <1>6, <2>1, FirstOf
  <2> QED BY <1>2, <1>4, <1>6, <2>1, <2>2
<1>7. CASE ~Forwarded(u, q, j) /\ same = {} BY <1>2, <1>4, <1>7
<1> QED BY <1>5, <1>6, <1>7

\* The same for a write, which nothing answers.
CheckedWrites(q, j) ==
  LET same == SameWrite(q, j - 1, q[j])
  IN IF same = {} THEN Checked(q, j) ELSE Merge(q, CHOOSE i \in same : First(same, i), j)
LEMMA CheckedWritesCases ==
  ASSUME NEW q \in Seq(Request), NEW j \in DOMAIN q
  PROVE  \/ \E i \in DOMAIN q : /\ i < j /\ WriteKey(q[i].address) = WriteKey(q[j].address)
                                /\ CheckedWrites(q, j) = Merge(q, i, j)
         \/ /\ CheckedWrites(q, j) = Checked(q, j)
            /\ \A i \in DOMAIN q : i < j => WriteKey(q[i].address) # WriteKey(q[j].address)
<1> DEFINE same == SameWrite(q, j - 1, q[j])
<1>1. DOMAIN q = 1..Len(q) /\ Len(q) \in Nat OBVIOUS
<1>2. \A i : i \in same <=> /\ i \in DOMAIN q /\ i < j
                            /\ WriteKey(q[i].address) = WriteKey(q[j].address)
  BY <1>1 DEF SameWrite
<1>3. same \in SUBSET Nat BY <1>1, <1>2
<1>4. CheckedWrites(q, j) = IF same = {} THEN Checked(q, j)
                            ELSE Merge(q, CHOOSE i \in same : First(same, i), j)
  BY DEF CheckedWrites
<1> HIDE DEF same
<1>5. CASE same # {}
  <2>1. PICK i : i = CHOOSE k \in same : First(same, k) OBVIOUS
  <2>2. i \in same BY <1>3, <1>5, <2>1, FirstOf
  <2> QED BY <1>2, <1>4, <1>5, <2>1, <2>2
<1>6. CASE same = {} BY <1>2, <1>4, <1>6
<1> QED BY <1>5, <1>6
-----------------------------------------------------------------------------
(* Types *)

LEMMA Constants ==
  /\ NumUppers \in Nat \ {0} /\ NUM_WAY \in Nat \ {0} /\ MSHR_SIZE \in Nat \ {0}
  /\ HIT_LATENCY \in Nat \ {0} /\ FILL_LATENCY \in Nat
  /\ MAX_TAG \in Nat \ {0} /\ MAX_FILL \in Nat \ {0} /\ LOWER_SIZE \in Nat \ {0}
  /\ None \notin Blocks /\ None \notin Wanted
BY CacheAssumption DEF Wanted

LEMMA StageKeeps == ASSUME TypeInv, [Next]_vars PROVE StageOK'
<1>1. StageOK BY DEF TypeInv
<1>2. MAX_TAG \in Nat /\ MAX_FILL \in Nat BY Constants
<1>3. CASE UNCHANGED <<pc, bw, warmup>> BY <1>1, <1>3 DEF StageOK
<1>4. CASE bw > 0 /\ bw' = bw - 1 /\ UNCHANGED <<pc, warmup>>
  BY <1>1, <1>2, <1>4 DEF StageOK
<1>5. CASE Arrive
  BY <1>3, <1>5 DEF Arrive, AddRq, AddPq, AddPqNoResponse, AddWq
<1>6. CASE LowerLevel BY <1>3, <1>6 DEF LowerLevel, LowerAnswers, LowerTakesWrite
<1>7. CASE EndWarmup BY <1>1, <1>7 DEF EndWarmup, StageOK
<1>8. CASE Prefetch BY <1>3, <1>8 DEF Prefetch, PrefetchLine
<1>9. CASE StartCycle \/ EndCollide \/ EndFinish \/ EndFill \/ EndCheck \/ Tick
  BY <1>1, <1>2, <1>9
     DEF StartCycle, EndCollide, EndFinish, EndFill, EndCheck, Tick, GoTo, StageOK
<1>10. CASE EndWrite \/ EndStart
  <2>1. TagBandwidth \in 0..MAX_TAG
    <3>1. PICK room : room = MAX_TAG * HIT_LATENCY - Len(inflight_tag_check) OBVIOUS
    <3>2. MAX_TAG * HIT_LATENCY \in Nat /\ Len(inflight_tag_check) \in Nat
      BY Constants DEF TypeInv, PipesOK
    <3>3. room \in Int BY <3>1, <3>2
    <3>4. TagBandwidth = IF room < 0 THEN 0 ELSE IF room < MAX_TAG THEN room ELSE MAX_TAG
      BY <3>1 DEF TagBandwidth
    <3> QED BY <1>2, <3>3, <3>4
  <2> QED BY <1>1, <1>2, <1>10, <2>1 DEF EndWrite, EndStart, GoTo, StageOK
<1>11. CASE \E u \in Uppers : \/ \E j \in At(WQ[u]) : CheckWq(u, j)
                              \/ \E j \in At(RQ[u]) : CheckRq(u, j)
                              \/ \E j \in At(PQ[u]) : CheckPq(u, j)
  BY <1>3, <1>11 DEF CheckWq, CheckRq, CheckPq
<1>12. CASE \E u \in Uppers : StartWq(u) \/ StartRq(u) \/ StartPq(u)
  BY <1>4, <1>12 DEF StartWq, StartRq, StartPq, Turn, Start
<1>13. CASE \E i, j \in At(MSHR) : FinishPacket(i, j) BY <1>3, <1>13 DEF FinishPacket
<1>14. CASE FillMshr \/ FillWrite \/ StartInternal
  BY <1>4, <1>14 DEF FillMshr, FillWrite, StartInternal, Turn
<1>15. CASE TryHit \/ HandleWrite \/ MergeMiss \/ SendMiss
  BY <1>4, <1>15 DEF TryHit, HandleWrite, MergeMiss, SendMiss, Miss, Checking, CheckDone
<1>16. CASE UNCHANGED vars BY <1>3, <1>16 DEF vars
<1> QED BY <1>5, <1>6, <1>7, <1>8, <1>9, <1>10, <1>11, <1>12, <1>13, <1>14, <1>15, <1>16
        DEF Next, Operate

\* What arrives is unchecked already.
LEMMA AddQueueAppends ==
  ASSUME NEW r \in Request, r.forward_checked = FALSE, NEW q
  PROVE  AddQueue(q, r) = Append(q, r)
<1>1. [r EXCEPT !.forward_checked = FALSE] = r BY DEF Request
<1> QED BY <1>1 DEF AddQueue

\* A request of a load, which wants a response, and one that wants none.
LoadRequest(a, t, l) == NewRequest(a, t, TRUE, {l})
LEMMA LoadRequestFacts ==
  ASSUME NEW a \in Addresses, NEW t \in {"LOAD", "PREFETCH"}, NEW l \in Loads
  PROVE  /\ LoadRequest(a, t, l) \in Readers /\ LoadRequest(a, t, l).address = a
         /\ LoadRequest(a, t, l).instr_depend_on_me = {l}
         /\ ~LoadRequest(a, t, l).forward_checked /\ LoadRequest(a, t, l).response_requested
<1>1. PICK r : r = LoadRequest(a, t, l) OBVIOUS
<1>2. /\ r \in Request /\ r.address = a /\ r.type = t /\ r.instr_depend_on_me = {l}
      /\ r.forward_checked = FALSE /\ r.response_requested = TRUE
  BY <1>1 DEF LoadRequest, NewRequest, Request, access_type
<1> QED BY <1>1, <1>2 DEF Readers

LEMMA LoadRequestIsNew ==
  ASSUME NEW a, NEW t \in {"LOAD", "PREFETCH"}, NEW l, NEW q,
         LoadRequest(a, t, l) \in Request
  PROVE  AddQueue(q, LoadRequest(a, t, l)) = Append(q, LoadRequest(a, t, l))
<1>1. PICK r : r = LoadRequest(a, t, l) OBVIOUS
<1>2. r \in Request /\ r.forward_checked = FALSE BY <1>1 DEF LoadRequest, NewRequest
<1> QED BY <1>1, <1>2, AddQueueAppends

SilentRequest(a, t) == NewRequest(a, t, FALSE, {})
LEMMA SilentRequestFacts ==
  ASSUME NEW a \in Addresses, NEW t \in {"PREFETCH", "WRITE"}
  PROVE  /\ SilentRequest(a, t) \in Request /\ SilentRequest(a, t).address = a
         /\ SilentRequest(a, t).type = t /\ SilentRequest(a, t).instr_depend_on_me = {}
         /\ ~SilentRequest(a, t).forward_checked
         /\ \A q : AddQueue(q, SilentRequest(a, t)) = Append(q, SilentRequest(a, t))
<1>1. PICK r : r = SilentRequest(a, t) OBVIOUS
<1>2. /\ r \in Request /\ r.address = a /\ r.type = t /\ r.instr_depend_on_me = {}
      /\ r.forward_checked = FALSE
  BY <1>1 DEF SilentRequest, NewRequest, Request, access_type
<1>3. \A q : AddQueue(q, r) = Append(q, r) BY <1>2, AddQueueAppends
<1> QED BY <1>1, <1>2, <1>3

\* The requests that arrive, at the end of their queue.
LEMMA Arrivals ==
  ASSUME NEW u \in Uppers, NEW a \in Addresses
  PROVE  /\ \A l \in Loads :
              /\ AddRq(u, l, a) => RQ' = [RQ EXCEPT ![u] = Append(@, LoadRequest(a, "LOAD", l))]
              /\ AddPq(u, l, a) => PQ' = [PQ EXCEPT ![u] = Append(@, LoadRequest(a, "PREFETCH", l))]
         /\ AddPqNoResponse(u, a) => PQ' = [PQ EXCEPT ![u] = Append(@, SilentRequest(a, "PREFETCH"))]
         /\ AddWq(u, a) => WQ' = [WQ EXCEPT ![u] = Append(@, SilentRequest(a, "WRITE"))]
<1>1. ASSUME NEW l \in Loads, AddRq(u, l, a)
      PROVE  RQ' = [RQ EXCEPT ![u] = Append(@, LoadRequest(a, "LOAD", l))]
  <2>1. RQ' = [RQ EXCEPT ![u] = AddQueue(@, LoadRequest(a, "LOAD", l))]
    BY <1>1 DEF AddRq, LoadRequest
  <2>2. LoadRequest(a, "LOAD", l) \in Request BY LoadRequestFacts DEF Readers
  <2>3. AddQueue(RQ[u], LoadRequest(a, "LOAD", l)) = Append(RQ[u], LoadRequest(a, "LOAD", l))
    BY <2>2, LoadRequestIsNew
  <2> QED BY <2>1, <2>3
<1>2. ASSUME NEW l \in Loads, AddPq(u, l, a)
      PROVE  PQ' = [PQ EXCEPT ![u] = Append(@, LoadRequest(a, "PREFETCH", l))]
  <2>1. PQ' = [PQ EXCEPT ![u] = AddQueue(@, LoadRequest(a, "PREFETCH", l))]
    BY <1>2 DEF AddPq, LoadRequest
  <2>2. LoadRequest(a, "PREFETCH", l) \in Request BY LoadRequestFacts DEF Readers
  <2>3. AddQueue(PQ[u], LoadRequest(a, "PREFETCH", l)) = Append(PQ[u], LoadRequest(a, "PREFETCH", l))
    BY <2>2, LoadRequestIsNew
  <2> QED BY <2>1, <2>3
<1>3. ASSUME AddPqNoResponse(u, a)
      PROVE  PQ' = [PQ EXCEPT ![u] = Append(@, SilentRequest(a, "PREFETCH"))]
  <2>1. PQ' = [PQ EXCEPT ![u] = AddQueue(@, SilentRequest(a, "PREFETCH"))]
    BY <1>3 DEF AddPqNoResponse, SilentRequest
  <2> QED BY <2>1, SilentRequestFacts
<1>4. ASSUME AddWq(u, a) PROVE WQ' = [WQ EXCEPT ![u] = Append(@, SilentRequest(a, "WRITE"))]
  <2>1. WQ' = [WQ EXCEPT ![u] = AddQueue(@, SilentRequest(a, "WRITE"))]
    BY <1>4 DEF AddWq, SilentRequest
  <2> QED BY <2>1, SilentRequestFacts
<1> QED BY <1>1, <1>2, <1>3, <1>4

LEMMA CheckedReadsType ==
  ASSUME NEW u, NEW q \in Seq(Readers), NEW j \in DOMAIN q
  PROVE  CheckedReads(u, q, j) \in Seq(Readers)
<1>1. q \in Seq(Request) /\ \A i \in DOMAIN q : q[i] \in Readers BY SeqGrows DEF Readers
<1>2. CASE CheckedReads(u, q, j) = RemoveAt(q, j) BY <1>2, RemoveAtFacts
<1>3. ASSUME NEW i \in DOMAIN q, i < j, CheckedReads(u, q, j) = Merge(q, i, j)
      PROVE  CheckedReads(u, q, j) \in Seq(Readers)
  <2>1. Joined(q[i], q[j]) \in Readers BY <1>1, JoinedFacts DEF Readers
  <2>2. /\ Len(Merge(q, i, j)) = Len(q) - 1 /\ Merge(q, i, j) \in Seq(Request)
        /\ \A k \in 1..(Len(q) - 1) :
             Merge(q, i, j)[k] = IF k = i THEN Joined(q[i], q[j])
                                 ELSE q[IF k < j THEN k ELSE k + 1]
    BY <1>1, <1>3, MergeFacts
  <2>3. ASSUME NEW k \in 1..(Len(q) - 1) PROVE Merge(q, i, j)[k] \in Readers
    <3>1. (IF k < j THEN k ELSE k + 1) \in DOMAIN q OBVIOUS
    <3> QED BY <1>1, <2>1, <2>2, <3>1
  <2> QED BY <1>3, <2>2, <2>3
<1>4. CASE CheckedReads(u, q, j) = Checked(q, j)
  <2>1. [q[j] EXCEPT !.forward_checked = TRUE] \in Readers BY <1>1 DEF Readers, Request
  <2> QED BY <1>1, <1>4, <2>1, CheckedFacts
<1> QED BY <1>1, <1>2, <1>3, <1>4, CheckedReadsCases

LEMMA CheckedWritesType ==
  ASSUME NEW q \in Seq(Writers), NEW j \in DOMAIN q
  PROVE  CheckedWrites(q, j) \in Seq(Writers)
<1>1. q \in Seq(Request) /\ \A i \in DOMAIN q : q[i] \in Writers BY SeqGrows DEF Writers
<1>2. ASSUME NEW i \in DOMAIN q, i < j, CheckedWrites(q, j) = Merge(q, i, j)
      PROVE  CheckedWrites(q, j) \in Seq(Writers)
  <2>1. Joined(q[i], q[j]) \in Writers BY <1>1, JoinedFacts DEF Writers
  <2>2. /\ Len(Merge(q, i, j)) = Len(q) - 1 /\ Merge(q, i, j) \in Seq(Request)
        /\ \A k \in 1..(Len(q) - 1) :
             Merge(q, i, j)[k] = IF k = i THEN Joined(q[i], q[j])
                                 ELSE q[IF k < j THEN k ELSE k + 1]
    BY <1>1, <1>2, MergeFacts
  <2>3. ASSUME NEW k \in 1..(Len(q) - 1) PROVE Merge(q, i, j)[k] \in Writers
    <3>1. (IF k < j THEN k ELSE k + 1) \in DOMAIN q OBVIOUS
    <3> QED BY <1>1, <2>1, <2>2, <3>1
  <2> QED BY <1>2, <2>2, <2>3
<1>3. CASE CheckedWrites(q, j) = Checked(q, j)
  <2>1. [q[j] EXCEPT !.forward_checked = TRUE] \in Writers BY <1>1 DEF Writers, Request
  <2> QED BY <1>1, <1>3, <2>1, CheckedFacts
<1> QED BY <1>1, <1>2, <1>3, CheckedWritesCases

\* Only arrivals, check_collision and initiate_tag_check change the queues.
LEMMA QueuesKeep == ASSUME TypeInv, [Next]_vars PROVE QueuesOK'
<1>1. /\ RQ \in [Uppers -> Seq(Readers)] /\ PQ \in [Uppers -> Seq(Readers)]
      /\ WQ \in [Uppers -> Seq(Writers)]
  BY DEF TypeInv, QueuesOK
<1>2. CASE UNCHANGED queues BY <1>1, <1>2 DEF queues, QueuesOK
<1>3. ASSUME NEW u \in Uppers, NEW a \in Addresses, NEW l \in Loads, AddRq(u, l, a) \/ AddPq(u, l, a)
      PROVE  QueuesOK'
  <2>1. CASE AddRq(u, l, a)
    <3>1. RQ' = [RQ EXCEPT ![u] = Append(@, LoadRequest(a, "LOAD", l))] BY <2>1, Arrivals
    <3>2. PQ' = PQ /\ WQ' = WQ BY <2>1 DEF AddRq
    <3>3. Append(RQ[u], LoadRequest(a, "LOAD", l)) \in Seq(Readers) BY <1>1, LoadRequestFacts
    <3> QED BY <1>1, <3>1, <3>3, <3>2 DEF QueuesOK
  <2>2. CASE AddPq(u, l, a)
    <3>1. PQ' = [PQ EXCEPT ![u] = Append(@, LoadRequest(a, "PREFETCH", l))] BY <2>2, Arrivals
    <3>2. RQ' = RQ /\ WQ' = WQ BY <2>2 DEF AddPq
    <3>3. Append(PQ[u], LoadRequest(a, "PREFETCH", l)) \in Seq(Readers) BY <1>1, LoadRequestFacts
    <3> QED BY <1>1, <3>1, <3>3, <3>2 DEF QueuesOK
  <2> QED BY <1>3, <2>1, <2>2
<1>4. ASSUME NEW u \in Uppers, NEW a \in Addresses, AddPqNoResponse(u, a) \/ AddWq(u, a)
      PROVE  QueuesOK'
  <2>1. CASE AddPqNoResponse(u, a)
    <3>1. PQ' = [PQ EXCEPT ![u] = Append(@, SilentRequest(a, "PREFETCH"))] /\ RQ' = RQ /\ WQ' = WQ
      BY <2>1, Arrivals DEF AddPqNoResponse
    <3>2. SilentRequest(a, "PREFETCH") \in Readers BY SilentRequestFacts DEF Readers
    <3>3. Append(PQ[u], SilentRequest(a, "PREFETCH")) \in Seq(Readers) BY <1>1, <3>2
    <3> QED BY <1>1, <3>1, <3>3 DEF QueuesOK
  <2>2. CASE AddWq(u, a)
    <3>1. WQ' = [WQ EXCEPT ![u] = Append(@, SilentRequest(a, "WRITE"))] /\ RQ' = RQ /\ PQ' = PQ
      BY <2>2, Arrivals DEF AddWq
    <3>2. SilentRequest(a, "WRITE") \in Writers BY SilentRequestFacts DEF Writers
    <3>3. Append(WQ[u], SilentRequest(a, "WRITE")) \in Seq(Writers) BY <1>1, <3>2
    <3> QED BY <1>1, <3>1, <3>3 DEF QueuesOK
  <2> QED BY <1>4, <2>1, <2>2
<1>5. ASSUME NEW u \in Uppers, NEW j \in At(WQ[u]), CheckWq(u, j) PROVE QueuesOK'
  <2>1. WQ' = [WQ EXCEPT ![u] = CheckedWrites(@, j)] /\ RQ' = RQ /\ PQ' = PQ
    BY <1>5 DEF CheckWq, CheckedWrites
  <2>2. CheckedWrites(WQ[u], j) \in Seq(Writers) BY <1>1, CheckedWritesType DEF At
  <2> QED BY <1>1, <2>1, <2>2 DEF QueuesOK
<1>6. ASSUME NEW u \in Uppers, NEW j \in At(RQ[u]), CheckRq(u, j) PROVE QueuesOK'
  <2>1. RQ' = [RQ EXCEPT ![u] = CheckedReads(u, @, j)] /\ WQ' = WQ /\ PQ' = PQ BY <1>6 DEF CheckRq
  <2>2. CheckedReads(u, RQ[u], j) \in Seq(Readers) BY <1>1, CheckedReadsType DEF At
  <2> QED BY <1>1, <2>1, <2>2 DEF QueuesOK
<1>7. ASSUME NEW u \in Uppers, NEW j \in At(PQ[u]), CheckPq(u, j) PROVE QueuesOK'
  <2>1. PQ' = [PQ EXCEPT ![u] = CheckedReads(u, @, j)] /\ WQ' = WQ /\ RQ' = RQ BY <1>7 DEF CheckPq
  <2>2. CheckedReads(u, PQ[u], j) \in Seq(Readers) BY <1>1, CheckedReadsType DEF At
  <2> QED BY <1>1, <2>1, <2>2 DEF QueuesOK
<1>8. ASSUME NEW u \in Uppers, StartWq(u) \/ StartRq(u) \/ StartPq(u) PROVE QueuesOK'
  <2>1. /\ RQ[u] # <<>> => Tail(RQ[u]) \in Seq(Readers)
        /\ PQ[u] # <<>> => Tail(PQ[u]) \in Seq(Readers)
        /\ WQ[u] # <<>> => Tail(WQ[u]) \in Seq(Writers)
    BY <1>1
  <2>2. CASE StartWq(u) BY <1>1, <2>1, <2>2 DEF StartWq, QueuesOK
  <2>3. CASE StartRq(u) BY <1>1, <2>1, <2>3 DEF StartRq, QueuesOK
  <2>4. CASE StartPq(u) BY <1>1, <2>1, <2>4 DEF StartPq, QueuesOK
  <2> QED BY <1>8, <2>2, <2>3, <2>4
<1>9. CASE LowerLevel \/ EndWarmup \/ Prefetch
  BY <1>2, <1>9 DEF LowerLevel, LowerAnswers, LowerTakesWrite, EndWarmup, Prefetch, PrefetchLine
<1>10. CASE StartCycle \/ EndCollide \/ EndFinish \/ EndFill \/ EndWrite \/ EndStart \/ EndCheck \/ Tick
  BY <1>2, <1>10
     DEF StartCycle, EndCollide, EndFinish, EndFill, EndWrite, EndStart, EndCheck, Tick
<1>11. CASE \E i, j \in At(MSHR) : FinishPacket(i, j) BY <1>2, <1>11 DEF FinishPacket
<1>12. CASE FillMshr \/ FillWrite \/ StartInternal
  BY <1>2, <1>12 DEF FillMshr, FillWrite, StartInternal
<1>13. CASE TryHit \/ HandleWrite \/ MergeMiss \/ SendMiss
  BY <1>2, <1>13 DEF TryHit, HandleWrite, MergeMiss, SendMiss
<1>14. CASE Arrive BY <1>3, <1>4, <1>14 DEF Arrive
<1>15. CASE UNCHANGED vars BY <1>2, <1>15 DEF vars
<1> QED BY <1>5, <1>6, <1>7, <1>8, <1>9, <1>10, <1>11, <1>12, <1>13, <1>14, <1>15
        DEF Next, Operate

LEMMA RespondType ==
  ASSUME NEW ret, NEW deps, WaitingOK, Respond(ret, deps)
  PROVE  WaitingOK'
BY DEF WaitingOK, Respond

LEMMA WaitingKeeps == ASSUME TypeInv, [Next]_vars PROVE WaitingOK'
<1>1. WaitingOK BY DEF TypeInv
<1>2. CASE UNCHANGED waiting BY <1>1, <1>2 DEF WaitingOK
<1>3. ASSUME NEW u \in Uppers, NEW a \in Addresses, NEW l \in Loads, AddRq(u, l, a) \/ AddPq(u, l, a)
      PROVE  WaitingOK'
  <2>1. [upper |-> u, block |-> BlockOf[a]] \in Wanted BY DEF Wanted, Blocks
  <2>2. waiting' = [waiting EXCEPT ![l] = [upper |-> u, block |-> BlockOf[a]]]
    BY <1>3 DEF AddRq, AddPq, Issue
  <2> QED BY <1>1, <2>1, <2>2 DEF WaitingOK
<1>4. CASE Arrive
  BY <1>2, <1>3, <1>4 DEF Arrive, AddPqNoResponse, AddWq
<1>5. CASE LowerLevel \/ EndWarmup \/ Prefetch
  BY <1>2, <1>5 DEF LowerLevel, LowerAnswers, LowerTakesWrite, EndWarmup, Prefetch, PrefetchLine
<1>6. CASE StartCycle \/ EndCollide \/ EndFinish \/ EndFill \/ EndWrite \/ EndStart \/ EndCheck \/ Tick
  BY <1>2, <1>6
     DEF StartCycle, EndCollide, EndFinish, EndFill, EndWrite, EndStart, EndCheck, Tick
<1>7. CASE \E u \in Uppers : \/ \E j \in At(WQ[u]) : CheckWq(u, j)
                             \/ \E j \in At(RQ[u]) : CheckRq(u, j)
                             \/ \E j \in At(PQ[u]) : CheckPq(u, j)
  BY <1>1, <1>2, <1>7, RespondType DEF CheckWq, CheckRq, CheckPq, AnswerForwarded
<1>8. CASE \E u \in Uppers : StartWq(u) \/ StartRq(u) \/ StartPq(u)
  BY <1>2, <1>8 DEF StartWq, StartRq, StartPq
<1>9. CASE \E i, j \in At(MSHR) : FinishPacket(i, j) BY <1>2, <1>9 DEF FinishPacket
<1>10. CASE FillMshr \/ FillWrite \/ TryHit
  BY <1>1, <1>10, RespondType DEF FillMshr, FillWrite, TryHit
<1>11. CASE StartInternal \/ HandleWrite \/ MergeMiss \/ SendMiss
  BY <1>2, <1>11 DEF StartInternal, HandleWrite, MergeMiss, SendMiss
<1>12. CASE UNCHANGED vars BY <1>2, <1>12 DEF vars
<1> QED BY <1>4, <1>5, <1>6, <1>7, <1>8, <1>9, <1>10, <1>11, <1>12 DEF Next, Operate

LEMMA Latencies == Hit_latency \in Nat /\ Fill_latency \in Nat
BY Constants DEF Hit_latency, Fill_latency

LEMMA ToTagCheckType ==
  ASSUME NEW r \in Readers \cup Writers, NEW u \in Uppers
  PROVE  ToTagCheck(r, u) \in TagEntries
<1>1. r \in Request /\ (r.type = "WRITE" => r.instr_depend_on_me = {}) BY DEF Readers, Writers
<1>2. BlockOf[r.address] \in Blocks BY <1>1 DEF Request, Blocks
<1>3. Hit_latency \in Nat BY Latencies
<1>4. (IF r.response_requested THEN {u} ELSE {}) \in SUBSET Uppers OBVIOUS
<1> HIDE DEF Hit_latency
<1>5. ToTagCheck(r, u) \in tag_lookup_type
  BY <1>1, <1>2, <1>3, <1>4 DEF ToTagCheck, tag_lookup_type, Request
<1>6. /\ ToTagCheck(r, u).type = r.type /\ ToTagCheck(r, u).prefetch_from_this = FALSE
      /\ ToTagCheck(r, u).instr_depend_on_me = r.instr_depend_on_me
  BY DEF ToTagCheck
<1> QED BY <1>1, <1>5, <1>6 DEF TagEntries

LEMMA ToMshrType ==
  ASSUME NEW pkt \in TagEntries, NEW t \in Nat \cup {Never}
  PROVE  /\ ToMshr(pkt, t) \in mshr_type
         /\ ToMshr(pkt, t).block = pkt.block /\ ToMshr(pkt, t).type = pkt.type
         /\ ToMshr(pkt, t).left = t /\ ToMshr(pkt, t).to_return = pkt.to_return
         /\ ToMshr(pkt, t).instr_depend_on_me = pkt.instr_depend_on_me
BY DEF ToMshr, TagEntries, tag_lookup_type, mshr_type

LEMMA MergedType ==
  ASSUME NEW e \in MissEntries, NEW pkt \in TagEntries, pkt.type = "WRITE" => match_offset_bits
  PROVE  /\ Merged(e, pkt) \in MissEntries
         /\ Merged(e, pkt).block = e.block /\ Merged(e, pkt).left = e.left
         /\ Merged(e, pkt).instr_depend_on_me = e.instr_depend_on_me \cup pkt.instr_depend_on_me
         /\ Merged(e, pkt).to_return = e.to_return \cup pkt.to_return
<1>1. e \in mshr_type /\ pkt \in tag_lookup_type BY DEF MissEntries, TagEntries
<1>2. /\ Merged(e, pkt) \in mshr_type /\ Merged(e, pkt).type \in {e.type, pkt.type}
      /\ Merged(e, pkt).block = e.block /\ Merged(e, pkt).left = e.left
      /\ Merged(e, pkt).instr_depend_on_me = e.instr_depend_on_me \cup pkt.instr_depend_on_me
      /\ Merged(e, pkt).to_return = e.to_return \cup pkt.to_return
  BY <1>1 DEF Merged, mshr_type, tag_lookup_type
<1> QED BY <1>2 DEF MissEntries

\* What a cycle does to an entry.
Nearer(e) == [e EXCEPT !.left = IF @ > 0 THEN @ - 1 ELSE @]
LEMMA NearerFacts ==
  /\ \A e \in mshr_type : /\ Nearer(e) \in mshr_type /\ Nearer(e).block = e.block
                          /\ Nearer(e).type = e.type /\ Nearer(e).to_return = e.to_return
                          /\ Nearer(e).instr_depend_on_me = e.instr_depend_on_me
                          /\ Nearer(e).left = IF e.left > 0 THEN e.left - 1 ELSE e.left
  /\ \A e \in tag_lookup_type :
       /\ Nearer(e) \in tag_lookup_type /\ Nearer(e).block = e.block
       /\ Nearer(e).type = e.type /\ Nearer(e).to_return = e.to_return
       /\ Nearer(e).prefetch_from_this = e.prefetch_from_this
       /\ Nearer(e).instr_depend_on_me = e.instr_depend_on_me
       /\ Nearer(e).left = IF e.left > 0 THEN e.left - 1 ELSE e.left
<1>1. ASSUME NEW t \in Nat \cup {Never}
      PROVE  (IF t > 0 THEN t - 1 ELSE t) \in Nat \cup {Never}
  BY DEF Never
<1>2. ASSUME NEW t \in Nat PROVE (IF t > 0 THEN t - 1 ELSE t) \in Nat OBVIOUS
<1>3. ASSUME NEW e \in mshr_type
      PROVE  /\ Nearer(e) \in mshr_type /\ Nearer(e).block = e.block
             /\ Nearer(e).type = e.type /\ Nearer(e).to_return = e.to_return
             /\ Nearer(e).instr_depend_on_me = e.instr_depend_on_me
             /\ Nearer(e).left = IF e.left > 0 THEN e.left - 1 ELSE e.left
  BY <1>1 DEF Nearer, mshr_type
<1>4. ASSUME NEW e \in tag_lookup_type
      PROVE  /\ Nearer(e) \in tag_lookup_type /\ Nearer(e).block = e.block
             /\ Nearer(e).type = e.type /\ Nearer(e).to_return = e.to_return
             /\ Nearer(e).prefetch_from_this = e.prefetch_from_this
             /\ Nearer(e).instr_depend_on_me = e.instr_depend_on_me
             /\ Nearer(e).left = IF e.left > 0 THEN e.left - 1 ELSE e.left
  BY <1>2 DEF Nearer, tag_lookup_type
<1> QED BY <1>3, <1>4

LEMMA SoonerFacts ==
  ASSUME NEW S, NEW q \in Seq(S)
  PROVE  /\ DOMAIN Sooner(q) = DOMAIN q /\ \A i \in DOMAIN q : Sooner(q)[i] = Nearer(q[i])
         /\ \A T : (\A e \in S : Nearer(e) \in T) => Sooner(q) \in Seq(T)
<1>1. Sooner(q) = [i \in DOMAIN q |-> Nearer(q[i])] BY DEF Sooner, Nearer
<1>2. DOMAIN q = 1..Len(q) /\ Len(q) \in Nat OBVIOUS
<1> QED BY <1>1, <1>2

LEMMA NearerTypes ==
  /\ \A e \in TagEntries : Nearer(e) \in TagEntries
  /\ \A e \in MissEntries : Nearer(e) \in MissEntries
  /\ \A e \in WriteEntries : Nearer(e) \in WriteEntries
<1>1. \A e \in WriteEntries : Nearer(e).left # Never
  <2> SUFFICES ASSUME NEW e \in WriteEntries PROVE Nearer(e).left # Never OBVIOUS
  <2>1. e \in mshr_type /\ e.left \in Nat BY DEF WriteEntries, mshr_type
  <2>2. Nearer(e).left = IF e.left > 0 THEN e.left - 1 ELSE e.left BY <2>1, NearerFacts
  <2> QED BY <2>1, <2>2 DEF Never
<1> QED BY <1>1, NearerFacts DEF TagEntries, MissEntries, WriteEntries

\* A packet that misses may not be a write, except to an L1D.
LEMMA PktFacts ==
  ASSUME TypeInv, Checking
  PROVE  /\ inflight_tag_check # <<>> /\ Pkt \in TagEntries /\ 1 \in DOMAIN inflight_tag_check
         /\ Tail(inflight_tag_check) \in Seq(TagEntries)
         /\ Miss => (Pkt.type = "WRITE" => match_offset_bits)
<1>1. inflight_tag_check \in Seq(TagEntries) /\ inflight_tag_check # <<>>
  BY DEF TypeInv, PipesOK, Checking, Due
<1>2. /\ Tail(inflight_tag_check) \in Seq(TagEntries) /\ 1 \in DOMAIN inflight_tag_check
      /\ inflight_tag_check[1] \in TagEntries
  BY <1>1, TailFacts
<1> QED BY <1>1, <1>2 DEF Pkt, Miss

LEMMA SwappedFacts ==
  ASSUME NEW S, NEW q \in Seq(S), NEW i \in DOMAIN q, NEW j \in DOMAIN q, NEW e \in S
  PROVE  /\ Swapped(q, i, j, e) \in Seq(S) /\ Len(Swapped(q, i, j, e)) = Len(q)
         /\ DOMAIN Swapped(q, i, j, e) = DOMAIN q
         /\ Swapped(q, i, j, e)[j] = e /\ (i # j => Swapped(q, i, j, e)[i] = q[j])
         /\ \A k \in DOMAIN q \ {i, j} : Swapped(q, i, j, e)[k] = q[k]
<1>1. q[j] \in S OBVIOUS
<1>2. PICK q1 : q1 = [q EXCEPT ![i] = q[j]] OBVIOUS
<1>3. q1 \in Seq(S) /\ Len(q1) = Len(q) /\ DOMAIN q1 = DOMAIN q /\ q1[i] = q[j]
      /\ \A k \in DOMAIN q \ {i} : q1[k] = q[k]
  BY <1>1, <1>2
<1>4. Swapped(q, i, j, e) = [q1 EXCEPT ![j] = e] BY <1>2 DEF Swapped
<1> QED BY <1>3, <1>4

\* The pipelines pass on what they may hold.
LEMMA PipesKeep == ASSUME TypeInv, [Next]_vars PROVE PipesOK'
<1>1. /\ inflight_tag_check \in Seq(TagEntries) /\ internal_PQ \in Seq(OwnPrefetches)
      /\ MSHR \in Seq(MissEntries) /\ inflight_writes \in Seq(WriteEntries)
  BY DEF TypeInv, PipesOK
<1>2. CASE UNCHANGED <<tags, misses>> BY <1>1, <1>2 DEF tags, misses, PipesOK
<1>3. /\ RQ \in [Uppers -> Seq(Readers)] /\ PQ \in [Uppers -> Seq(Readers)]
      /\ WQ \in [Uppers -> Seq(Writers)]
  BY DEF TypeInv, QueuesOK
<1>4. ASSUME NEW u \in Uppers, NEW r \in Readers \cup Writers, Start(r, u),
             UNCHANGED <<internal_PQ, misses>>
      PROVE  PipesOK'
  <2>1. ToTagCheck(r, u) \in TagEntries BY ToTagCheckType
  <2>2. inflight_tag_check' = Append(inflight_tag_check, ToTagCheck(r, u)) BY <1>4 DEF Start
  <2> QED BY <1>1, <1>4, <2>1, <2>2 DEF misses, PipesOK
<1>5. ASSUME NEW u \in Uppers, StartWq(u) \/ StartRq(u) \/ StartPq(u) PROVE PipesOK'
  <2>1. CASE StartWq(u)
    <3>1. WQ[u][1] \in Writers BY <1>3, <2>1 DEF StartWq
    <3> QED BY <1>4, <2>1, <3>1 DEF StartWq
  <2>2. CASE StartRq(u)
    <3>1. RQ[u][1] \in Readers BY <1>3, <2>2 DEF StartRq
    <3> QED BY <1>4, <2>2, <3>1 DEF StartRq
  <2>3. CASE StartPq(u)
    <3>1. PQ[u][1] \in Readers BY <1>3, <2>3 DEF StartPq
    <3> QED BY <1>4, <2>3, <3>1 DEF StartPq
  <2> QED BY <1>5, <2>1, <2>2, <2>3
<1>6. CASE StartInternal
  <2>1. internal_PQ # <<>> /\ internal_PQ' = Tail(internal_PQ) /\ UNCHANGED misses
    BY <1>6 DEF StartInternal
  <2>2. internal_PQ[1] \in OwnPrefetches /\ Tail(internal_PQ) \in Seq(OwnPrefetches)
    BY <1>1, <2>1
  <2>3. PICK h \in Nat : h = Hit_latency BY Latencies
  <2>4. PICK e : e = [internal_PQ[1] EXCEPT !.left = h] OBVIOUS
  <2>5. e \in TagEntries BY <2>2, <2>4 DEF OwnPrefetches, TagEntries, tag_lookup_type
  <2>6. inflight_tag_check' = Append(inflight_tag_check, e) BY <1>6, <2>3, <2>4 DEF StartInternal
  <2> QED BY <1>1, <2>1, <2>2, <2>5, <2>6 DEF misses, PipesOK
<1>7. CASE Prefetch
  <2>1. PICK b \in Blocks, skip \in BOOLEAN : PrefetchLine(b, skip) BY <1>7 DEF Prefetch
  <2>2. PICK e : e = [block |-> b, type |-> "PREFETCH", prefetch_from_this |-> TRUE,
                      skip_fill |-> skip, left |-> 0, instr_depend_on_me |-> {}, to_return |-> {}]
    OBVIOUS
  <2>3. e \in OwnPrefetches
    BY <2>2 DEF OwnPrefetches, TagEntries, tag_lookup_type, access_type
  <2>4. internal_PQ' = Append(internal_PQ, e) /\ UNCHANGED <<inflight_tag_check, misses>>
    BY <2>1, <2>2 DEF PrefetchLine
  <2> QED BY <1>1, <2>3, <2>4 DEF misses, PipesOK
<1>8. CASE \E i, j \in At(MSHR) : FinishPacket(i, j)
  <2>1. PICK i \in DOMAIN MSHR, j \in DOMAIN MSHR : FinishPacket(i, j) BY <1>8 DEF At
  <2>2. PICK f \in Nat : f = Fill_latency BY Latencies
  <2>3. PICK e : e = [MSHR[i] EXCEPT !.left = f] OBVIOUS
  <2>4. MSHR[i] \in MissEntries BY <1>1
  <2>5. e \in MissEntries BY <2>3, <2>4 DEF MissEntries, mshr_type
  <2>6. MSHR' = Swapped(MSHR, i, j, e) /\ UNCHANGED <<tags, inflight_writes>>
    BY <2>1, <2>2, <2>3 DEF FinishPacket
  <2>7. MSHR' \in Seq(MissEntries) BY <1>1, <2>5, <2>6, SwappedFacts
  <2> QED BY <1>1, <2>6, <2>7 DEF tags, PipesOK
<1>9. CASE FillMshr
  BY <1>1, <1>9 DEF FillMshr, Due, tags, PipesOK
<1>10. CASE FillWrite
  BY <1>1, <1>10 DEF FillWrite, Due, tags, PipesOK
<1>11. ASSUME Checking, CheckDone, UNCHANGED internal_PQ
       PROVE  inflight_tag_check' \in Seq(TagEntries) /\ internal_PQ' \in Seq(OwnPrefetches)
  BY <1>1, <1>11, PktFacts DEF CheckDone
<1>12. CASE TryHit
  BY <1>1, <1>11, <1>12 DEF TryHit, misses, PipesOK
<1>13. CASE HandleWrite
  <2>1. Checking /\ CheckDone /\ UNCHANGED <<internal_PQ, MSHR>> BY <1>13 DEF HandleWrite
  <2>2. Pkt \in TagEntries BY <2>1, PktFacts
  <2>3. PICK f \in Nat : f = Fill_latency BY Latencies
  <2>4. ToMshr(Pkt, f) \in WriteEntries
    BY <1>13, <2>2, ToMshrType DEF HandleWrite, TagEntries, WriteEntries, Never
  <2>5. inflight_writes' = Append(inflight_writes, ToMshr(Pkt, f)) BY <1>13, <2>3 DEF HandleWrite
  <2> QED BY <1>1, <1>11, <2>1, <2>4, <2>5 DEF PipesOK
<1>14. CASE MergeMiss
  <2>1. Miss /\ Checking /\ CheckDone /\ UNCHANGED <<internal_PQ, inflight_writes>>
    BY <1>14 DEF MergeMiss, Miss
  <2>2. PICK i \in DOMAIN MSHR : MSHR' = [MSHR EXCEPT ![i] = Merged(@, Pkt)]
    BY <1>14 DEF MergeMiss, EntryOf
  <2>3. MSHR[i] \in MissEntries BY <1>1
  <2>4. Merged(MSHR[i], Pkt) \in MissEntries BY <2>1, <2>3, PktFacts, MergedType
  <2> QED BY <1>1, <1>11, <2>1, <2>2, <2>4 DEF PipesOK
<1>15. CASE SendMiss
  <2>1. Miss /\ Checking /\ CheckDone /\ UNCHANGED <<internal_PQ, inflight_writes>>
    BY <1>15 DEF SendMiss, Miss
  <2>2. ToMshr(Pkt, Never) \in MissEntries
    BY <2>1, PktFacts, ToMshrType DEF MissEntries
  <2>3. MSHR' = MSHR \/ MSHR' = Append(MSHR, ToMshr(Pkt, Never)) BY <1>15 DEF SendMiss
  <2>4. MSHR' \in Seq(MissEntries)
    <3>1. MSHR \in Seq(MissEntries) BY <1>1
    <3>2. Append(MSHR, ToMshr(Pkt, Never)) \in Seq(MissEntries) BY <2>2, <3>1
    <3> QED BY <2>3, <3>1, <3>2
  <2> QED BY <1>1, <1>11, <2>1, <2>4 DEF PipesOK
<1>16. CASE Tick
  <2>1. /\ inflight_tag_check' = Sooner(inflight_tag_check) /\ MSHR' = Sooner(MSHR)
        /\ inflight_writes' = Sooner(inflight_writes) /\ internal_PQ' = internal_PQ
    BY <1>16 DEF Tick
  <2>2. /\ Sooner(inflight_tag_check) \in Seq(TagEntries) /\ Sooner(MSHR) \in Seq(MissEntries)
        /\ Sooner(inflight_writes) \in Seq(WriteEntries)
    BY <1>1, NearerTypes, SoonerFacts
  <2> QED BY <1>1, <2>1, <2>2 DEF PipesOK
<1>17. CASE Arrive
  BY <1>2, <1>17 DEF Arrive, AddRq, AddPq, AddPqNoResponse, AddWq
<1>18. CASE LowerLevel \/ EndWarmup
  BY <1>2, <1>18 DEF LowerLevel, LowerAnswers, LowerTakesWrite, EndWarmup
<1>19. CASE StartCycle \/ EndCollide \/ EndFinish \/ EndFill \/ EndWrite \/ EndStart \/ EndCheck
  BY <1>2, <1>19 DEF StartCycle, EndCollide, EndFinish, EndFill, EndWrite, EndStart, EndCheck
<1>20. CASE \E u \in Uppers : \/ \E j \in At(WQ[u]) : CheckWq(u, j)
                              \/ \E j \in At(RQ[u]) : CheckRq(u, j)
                              \/ \E j \in At(PQ[u]) : CheckPq(u, j)
  BY <1>2, <1>20 DEF CheckWq, CheckRq, CheckPq
<1>21. CASE UNCHANGED vars BY <1>2, <1>21 DEF vars
<1> QED BY <1>5, <1>6, <1>7, <1>8, <1>9, <1>10, <1>12, <1>13, <1>14, <1>15, <1>16, <1>17,
           <1>18, <1>19, <1>20, <1>21
        DEF Next, Operate

LEMMA LowerKeeps == ASSUME TypeInv, [Next]_vars PROVE LowerOK'
<1>1. asked \subseteq Questions /\ returned \in Seq(Blocks) BY DEF TypeInv, LowerOK
<1>2. CASE UNCHANGED <<asked, returned>> BY <1>1, <1>2 DEF LowerOK
<1>3. ASSUME NEW r \in asked, LowerAnswers(r) PROVE LowerOK'
  BY <1>1, <1>3 DEF LowerAnswers, LowerOK, Questions
<1>4. CASE \E i, j \in At(MSHR) : FinishPacket(i, j)
  BY <1>1, <1>4 DEF FinishPacket, LowerOK
<1>5. CASE SendMiss
  <2>1. Checking /\ returned' = returned /\ (asked' = asked \/ asked' = asked \cup {Below(Pkt)})
    BY <1>5 DEF SendMiss, Miss
  <2>2. Pkt \in TagEntries BY <2>1, PktFacts
  <2>3. Below(Pkt) \in Questions BY <2>2 DEF Below, Questions, TagEntries, tag_lookup_type
  <2> QED BY <1>1, <2>1, <2>3 DEF LowerOK
<1>6. CASE Arrive
  BY <1>2, <1>6 DEF Arrive, AddRq, AddPq, AddPqNoResponse, AddWq, lower
<1>7. CASE LowerTakesWrite \/ EndWarmup \/ Prefetch
  BY <1>2, <1>7 DEF LowerTakesWrite, EndWarmup, Prefetch, PrefetchLine, lower
<1>8. CASE StartCycle \/ EndCollide \/ EndFinish \/ EndFill \/ EndWrite \/ EndStart \/ EndCheck \/ Tick
  BY <1>2, <1>8
     DEF StartCycle, EndCollide, EndFinish, EndFill, EndWrite, EndStart, EndCheck, Tick, lower
<1>9. CASE \E u \in Uppers : \/ \E j \in At(WQ[u]) : CheckWq(u, j)
                             \/ \E j \in At(RQ[u]) : CheckRq(u, j)
                             \/ \E j \in At(PQ[u]) : CheckPq(u, j)
  BY <1>2, <1>9 DEF CheckWq, CheckRq, CheckPq, lower
<1>10. CASE \E u \in Uppers : StartWq(u) \/ StartRq(u) \/ StartPq(u)
  BY <1>2, <1>10 DEF StartWq, StartRq, StartPq, lower
<1>11. CASE FillMshr \/ FillWrite \/ StartInternal
  BY <1>2, <1>11 DEF FillMshr, FillWrite, StartInternal, lower
<1>12. CASE TryHit \/ HandleWrite \/ MergeMiss
  BY <1>2, <1>12 DEF TryHit, HandleWrite, MergeMiss, lower
<1>13. CASE UNCHANGED vars BY <1>2, <1>13 DEF vars, lower
<1> QED BY <1>3, <1>4, <1>5, <1>6, <1>7, <1>8, <1>9, <1>10, <1>11, <1>12, <1>13
        DEF Next, Operate, LowerLevel

\* The set of an entry, and what is in it.
LEMMA SetFacts ==
  ASSUME TypeInv, NEW e, e.block \in Blocks
  PROVE  /\ SetOf[e.block] \in Sets /\ InSet(e) = block[SetOf[e.block]]
         /\ InSet(e) \in [Ways -> Lines] /\ Victims(e) \subseteq Ways
         /\ \A w \in Ways : InSet(e)[w] \in Lines
         /\ \A w \in Ways : MustWriteBack(e, w) => InSet(e)[w].block \in Blocks
<1>1. block \in [Sets -> [Ways -> Lines]] BY DEF TypeInv, StoreOK
<1>2. SetOf[e.block] \in Sets BY DEF Sets
<1>3. InSet(e) \in [Ways -> Lines] BY <1>1, <1>2 DEF InSet
<1>4. \A w \in Ways : MustWriteBack(e, w) => InSet(e)[w].block \in Blocks
  BY <1>3 DEF MustWriteBack, Lines, BLOCK
<1>5. Victims(e) \subseteq Ways BY DEF Victims
<1> QED BY <1>2, <1>3, <1>4, <1>5 DEF InSet

\* What a fill does to the ways: one of its set is replaced, or none.
LEMMA InstallCases ==
  ASSUME TypeInv, NEW e, e.block \in Blocks, Install(e)
  PROVE  \/ \E w \in Ways : /\ w \in Victims(e)
                            /\ block' = [block EXCEPT ![SetOf[e.block]][w] = Filled(e)]
                            /\ IF MustWriteBack(e, w)
                               THEN /\ lower_WQ' = Append(lower_WQ, InSet(e)[w].block)
                                    /\ unwritten' = unwritten \ {InSet(e)[w].block}
                               ELSE lower_WQ' = lower_WQ /\ unwritten' = unwritten
         \/ Bypassed(e) /\ UNCHANGED <<block, lower_WQ, unwritten>>
BY SetFacts DEF Install, Replace

LEMMA InstallType ==
  ASSUME TypeInv, NEW e, e.block \in Blocks, Install(e)
  PROVE  StoreOK'
<1>1. block \in [Sets -> [Ways -> Lines]] /\ lower_WQ \in Seq(Blocks) /\ unwritten \subseteq Blocks
  BY DEF TypeInv, StoreOK
<1>2. CASE UNCHANGED <<block, lower_WQ, unwritten>> BY <1>1, <1>2 DEF StoreOK
<1>3. ASSUME NEW w \in Ways, block' = [block EXCEPT ![SetOf[e.block]][w] = Filled(e)],
             IF MustWriteBack(e, w)
             THEN /\ lower_WQ' = Append(lower_WQ, InSet(e)[w].block)
                  /\ unwritten' = unwritten \ {InSet(e)[w].block}
             ELSE lower_WQ' = lower_WQ /\ unwritten' = unwritten
      PROVE  StoreOK'
  <2>1. Filled(e) \in Lines BY Constants DEF Filled, Lines, BLOCK
  <2>2. block' \in [Sets -> [Ways -> Lines]] BY <1>1, <1>3, <2>1, SetFacts
  <2>3. lower_WQ' \in Seq(Blocks) /\ unwritten' \subseteq Blocks
    <3>1. CASE MustWriteBack(e, w)
      <4>1. InSet(e)[w].block \in Blocks BY <3>1, SetFacts
      <4> QED BY <1>1, <1>3, <3>1, <4>1
    <3>2. CASE ~MustWriteBack(e, w) BY <1>1, <1>3, <3>2
    <3> QED BY <3>1, <3>2
  <2> QED BY <2>2, <2>3 DEF StoreOK
<1> QED BY <1>2, <1>3, InstallCases

LEMMA HeadFacts ==
  ASSUME TypeInv
  PROVE  /\ MSHR # <<>> => MSHR[1] \in MissEntries /\ MSHR[1].block \in Blocks
         /\ inflight_writes # <<>> =>
              inflight_writes[1] \in WriteEntries /\ inflight_writes[1].block \in Blocks
         /\ Checking => Pkt.block \in Blocks
<1>1. MSHR \in Seq(MissEntries) /\ inflight_writes \in Seq(WriteEntries) BY DEF TypeInv, PipesOK
<1>2. MSHR # <<>> => MSHR[1] \in MissEntries /\ MSHR[1].block \in Blocks
  <2>1. MSHR # <<>> => MSHR[1] \in MissEntries BY <1>1, TailFacts
  <2> QED BY <2>1 DEF MissEntries, mshr_type
<1>3. inflight_writes # <<>> =>
        inflight_writes[1] \in WriteEntries /\ inflight_writes[1].block \in Blocks
  <2>1. inflight_writes # <<>> => inflight_writes[1] \in WriteEntries BY <1>1, TailFacts
  <2> QED BY <2>1 DEF WriteEntries, mshr_type
<1>4. Checking => Pkt.block \in Blocks BY PktFacts DEF TagEntries, tag_lookup_type
<1> QED BY <1>2, <1>3, <1>4

LEMMA StoreKeeps == ASSUME TypeInv, [Next]_vars PROVE StoreOK'
<1>1. block \in [Sets -> [Ways -> Lines]] /\ lower_WQ \in Seq(Blocks) /\ unwritten \subseteq Blocks
  BY DEF TypeInv, StoreOK
<1>2. CASE UNCHANGED <<block, lower_WQ, unwritten>> BY <1>1, <1>2 DEF StoreOK
<1>3. ASSUME NEW u \in Uppers, NEW a \in Addresses, AddWq(u, a) PROVE StoreOK'
  BY <1>1, <1>3 DEF AddWq, Blocks, lower, StoreOK
<1>4. CASE LowerTakesWrite BY <1>1, <1>4 DEF LowerTakesWrite, StoreOK
<1>5. CASE FillMshr
  <2>1. MSHR[1].block \in Blocks /\ Install(MSHR[1]) BY <1>5, HeadFacts DEF FillMshr, Due
  <2> QED BY <2>1, InstallType
<1>6. CASE FillWrite
  <2>1. inflight_writes[1].block \in Blocks /\ Install(inflight_writes[1])
    BY <1>6, HeadFacts DEF FillWrite, Due
  <2> QED BY <2>1, InstallType
<1>7. CASE TryHit
  <2>1. Checking /\ UNCHANGED <<lower_WQ, unwritten>> BY <1>7 DEF TryHit, lower
  <2>2. PICK w \in HitWays(Pkt) :
          block' = [block EXCEPT ![SetOf[Pkt.block]][w].dirty = @ \/ Pkt.type = "WRITE"]
    BY <1>7 DEF TryHit
  <2>3. PICK s : s = SetOf[Pkt.block] OBVIOUS
  <2>4. w \in Ways /\ s \in Sets BY <2>1, <2>2, <2>3, HeadFacts, SetFacts DEF HitWays
  <2>5. block[s][w] \in Lines BY <1>1, <2>4
  <2>6. PICK v : v = [block[s][w] EXCEPT !.dirty = @ \/ Pkt.type = "WRITE"] OBVIOUS
  <2>7. v \in Lines BY <2>5, <2>6 DEF Lines, BLOCK
  <2>8. block' = [block EXCEPT ![s][w] = v] BY <2>2, <2>3, <2>6
  <2>9. block' \in [Sets -> [Ways -> Lines]] BY <1>1, <2>4, <2>7, <2>8
  <2> QED BY <1>1, <2>1, <2>9 DEF StoreOK
<1>8. CASE Arrive BY <1>2, <1>3, <1>8 DEF Arrive, AddRq, AddPq, AddPqNoResponse, lower
<1>9. CASE (\E r \in asked : LowerAnswers(r)) \/ EndWarmup \/ Prefetch
  BY <1>2, <1>9 DEF LowerAnswers, EndWarmup, Prefetch, PrefetchLine, lower
<1>10. CASE StartCycle \/ EndCollide \/ EndFinish \/ EndFill \/ EndWrite \/ EndStart \/ EndCheck \/ Tick
  BY <1>2, <1>10
     DEF StartCycle, EndCollide, EndFinish, EndFill, EndWrite, EndStart, EndCheck, Tick, lower
<1>11. CASE \E u \in Uppers : \/ \E j \in At(WQ[u]) : CheckWq(u, j)
                              \/ \E j \in At(RQ[u]) : CheckRq(u, j)
                              \/ \E j \in At(PQ[u]) : CheckPq(u, j)
  BY <1>2, <1>11 DEF CheckWq, CheckRq, CheckPq, lower
<1>12. CASE \E u \in Uppers : StartWq(u) \/ StartRq(u) \/ StartPq(u)
  BY <1>2, <1>12 DEF StartWq, StartRq, StartPq, lower
<1>13. CASE \E i, j \in At(MSHR) : FinishPacket(i, j) BY <1>2, <1>13 DEF FinishPacket
<1>14. CASE StartInternal \/ HandleWrite \/ MergeMiss \/ SendMiss
  BY <1>2, <1>14 DEF StartInternal, HandleWrite, MergeMiss, SendMiss, lower
<1>15. CASE UNCHANGED vars BY <1>2, <1>15 DEF vars, lower
<1> QED BY <1>4, <1>5, <1>6, <1>7, <1>8, <1>9, <1>10, <1>11, <1>12, <1>13, <1>14, <1>15
        DEF Next, Operate, LowerLevel

LEMMA TypeKeeps == ASSUME TypeInv, [Next]_vars PROVE TypeInv'
BY StageKeeps, QueuesKeep, PipesKeep, StoreKeeps, LowerKeeps, WaitingKeeps DEF TypeInv
-----------------------------------------------------------------------------
(* A queue: one checked request for a key, in front of the rest *)

Neat(q, Key) == CheckedInFront(q) /\ KeyOnce(q, Key)

LEMMA NeatAppend ==
  ASSUME NEW q \in Seq(Request), NEW y \in Request, ~y.forward_checked, NEW Key, Neat(q, Key)
  PROVE  Neat(Append(q, y), Key)
<1> DEFINE p == Append(q, y)  n == Len(q) + 1
<1>1. Len(q) \in Nat /\ DOMAIN q = 1..Len(q) OBVIOUS
<1>2. /\ DOMAIN p = DOMAIN q \cup {n} /\ n \notin DOMAIN q /\ p[n] = y
      /\ \A i \in DOMAIN q : p[i] = q[i] /\ i < n
  BY <1>1, AppendFacts
<1>3. \A i \in DOMAIN q : ~(n < i) /\ ~(n < n) BY <1>1
<1> HIDE DEF p, n
<1>4. ASSUME NEW i \in DOMAIN p, NEW j \in DOMAIN p, i < j, p[j].forward_checked
      PROVE  i \in DOMAIN q /\ j \in DOMAIN q
  BY <1>2, <1>3, <1>4
<1>5. CheckedInFront(p) BY <1>2, <1>4 DEF Neat, CheckedInFront
<1>6. KeyOnce(p, Key) BY <1>2, <1>4 DEF Neat, KeyOnce
<1> QED BY <1>5, <1>6 DEF Neat, p

\* One request leaves the queue; what remains keeps its address and its mark.
Without(q, p, j) ==
  /\ Len(p) = Len(q) - 1
  /\ \A k \in 1..(Len(q) - 1) :
       LET o == IF k < j THEN k ELSE k + 1
       IN p[k].address = q[o].address /\ p[k].forward_checked = q[o].forward_checked
LEMMA NeatWithout ==
  ASSUME NEW q \in Seq(Request), NEW p \in Seq(Request), NEW j \in DOMAIN q, Without(q, p, j),
         NEW Key, Neat(q, Key)
  PROVE  Neat(p, Key)
<1> DEFINE Old(k) == IF k < j THEN k ELSE k + 1
<1>1. Len(q) \in Nat /\ DOMAIN q = 1..Len(q) /\ DOMAIN p = 1..(Len(q) - 1) BY DEF Without
<1>2. ASSUME NEW k \in DOMAIN p
      PROVE  /\ Old(k) \in DOMAIN q
             /\ p[k].address = q[Old(k)].address
             /\ p[k].forward_checked = q[Old(k)].forward_checked
  <2>1. Old(k) \in DOMAIN q BY <1>1
  <2> QED BY <1>1, <2>1 DEF Without
<1>3. ASSUME NEW k \in DOMAIN p, NEW n \in DOMAIN p, k < n PROVE Old(k) < Old(n)
  BY <1>1, <1>3
<1> HIDE DEF Old
<1>4. CheckedInFront(p) BY <1>2, <1>3 DEF Neat, CheckedInFront
<1>5. KeyOnce(p, Key)
  <2> SUFFICES ASSUME NEW k \in DOMAIN p, NEW n \in DOMAIN p,
                      p[k].forward_checked, p[n].forward_checked, k < n
               PROVE  Key[p[k].address] # Key[p[n].address]
    BY DEF KeyOnce
  <2>1. Old(k) < Old(n) BY <1>3
  <2>2. q[Old(k)].forward_checked /\ q[Old(n)].forward_checked BY <1>2
  <2>3. Key[q[Old(k)].address] # Key[q[Old(n)].address] BY <1>2, <2>1, <2>2 DEF Neat, KeyOnce
  <2> QED BY <1>2, <2>3
<1> QED BY <1>4, <1>5 DEF Neat

LEMMA NeatTail ==
  ASSUME NEW q \in Seq(Request), q # <<>>, NEW Key, Neat(q, Key)
  PROVE  Neat(Tail(q), Key)
<1>1. /\ Tail(q) \in Seq(Request) /\ Len(Tail(q)) = Len(q) - 1 /\ 1 \in DOMAIN q
      /\ Len(q) \in Nat \ {0} /\ \A i \in DOMAIN Tail(q) : Tail(q)[i] = q[i + 1]
  BY TailFacts
<1>2. Without(q, Tail(q), 1) BY <1>1 DEF Without
<1> QED BY <1>1, <1>2, NeatWithout

LEMMA NeatRemoveAt ==
  ASSUME NEW q \in Seq(Request), NEW j \in DOMAIN q, NEW Key, Neat(q, Key)
  PROVE  Neat(RemoveAt(q, j), Key)
<1>1. /\ RemoveAt(q, j) \in Seq(Request) /\ Len(RemoveAt(q, j)) = Len(q) - 1
      /\ \A k \in 1..(Len(q) - 1) : RemoveAt(q, j)[k] = q[IF k < j THEN k ELSE k + 1]
  BY RemoveAtFacts
<1>2. Without(q, RemoveAt(q, j), j) BY <1>1 DEF Without
<1> QED BY <1>1, <1>2, NeatWithout

LEMMA NeatMerge ==
  ASSUME NEW q \in Seq(Request), NEW i \in DOMAIN q, NEW j \in DOMAIN q, i < j, NEW Key, Neat(q, Key)
  PROVE  Neat(Merge(q, i, j), Key)
<1>1. /\ Len(Merge(q, i, j)) = Len(q) - 1 /\ Merge(q, i, j) \in Seq(Request)
      /\ \A k \in 1..(Len(q) - 1) :
           Merge(q, i, j)[k] = IF k = i THEN Joined(q[i], q[j])
                               ELSE q[IF k < j THEN k ELSE k + 1]
  BY MergeFacts
<1>2. /\ Joined(q[i], q[j]).address = q[i].address
      /\ Joined(q[i], q[j]).forward_checked = q[i].forward_checked
  BY JoinedFacts
<1>3. Without(q, Merge(q, i, j), j) BY <1>1, <1>2 DEF Without
<1> QED BY <1>1, <1>3, NeatWithout

\* The first unchecked request, whose key no earlier one has, is checked.
LEMMA NeatChecked ==
  ASSUME NEW q \in Seq(Request), NEW j \in DOMAIN q, First(Unchecked(q), j), NEW Key, Neat(q, Key),
         \A i \in DOMAIN q : i < j => Key[q[i].address] # Key[q[j].address]
  PROVE  Neat(Checked(q, j), Key)
<1>1. Len(q) \in Nat /\ DOMAIN q = 1..Len(q) /\ q[j] \in Request OBVIOUS
<1>2. /\ DOMAIN Checked(q, j) = DOMAIN q /\ \A i \in DOMAIN q : i # j => Checked(q, j)[i] = q[i]
      /\ Checked(q, j)[j] = [q[j] EXCEPT !.forward_checked = TRUE]
  BY CheckedFacts
<1>3. /\ Checked(q, j)[j].address = q[j].address /\ Checked(q, j)[j].forward_checked
  BY <1>1, <1>2 DEF Request
<1>4. /\ \A i \in DOMAIN q : i < j => q[i].forward_checked
      /\ ~q[j].forward_checked
  BY <1>1 DEF First, Unchecked
<1>5. \A i \in DOMAIN q : j < i => ~q[i].forward_checked
  BY <1>4 DEF Neat, CheckedInFront
<1>6. \A i \in DOMAIN q : i < j \/ i = j \/ j < i BY <1>1
<1>7. \A i \in DOMAIN q : Checked(q, j)[i].forward_checked <=> (i < j \/ i = j)
  BY <1>1, <1>2, <1>3, <1>4, <1>5, <1>6
<1>8. \A i \in DOMAIN q : Checked(q, j)[i].address = q[i].address BY <1>2, <1>3
<1>9. CheckedInFront(Checked(q, j))
  <2>1. ASSUME NEW i \in DOMAIN q, NEW k \in DOMAIN q, i < k, k < j \/ k = j PROVE i < j
    BY <1>1, <2>1
  <2> QED BY <1>2, <1>7, <2>1 DEF CheckedInFront
<1>10. KeyOnce(Checked(q, j), Key)
  <2> SUFFICES ASSUME NEW i \in DOMAIN q, NEW k \in DOMAIN q, i < k, k < j \/ k = j
               PROVE  Key[q[i].address] # Key[q[k].address]
    BY <1>2, <1>7, <1>8 DEF KeyOnce
  <2>1. CASE k = j BY <2>1
  <2>2. CASE k < j
    <3>1. i < j BY <1>1, <2>2
    <3> QED BY <1>4, <2>2, <3>1 DEF Neat, KeyOnce
  <2> QED BY <2>1, <2>2
<1> QED BY <1>9, <1>10 DEF Neat

LEMMA NeatReads ==
  ASSUME NEW u, NEW q \in Seq(Request), NEW j \in DOMAIN q, First(Unchecked(q), j), Neat(q, BlockOf)
  PROVE  Neat(CheckedReads(u, q, j), BlockOf)
<1>1. CASE CheckedReads(u, q, j) = RemoveAt(q, j) BY <1>1, NeatRemoveAt
<1>2. CASE \E i \in DOMAIN q : i < j /\ CheckedReads(u, q, j) = Merge(q, i, j)
  BY <1>2, NeatMerge
<1>3. CASE /\ CheckedReads(u, q, j) = Checked(q, j)
           /\ \A i \in DOMAIN q : i < j => BlockOf[q[i].address] # BlockOf[q[j].address]
  BY <1>3, NeatChecked
<1> QED BY <1>1, <1>2, <1>3, CheckedReadsCases

LEMMA NeatWrites ==
  ASSUME NEW q \in Seq(Request), NEW j \in DOMAIN q, First(Unchecked(q), j), Neat(q, WriteKeys)
  PROVE  Neat(CheckedWrites(q, j), WriteKeys)
<1>1. ASSUME NEW i \in DOMAIN q PROVE WriteKeys[q[i].address] = WriteKey(q[i].address)
  <2>1. q[i] \in Request OBVIOUS
  <2>2. q[i].address \in Addresses BY <2>1 DEF Request
  <2> QED BY <2>2 DEF WriteKeys
<1>2. CASE \E i \in DOMAIN q : i < j /\ CheckedWrites(q, j) = Merge(q, i, j)
  BY <1>2, NeatMerge
<1>3. CASE /\ CheckedWrites(q, j) = Checked(q, j)
           /\ \A i \in DOMAIN q : i < j => WriteKey(q[i].address) # WriteKey(q[j].address)
  BY <1>1, <1>3, NeatChecked
<1> QED BY <1>2, <1>3, CheckedWritesCases

LEMMA MergedInvIsNeat ==
  MergedInv <=> \A u \in Uppers : /\ Neat(RQ[u], BlockOf) /\ Neat(PQ[u], BlockOf)
                                  /\ Neat(WQ[u], WriteKeys)
BY DEF MergedInv, Neat

LEMMA RequestQueues ==
  ASSUME TypeInv, NEW u \in Uppers
  PROVE  RQ[u] \in Seq(Request) /\ PQ[u] \in Seq(Request) /\ WQ[u] \in Seq(Request)
<1>1. RQ[u] \in Seq(Readers) /\ PQ[u] \in Seq(Readers) /\ WQ[u] \in Seq(Writers)
  BY DEF TypeInv, QueuesOK
<1> QED BY <1>1, SeqGrows DEF Readers, Writers

\* One queue changes, and stays neat.
LEMMA NeatStep ==
  ASSUME TypeInv, MergedInv, NEW u \in Uppers, NEW q,
         \/ RQ' = [RQ EXCEPT ![u] = q] /\ UNCHANGED <<PQ, WQ>> /\ Neat(q, BlockOf)
         \/ PQ' = [PQ EXCEPT ![u] = q] /\ UNCHANGED <<RQ, WQ>> /\ Neat(q, BlockOf)
         \/ WQ' = [WQ EXCEPT ![u] = q] /\ UNCHANGED <<RQ, PQ>> /\ Neat(q, WriteKeys)
  PROVE  MergedInv'
<1>1. DOMAIN RQ = Uppers /\ DOMAIN PQ = Uppers /\ DOMAIN WQ = Uppers BY DEF TypeInv, QueuesOK
<1>2. \A v \in Uppers : Neat(RQ[v], BlockOf) /\ Neat(PQ[v], BlockOf) /\ Neat(WQ[v], WriteKeys)
  BY MergedInvIsNeat
<1>3. \A v \in Uppers : Neat(RQ'[v], BlockOf) /\ Neat(PQ'[v], BlockOf) /\ Neat(WQ'[v], WriteKeys)
  BY <1>1, <1>2
<1> QED BY <1>3 DEF MergedInv, Neat

LEMMA MergedKeeps == ASSUME TypeInv, MergedInv, [Next]_vars PROVE MergedInv'
<1>1. \A v \in Uppers : Neat(RQ[v], BlockOf) /\ Neat(PQ[v], BlockOf) /\ Neat(WQ[v], WriteKeys)
  BY MergedInvIsNeat
<1>2. CASE UNCHANGED queues BY <1>2 DEF queues, MergedInv
<1>3. ASSUME NEW u \in Uppers, NEW a \in Addresses, NEW l \in Loads, AddRq(u, l, a)
      PROVE  MergedInv'
  <2>1. PICK y : y = LoadRequest(a, "LOAD", l) OBVIOUS
  <2>2. y \in Request /\ ~y.forward_checked BY <2>1, LoadRequestFacts DEF Readers
  <2>3. RQ' = [RQ EXCEPT ![u] = Append(RQ[u], y)] BY <1>3, <2>1, Arrivals
  <2>4. UNCHANGED <<PQ, WQ>> BY <1>3 DEF AddRq
  <2>5. Neat(Append(RQ[u], y), BlockOf) BY <1>1, <2>2, RequestQueues, NeatAppend
  <2> QED BY <2>3, <2>4, <2>5, NeatStep
<1>4. ASSUME NEW u \in Uppers, NEW a \in Addresses, NEW l \in Loads, AddPq(u, l, a)
      PROVE  MergedInv'
  <2>1. PICK y : y = LoadRequest(a, "PREFETCH", l) OBVIOUS
  <2>2. y \in Request /\ ~y.forward_checked BY <2>1, LoadRequestFacts DEF Readers
  <2>3. PQ' = [PQ EXCEPT ![u] = Append(PQ[u], y)] BY <1>4, <2>1, Arrivals
  <2>4. UNCHANGED <<RQ, WQ>> BY <1>4 DEF AddPq
  <2>5. Neat(Append(PQ[u], y), BlockOf) BY <1>1, <2>2, RequestQueues, NeatAppend
  <2> QED BY <2>3, <2>4, <2>5, NeatStep
<1>5. ASSUME NEW u \in Uppers, NEW a \in Addresses, AddPqNoResponse(u, a) PROVE MergedInv'
  <2>1. PICK y : y = SilentRequest(a, "PREFETCH") OBVIOUS
  <2>2. y \in Request /\ ~y.forward_checked BY <2>1, SilentRequestFacts
  <2>3. PQ' = [PQ EXCEPT ![u] = Append(PQ[u], y)] BY <1>5, <2>1, Arrivals
  <2>4. UNCHANGED <<RQ, WQ>> BY <1>5 DEF AddPqNoResponse
  <2>5. Neat(Append(PQ[u], y), BlockOf) BY <1>1, <2>2, RequestQueues, NeatAppend
  <2> QED BY <2>3, <2>4, <2>5, NeatStep
<1>6. ASSUME NEW u \in Uppers, NEW a \in Addresses, AddWq(u, a) PROVE MergedInv'
  <2>1. PICK y : y = SilentRequest(a, "WRITE") OBVIOUS
  <2>2. y \in Request /\ ~y.forward_checked BY <2>1, SilentRequestFacts
  <2>3. WQ' = [WQ EXCEPT ![u] = Append(WQ[u], y)] BY <1>6, <2>1, Arrivals
  <2>4. UNCHANGED <<RQ, PQ>> BY <1>6 DEF AddWq
  <2>5. Neat(Append(WQ[u], y), WriteKeys) BY <1>1, <2>2, RequestQueues, NeatAppend
  <2> QED BY <2>3, <2>4, <2>5, NeatStep
<1>7. ASSUME NEW u \in Uppers, NEW j \in At(WQ[u]), CheckWq(u, j) PROVE MergedInv'
  <2>1. PICK q : q = CheckedWrites(WQ[u], j) OBVIOUS
  <2>2. WQ' = [WQ EXCEPT ![u] = q] /\ UNCHANGED <<RQ, PQ>> /\ First(Unchecked(WQ[u]), j)
    BY <1>7, <2>1 DEF CheckWq, CheckedWrites
  <2>3. Neat(q, WriteKeys) BY <1>1, <2>1, <2>2, RequestQueues, NeatWrites DEF At
  <2> QED BY <2>2, <2>3, NeatStep
<1>8. ASSUME NEW u \in Uppers, NEW j \in At(RQ[u]), CheckRq(u, j) PROVE MergedInv'
  <2>1. PICK q : q = CheckedReads(u, RQ[u], j) OBVIOUS
  <2>2. RQ' = [RQ EXCEPT ![u] = q] /\ UNCHANGED <<PQ, WQ>> /\ First(Unchecked(RQ[u]), j)
    BY <1>8, <2>1 DEF CheckRq
  <2>3. Neat(q, BlockOf) BY <1>1, <2>1, <2>2, RequestQueues, NeatReads DEF At
  <2> QED BY <2>2, <2>3, NeatStep
<1>9. ASSUME NEW u \in Uppers, NEW j \in At(PQ[u]), CheckPq(u, j) PROVE MergedInv'
  <2>1. PICK q : q = CheckedReads(u, PQ[u], j) OBVIOUS
  <2>2. PQ' = [PQ EXCEPT ![u] = q] /\ UNCHANGED <<RQ, WQ>> /\ First(Unchecked(PQ[u]), j)
    BY <1>9, <2>1 DEF CheckPq
  <2>3. Neat(q, BlockOf) BY <1>1, <2>1, <2>2, RequestQueues, NeatReads DEF At
  <2> QED BY <2>2, <2>3, NeatStep
<1>10. ASSUME NEW u \in Uppers, StartWq(u) \/ StartRq(u) \/ StartPq(u) PROVE MergedInv'
  <2>1. CASE StartWq(u)
    <3>1. WQ[u] # <<>> /\ WQ' = [WQ EXCEPT ![u] = Tail(WQ[u])] /\ UNCHANGED <<RQ, PQ>>
      BY <2>1 DEF StartWq
    <3> QED BY <1>1, <3>1, RequestQueues, NeatTail, NeatStep
  <2>2. CASE StartRq(u)
    <3>1. RQ[u] # <<>> /\ RQ' = [RQ EXCEPT ![u] = Tail(RQ[u])] /\ UNCHANGED <<PQ, WQ>>
      BY <2>2 DEF StartRq
    <3> QED BY <1>1, <3>1, RequestQueues, NeatTail, NeatStep
  <2>3. CASE StartPq(u)
    <3>1. PQ[u] # <<>> /\ PQ' = [PQ EXCEPT ![u] = Tail(PQ[u])] /\ UNCHANGED <<RQ, WQ>>
      BY <2>3 DEF StartPq
    <3> QED BY <1>1, <3>1, RequestQueues, NeatTail, NeatStep
  <2> QED BY <1>10, <2>1, <2>2, <2>3
<1>11. CASE Arrive BY <1>3, <1>4, <1>5, <1>6, <1>11 DEF Arrive
<1>12. CASE LowerLevel \/ EndWarmup \/ Prefetch
  BY <1>2, <1>12 DEF LowerLevel, LowerAnswers, LowerTakesWrite, EndWarmup, Prefetch, PrefetchLine
<1>13. CASE StartCycle \/ EndCollide \/ EndFinish \/ EndFill \/ EndWrite \/ EndStart \/ EndCheck \/ Tick
  BY <1>2, <1>13
     DEF StartCycle, EndCollide, EndFinish, EndFill, EndWrite, EndStart, EndCheck, Tick
<1>14. CASE \E i, j \in At(MSHR) : FinishPacket(i, j) BY <1>2, <1>14 DEF FinishPacket
<1>15. CASE FillMshr \/ FillWrite \/ StartInternal
  BY <1>2, <1>15 DEF FillMshr, FillWrite, StartInternal
<1>16. CASE TryHit \/ HandleWrite \/ MergeMiss \/ SendMiss
  BY <1>2, <1>16 DEF TryHit, HandleWrite, MergeMiss, SendMiss
<1>17. CASE UNCHANGED vars BY <1>2, <1>17 DEF vars
<1> QED BY <1>7, <1>8, <1>9, <1>10, <1>11, <1>12, <1>13, <1>14, <1>15, <1>16, <1>17
        DEF Next, Operate
-----------------------------------------------------------------------------
(* A pipeline: what is due stands in front *)

Timed == {e \in mshr_type \cup tag_lookup_type : e.left \in Nat \cup {Never}}
LEMMA TimedEntries ==
  /\ \A q \in Seq(TagEntries) : q \in Seq(Timed) /\ \A i \in DOMAIN q : q[i].left # Never
  /\ \A q \in Seq(MissEntries) : q \in Seq(Timed)
  /\ \A q \in Seq(WriteEntries) : q \in Seq(Timed) /\ \A i \in DOMAIN q : q[i].left # Never
<1>1. /\ \A e \in TagEntries : e \in Timed /\ e.left # Never
      /\ \A e \in WriteEntries : e \in Timed /\ e.left # Never
      /\ MissEntries \subseteq Timed
  BY DEF TagEntries, tag_lookup_type, Timed, WriteEntries, MissEntries, mshr_type, Never
<1>2. TagEntries \subseteq Timed /\ WriteEntries \subseteq Timed BY <1>1
<1>3. \A q \in Seq(TagEntries) : \A i \in DOMAIN q : q[i] \in TagEntries OBVIOUS
<1>4. \A q \in Seq(WriteEntries) : \A i \in DOMAIN q : q[i] \in WriteEntries OBVIOUS
<1> HIDE DEF TagEntries, WriteEntries, MissEntries, Timed
<1>5. \A q \in Seq(TagEntries) : q \in Seq(Timed) BY <1>2, SeqGrows
<1>6. \A q \in Seq(WriteEntries) : q \in Seq(Timed) BY <1>2, SeqGrows
<1>7. \A q \in Seq(MissEntries) : q \in Seq(Timed) BY <1>1, SeqGrows
<1> QED BY <1>1, <1>3, <1>4, <1>5, <1>6, <1>7

LEMMA TimeAppend ==
  ASSUME NEW q \in Seq(Timed), NEW y \in Timed, NEW L \in Nat, InTime(q, L),
         \/ y.left = Never
         \/ y.left = L /\ \A i \in DOMAIN q : q[i].left # Never
  PROVE  InTime(Append(q, y), L)
<1> DEFINE p == Append(q, y)  n == Len(q) + 1
<1>1. Len(q) \in Nat /\ DOMAIN q = 1..Len(q) OBVIOUS
<1>2. /\ DOMAIN p = DOMAIN q \cup {n} /\ n \notin DOMAIN q /\ p[n] = y
      /\ \A i \in DOMAIN q : p[i] = q[i] /\ i < n
  BY <1>1, AppendFacts
<1>3. \A i \in DOMAIN q : ~(n < i) /\ ~(n < n) BY <1>1
<1> HIDE DEF p, n
<1>4. \A i \in DOMAIN q : q[i].left # Never => q[i].left \in 0..L BY DEF InTime
<1>5. \A i \in DOMAIN p : p[i].left # Never => p[i].left \in 0..L BY <1>2, <1>4
<1>6. ASSUME NEW i \in DOMAIN p, NEW j \in DOMAIN p, i < j, p[j].left # Never
      PROVE  p[i].left \in 0..p[j].left
  <2>1. i \in DOMAIN q BY <1>2, <1>3, <1>6
  <2>2. CASE j = n BY <1>2, <1>4, <1>6, <2>1, <2>2
  <2>3. CASE j \in DOMAIN q BY <1>2, <1>6, <2>1, <2>3 DEF InTime, Ordered
  <2> QED BY <1>2, <2>2, <2>3
<1> QED BY <1>5, <1>6 DEF InTime, Ordered, p

LEMMA TimeTail ==
  ASSUME NEW q \in Seq(Timed), q # <<>>, NEW L \in Nat, InTime(q, L)
  PROVE  InTime(Tail(q), L)
<1>1. \A i \in DOMAIN Tail(q) : i \in Nat /\ i + 1 \in DOMAIN q /\ Tail(q)[i] = q[i + 1]
  BY TailFacts
<1>2. \A i \in DOMAIN Tail(q) : Tail(q)[i].left # Never => Tail(q)[i].left \in 0..L
  BY <1>1 DEF InTime
<1>3. ASSUME NEW i \in DOMAIN Tail(q), NEW j \in DOMAIN Tail(q), i < j, Tail(q)[j].left # Never
      PROVE  Tail(q)[i].left \in 0..Tail(q)[j].left
  <2>1. i + 1 < j + 1 BY <1>1, <1>3
  <2> QED BY <1>1, <1>3, <2>1 DEF InTime, Ordered
<1> QED BY <1>2, <1>3 DEF InTime, Ordered

\* One entry changes, but not when it is due.
LEMMA TimeSame ==
  ASSUME NEW q, NEW p, DOMAIN p = DOMAIN q, \A i \in DOMAIN q : p[i].left = q[i].left,
         NEW L, InTime(q, L)
  PROVE  InTime(p, L)
BY DEF InTime, Ordered

\* The answered entry takes the place of the first outstanding one.
LEMMA TimeSwapped ==
  ASSUME NEW q \in Seq(MissEntries), NEW i \in DOMAIN q, NEW j \in DOMAIN q,
         q[i].left = Never, First(Outstanding(q), j), NEW L \in Nat, InTime(q, L),
         NEW e \in MissEntries, e.left = L
  PROVE  InTime(Swapped(q, i, j, e), L)
<1> DEFINE p == Swapped(q, i, j, e)
<1>1. Len(q) \in Nat /\ DOMAIN q = 1..Len(q) OBVIOUS
<1>2. /\ DOMAIN p = DOMAIN q /\ p[j] = e /\ (i # j => p[i] = q[j])
      /\ \A k \in DOMAIN q \ {i, j} : p[k] = q[k]
  BY SwappedFacts
<1>3. q[j].left = Never /\ \A k \in DOMAIN q : q[k].left = Never => j <= k
  BY DEF First, Outstanding
<1>4. \A k \in DOMAIN q : q[k].left # Never => q[k].left \in 0..L BY DEF InTime
<1>5. \A a, c \in DOMAIN q : a < c /\ q[c].left # Never => q[a].left \in 0..q[c].left
  BY DEF InTime, Ordered
<1> HIDE DEF p
<1>6. \A k \in DOMAIN p : p[k].left # Never => p[k].left \in 0..L BY <1>2, <1>3, <1>4
<1>7. ASSUME NEW a \in DOMAIN p, NEW c \in DOMAIN p, a < c, p[c].left # Never
      PROVE  p[a].left \in 0..p[c].left
  <2>1. c # i \/ i = j BY <1>2, <1>3, <1>7
  <2>2. ASSUME NEW k \in DOMAIN q, k < j PROVE k # i /\ k # j /\ q[k].left # Never /\ p[k] = q[k]
    <3>1. q[k].left # Never BY <1>1, <1>3, <2>2
    <3>2. k # i /\ k # j BY <1>1, <2>2, <3>1
    <3> QED BY <1>2, <3>1, <3>2
  <2>3. CASE c = j
    <3>1. q[a].left # Never /\ p[a] = q[a] BY <1>2, <1>7, <2>2, <2>3
    <3> QED BY <1>2, <1>4, <2>3, <3>1
  <2>4. CASE c < j
    <3>1. a < j BY <1>1, <1>2, <1>7, <2>4
    <3>2. p[c] = q[c] /\ p[a] = q[a] BY <1>2, <2>2, <2>4, <3>1
    <3> QED BY <1>2, <1>5, <1>7, <3>2
  <2>5. CASE c # j /\ ~(c < j)
    <3>1. j < c BY <1>1, <1>2, <2>5
    <3>2. c # i BY <2>1, <2>5
    <3>3. p[c] = q[c] BY <1>2, <2>5, <3>2
    <3>4. q[j].left \in 0..q[c].left BY <1>2, <1>5, <1>7, <3>1, <3>3
    <3> QED BY <1>3, <3>4 DEF Never
  <2> QED BY <2>3, <2>4, <2>5
<1> QED BY <1>6, <1>7 DEF InTime, Ordered, p

LEMMA TimeSooner ==
  ASSUME NEW q \in Seq(Timed), NEW L \in Nat, InTime(q, L)
  PROVE  InTime(Sooner(q), L)
<1>1. DOMAIN Sooner(q) = DOMAIN q /\ \A i \in DOMAIN q : Sooner(q)[i] = Nearer(q[i])
  BY SoonerFacts
<1>2. ASSUME NEW i \in DOMAIN q
      PROVE  /\ Sooner(q)[i].left = IF q[i].left > 0 THEN q[i].left - 1 ELSE q[i].left
             /\ q[i].left \in Nat \cup {Never}
  <2>1. q[i] \in mshr_type \cup tag_lookup_type /\ q[i].left \in Nat \cup {Never} BY DEF Timed
  <2> QED BY <1>1, <2>1, NearerFacts
<1>3. \A i \in DOMAIN q : Sooner(q)[i].left # Never <=> q[i].left # Never BY <1>2 DEF Never
<1>4. \A i \in DOMAIN q : Sooner(q)[i].left # Never => Sooner(q)[i].left \in 0..L
  <2> SUFFICES ASSUME NEW i \in DOMAIN q, q[i].left # Never PROVE Sooner(q)[i].left \in 0..L
    BY <1>3
  <2>1. q[i].left \in 0..L BY DEF InTime
  <2> QED BY <1>2, <2>1
<1>5. ASSUME NEW i \in DOMAIN q, NEW j \in DOMAIN q, i < j, q[j].left # Never
      PROVE  Sooner(q)[i].left \in 0..Sooner(q)[j].left
  <2>1. q[i].left \in 0..q[j].left BY <1>5 DEF InTime, Ordered
  <2>2. q[j].left \in Nat BY <1>2, <1>5
  <2> QED BY <1>2, <2>1, <2>2
<1> QED BY <1>1, <1>3, <1>4, <1>5 DEF InTime, Ordered

\* The entry of an answer is the one that waits for it: finish_packet finds it.
LEMMA AnsweredIsOutstanding ==
  ASSUME TypeInv, LowerInv, NEW i \in DOMAIN MSHR, returned # <<>>, MSHR[i].block = returned[1]
  PROVE  MSHR[i].left = Never
<1>1. returned \in Seq(Blocks) BY DEF TypeInv, LowerOK
<1>2. returned[1] \in ToSet(returned) BY <1>1, TailFacts DEF ToSet
<1>3. returned[1] \in OutstandingBlocks(MSHR) BY <1>2 DEF LowerInv
<1>4. PICK k \in Outstanding(MSHR) : MSHR[k].block = returned[1] BY <1>3 DEF OutstandingBlocks
<1>5. k \in DOMAIN MSHR /\ MSHR[k].left = Never BY <1>4 DEF Outstanding
<1>6. k = i BY <1>4, <1>5 DEF LowerInv, OnePerBlock
<1> QED BY <1>5, <1>6

LEMMA TimeKeeps == ASSUME TypeInv, TimeInv, LowerInv, [Next]_vars PROVE TimeInv'
<1>1. /\ InTime(MSHR, Fill_latency) /\ InTime(inflight_writes, Fill_latency)
      /\ InTime(inflight_tag_check, Hit_latency)
  BY DEF TimeInv
<1>2. /\ inflight_tag_check \in Seq(Timed)
      /\ \A i \in DOMAIN inflight_tag_check : inflight_tag_check[i].left # Never
      /\ MSHR \in Seq(Timed) /\ MSHR \in Seq(MissEntries)
      /\ inflight_writes \in Seq(Timed)
      /\ \A i \in DOMAIN inflight_writes : inflight_writes[i].left # Never
  BY TimedEntries DEF TypeInv, PipesOK
<1>3. PICK F \in Nat : F = Fill_latency BY Latencies
<1>4. PICK H \in Nat : H = Hit_latency BY Latencies
<1>5. ASSUME UNCHANGED warmup, InTime(MSHR', F), InTime(inflight_writes', F),
             InTime(inflight_tag_check', H)
      PROVE  TimeInv'
  <2>1. F = Fill_latency' /\ H = Hit_latency' BY <1>3, <1>4, <1>5 DEF Fill_latency, Hit_latency
  <2> QED BY <1>5, <2>1 DEF TimeInv
<1>6. InTime(MSHR, F) /\ InTime(inflight_writes, F) /\ InTime(inflight_tag_check, H)
  BY <1>1, <1>3, <1>4
<1>7. CASE UNCHANGED <<warmup, inflight_tag_check, misses>> BY <1>5, <1>6, <1>7 DEF misses
<1>8. CASE EndWarmup
  <2>1. F = 0 /\ H = 0 /\ UNCHANGED <<inflight_tag_check, MSHR, inflight_writes>>
    BY <1>3, <1>4, <1>8 DEF EndWarmup, Fill_latency, Hit_latency, tags, misses
  <2>2. PICK f \in Nat : f = Fill_latency'
    BY <1>8, Constants DEF EndWarmup, Fill_latency
  <2>3. PICK h \in Nat : h = Hit_latency'
    BY <1>8, Constants DEF EndWarmup, Hit_latency
  <2>4. \A q : \A n \in Nat : InTime(q, 0) => InTime(q, n) BY DEF InTime
  <2>5. InTime(MSHR, f) /\ InTime(inflight_writes, f) /\ InTime(inflight_tag_check, h)
    BY <1>6, <2>1, <2>4
  <2> QED BY <2>1, <2>2, <2>3, <2>5 DEF TimeInv
<1>9. ASSUME NEW u \in Uppers, NEW r \in Readers \cup Writers, Start(r, u),
             UNCHANGED <<warmup, misses>>
      PROVE  TimeInv'
  <2>1. PICK y : y = ToTagCheck(r, u) OBVIOUS
  <2>2. y \in TagEntries /\ y.left = H BY <1>4, <2>1, ToTagCheckType DEF ToTagCheck
  <2>3. y \in Timed BY <2>2 DEF TagEntries, tag_lookup_type, Timed
  <2>4. inflight_tag_check' = Append(inflight_tag_check, y) BY <1>9, <2>1 DEF Start
  <2>5. InTime(inflight_tag_check', H) BY <1>2, <1>6, <2>2, <2>3, <2>4, TimeAppend
  <2> QED BY <1>5, <1>6, <1>9, <2>5 DEF misses
<1>10. ASSUME NEW u \in Uppers, StartWq(u) \/ StartRq(u) \/ StartPq(u) PROVE TimeInv'
  <2>1. /\ RQ[u] \in Seq(Readers) /\ PQ[u] \in Seq(Readers) /\ WQ[u] \in Seq(Writers)
    BY DEF TypeInv, QueuesOK
  <2>2. CASE StartWq(u)
    <3>1. WQ[u][1] \in Writers BY <2>1, <2>2 DEF StartWq
    <3> QED BY <1>9, <2>2, <3>1 DEF StartWq
  <2>3. CASE StartRq(u)
    <3>1. RQ[u][1] \in Readers BY <2>1, <2>3 DEF StartRq
    <3> QED BY <1>9, <2>3, <3>1 DEF StartRq
  <2>4. CASE StartPq(u)
    <3>1. PQ[u][1] \in Readers BY <2>1, <2>4 DEF StartPq
    <3> QED BY <1>9, <2>4, <3>1 DEF StartPq
  <2> QED BY <1>10, <2>2, <2>3, <2>4
<1>11. CASE StartInternal
  <2>1. internal_PQ # <<>> /\ UNCHANGED <<warmup, misses>> BY <1>11 DEF StartInternal
  <2>2. internal_PQ \in Seq(OwnPrefetches) BY DEF TypeInv, PipesOK
  <2>3. internal_PQ[1] \in OwnPrefetches BY <2>1, <2>2
  <2>4. PICK y : y = [internal_PQ[1] EXCEPT !.left = H] OBVIOUS
  <2>5. y \in Timed /\ y.left = H
    BY <2>3, <2>4 DEF OwnPrefetches, TagEntries, tag_lookup_type, Timed
  <2>6. inflight_tag_check' = Append(inflight_tag_check, y) BY <1>4, <1>11, <2>4 DEF StartInternal
  <2>7. InTime(inflight_tag_check', H) BY <1>2, <1>6, <2>5, <2>6, TimeAppend
  <2> QED BY <1>5, <1>6, <2>1, <2>7 DEF misses
<1>12. CASE \E i, j \in At(MSHR) : FinishPacket(i, j)
  <2>1. PICK i \in DOMAIN MSHR, j \in DOMAIN MSHR : FinishPacket(i, j) BY <1>12 DEF At
  <2>2. PICK e : e = [MSHR[i] EXCEPT !.left = F] OBVIOUS
  <2>3. MSHR' = Swapped(MSHR, i, j, e) /\ First(Outstanding(MSHR), j)
        /\ returned # <<>> /\ MSHR[i].block = returned[1]
        /\ UNCHANGED <<warmup, inflight_tag_check, inflight_writes>>
    BY <1>3, <2>1, <2>2 DEF FinishPacket, First, EntryOf, tags
  <2>4. MSHR[i].left = Never BY <2>3, AnsweredIsOutstanding
  <2>5. MSHR[i] \in MissEntries BY <1>2
  <2>6. e \in MissEntries /\ e.left = F BY <2>2, <2>5 DEF MissEntries, mshr_type
  <2>7. InTime(MSHR', F) BY <1>2, <1>6, <2>3, <2>4, <2>6, TimeSwapped
  <2> QED BY <1>5, <1>6, <2>3, <2>7
<1>13. CASE FillMshr
  <2>1. MSHR # <<>> /\ MSHR' = Tail(MSHR) /\ UNCHANGED <<warmup, inflight_tag_check, inflight_writes>>
    BY <1>13 DEF FillMshr, Due, tags
  <2> QED BY <1>2, <1>5, <1>6, <2>1, TimeTail
<1>14. CASE FillWrite
  <2>1. /\ inflight_writes # <<>> /\ inflight_writes' = Tail(inflight_writes)
        /\ UNCHANGED <<warmup, inflight_tag_check, MSHR>>
    BY <1>14 DEF FillWrite, Due, tags
  <2> QED BY <1>2, <1>5, <1>6, <2>1, TimeTail
<1>15. ASSUME Checking, CheckDone PROVE InTime(inflight_tag_check', H)
  <2>1. inflight_tag_check # <<>> /\ inflight_tag_check' = Tail(inflight_tag_check)
    BY <1>15 DEF Checking, CheckDone, Due
  <2> QED BY <1>2, <1>6, <2>1, TimeTail
<1>16. CASE TryHit BY <1>5, <1>6, <1>15, <1>16 DEF TryHit, misses
<1>17. CASE HandleWrite
  <2>1. Checking /\ CheckDone /\ UNCHANGED <<warmup, MSHR>> BY <1>17 DEF HandleWrite
  <2>2. PICK y : y = ToMshr(Pkt, F) OBVIOUS
  <2>3. y \in Timed /\ y.left = F
    <3>1. y \in mshr_type /\ y.left = F BY <2>1, <2>2, PktFacts, ToMshrType
    <3> QED BY <3>1 DEF Timed
  <2>4. inflight_writes' = Append(inflight_writes, y) BY <1>3, <1>17, <2>2 DEF HandleWrite
  <2>5. InTime(inflight_writes', F) BY <1>2, <1>6, <2>3, <2>4, TimeAppend
  <2> QED BY <1>5, <1>6, <1>15, <2>1, <2>5
<1>18. CASE MergeMiss
  <2>1. Miss /\ Checking /\ CheckDone /\ UNCHANGED <<warmup, inflight_writes>>
    BY <1>18 DEF MergeMiss, Miss
  <2>2. PICK i \in DOMAIN MSHR : MSHR' = [MSHR EXCEPT ![i] = Merged(@, Pkt)]
    BY <1>18 DEF MergeMiss, EntryOf
  <2>3. MSHR[i] \in MissEntries BY <1>2
  <2>4. Merged(MSHR[i], Pkt).left = MSHR[i].left BY <2>1, <2>3, PktFacts, MergedType
  <2>5. DOMAIN MSHR' = DOMAIN MSHR /\ \A k \in DOMAIN MSHR : MSHR'[k].left = MSHR[k].left
    BY <2>2, <2>4
  <2>6. InTime(MSHR', F) BY <1>6, <2>5, TimeSame
  <2> QED BY <1>5, <1>6, <1>15, <2>1, <2>6
<1>19. CASE SendMiss
  <2>1. Miss /\ Checking /\ CheckDone /\ UNCHANGED <<warmup, inflight_writes>>
    BY <1>19 DEF SendMiss, Miss
  <2>2. PICK y : y = ToMshr(Pkt, Never) OBVIOUS
  <2>3. y \in Timed /\ y.left = Never
    <3>1. y \in mshr_type /\ y.left = Never BY <2>1, <2>2, PktFacts, ToMshrType
    <3> QED BY <3>1 DEF Timed
  <2>4. MSHR' = MSHR \/ MSHR' = Append(MSHR, y) BY <1>19, <2>2 DEF SendMiss
  <2>5. InTime(MSHR', F) BY <1>2, <1>6, <2>3, <2>4, TimeAppend
  <2> QED BY <1>5, <1>6, <1>15, <2>1, <2>5
<1>20. CASE Tick
  <2>1. /\ inflight_tag_check' = Sooner(inflight_tag_check) /\ MSHR' = Sooner(MSHR)
        /\ inflight_writes' = Sooner(inflight_writes) /\ UNCHANGED warmup
    BY <1>20 DEF Tick
  <2>2. /\ InTime(Sooner(inflight_tag_check), H) /\ InTime(Sooner(MSHR), F)
        /\ InTime(Sooner(inflight_writes), F)
    BY <1>2, <1>6, TimeSooner
  <2> QED BY <1>5, <2>1, <2>2
<1>21. CASE Arrive
  BY <1>7, <1>21 DEF Arrive, AddRq, AddPq, AddPqNoResponse, AddWq, tags
<1>22. CASE LowerLevel \/ Prefetch
  BY <1>7, <1>22 DEF LowerLevel, LowerAnswers, LowerTakesWrite, Prefetch, PrefetchLine, tags
<1>23. CASE StartCycle \/ EndCollide \/ EndFinish \/ EndFill \/ EndWrite \/ EndStart \/ EndCheck
  BY <1>7, <1>23 DEF StartCycle, EndCollide, EndFinish, EndFill, EndWrite, EndStart, EndCheck, tags
<1>24. CASE \E u \in Uppers : \/ \E j \in At(WQ[u]) : CheckWq(u, j)
                              \/ \E j \in At(RQ[u]) : CheckRq(u, j)
                              \/ \E j \in At(PQ[u]) : CheckPq(u, j)
  BY <1>7, <1>24 DEF CheckWq, CheckRq, CheckPq, tags
<1>25. CASE UNCHANGED vars BY <1>7, <1>25 DEF vars, tags
<1> QED BY <1>8, <1>10, <1>11, <1>12, <1>13, <1>14, <1>16, <1>17, <1>18, <1>19, <1>20,
           <1>21, <1>22, <1>23, <1>24, <1>25
        DEF Next, Operate
-----------------------------------------------------------------------------
(* The MSHRs and the level below *)

LEMMA MissesTail ==
  ASSUME NEW q \in Seq(MissEntries), q # <<>>, q[1].left # Never, OnePerBlock(q)
  PROVE  OnePerBlock(Tail(q)) /\ OutstandingBlocks(Tail(q)) = OutstandingBlocks(q)
<1>1. /\ \A i \in DOMAIN Tail(q) : i \in Nat /\ i + 1 \in DOMAIN q /\ Tail(q)[i] = q[i + 1]
      /\ \A i \in DOMAIN q : i # 1 => i - 1 \in DOMAIN Tail(q) /\ Tail(q)[i - 1] = q[i]
  BY TailFacts
<1>2. OnePerBlock(Tail(q))
  <2> SUFFICES ASSUME NEW i \in DOMAIN Tail(q), NEW j \in DOMAIN Tail(q),
                      Tail(q)[i].block = Tail(q)[j].block
               PROVE  i = j
    BY DEF OnePerBlock
  <2>1. i + 1 = j + 1 BY <1>1 DEF OnePerBlock
  <2> QED BY <1>1, <2>1
<1>3. ASSUME NEW b PROVE b \in OutstandingBlocks(Tail(q)) <=> b \in OutstandingBlocks(q)
  <2>1. ASSUME NEW i \in Outstanding(Tail(q)), Tail(q)[i].block = b
        PROVE  i + 1 \in Outstanding(q) /\ q[i + 1].block = b
    BY <1>1, <2>1 DEF Outstanding
  <2>2. ASSUME NEW i \in Outstanding(q), q[i].block = b
        PROVE  i - 1 \in Outstanding(Tail(q)) /\ Tail(q)[i - 1].block = b
    BY <1>1, <2>2 DEF Outstanding
  <2> QED BY <2>1, <2>2 DEF OutstandingBlocks
<1> QED BY <1>2, <1>3

LEMMA MissesAppend ==
  ASSUME NEW q \in Seq(MissEntries), NEW y \in MissEntries, y.left = Never, OnePerBlock(q),
         \A i \in DOMAIN q : q[i].block # y.block
  PROVE  /\ OnePerBlock(Append(q, y))
         /\ OutstandingBlocks(Append(q, y)) = OutstandingBlocks(q) \cup {y.block}
<1> DEFINE p == Append(q, y)  n == Len(q) + 1
<1>1. /\ DOMAIN p = DOMAIN q \cup {n} /\ n \notin DOMAIN q /\ p[n] = y
      /\ \A i \in DOMAIN q : p[i] = q[i]
  BY AppendFacts
<1> HIDE DEF p, n
<1>2. OnePerBlock(p) BY <1>1 DEF OnePerBlock
<1>3. Outstanding(p) = Outstanding(q) \cup {n} BY <1>1 DEF Outstanding
<1>4. \A i \in Outstanding(q) : p[i] = q[i] BY <1>1 DEF Outstanding
<1>5. OutstandingBlocks(p) = OutstandingBlocks(q) \cup {y.block}
  BY <1>1, <1>3, <1>4 DEF OutstandingBlocks
<1> QED BY <1>2, <1>5 DEF p

LEMMA MissesSame ==
  ASSUME NEW q, NEW p, DOMAIN p = DOMAIN q,
         \A i \in DOMAIN q : p[i].block = q[i].block /\ (p[i].left = Never <=> q[i].left = Never),
         OnePerBlock(q)
  PROVE  OnePerBlock(p) /\ OutstandingBlocks(p) = OutstandingBlocks(q)
<1>1. OnePerBlock(p) BY DEF OnePerBlock
<1>2. Outstanding(p) = Outstanding(q) BY DEF Outstanding
<1>3. \A i \in Outstanding(q) : p[i].block = q[i].block BY DEF Outstanding
<1> QED BY <1>1, <1>2, <1>3 DEF OutstandingBlocks

LEMMA MissesSwapped ==
  ASSUME NEW q \in Seq(MissEntries), NEW i \in DOMAIN q, NEW j \in DOMAIN q, OnePerBlock(q),
         q[i].left = Never, q[j].left = Never,
         NEW e \in MissEntries, e.block = q[i].block, e.left # Never
  PROVE  /\ OnePerBlock(Swapped(q, i, j, e))
         /\ OutstandingBlocks(Swapped(q, i, j, e)) = OutstandingBlocks(q) \ {q[i].block}
<1> DEFINE p == Swapped(q, i, j, e)
<1>1. /\ DOMAIN p = DOMAIN q /\ p[j] = e /\ (i # j => p[i] = q[j])
      /\ \A k \in DOMAIN q \ {i, j} : p[k] = q[k]
  BY SwappedFacts
<1> HIDE DEF p
<1>2. \A a, c \in DOMAIN q : q[a].block = q[c].block => a = c BY DEF OnePerBlock
<1>3. \A k \in DOMAIN q : \/ k = j /\ p[k].block = q[i].block
                          \/ k = i /\ k # j /\ p[k].block = q[j].block
                          \/ k # i /\ k # j /\ p[k].block = q[k].block
  BY <1>1
<1>4. OnePerBlock(p)
  <2> SUFFICES ASSUME NEW a \in DOMAIN p, NEW c \in DOMAIN p, p[a].block = p[c].block
               PROVE  a = c
    BY DEF OnePerBlock
  <2> QED BY <1>1, <1>2, <1>3
<1>5. ASSUME NEW k \in DOMAIN p PROVE p[k].left = Never => p[k].block # q[i].block
  BY <1>1, <1>2
<1>6. ASSUME NEW b, b \in OutstandingBlocks(p) PROVE b \in OutstandingBlocks(q) /\ b # q[i].block
  <2>1. PICK k \in DOMAIN p : p[k].left = Never /\ p[k].block = b
    BY <1>6 DEF OutstandingBlocks, Outstanding
  <2>2. b # q[i].block BY <1>5, <2>1
  <2>3. k # j BY <1>1, <2>1
  <2>4. \E n \in DOMAIN q : q[n].left = Never /\ q[n].block = b
    BY <1>1, <2>1, <2>3
  <2> QED BY <2>2, <2>4 DEF OutstandingBlocks, Outstanding
<1>7. ASSUME NEW b, b \in OutstandingBlocks(q), b # q[i].block PROVE b \in OutstandingBlocks(p)
  <2>1. PICK k \in DOMAIN q : q[k].left = Never /\ q[k].block = b
    BY <1>7 DEF OutstandingBlocks, Outstanding
  <2>2. k # i BY <1>7, <2>1
  <2>3. \E n \in DOMAIN p : p[n].left = Never /\ p[n].block = b
    <3>1. CASE k = j
      <4>1. p[i] = q[j] BY <1>1, <2>2, <3>1
      <4> QED BY <1>1, <2>1, <3>1, <4>1
    <3>2. CASE k # j BY <1>1, <2>1, <2>2, <3>2
    <3> QED BY <3>1, <3>2
  <2> QED BY <2>3 DEF OutstandingBlocks, Outstanding
<1> QED BY <1>4, <1>6, <1>7 DEF p

LEMMA LowerStep == ASSUME TypeInv, LowerInv, [Next]_vars PROVE LowerInv'
<1>1. MSHR \in Seq(MissEntries) /\ asked \subseteq Questions /\ returned \in Seq(Blocks)
  BY DEF TypeInv, PipesOK, LowerOK
<1>2. /\ Len(MSHR) <= MSHR_SIZE /\ OnePerBlock(MSHR) /\ IsFiniteSet(asked)
      /\ \A r, s \in asked : r.block = s.block => r = s
      /\ \A i, j \in DOMAIN returned : returned[i] = returned[j] => i = j
      /\ \A r \in asked : r.block \notin ToSet(returned)
      /\ OutstandingBlocks(MSHR) = BlocksOf(asked) \cup ToSet(returned)
  BY DEF LowerInv
<1>3. MSHR_SIZE \in Nat /\ Len(MSHR) \in Nat BY <1>1, Constants
\* The same questions are under way, for the same blocks.
<1>4. ASSUME UNCHANGED <<asked, returned>>, Len(MSHR') <= MSHR_SIZE, OnePerBlock(MSHR'),
             OutstandingBlocks(MSHR') = OutstandingBlocks(MSHR)
      PROVE  LowerInv'
  <2>1. /\ IsFiniteSet(asked') /\ \A r, s \in asked' : r.block = s.block => r = s
        /\ \A i, j \in DOMAIN returned' : returned'[i] = returned'[j] => i = j
        /\ \A r \in asked' : r.block \notin ToSet(returned')
        /\ BlocksOf(asked') \cup ToSet(returned') = BlocksOf(asked) \cup ToSet(returned)
    BY <1>2, <1>4
  <2>2. OutstandingBlocks(MSHR)' = OutstandingBlocks(MSHR') /\ OnePerBlock(MSHR)' = OnePerBlock(MSHR')
    BY DEF OutstandingBlocks, Outstanding, OnePerBlock
  <2> QED BY <1>2, <1>4, <2>1, <2>2 DEF LowerInv
<1>5. CASE UNCHANGED <<asked, returned, MSHR>> BY <1>2, <1>4, <1>5
<1>6. ASSUME NEW r \in asked, LowerAnswers(r) PROVE LowerInv'
  <2>1. asked' = asked \ {r} /\ returned' = Append(returned, r.block) /\ MSHR' = MSHR
    BY <1>6 DEF LowerAnswers, misses
  <2>2. r.block \in Blocks BY <1>1, <1>6 DEF Questions
  <2>3. PICK n : n = Len(returned) + 1 OBVIOUS
  <2>4. /\ DOMAIN returned' = DOMAIN returned \cup {n} /\ n \notin DOMAIN returned
        /\ returned'[n] = r.block /\ \A i \in DOMAIN returned : returned'[i] = returned[i]
    BY <1>1, <2>1, <2>2, <2>3, AppendFacts
  <2>5. ToSet(returned') = ToSet(returned) \cup {r.block} BY <2>4 DEF ToSet
  <2>6. \A i \in DOMAIN returned : returned[i] # r.block BY <1>2, <1>6 DEF ToSet
  <2>7. \A i, j \in DOMAIN returned' : returned'[i] = returned'[j] => i = j BY <1>2, <2>4, <2>6
  <2>8. \A s \in asked' : s.block \notin ToSet(returned') BY <1>2, <1>6, <2>1, <2>5
  <2>9. BlocksOf(asked') \cup ToSet(returned') = BlocksOf(asked) \cup ToSet(returned)
    BY <1>6, <2>1, <2>5 DEF BlocksOf
  <2>10. IsFiniteSet(asked') /\ \A s, t \in asked' : s.block = t.block => s = t
    BY <1>2, <2>1, FS_RemoveElement
  <2>11. OutstandingBlocks(MSHR)' = OutstandingBlocks(MSHR) /\ OnePerBlock(MSHR)'
    BY <1>2, <2>1 DEF OutstandingBlocks, Outstanding, OnePerBlock
  <2>12. BlocksOf(asked)' = BlocksOf(asked') /\ ToSet(returned)' = ToSet(returned')
    BY DEF BlocksOf, ToSet
  <2> QED BY <1>2, <2>1, <2>7, <2>8, <2>9, <2>10, <2>11, <2>12 DEF LowerInv
<1>7. CASE \E i, j \in At(MSHR) : FinishPacket(i, j)
  <2>1. PICK i \in DOMAIN MSHR, j \in DOMAIN MSHR : FinishPacket(i, j) BY <1>7 DEF At
  <2>2. PICK f \in Nat : f = Fill_latency BY Latencies
  <2>3. PICK e : e = [MSHR[i] EXCEPT !.left = f] OBVIOUS
  <2>4. MSHR' = Swapped(MSHR, i, j, e) /\ First(Outstanding(MSHR), j)
        /\ returned # <<>> /\ MSHR[i].block = returned[1]
        /\ returned' = Tail(returned) /\ asked' = asked
    BY <2>1, <2>2, <2>3 DEF FinishPacket, First, EntryOf
  <2>5. MSHR[i].left = Never /\ MSHR[j].left = Never
    BY <2>4, AnsweredIsOutstanding DEF First, Outstanding
  <2>6. MSHR[i] \in MissEntries BY <1>1
  <2>7. e \in MissEntries /\ e.block = MSHR[i].block /\ e.left # Never
    BY <2>3, <2>6 DEF MissEntries, mshr_type, Never
  <2>8. OnePerBlock(MSHR') /\ OutstandingBlocks(MSHR') = OutstandingBlocks(MSHR) \ {returned[1]}
    BY <1>1, <1>2, <2>4, <2>5, <2>7, MissesSwapped
  <2>9. Len(MSHR') <= MSHR_SIZE BY <1>1, <1>2, <2>4, <2>7, SwappedFacts
  <2>10. /\ 1 \in DOMAIN returned
         /\ \A k \in DOMAIN Tail(returned) :
              k \in Nat /\ k + 1 \in DOMAIN returned /\ Tail(returned)[k] = returned[k + 1]
         /\ \A k \in DOMAIN returned :
              k # 1 => k - 1 \in DOMAIN Tail(returned) /\ Tail(returned)[k - 1] = returned[k]
    BY <1>1, <2>4, TailFacts
  <2>11. ToSet(Tail(returned)) = ToSet(returned) \ {returned[1]}
    <3>1. ASSUME NEW k \in DOMAIN Tail(returned)
          PROVE  Tail(returned)[k] \in ToSet(returned) /\ Tail(returned)[k] # returned[1]
      <4>1. k + 1 \in DOMAIN returned /\ k + 1 # 1 /\ Tail(returned)[k] = returned[k + 1] BY <2>10
      <4> QED BY <1>2, <2>10, <4>1 DEF ToSet
    <3>2. ASSUME NEW k \in DOMAIN returned, returned[k] # returned[1]
          PROVE  returned[k] \in ToSet(Tail(returned))
      BY <2>10, <3>2 DEF ToSet
    <3>3. \A x : x \in ToSet(Tail(returned)) <=> \E k \in DOMAIN Tail(returned) : x = Tail(returned)[k]
      BY DEF ToSet
    <3>4. \A x : x \in ToSet(returned) <=> \E k \in DOMAIN returned : x = returned[k]
      BY DEF ToSet
    <3> QED BY <3>1, <3>2, <3>3, <3>4
  <2>12. ASSUME NEW k \in DOMAIN Tail(returned), NEW n \in DOMAIN Tail(returned),
                Tail(returned)[k] = Tail(returned)[n]
         PROVE  k = n
    <3>1. k + 1 = n + 1 BY <1>2, <2>10, <2>12
    <3> QED BY <2>10, <3>1
  <2>13. returned[1] \in ToSet(returned) BY <2>10 DEF ToSet
  <2>14. returned[1] \notin BlocksOf(asked) BY <1>2, <2>13 DEF BlocksOf
  <2>15. OutstandingBlocks(MSHR') = BlocksOf(asked) \cup ToSet(Tail(returned))
    BY <1>2, <2>8, <2>11, <2>14
  <2>16. \A r \in asked : r.block \notin ToSet(Tail(returned)) BY <1>2, <2>11
  <2>17. OutstandingBlocks(MSHR)' = OutstandingBlocks(MSHR') /\ OnePerBlock(MSHR)' = OnePerBlock(MSHR')
         /\ BlocksOf(asked)' = BlocksOf(asked') /\ ToSet(returned)' = ToSet(returned')
    BY DEF OutstandingBlocks, Outstanding, OnePerBlock, BlocksOf, ToSet
  <2> QED BY <1>2, <2>4, <2>8, <2>9, <2>12, <2>15, <2>16, <2>17 DEF LowerInv
<1>8. CASE FillMshr
  <2>1. MSHR # <<>> /\ MSHR[1].left = 0 /\ MSHR' = Tail(MSHR) /\ UNCHANGED <<asked, returned>>
    BY <1>8 DEF FillMshr, Due
  <2>2. MSHR[1].left # Never BY <2>1 DEF Never
  <2>3. OnePerBlock(MSHR') /\ OutstandingBlocks(MSHR') = OutstandingBlocks(MSHR)
    BY <1>1, <1>2, <2>1, <2>2, MissesTail
  <2>4. Len(MSHR') = Len(MSHR) - 1 BY <1>1, <2>1, TailFacts
  <2> QED BY <1>2, <1>3, <1>4, <2>1, <2>3, <2>4
<1>9. CASE MergeMiss
  <2>1. Miss /\ Checking /\ UNCHANGED <<asked, returned>> BY <1>9 DEF MergeMiss, Miss, lower
  <2>2. PICK i \in DOMAIN MSHR : MSHR' = [MSHR EXCEPT ![i] = Merged(@, Pkt)]
    BY <1>9 DEF MergeMiss, EntryOf
  <2>3. MSHR[i] \in MissEntries BY <1>1
  <2>4. /\ Merged(MSHR[i], Pkt) \in MissEntries /\ Merged(MSHR[i], Pkt).left = MSHR[i].left
        /\ Merged(MSHR[i], Pkt).block = MSHR[i].block
    BY <2>1, <2>3, PktFacts, MergedType
  <2>5. /\ DOMAIN MSHR' = DOMAIN MSHR /\ Len(MSHR') = Len(MSHR)
        /\ \A k \in DOMAIN MSHR : MSHR'[k].left = MSHR[k].left /\ MSHR'[k].block = MSHR[k].block
    BY <1>1, <2>2, <2>4
  <2>6. OnePerBlock(MSHR') /\ OutstandingBlocks(MSHR') = OutstandingBlocks(MSHR)
    BY <1>2, <2>5, MissesSame
  <2> QED BY <1>2, <1>4, <2>1, <2>5, <2>6
<1>10. CASE SendMiss
  <2>1. Miss /\ Checking /\ returned' = returned /\ EntryOf(MSHR, Pkt.block) = {} /\ ~MshrFull
    BY <1>10 DEF SendMiss, Miss
  <2>2. CASE UNCHANGED <<asked, MSHR>> BY <1>5, <2>1, <2>2
  <2>3. CASE asked' = asked \cup {Below(Pkt)} /\ MSHR' = Append(MSHR, ToMshr(Pkt, Never))
    <3>1. PICK y : y = ToMshr(Pkt, Never) OBVIOUS
    <3>2. y \in MissEntries /\ y.left = Never /\ y.block = Pkt.block
      BY <2>1, <3>1, PktFacts, ToMshrType DEF MissEntries
    <3>3. \A i \in DOMAIN MSHR : MSHR[i].block # y.block BY <2>1, <3>2 DEF EntryOf
    <3>4. /\ OnePerBlock(MSHR')
          /\ OutstandingBlocks(MSHR') = OutstandingBlocks(MSHR) \cup {y.block}
      BY <1>1, <1>2, <2>3, <3>1, <3>2, <3>3, MissesAppend
    <3>5. Len(MSHR') <= MSHR_SIZE
      <4>1. Len(MSHR') = Len(MSHR) + 1 /\ Len(MSHR) # MSHR_SIZE
        BY <1>1, <2>1, <2>3, <3>1, <3>2, AppendFacts DEF MshrFull
      <4> QED BY <1>2, <1>3, <4>1
    <3>6. PICK r : r = Below(Pkt) OBVIOUS
    <3>7. r.block = y.block BY <3>2, <3>6 DEF Below
    <3>8. y.block \notin OutstandingBlocks(MSHR) BY <3>3 DEF OutstandingBlocks, Outstanding
    <3>9. asked' = asked \cup {r} BY <2>3, <3>6
    <3>10. \A s \in asked : s.block # r.block BY <1>2, <3>7, <3>8 DEF BlocksOf
    <3>11. r.block \notin ToSet(returned) BY <1>2, <3>7, <3>8
    <3>12. BlocksOf(asked') = BlocksOf(asked) \cup {r.block} BY <3>9 DEF BlocksOf
    <3>13. \A s, t \in asked' : s.block = t.block => s = t BY <1>2, <3>9, <3>10
    <3>14. \A s \in asked' : s.block \notin ToSet(returned) BY <1>2, <3>9, <3>11
    <3>15. IsFiniteSet(asked') BY <1>2, <3>9, FS_AddElement
    <3>16. OutstandingBlocks(MSHR') = BlocksOf(asked') \cup ToSet(returned)
      BY <1>2, <3>4, <3>7, <3>12
    <3>17. OutstandingBlocks(MSHR)' = OutstandingBlocks(MSHR')
           /\ OnePerBlock(MSHR)' = OnePerBlock(MSHR') /\ BlocksOf(asked)' = BlocksOf(asked')
      BY DEF OutstandingBlocks, Outstanding, OnePerBlock, BlocksOf
    <3> QED BY <1>2, <2>1, <3>4, <3>5, <3>13, <3>14, <3>15, <3>16, <3>17 DEF LowerInv
  <2> QED BY <1>10, <2>2, <2>3 DEF SendMiss
<1>11. CASE Tick
  <2>1. MSHR' = Sooner(MSHR) /\ UNCHANGED <<asked, returned>> BY <1>11 DEF Tick, lower
  <2>2. Sooner(MSHR) \in Seq(MissEntries) /\ DOMAIN Sooner(MSHR) = DOMAIN MSHR
        /\ \A i \in DOMAIN MSHR : Sooner(MSHR)[i] = Nearer(MSHR[i])
    BY <1>1, NearerTypes, SoonerFacts
  <2>3. ASSUME NEW i \in DOMAIN MSHR
        PROVE  /\ MSHR'[i].block = MSHR[i].block
               /\ MSHR'[i].left = Never <=> MSHR[i].left = Never
    <3>1. MSHR[i] \in MissEntries BY <1>1
    <3>2. MSHR[i] \in mshr_type /\ MSHR[i].left \in Nat \cup {Never}
      BY <3>1 DEF MissEntries, mshr_type
    <3>3. /\ Nearer(MSHR[i]).block = MSHR[i].block
          /\ Nearer(MSHR[i]).left = IF MSHR[i].left > 0 THEN MSHR[i].left - 1 ELSE MSHR[i].left
      BY <3>2, NearerFacts
    <3> QED BY <2>1, <2>2, <3>2, <3>3 DEF Never
  <2>4. OnePerBlock(MSHR') /\ OutstandingBlocks(MSHR') = OutstandingBlocks(MSHR)
    BY <1>2, <2>1, <2>2, <2>3, MissesSame
  <2>5. Len(MSHR') = Len(MSHR) BY <1>1, <2>1, <2>2
  <2> QED BY <1>2, <1>4, <2>1, <2>4, <2>5
<1>12. CASE Arrive
  BY <1>5, <1>12 DEF Arrive, AddRq, AddPq, AddPqNoResponse, AddWq, misses, lower
<1>13. CASE LowerTakesWrite \/ EndWarmup \/ Prefetch
  BY <1>5, <1>13 DEF LowerTakesWrite, EndWarmup, Prefetch, PrefetchLine, misses, lower
<1>14. CASE StartCycle \/ EndCollide \/ EndFinish \/ EndFill \/ EndWrite \/ EndStart \/ EndCheck
  BY <1>5, <1>14
     DEF StartCycle, EndCollide, EndFinish, EndFill, EndWrite, EndStart, EndCheck, misses, lower
<1>15. CASE \E u \in Uppers : \/ \E j \in At(WQ[u]) : CheckWq(u, j)
                              \/ \E j \in At(RQ[u]) : CheckRq(u, j)
                              \/ \E j \in At(PQ[u]) : CheckPq(u, j)
  BY <1>5, <1>15 DEF CheckWq, CheckRq, CheckPq, misses, lower
<1>16. CASE \E u \in Uppers : StartWq(u) \/ StartRq(u) \/ StartPq(u)
  BY <1>5, <1>16 DEF StartWq, StartRq, StartPq, misses, lower
<1>17. CASE FillWrite \/ StartInternal \/ TryHit \/ HandleWrite
  BY <1>5, <1>17 DEF FillWrite, StartInternal, TryHit, HandleWrite, misses, lower
<1>18. CASE UNCHANGED vars BY <1>5, <1>18 DEF vars, misses, lower
<1> QED BY <1>6, <1>7, <1>8, <1>9, <1>10, <1>11, <1>12, <1>13, <1>14, <1>15, <1>16, <1>17, <1>18
        DEF Next, Operate, LowerLevel

LEMMA BoundKeeps == ASSUME TypeInv, BoundInv, [Next]_vars PROVE BoundInv'
<1>1. PICK M \in Nat : M = MAX_TAG * HIT_LATENCY BY Constants
<1>2. inflight_tag_check \in Seq(TagEntries) /\ bw \in Nat /\ MAX_TAG \in Nat
  BY Constants DEF TypeInv, PipesOK, StageOK
<1>3. PICK n \in Nat : n = Len(inflight_tag_check) BY <1>2
<1>4. n <= M /\ (pc = "start" /\ bw > 0 => n + bw <= M) BY <1>1, <1>3 DEF BoundInv, TagsBounded
<1>5. ASSUME Len(inflight_tag_check') <= M,
             pc' = "start" /\ bw' > 0 => Len(inflight_tag_check') + bw' <= M
      PROVE  BoundInv'
  BY <1>1, <1>5 DEF BoundInv, TagsBounded
<1>6. CASE UNCHANGED <<pc, bw, inflight_tag_check>> BY <1>3, <1>4, <1>5, <1>6
<1>7. CASE pc' # "start" /\ inflight_tag_check' = inflight_tag_check
  BY <1>3, <1>4, <1>5, <1>7
<1>8. CASE EndWrite
  <2>1. PICK room : room = M - n OBVIOUS
  <2>2. room \in Int /\ room + n = M BY <2>1
  <2>3. TagBandwidth = IF room < 0 THEN 0 ELSE IF room < MAX_TAG THEN room ELSE MAX_TAG
    BY <1>1, <1>3, <2>1 DEF TagBandwidth
  <2>4. TagBandwidth > 0 => n + TagBandwidth <= M BY <1>2, <2>2, <2>3
  <2>5. bw' = TagBandwidth /\ inflight_tag_check' = inflight_tag_check
    BY <1>8 DEF EndWrite, GoTo, tags
  <2> QED BY <1>3, <1>4, <1>5, <2>4, <2>5
<1>9. ASSUME NEW y \in TagEntries, inflight_tag_check' = Append(inflight_tag_check, y),
             pc = "start", bw > 0, bw' = bw - 1
      PROVE  BoundInv'
  <2>1. Len(inflight_tag_check') = n + 1 BY <1>2, <1>3, <1>9
  <2>2. Len(inflight_tag_check') \in Nat /\ n + bw <= M BY <1>4, <1>9, <2>1
  <2> QED BY <1>2, <1>5, <1>9, <2>1, <2>2
<1>10. ASSUME NEW u \in Uppers, StartWq(u) \/ StartRq(u) \/ StartPq(u) PROVE BoundInv'
  <2>1. /\ RQ[u] \in Seq(Readers) /\ PQ[u] \in Seq(Readers) /\ WQ[u] \in Seq(Writers)
    BY DEF TypeInv, QueuesOK
  <2>2. PICK r \in Readers \cup Writers : Start(r, u)
    <3>1. CASE StartWq(u)
      <4>1. WQ[u][1] \in Writers /\ Start(WQ[u][1], u) BY <2>1, <3>1 DEF StartWq
      <4> QED BY <4>1
    <3>2. CASE StartRq(u)
      <4>1. RQ[u][1] \in Readers /\ Start(RQ[u][1], u) BY <2>1, <3>2 DEF StartRq
      <4> QED BY <4>1
    <3>3. CASE StartPq(u)
      <4>1. PQ[u][1] \in Readers /\ Start(PQ[u][1], u) BY <2>1, <3>3 DEF StartPq
      <4> QED BY <4>1
    <3> QED BY <1>10, <3>1, <3>2, <3>3
  <2>3. PICK y : y = ToTagCheck(r, u) OBVIOUS
  <2>4. y \in TagEntries BY <2>3, ToTagCheckType
  <2>5. inflight_tag_check' = Append(inflight_tag_check, y) /\ bw' = bw - 1
    BY <2>2, <2>3 DEF Start
  <2>6. pc = "start" /\ bw > 0 BY <1>10 DEF StartWq, StartRq, StartPq, Turn
  <2> QED BY <1>9, <2>4, <2>5, <2>6
<1>11. CASE StartInternal
  <2>1. internal_PQ # <<>> /\ pc = "start" /\ bw > 0 /\ bw' = bw - 1
    BY <1>11 DEF StartInternal, Turn
  <2>2. internal_PQ \in Seq(OwnPrefetches) BY DEF TypeInv, PipesOK
  <2>3. internal_PQ[1] \in OwnPrefetches BY <2>1, <2>2
  <2>4. PICK H \in Nat : H = Hit_latency BY Latencies
  <2>5. PICK y : y = [internal_PQ[1] EXCEPT !.left = H] OBVIOUS
  <2>6. y \in TagEntries BY <2>3, <2>5 DEF OwnPrefetches, TagEntries, tag_lookup_type
  <2>7. inflight_tag_check' = Append(inflight_tag_check, y) BY <1>11, <2>4, <2>5 DEF StartInternal
  <2> QED BY <1>9, <2>1, <2>6, <2>7
<1>12. ASSUME Checking, CheckDone, UNCHANGED pc PROVE BoundInv'
  <2>1. inflight_tag_check # <<>> /\ inflight_tag_check' = Tail(inflight_tag_check) /\ pc' # "start"
    BY <1>12 DEF Checking, CheckDone, Due
  <2>2. Len(inflight_tag_check') = n - 1 /\ n - 1 <= M BY <1>2, <1>3, <1>4, <2>1, TailFacts
  <2> QED BY <1>5, <2>1, <2>2
<1>13. CASE TryHit \/ HandleWrite \/ MergeMiss \/ SendMiss
  BY <1>12, <1>13 DEF TryHit, HandleWrite, MergeMiss, SendMiss, Miss
<1>14. CASE Tick
  <2>1. inflight_tag_check' = Sooner(inflight_tag_check) /\ pc' # "start" BY <1>14 DEF Tick, GoTo
  <2>2. Len(inflight_tag_check') = n
    <3>1. /\ Sooner(inflight_tag_check) \in Seq(TagEntries)
          /\ DOMAIN Sooner(inflight_tag_check) = DOMAIN inflight_tag_check
      BY <1>2, NearerTypes, SoonerFacts
    <3> QED BY <1>2, <1>3, <2>1, <3>1
  <2> QED BY <1>4, <1>5, <2>1, <2>2
<1>15. CASE Arrive
  BY <1>6, <1>15 DEF Arrive, AddRq, AddPq, AddPqNoResponse, AddWq, tags
<1>16. CASE LowerLevel \/ EndWarmup \/ Prefetch
  BY <1>6, <1>16
     DEF LowerLevel, LowerAnswers, LowerTakesWrite, EndWarmup, Prefetch, PrefetchLine, tags
<1>17. CASE StartCycle \/ EndCollide \/ EndFinish \/ EndFill \/ EndStart \/ EndCheck
  BY <1>7, <1>17 DEF StartCycle, EndCollide, EndFinish, EndFill, EndStart, EndCheck, GoTo, tags
<1>18. CASE \E u \in Uppers : \/ \E j \in At(WQ[u]) : CheckWq(u, j)
                              \/ \E j \in At(RQ[u]) : CheckRq(u, j)
                              \/ \E j \in At(PQ[u]) : CheckPq(u, j)
  BY <1>6, <1>18 DEF CheckWq, CheckRq, CheckPq, tags
<1>19. CASE \E i, j \in At(MSHR) : FinishPacket(i, j) BY <1>6, <1>19 DEF FinishPacket, tags
<1>20. CASE FillMshr \/ FillWrite
  BY <1>7, <1>20 DEF FillMshr, FillWrite, tags
<1>21. CASE UNCHANGED vars BY <1>6, <1>21 DEF vars, tags
<1> QED BY <1>8, <1>10, <1>11, <1>13, <1>14, <1>15, <1>16, <1>17, <1>18, <1>19, <1>20, <1>21
        DEF Next, Operate

LEMMA ImageSize ==
  ASSUME NEW S, IsFiniteSet(S), NEW T, NEW f \in [S -> T],
         \A a, b \in S : f[a] = f[b] => a = b, \A t \in T : \E s \in S : f[s] = t
  PROVE  IsFiniteSet(T) /\ Cardinality(T) = Cardinality(S)
<1>1. f \in Bijection(S, T) BY DEF Bijection, Injection, Surjection, IsInjective
<1>2. ExistsBijection(S, T) BY <1>1 DEF ExistsBijection
<1> QED BY <1>2, FS_Bijection

LEMMA MissesAreMatched == ASSUME TypeInv, LowerInv PROVE MissesMatchLower
<1>1. /\ Len(MSHR) <= MSHR_SIZE /\ OnePerBlock(MSHR) /\ IsFiniteSet(asked)
      /\ \A r, s \in asked : r.block = s.block => r = s
      /\ \A i, j \in DOMAIN returned : returned[i] = returned[j] => i = j
      /\ \A r \in asked : r.block \notin ToSet(returned)
      /\ OutstandingBlocks(MSHR) = BlocksOf(asked) \cup ToSet(returned)
  BY DEF LowerInv
<1>2. /\ DOMAIN MSHR = 1..Len(MSHR) /\ Len(MSHR) \in Nat
      /\ DOMAIN returned = 1..Len(returned) /\ Len(returned) \in Nat
  BY DEF TypeInv, PipesOK, LowerOK
<1>3. IsFiniteSet(Outstanding(MSHR))
  <2>1. IsFiniteSet(1..Len(MSHR)) BY <1>2, FS_Interval
  <2>2. Outstanding(MSHR) \in SUBSET (1..Len(MSHR)) BY <1>2 DEF Outstanding
  <2> QED BY <2>1, <2>2, FS_Subset
<1>4. IsFiniteSet(OutstandingBlocks(MSHR))
      /\ Cardinality(OutstandingBlocks(MSHR)) = Cardinality(Outstanding(MSHR))
  <2>1. PICK f : f = [i \in Outstanding(MSHR) |-> MSHR[i].block] OBVIOUS
  <2>2. f \in [Outstanding(MSHR) -> OutstandingBlocks(MSHR)] BY <2>1 DEF OutstandingBlocks
  <2>3. \A a, b \in Outstanding(MSHR) : f[a] = f[b] => a = b
    BY <1>1, <2>1 DEF OnePerBlock, Outstanding
  <2>4. \A t \in OutstandingBlocks(MSHR) : \E s \in Outstanding(MSHR) : f[s] = t
    BY <2>1 DEF OutstandingBlocks
  <2> QED BY <1>3, <2>2, <2>3, <2>4, ImageSize
<1>5. IsFiniteSet(BlocksOf(asked)) /\ Cardinality(BlocksOf(asked)) = Cardinality(asked)
  <2>1. PICK f : f = [r \in asked |-> r.block] OBVIOUS
  <2>2. f \in [asked -> BlocksOf(asked)] BY <2>1 DEF BlocksOf
  <2>3. \A a, b \in asked : f[a] = f[b] => a = b BY <1>1, <2>1
  <2>4. \A t \in BlocksOf(asked) : \E s \in asked : f[s] = t BY <2>1 DEF BlocksOf
  <2> QED BY <1>1, <2>2, <2>3, <2>4, ImageSize
<1>6. IsFiniteSet(ToSet(returned)) /\ Cardinality(ToSet(returned)) = Len(returned)
  <2>1. PICK n \in Nat : n = Len(returned) BY <1>2
  <2>2. IsFiniteSet(1..n) /\ Cardinality(1..n) = n BY FS_Interval
  <2>3. PICK f : f = [i \in 1..n |-> returned[i]] OBVIOUS
  <2>4. f \in [1..n -> ToSet(returned)] BY <1>2, <2>1, <2>3 DEF ToSet
  <2>5. \A a, b \in 1..n : f[a] = f[b] => a = b BY <1>1, <1>2, <2>1, <2>3
  <2>6. \A t \in ToSet(returned) : \E s \in 1..n : f[s] = t BY <1>2, <2>1, <2>3 DEF ToSet
  <2>7. IsFiniteSet(ToSet(returned)) /\ Cardinality(ToSet(returned)) = Cardinality(1..n)
    BY <2>2, <2>4, <2>5, <2>6, ImageSize
  <2> QED BY <2>1, <2>2, <2>7
<1>7. Cardinality(OutstandingBlocks(MSHR)) = Cardinality(asked) + Len(returned)
  <2>1. BlocksOf(asked) \cap ToSet(returned) = {} BY <1>1 DEF BlocksOf
  <2>2. Cardinality(BlocksOf(asked) \cap ToSet(returned)) = 0 BY <2>1, FS_EmptySet
  <2>3. /\ Cardinality(BlocksOf(asked)) \in Nat /\ Cardinality(ToSet(returned)) \in Nat
    BY <1>5, <1>6, FS_CardinalityType
  <2>4. Cardinality(BlocksOf(asked) \cup ToSet(returned))
          = Cardinality(BlocksOf(asked)) + Cardinality(ToSet(returned))
            - Cardinality(BlocksOf(asked) \cap ToSet(returned))
    BY <1>5, <1>6, FS_Union
  <2> QED BY <1>1, <1>5, <1>6, <2>2, <2>3, <2>4
<1>8. \A i, j \in DOMAIN MSHR : i # j => MSHR[i].block # MSHR[j].block BY <1>1 DEF OnePerBlock
<1> QED BY <1>1, <1>4, <1>7, <1>8 DEF MissesMatchLower, OutstandingBlocks
-----------------------------------------------------------------------------
(* A written block is dirty somewhere until it is below *)

InQueue(q, b) == \E i \in DOMAIN q : BlockOf[q[i].address] = b
InPipe(q, b) == \E i \in Writes(q) : q[i].block = b

LEMMA DirtyInvIsIn ==
  DirtyInv <=> (~match_offset_bits =>
                  \A b \in unwritten : \/ \E u \in Uppers : InQueue(WQ[u], b)
                                       \/ InPipe(inflight_tag_check, b)
                                       \/ InPipe(inflight_writes, b)
                                       \/ DirtyAt(b))
BY DEF DirtyInv, InQueue, InPipe

LEMMA QueueAppend ==
  ASSUME NEW q \in Seq(Request), NEW y \in Request, NEW b
  PROVE  InQueue(Append(q, y), b) <=> InQueue(q, b) \/ BlockOf[y.address] = b
<1> DEFINE p == Append(q, y)  n == Len(q) + 1
<1>1. /\ DOMAIN p = DOMAIN q \cup {n} /\ n \notin DOMAIN q /\ p[n] = y
      /\ \A i \in DOMAIN q : p[i] = q[i]
  BY AppendFacts
<1> HIDE DEF p, n
<1>2. InQueue(p, b) <=> InQueue(q, b) \/ BlockOf[y.address] = b BY <1>1 DEF InQueue
<1> QED BY <1>2 DEF p

LEMMA QueueTail ==
  ASSUME NEW q \in Seq(Request), q # <<>>, NEW b, InQueue(q, b)
  PROVE  InQueue(Tail(q), b) \/ BlockOf[q[1].address] = b
<1>1. PICK i \in DOMAIN q : BlockOf[q[i].address] = b BY DEF InQueue
<1>2. i # 1 => i - 1 \in DOMAIN Tail(q) /\ Tail(q)[i - 1] = q[i] BY TailFacts
<1> QED BY <1>1, <1>2 DEF InQueue

LEMMA QueueWrites ==
  ASSUME ~match_offset_bits, NEW q \in Seq(Request), NEW j \in DOMAIN q, NEW b, InQueue(q, b)
  PROVE  InQueue(CheckedWrites(q, j), b)
<1>1. PICK k \in DOMAIN q : BlockOf[q[k].address] = b BY DEF InQueue
<1>2. Len(q) \in Nat /\ DOMAIN q = 1..Len(q) /\ \A n \in DOMAIN q : q[n] \in Request OBVIOUS
<1>3. ASSUME NEW i \in DOMAIN q, i < j, WriteKey(q[i].address) = WriteKey(q[j].address),
             CheckedWrites(q, j) = Merge(q, i, j)
      PROVE  InQueue(CheckedWrites(q, j), b)
  <2>1. BlockOf[q[i].address] = BlockOf[q[j].address] BY <1>3 DEF WriteKey
  <2>2. /\ Len(Merge(q, i, j)) = Len(q) - 1 /\ Merge(q, i, j) \in Seq(Request)
        /\ \A n \in 1..(Len(q) - 1) :
             Merge(q, i, j)[n] = IF n = i THEN Joined(q[i], q[j])
                                 ELSE q[IF n < j THEN n ELSE n + 1]
    BY <1>3, MergeFacts
  <2>3. DOMAIN Merge(q, i, j) = 1..(Len(q) - 1) BY <1>2, <2>2
  <2>4. Joined(q[i], q[j]).address = q[i].address BY <1>2, JoinedFacts
  <2>5. i \in 1..(Len(q) - 1) BY <1>2, <1>3
  <2>6. CASE k = j \/ k = i
    <3>1. BlockOf[Merge(q, i, j)[i].address] = b BY <1>1, <2>1, <2>2, <2>4, <2>5, <2>6
    <3> QED BY <1>3, <2>3, <2>5, <3>1 DEF InQueue
  <2>7. CASE k # j /\ k # i /\ k < j
    <3>1. k \in 1..(Len(q) - 1) BY <1>2, <2>7
    <3>2. Merge(q, i, j)[k] = q[k] BY <2>2, <2>7, <3>1
    <3> QED BY <1>1, <1>3, <2>3, <3>1, <3>2 DEF InQueue
  <2>8. CASE k # j /\ k # i /\ ~(k < j)
    <3>1. PICK n : n = k - 1 OBVIOUS
    <3>2. n \in 1..(Len(q) - 1) /\ ~(n < j) /\ n # i /\ n + 1 = k BY <1>2, <1>3, <2>8, <3>1
    <3>3. Merge(q, i, j)[n] = q[k] BY <2>2, <3>2
    <3> QED BY <1>1, <1>3, <2>3, <3>2, <3>3 DEF InQueue
  <2> QED BY <2>6, <2>7, <2>8
<1>4. CASE CheckedWrites(q, j) = Checked(q, j)
  <2>1. /\ DOMAIN Checked(q, j) = DOMAIN q /\ \A i \in DOMAIN q : i # j => Checked(q, j)[i] = q[i]
        /\ Checked(q, j)[j] = [q[j] EXCEPT !.forward_checked = TRUE]
    BY CheckedFacts
  <2>2. Checked(q, j)[j].address = q[j].address BY <1>2, <2>1 DEF Request
  <2> QED BY <1>1, <1>4, <2>1, <2>2 DEF InQueue
<1> QED BY <1>3, <1>4, CheckedWritesCases

LEMMA PipeAppend ==
  ASSUME NEW q \in Seq(Timed), NEW y \in Timed, NEW b
  PROVE  /\ InPipe(q, b) => InPipe(Append(q, y), b)
         /\ y.type = "WRITE" /\ y.block = b => InPipe(Append(q, y), b)
<1> DEFINE p == Append(q, y)  n == Len(q) + 1
<1>1. /\ DOMAIN p = DOMAIN q \cup {n} /\ p[n] = y /\ \A i \in DOMAIN q : p[i] = q[i]
  BY AppendFacts
<1> HIDE DEF p, n
<1>2. (InPipe(q, b) => InPipe(p, b)) /\ (y.type = "WRITE" /\ y.block = b => InPipe(p, b))
  BY <1>1 DEF InPipe, Writes
<1> QED BY <1>2 DEF p

LEMMA PipeTail ==
  ASSUME NEW q \in Seq(Timed), q # <<>>, NEW b, InPipe(q, b)
  PROVE  \/ InPipe(Tail(q), b)
         \/ q[1].type = "WRITE" /\ q[1].block = b
<1>1. PICK i \in DOMAIN q : q[i].type = "WRITE" /\ q[i].block = b BY DEF InPipe, Writes
<1>2. i # 1 => i - 1 \in DOMAIN Tail(q) /\ Tail(q)[i - 1] = q[i] BY TailFacts
<1> QED BY <1>1, <1>2 DEF InPipe, Writes

LEMMA PipeSooner ==
  ASSUME NEW q \in Seq(Timed), NEW b, InPipe(q, b)
  PROVE  InPipe(Sooner(q), b)
<1>1. PICK i \in DOMAIN q : q[i].type = "WRITE" /\ q[i].block = b BY DEF InPipe, Writes
<1>2. DOMAIN Sooner(q) = DOMAIN q /\ Sooner(q)[i] = Nearer(q[i]) BY SoonerFacts
<1>3. q[i] \in mshr_type \cup tag_lookup_type BY DEF Timed
<1>4. Nearer(q[i]).type = "WRITE" /\ Nearer(q[i]).block = b BY <1>1, <1>3, NearerFacts
<1> QED BY <1>2, <1>4 DEF InPipe, Writes

\* A fill writes a dirty victim back; no other written block leaves its way.
LEMMA InstallKeepsDirty ==
  ASSUME TypeInv, NEW e, e.block \in Blocks, Install(e), NEW b \in unwritten', DirtyAt(b)
  PROVE  DirtyAt(b)'
<1>1. block \in [Sets -> [Ways -> Lines]] /\ b \in unwritten
  BY InstallCases DEF TypeInv, StoreOK
<1>2. PICK s \in Sets, w \in Ways : block[s][w] = [valid |-> TRUE, dirty |-> TRUE, block |-> b]
  BY DEF DirtyAt
<1>3. CASE block' = block BY <1>2, <1>3 DEF DirtyAt
<1>4. ASSUME NEW v \in Ways, block' = [block EXCEPT ![SetOf[e.block]][v] = Filled(e)],
             IF MustWriteBack(e, v) THEN unwritten' = unwritten \ {InSet(e)[v].block}
             ELSE unwritten' = unwritten
      PROVE  DirtyAt(b)'
  <2>1. CASE s = SetOf[e.block] /\ w = v
    <3>1. InSet(e)[v] = [valid |-> TRUE, dirty |-> TRUE, block |-> b] BY <1>2, <2>1 DEF InSet
    <3>2. MustWriteBack(e, v) /\ InSet(e)[v].block = b BY <3>1 DEF MustWriteBack
    <3> QED BY <1>4, <3>2
  <2>2. CASE ~(s = SetOf[e.block] /\ w = v)
    <3>1. block'[s][w] = block[s][w] BY <1>1, <1>4, <2>2
    <3> QED BY <1>2, <3>1 DEF DirtyAt
  <2> QED BY <2>1, <2>2
<1> QED BY <1>3, <1>4, InstallCases

\* A write that is filled makes its way dirty: only reads are bypassed.
LEMMA InstallMakesDirty ==
  ASSUME TypeInv, NEW e, e.block \in Blocks, e.type = "WRITE", Install(e)
  PROVE  DirtyAt(e.block)'
<1>1. block \in [Sets -> [Ways -> Lines]] /\ SetOf[e.block] \in Sets
  BY SetFacts DEF TypeInv, StoreOK
<1>2. PICK w \in Ways : block' = [block EXCEPT ![SetOf[e.block]][w] = Filled(e)]
  BY InstallCases DEF Bypassed
<1>3. block'[SetOf[e.block]][w] = Filled(e) BY <1>1, <1>2
<1>4. Filled(e) = [valid |-> TRUE, dirty |-> TRUE, block |-> e.block] BY DEF Filled
<1> QED BY <1>1, <1>3, <1>4 DEF DirtyAt

LEMMA DirtyKeeps == ASSUME TypeInv, DirtyInv, [Next]_vars PROVE DirtyInv'
<1> SUFFICES ASSUME ~match_offset_bits PROVE DirtyInv' BY DEF DirtyInv
<1> DEFINE Known(b) == \/ \E u \in Uppers : InQueue(WQ[u], b)
                       \/ InPipe(inflight_tag_check, b)
                       \/ InPipe(inflight_writes, b)
                       \/ DirtyAt(b)
<1>1. \A b \in unwritten : Known(b) BY DirtyInvIsIn
<1>2. ASSUME \A b \in unwritten' : Known(b)' PROVE DirtyInv'
  BY <1>2 DEF DirtyInv, InQueue, InPipe
<1>3. /\ inflight_tag_check \in Seq(Timed) /\ inflight_writes \in Seq(Timed)
      /\ inflight_tag_check \in Seq(TagEntries) /\ inflight_writes \in Seq(WriteEntries)
      /\ WQ \in [Uppers -> Seq(Writers)]
  BY TimedEntries DEF TypeInv, PipesOK, QueuesOK
<1>4. \A u \in Uppers : WQ[u] \in Seq(Request) /\ DOMAIN WQ = Uppers BY <1>3, RequestQueues
<1>5. CASE UNCHANGED <<WQ, inflight_tag_check, inflight_writes, block, unwritten>>
  BY <1>1, <1>2, <1>5 DEF InQueue, InPipe, DirtyAt
<1>6. ASSUME NEW u \in Uppers, NEW a \in Addresses, AddWq(u, a) PROVE DirtyInv'
  <2>1. PICK y : y = SilentRequest(a, "WRITE") OBVIOUS
  <2>2. y \in Request /\ y.address = a BY <2>1, SilentRequestFacts
  <2>3. WQ' = [WQ EXCEPT ![u] = Append(WQ[u], y)] BY <1>6, <2>1, Arrivals
  <2>4. /\ unwritten' = unwritten \cup {BlockOf[a]}
        /\ UNCHANGED <<inflight_tag_check, inflight_writes, block>>
    BY <1>6 DEF AddWq, tags, misses
  <2>5. ASSUME NEW b \in unwritten' PROVE Known(b)'
    <3>1. \A v \in Uppers : InQueue(WQ[v], b) => InQueue(WQ'[v], b)
      BY <1>4, <2>2, <2>3, QueueAppend
    <3>2. b = BlockOf[a] => InQueue(WQ'[u], b) BY <1>4, <2>2, <2>3, QueueAppend
    <3>3. InPipe(inflight_tag_check', b) <=> InPipe(inflight_tag_check, b) BY <2>4
    <3>4. InPipe(inflight_writes', b) <=> InPipe(inflight_writes, b) BY <2>4
    <3>5. DirtyAt(b)' <=> DirtyAt(b) BY <2>4 DEF DirtyAt
    <3>6. Known(b) => Known(b)' BY <3>1, <3>3, <3>4, <3>5 DEF InQueue, InPipe
    <3>7. b = BlockOf[a] => Known(b)' BY <3>2 DEF InQueue
    <3> QED BY <1>1, <2>4, <3>6, <3>7
  <2> QED BY <1>2, <2>5
<1>7. ASSUME NEW u \in Uppers, NEW j \in At(WQ[u]), CheckWq(u, j) PROVE DirtyInv'
  <2>1. PICK q : q = CheckedWrites(WQ[u], j) OBVIOUS
  <2>2. WQ' = [WQ EXCEPT ![u] = q] BY <1>7, <2>1 DEF CheckWq, CheckedWrites
  <2>3. UNCHANGED <<inflight_tag_check, inflight_writes, block, unwritten>>
    BY <1>7 DEF CheckWq, tags, misses
  <2>4. ASSUME NEW b \in unwritten' PROVE Known(b)'
    <3>1. \A v \in Uppers : InQueue(WQ[v], b) => InQueue(WQ'[v], b)
      BY <1>4, <2>1, <2>2, QueueWrites DEF At
    <3>2. InPipe(inflight_tag_check', b) <=> InPipe(inflight_tag_check, b) BY <2>3
    <3>3. InPipe(inflight_writes', b) <=> InPipe(inflight_writes, b) BY <2>3
    <3>4. DirtyAt(b)' <=> DirtyAt(b) BY <2>3 DEF DirtyAt
    <3> QED BY <1>1, <2>3, <3>1, <3>2, <3>3, <3>4 DEF InQueue, InPipe
  <2> QED BY <1>2, <2>4
<1>8. ASSUME NEW u \in Uppers, StartWq(u) PROVE DirtyInv'
  <2>1. PICK y : y = ToTagCheck(WQ[u][1], u) OBVIOUS
  <2>2. /\ WQ[u] # <<>> /\ WQ' = [WQ EXCEPT ![u] = Tail(WQ[u])]
        /\ inflight_tag_check' = Append(inflight_tag_check, y)
        /\ UNCHANGED <<inflight_writes, block, unwritten>>
    BY <1>8, <2>1 DEF StartWq, Start, misses
  <2>3. WQ[u][1] \in Writers BY <1>3, <2>2
  <2>4. y \in TagEntries BY <2>1, <2>3, ToTagCheckType
  <2>5. y.type = "WRITE" /\ y.block = BlockOf[WQ[u][1].address]
    BY <2>1, <2>3 DEF ToTagCheck, Writers
  <2>6. y \in Timed BY <2>4 DEF TagEntries, tag_lookup_type, Timed
  <2>7. ASSUME NEW b \in unwritten' PROVE Known(b)'
    <3>1. \A v \in Uppers : v # u => WQ'[v] = WQ[v] BY <1>4, <2>2
    <3>2. WQ'[u] = Tail(WQ[u]) BY <1>4, <2>2
    <3>3. InQueue(WQ[u], b) => InQueue(WQ'[u], b) \/ InPipe(inflight_tag_check', b)
      <4> SUFFICES ASSUME InQueue(WQ[u], b)
                   PROVE  InQueue(WQ'[u], b) \/ InPipe(inflight_tag_check', b)
        OBVIOUS
      <4>1. InQueue(Tail(WQ[u]), b) \/ BlockOf[WQ[u][1].address] = b BY <1>4, <2>2, QueueTail
      <4>2. y.block = b => InPipe(inflight_tag_check', b)
        BY <1>3, <2>2, <2>5, <2>6, PipeAppend
      <4> QED BY <2>5, <3>2, <4>1, <4>2
    <3>4. InPipe(inflight_tag_check, b) => InPipe(inflight_tag_check', b)
      BY <1>3, <2>2, <2>6, PipeAppend
    <3>5. InPipe(inflight_writes', b) <=> InPipe(inflight_writes, b) BY <2>2
    <3>6. DirtyAt(b)' <=> DirtyAt(b) BY <2>2 DEF DirtyAt
    <3>7. \A v \in Uppers : InQueue(WQ[v], b) => InQueue(WQ'[v], b) \/ InPipe(inflight_tag_check', b)
      BY <3>1, <3>3
    <3>8. Known(b) BY <1>1, <2>2
    <3> QED BY <3>4, <3>5, <3>6, <3>7, <3>8 DEF InQueue, InPipe
  <2> QED BY <1>2, <2>7
\* An entry that is no write enters the tag checks.
<1>9. ASSUME NEW y \in Timed, inflight_tag_check' = Append(inflight_tag_check, y),
             UNCHANGED <<WQ, inflight_writes, block, unwritten>>
      PROVE  DirtyInv'
  <2>1. ASSUME NEW b \in unwritten' PROVE Known(b)'
    <3>1. InPipe(inflight_tag_check, b) => InPipe(inflight_tag_check', b) BY <1>3, <1>9, PipeAppend
    <3>2. DirtyAt(b)' <=> DirtyAt(b) BY <1>9 DEF DirtyAt
    <3>3. Known(b) BY <1>1, <1>9
    <3> QED BY <1>9, <3>1, <3>2, <3>3 DEF InQueue, InPipe
  <2> QED BY <1>2, <2>1
<1>10. ASSUME NEW u \in Uppers, StartRq(u) \/ StartPq(u) PROVE DirtyInv'
  <2>1. RQ[u] \in Seq(Readers) /\ PQ[u] \in Seq(Readers) BY DEF TypeInv, QueuesOK
  <2>2. \A r \in Readers : ToTagCheck(r, u) \in Timed
    <3>1. \A r \in Readers : ToTagCheck(r, u) \in TagEntries BY ToTagCheckType
    <3> QED BY <3>1 DEF TagEntries, tag_lookup_type, Timed
  <2>3. CASE StartRq(u)
    <3>1. RQ[u][1] \in Readers BY <2>1, <2>3 DEF StartRq
    <3>2. /\ inflight_tag_check' = Append(inflight_tag_check, ToTagCheck(RQ[u][1], u))
          /\ UNCHANGED <<WQ, inflight_writes, block, unwritten>>
      BY <2>3 DEF StartRq, Start, misses
    <3> QED BY <1>9, <2>2, <3>1, <3>2
  <2>4. CASE StartPq(u)
    <3>1. PQ[u][1] \in Readers BY <2>1, <2>4 DEF StartPq
    <3>2. /\ inflight_tag_check' = Append(inflight_tag_check, ToTagCheck(PQ[u][1], u))
          /\ UNCHANGED <<WQ, inflight_writes, block, unwritten>>
      BY <2>4 DEF StartPq, Start, misses
    <3> QED BY <1>9, <2>2, <3>1, <3>2
  <2> QED BY <1>10, <2>3, <2>4
<1>11. CASE StartInternal
  <2>1. internal_PQ # <<>> /\ UNCHANGED <<WQ, inflight_writes, block, unwritten>>
    BY <1>11 DEF StartInternal, queues, misses
  <2>2. internal_PQ \in Seq(OwnPrefetches) BY DEF TypeInv, PipesOK
  <2>3. internal_PQ[1] \in OwnPrefetches BY <2>1, <2>2
  <2>4. PICK H \in Nat : H = Hit_latency BY Latencies
  <2>5. PICK y : y = [internal_PQ[1] EXCEPT !.left = H] OBVIOUS
  <2>6. y \in Timed BY <2>3, <2>5 DEF OwnPrefetches, TagEntries, tag_lookup_type, Timed
  <2>7. inflight_tag_check' = Append(inflight_tag_check, y) BY <1>11, <2>4, <2>5 DEF StartInternal
  <2> QED BY <1>9, <2>1, <2>6, <2>7
<1>12. CASE FillMshr
  <2>1. MSHR[1].block \in Blocks /\ Install(MSHR[1]) BY <1>12, HeadFacts DEF FillMshr, Due
  <2>2. UNCHANGED <<WQ, inflight_tag_check, inflight_writes>> BY <1>12 DEF FillMshr, queues, tags
  <2>3. \A b \in unwritten' : b \in unwritten BY <2>1, InstallCases
  <2>4. ASSUME NEW b \in unwritten' PROVE Known(b)'
    <3>1. DirtyAt(b) => DirtyAt(b)' BY <2>1, InstallKeepsDirty
    <3> QED BY <1>1, <2>2, <2>3, <3>1 DEF InQueue, InPipe
  <2> QED BY <1>2, <2>4
<1>13. CASE FillWrite
  <2>1. inflight_writes # <<>> /\ inflight_writes[1] \in WriteEntries
        /\ inflight_writes[1].block \in Blocks /\ Install(inflight_writes[1])
        /\ inflight_writes' = Tail(inflight_writes) /\ UNCHANGED <<WQ, inflight_tag_check>>
    BY <1>13, HeadFacts DEF FillWrite, Due, queues, tags
  <2>2. \A b \in unwritten' : b \in unwritten BY <2>1, InstallCases
  <2>3. inflight_writes[1].type = "WRITE" BY <2>1 DEF WriteEntries
  <2>4. ASSUME NEW b \in unwritten' PROVE Known(b)'
    <3>1. DirtyAt(b) => DirtyAt(b)' BY <2>1, InstallKeepsDirty
    <3>2. InPipe(inflight_writes, b) =>
            InPipe(inflight_writes', b) \/ inflight_writes[1].block = b
      BY <1>3, <2>1, PipeTail
    <3>3. inflight_writes[1].block = b => DirtyAt(b)' BY <2>1, <2>3, InstallMakesDirty
    <3>4. Known(b) BY <1>1, <2>2
    <3> QED BY <2>1, <3>1, <3>2, <3>3, <3>4 DEF InQueue, InPipe
  <2> QED BY <1>2, <2>4
\* A tag check is over; if it was a write, its block is known otherwise.
<1>14. ASSUME Checking, CheckDone, UNCHANGED <<WQ, unwritten>>,
              \A b : InPipe(inflight_writes, b) => InPipe(inflight_writes', b),
              \A b \in unwritten : DirtyAt(b) => DirtyAt(b)',
              NEW c, c = Pkt.block,
              Pkt.type = "WRITE" => InPipe(inflight_writes', c) \/ DirtyAt(c)'
       PROVE  DirtyInv'
  <2>1. inflight_tag_check # <<>> /\ inflight_tag_check' = Tail(inflight_tag_check)
    BY <1>14 DEF Checking, CheckDone, Due
  <2>2. ASSUME NEW b \in unwritten' PROVE Known(b)'
    <3>1. InPipe(inflight_tag_check, b) =>
            \/ InPipe(inflight_tag_check', b)
            \/ Pkt.type = "WRITE" /\ Pkt.block = b
      BY <1>3, <2>1, PipeTail DEF Pkt
    <3>2. InPipe(inflight_tag_check, b) =>
            InPipe(inflight_tag_check', b) \/ InPipe(inflight_writes', b) \/ DirtyAt(b)'
      <4>1. CASE Pkt.type = "WRITE" /\ Pkt.block = b
        <5>1. c = b BY <1>14, <4>1
        <5>2. DirtyAt(c)' => DirtyAt(b)' BY <5>1 DEF DirtyAt
        <5> QED BY <1>14, <4>1, <5>1, <5>2
      <4>2. CASE ~(Pkt.type = "WRITE" /\ Pkt.block = b) BY <3>1, <4>2
      <4> QED BY <4>1, <4>2
    <3>3. Known(b) BY <1>1, <1>14
    <3> QED BY <1>14, <3>2, <3>3 DEF InQueue, InPipe
  <2> QED BY <1>2, <2>2
<1>15. CASE TryHit
  <2>1. Checking /\ CheckDone /\ UNCHANGED <<WQ, inflight_writes, unwritten>>
    BY <1>15 DEF TryHit, queues, misses
  <2>2. PICK w \in HitWays(Pkt) :
          block' = [block EXCEPT ![SetOf[Pkt.block]][w].dirty = @ \/ Pkt.type = "WRITE"]
    BY <1>15 DEF TryHit
  <2>3. PICK s : s = SetOf[Pkt.block] OBVIOUS
  <2>4. w \in Ways /\ s \in Sets /\ block[s][w].block = Pkt.block /\ Pkt.block \in Blocks
    BY <2>1, <2>2, <2>3, HeadFacts, SetFacts DEF HitWays
  <2>5. block \in [Sets -> [Ways -> Lines]] BY DEF TypeInv, StoreOK
  <2>6. block[s][w] \in Lines BY <2>4, <2>5
  <2>7. PICK v : v = [block[s][w] EXCEPT !.dirty = @ \/ Pkt.type = "WRITE"] OBVIOUS
  <2>8. block' = [block EXCEPT ![s][w] = v] BY <2>2, <2>3, <2>7
  <2>9. block[s][w].valid BY <2>4, <2>6, Constants DEF Lines
  <2>10. Pkt.type = "WRITE" => v = [valid |-> TRUE, dirty |-> TRUE, block |-> Pkt.block]
    BY <2>4, <2>6, <2>7, <2>9 DEF Lines, BLOCK
  <2>11. block'[s][w] = v BY <2>4, <2>5, <2>8
  <2>12. PICK c : c = Pkt.block OBVIOUS
  <2>13. Pkt.type = "WRITE" => DirtyAt(c)' BY <2>4, <2>10, <2>11, <2>12 DEF DirtyAt
  <2>14. ASSUME NEW b \in unwritten, DirtyAt(b) PROVE DirtyAt(b)'
    <3>1. PICK t \in Sets, x \in Ways : block[t][x] = [valid |-> TRUE, dirty |-> TRUE, block |-> b]
      BY <2>14 DEF DirtyAt
    <3>2. CASE t = s /\ x = w
      <4>1. v = block[t][x]
        <5>1. block[s][w].dirty = TRUE BY <3>1, <3>2
        <5>2. \A y \in Lines : \A d \in BOOLEAN :
                y.dirty = TRUE => [y EXCEPT !.dirty = @ \/ d] = y
          BY DEF Lines, BLOCK
        <5> QED BY <2>6, <2>7, <3>2, <5>1, <5>2
      <4> QED BY <2>11, <3>1, <3>2, <4>1 DEF DirtyAt
    <3>3. CASE ~(t = s /\ x = w)
      <4>1. block'[t][x] = block[t][x] BY <2>5, <2>8, <3>3
      <4> QED BY <3>1, <4>1 DEF DirtyAt
    <3> QED BY <3>2, <3>3
  <2>15. \A b : InPipe(inflight_writes, b) => InPipe(inflight_writes', b) BY <2>1
  <2> QED BY <1>14, <2>1, <2>12, <2>13, <2>14, <2>15
<1>16. CASE HandleWrite
  <2>1. Checking /\ CheckDone /\ UNCHANGED <<WQ, block, unwritten>> BY <1>16 DEF HandleWrite, queues
  <2>2. PICK f \in Nat : f = Fill_latency BY Latencies
  <2>3. PICK y : y = ToMshr(Pkt, f) OBVIOUS
  <2>4. y \in mshr_type /\ y.left = f /\ y.type = Pkt.type /\ y.block = Pkt.block
    BY <2>1, <2>3, PktFacts, ToMshrType
  <2>5. y \in Timed BY <2>4 DEF Timed
  <2>6. inflight_writes' = Append(inflight_writes, y) BY <1>16, <2>2, <2>3 DEF HandleWrite
  <2>7. \A b : InPipe(inflight_writes, b) => InPipe(inflight_writes', b)
    BY <1>3, <2>5, <2>6, PipeAppend
  <2>8. PICK c : c = Pkt.block OBVIOUS
  <2>9. Pkt.type = "WRITE" => InPipe(inflight_writes', c)
    BY <1>3, <2>4, <2>5, <2>6, <2>8, PipeAppend
  <2>10. \A b \in unwritten : DirtyAt(b) => DirtyAt(b)' BY <2>1 DEF DirtyAt
  <2> QED BY <1>14, <2>1, <2>7, <2>8, <2>9, <2>10
<1>17. CASE MergeMiss \/ SendMiss
  <2>1. Miss /\ Checking /\ CheckDone /\ UNCHANGED <<WQ, inflight_writes, block, unwritten>>
    BY <1>17 DEF MergeMiss, SendMiss, Miss, queues
  <2>2. Pkt.type # "WRITE" BY <2>1 DEF Miss
  <2>3. \A b \in unwritten : DirtyAt(b) => DirtyAt(b)' BY <2>1 DEF DirtyAt
  <2>4. PICK c : c = Pkt.block OBVIOUS
  <2>5. \A b : InPipe(inflight_writes, b) => InPipe(inflight_writes', b) BY <2>1
  <2> QED BY <1>14, <2>1, <2>2, <2>3, <2>4, <2>5
<1>18. CASE Tick
  <2>1. /\ inflight_tag_check' = Sooner(inflight_tag_check)
        /\ inflight_writes' = Sooner(inflight_writes) /\ UNCHANGED <<WQ, block, unwritten>>
    BY <1>18 DEF Tick, queues
  <2>2. ASSUME NEW b \in unwritten' PROVE Known(b)'
    <3>1. /\ InPipe(inflight_tag_check, b) => InPipe(inflight_tag_check', b)
          /\ InPipe(inflight_writes, b) => InPipe(inflight_writes', b)
      BY <1>3, <2>1, PipeSooner
    <3>2. DirtyAt(b)' <=> DirtyAt(b) BY <2>1 DEF DirtyAt
    <3>3. Known(b) BY <1>1, <2>1
    <3> QED BY <2>1, <3>1, <3>2, <3>3 DEF InQueue, InPipe
  <2> QED BY <1>2, <2>2
<1>19. CASE Arrive
  BY <1>5, <1>6, <1>19 DEF Arrive, AddRq, AddPq, AddPqNoResponse, tags, misses
<1>20. CASE LowerLevel \/ EndWarmup \/ Prefetch
  BY <1>5, <1>20
     DEF LowerLevel, LowerAnswers, LowerTakesWrite, EndWarmup, Prefetch, PrefetchLine, queues, tags, misses
<1>21. CASE StartCycle \/ EndCollide \/ EndFinish \/ EndFill \/ EndWrite \/ EndStart \/ EndCheck
  BY <1>5, <1>21
     DEF StartCycle, EndCollide, EndFinish, EndFill, EndWrite, EndStart, EndCheck, queues, tags, misses
<1>22. CASE \E u \in Uppers : \/ \E j \in At(RQ[u]) : CheckRq(u, j)
                              \/ \E j \in At(PQ[u]) : CheckPq(u, j)
  BY <1>5, <1>22 DEF CheckRq, CheckPq, tags, misses
<1>23. CASE \E i, j \in At(MSHR) : FinishPacket(i, j)
  BY <1>5, <1>23 DEF FinishPacket, queues, tags
<1>24. CASE UNCHANGED vars BY <1>5, <1>24 DEF vars, queues, tags, misses
<1> QED BY <1>7, <1>8, <1>10, <1>11, <1>12, <1>13, <1>15, <1>16, <1>17, <1>18, <1>19, <1>20,
           <1>21, <1>22, <1>23, <1>24
        DEF Next, Operate
-----------------------------------------------------------------------------
(* Where a load is in one queue or pipeline *)

LEMMA OneAt ==
  ASSUME NEW q, NEW l
  PROVE  OneIn(q, l) <=> \E n \in DOMAIN q : \A m \in DOMAIN q :
                           l \in q[m].instr_depend_on_me <=> m = n
BY DEF OneIn

\* The status of a load: what is absent stays so, what is there once stays so.
Kept(q, p, l) == (NoneIn(q, l) => NoneIn(p, l)) /\ (OneIn(q, l) => OneIn(p, l))

LEMMA SameLoads ==
  ASSUME NEW q, NEW p, NEW l, DOMAIN p = DOMAIN q,
         \A i \in DOMAIN q : p[i].instr_depend_on_me = q[i].instr_depend_on_me
  PROVE  Kept(q, p, l)
BY DEF Kept, NoneIn, OneIn

LEMMA AppendLoads ==
  ASSUME NEW S, NEW q \in Seq(S), NEW y \in S, NEW l
  PROVE  /\ l \notin y.instr_depend_on_me => Kept(q, Append(q, y), l)
         /\ l \in y.instr_depend_on_me /\ NoneIn(q, l) => OneIn(Append(q, y), l)
<1> DEFINE p == Append(q, y)  n == Len(q) + 1
<1>1. /\ DOMAIN p = DOMAIN q \cup {n} /\ n \notin DOMAIN q /\ p[n] = y
      /\ \A i \in DOMAIN q : p[i] = q[i]
  BY AppendFacts
<1> HIDE DEF p, n
<1>2. l \notin y.instr_depend_on_me => Kept(q, p, l) BY <1>1 DEF Kept, NoneIn, OneIn
<1>3. l \in y.instr_depend_on_me /\ NoneIn(q, l) => OneIn(p, l) BY <1>1 DEF NoneIn, OneIn
<1> QED BY <1>2, <1>3 DEF p

\* The place a has left the queue, the others close up.
Dropped(q, p, a) ==
  /\ Len(p) = Len(q) - 1
  /\ \A k \in 1..(Len(q) - 1) :
       p[k].instr_depend_on_me = q[IF k < a THEN k ELSE k + 1].instr_depend_on_me
LEMMA DroppedLoads ==
  ASSUME NEW S, NEW q \in Seq(S), NEW p \in Seq(S), NEW a \in DOMAIN q, Dropped(q, p, a), NEW l
  PROVE  /\ NoneIn(q, l) => NoneIn(p, l)
         /\ l \notin q[a].instr_depend_on_me => Kept(q, p, l)
         /\ l \in q[a].instr_depend_on_me /\ OneIn(q, l) => NoneIn(p, l)
<1> DEFINE Old(k) == IF k < a THEN k ELSE k + 1
           New(k) == IF k < a THEN k ELSE k - 1
<1>1. Len(q) \in Nat /\ DOMAIN q = 1..Len(q) /\ DOMAIN p = 1..(Len(q) - 1) BY DEF Dropped
<1>2. \A k \in DOMAIN p : Old(k) \in DOMAIN q /\ Old(k) # a /\ New(Old(k)) = k BY <1>1
<1>3. \A k \in DOMAIN q : k # a => New(k) \in DOMAIN p /\ Old(New(k)) = k BY <1>1
<1>4. \A k \in DOMAIN p : p[k].instr_depend_on_me = q[Old(k)].instr_depend_on_me
  BY <1>1 DEF Dropped
<1> HIDE DEF Old, New
<1>5. NoneIn(q, l) => NoneIn(p, l) BY <1>2, <1>4 DEF NoneIn
<1>6. ASSUME l \notin q[a].instr_depend_on_me, OneIn(q, l) PROVE OneIn(p, l)
  <2>1. PICK n \in DOMAIN q : \A m \in DOMAIN q : l \in q[m].instr_depend_on_me <=> m = n
    BY <1>6, OneAt
  <2>2. n # a BY <1>6, <2>1
  <2>3. New(n) \in DOMAIN p /\ Old(New(n)) = n BY <1>3, <2>2
  <2>4. ASSUME NEW k \in DOMAIN p PROVE l \in p[k].instr_depend_on_me <=> k = New(n)
    <3>1. l \in p[k].instr_depend_on_me <=> Old(k) = n BY <1>2, <1>4, <2>1
    <3>2. Old(k) = n => k = New(n) BY <1>2
    <3> QED BY <2>3, <3>1, <3>2
  <2> QED BY <2>3, <2>4, OneAt
<1>7. ASSUME l \in q[a].instr_depend_on_me, OneIn(q, l) PROVE NoneIn(p, l)
  <2>1. \A m \in DOMAIN q : l \in q[m].instr_depend_on_me => m = a BY <1>7 DEF OneIn
  <2> QED BY <1>2, <1>4, <2>1 DEF NoneIn
<1> QED BY <1>5, <1>6, <1>7 DEF Kept

LEMMA TailLoads ==
  ASSUME NEW S, NEW q \in Seq(S), q # <<>>, NEW l
  PROVE  /\ NoneIn(q, l) => NoneIn(Tail(q), l)
         /\ l \notin q[1].instr_depend_on_me => Kept(q, Tail(q), l)
         /\ l \in q[1].instr_depend_on_me => (OneIn(q, l) => NoneIn(Tail(q), l)) /\ ~NoneIn(q, l)
<1>1. /\ Tail(q) \in Seq(S) /\ Len(Tail(q)) = Len(q) - 1 /\ 1 \in DOMAIN q
      /\ Len(q) \in Nat \ {0} /\ \A i \in DOMAIN Tail(q) : Tail(q)[i] = q[i + 1]
  BY TailFacts
<1>2. Dropped(q, Tail(q), 1) BY <1>1 DEF Dropped
<1>3. l \in q[1].instr_depend_on_me => ~NoneIn(q, l) BY <1>1 DEF NoneIn
<1> QED BY <1>1, <1>2, <1>3, DroppedLoads

LEMMA RemoveAtLoads ==
  ASSUME NEW S, NEW q \in Seq(S), NEW a \in DOMAIN q, NEW l
  PROVE  /\ NoneIn(q, l) => NoneIn(RemoveAt(q, a), l)
         /\ l \notin q[a].instr_depend_on_me => Kept(q, RemoveAt(q, a), l)
         /\ l \in q[a].instr_depend_on_me =>
              (OneIn(q, l) => NoneIn(RemoveAt(q, a), l)) /\ ~NoneIn(q, l)
<1>1. /\ RemoveAt(q, a) \in Seq(S) /\ Len(RemoveAt(q, a)) = Len(q) - 1
      /\ \A k \in 1..(Len(q) - 1) : RemoveAt(q, a)[k] = q[IF k < a THEN k ELSE k + 1]
  BY RemoveAtFacts
<1>2. Dropped(q, RemoveAt(q, a), a) BY <1>1 DEF Dropped
<1>3. l \in q[a].instr_depend_on_me => ~NoneIn(q, l) BY DEF NoneIn
<1> QED BY <1>1, <1>2, <1>3, DroppedLoads

\* What is merged brings its loads along.
LEMMA MergeLoads ==
  ASSUME NEW q \in Seq(Request), NEW i \in DOMAIN q, NEW a \in DOMAIN q, i < a, NEW l
  PROVE  Kept(q, Merge(q, i, a), l)
<1> DEFINE p == Merge(q, i, a)
           Old(k) == IF k < a THEN k ELSE k + 1
           New(k) == IF k < a THEN k ELSE k - 1
<1>1. /\ Len(q) \in Nat /\ DOMAIN q = 1..Len(q) /\ \A n \in DOMAIN q : q[n] \in Request
  OBVIOUS
<1>2. /\ Len(p) = Len(q) - 1 /\ p \in Seq(Request)
      /\ \A k \in 1..(Len(q) - 1) :
           p[k] = IF k = i THEN Joined(q[i], q[a]) ELSE q[IF k < a THEN k ELSE k + 1]
  BY MergeFacts
<1>3. DOMAIN p = 1..(Len(q) - 1) BY <1>1, <1>2
<1>4. \A k \in DOMAIN p : Old(k) \in DOMAIN q /\ Old(k) # a /\ New(Old(k)) = k BY <1>1, <1>3
<1>5. \A k \in DOMAIN q : k # a => New(k) \in DOMAIN p /\ Old(New(k)) = k BY <1>1, <1>3
<1>6. i \in DOMAIN p /\ Old(i) = i BY <1>1, <1>3
<1>7. Joined(q[i], q[a]).instr_depend_on_me = q[i].instr_depend_on_me \cup q[a].instr_depend_on_me
  BY <1>1, JoinedFacts
<1>8. \A k \in DOMAIN p : l \in p[k].instr_depend_on_me <=>
        IF k = i THEN l \in q[i].instr_depend_on_me \/ l \in q[a].instr_depend_on_me
        ELSE l \in q[Old(k)].instr_depend_on_me
  BY <1>2, <1>3, <1>7
<1> HIDE DEF p, Old, New
<1>9. NoneIn(q, l) => NoneIn(p, l) BY <1>4, <1>8 DEF NoneIn
<1>10. ASSUME OneIn(q, l) PROVE OneIn(p, l)
  <2>1. PICK n \in DOMAIN q : \A m \in DOMAIN q : l \in q[m].instr_depend_on_me <=> m = n
    BY <1>10, OneAt
  <2>2. CASE n = a \/ n = i
    <3>1. ASSUME NEW k \in DOMAIN p PROVE l \in p[k].instr_depend_on_me <=> k = i
      <4>1. CASE k = i BY <1>8, <2>1, <2>2, <4>1
      <4>2. CASE k # i
        <5>1. Old(k) # a /\ Old(k) # i /\ Old(k) \in DOMAIN q BY <1>4, <1>6, <4>2
        <5> QED BY <1>8, <2>1, <2>2, <4>2, <5>1
      <4> QED BY <4>1, <4>2
    <3> QED BY <1>6, <3>1, OneAt
  <2>3. CASE n # a /\ n # i
    <3>1. New(n) \in DOMAIN p /\ Old(New(n)) = n BY <1>5, <2>3
    <3>2. ASSUME NEW k \in DOMAIN p PROVE l \in p[k].instr_depend_on_me <=> k = New(n)
      <4>1. CASE k = i
        <5>1. l \notin q[i].instr_depend_on_me /\ l \notin q[a].instr_depend_on_me BY <2>1, <2>3
        <5>2. k # New(n) BY <1>6, <2>3, <3>1, <4>1
        <5> QED BY <1>8, <4>1, <5>1, <5>2
      <4>2. CASE k # i
        <5>1. l \in p[k].instr_depend_on_me <=> Old(k) = n BY <1>4, <1>8, <2>1, <4>2
        <5>2. Old(k) = n => k = New(n) BY <1>4
        <5> QED BY <3>1, <5>1, <5>2
      <4> QED BY <4>1, <4>2
    <3> QED BY <3>1, <3>2, OneAt
  <2> QED BY <2>2, <2>3
<1> QED BY <1>9, <1>10 DEF Kept, p

LEMMA SwappedLoads ==
  ASSUME NEW S, NEW q \in Seq(S), NEW i \in DOMAIN q, NEW j \in DOMAIN q, NEW e \in S,
         e.instr_depend_on_me = q[i].instr_depend_on_me, NEW l
  PROVE  Kept(q, Swapped(q, i, j, e), l)
<1> DEFINE p == Swapped(q, i, j, e)
           Other(k) == IF k = i THEN j ELSE IF k = j THEN i ELSE k
<1>1. /\ DOMAIN p = DOMAIN q /\ p[j] = e /\ (i # j => p[i] = q[j])
      /\ \A k \in DOMAIN q \ {i, j} : p[k] = q[k]
  BY SwappedFacts
<1> HIDE DEF p
<1>2. \A k \in DOMAIN q : /\ Other(k) \in DOMAIN q /\ Other(Other(k)) = k
                          /\ p[k].instr_depend_on_me = q[Other(k)].instr_depend_on_me
  BY <1>1
<1> HIDE DEF Other
<1>3. NoneIn(q, l) => NoneIn(p, l) BY <1>1, <1>2 DEF NoneIn
<1>4. ASSUME OneIn(q, l) PROVE OneIn(p, l)
  <2>1. PICK n \in DOMAIN q : \A m \in DOMAIN q : l \in q[m].instr_depend_on_me <=> m = n
    BY <1>4, OneAt
  <2>2. \A k \in DOMAIN p : l \in p[k].instr_depend_on_me <=> k = Other(n) BY <1>1, <1>2, <2>1
  <2>3. Other(n) \in DOMAIN p BY <1>1, <1>2
  <2> QED BY <2>2, <2>3, OneAt
<1> QED BY <1>3, <1>4 DEF Kept, p

\* An entry takes the loads of another one in.
LEMMA JoinLoads ==
  ASSUME NEW q, NEW i \in DOMAIN q, NEW p, NEW D, DOMAIN p = DOMAIN q,
         p[i].instr_depend_on_me = q[i].instr_depend_on_me \cup D,
         \A k \in DOMAIN q \ {i} : p[k] = q[k], NEW l
  PROVE  (l \notin D => Kept(q, p, l)) /\ (l \in D /\ NoneIn(q, l) => OneIn(p, l))
BY DEF Kept, NoneIn, OneIn

\* A request that is looked at: its loads are answered from WQ, or stay in the queue.
LEMMA CheckedReadsLoads ==
  ASSUME NEW u, NEW q \in Seq(Request), NEW j \in DOMAIN q, NEW l
  PROVE  /\ ~Forwarded(u, q, j) => Kept(q, CheckedReads(u, q, j), l)
         /\ Forwarded(u, q, j) =>
              /\ l \notin q[j].instr_depend_on_me => Kept(q, CheckedReads(u, q, j), l)
              /\ l \in q[j].instr_depend_on_me =>
                   (OneIn(q, l) => NoneIn(CheckedReads(u, q, j), l)) /\ ~NoneIn(q, l)
<1>1. CASE Forwarded(u, q, j) /\ CheckedReads(u, q, j) = RemoveAt(q, j)
  BY <1>1, RemoveAtLoads
<1>2. ASSUME ~Forwarded(u, q, j), NEW i \in DOMAIN q, i < j, CheckedReads(u, q, j) = Merge(q, i, j)
      PROVE  Kept(q, CheckedReads(u, q, j), l)
  BY <1>2, MergeLoads
<1>3. ASSUME ~Forwarded(u, q, j), CheckedReads(u, q, j) = Checked(q, j)
      PROVE  Kept(q, CheckedReads(u, q, j), l)
  <2>1. /\ DOMAIN Checked(q, j) = DOMAIN q /\ \A i \in DOMAIN q : i # j => Checked(q, j)[i] = q[i]
        /\ Checked(q, j)[j] = [q[j] EXCEPT !.forward_checked = TRUE]
    BY CheckedFacts
  <2>2. q[j] \in Request OBVIOUS
  <2>3. Checked(q, j)[j].instr_depend_on_me = q[j].instr_depend_on_me BY <2>1, <2>2 DEF Request
  <2>4. \A i \in DOMAIN q : Checked(q, j)[i].instr_depend_on_me = q[i].instr_depend_on_me
    BY <2>1, <2>3
  <2> QED BY <1>3, <2>1, <2>4, SameLoads
<1> QED BY <1>1, <1>2, <1>3, CheckedReadsCases
-----------------------------------------------------------------------------
(* Where a load is in all of them *)

LEMMA RowKinds ==
  /\ \A k : k \in Rows <=> \/ k \in Uppers \/ k = TagRow \/ k = MshrRow
                           \/ \E u \in Uppers : k = PqRow(u)
  /\ TagRow # MshrRow /\ TagRow \notin Uppers /\ MshrRow \notin Uppers
  /\ \A u \in Uppers : PqRow(u) \notin Uppers \cup {TagRow, MshrRow} /\ PqRow(u) - NumUppers = u
  /\ \A u, v \in Uppers : PqRow(u) = PqRow(v) => u = v
<1>1. NumUppers \in Nat \ {0} BY Constants
<1>2. ASSUME NEW k \in Rows
      PROVE  \/ k \in Uppers \/ k = TagRow \/ k = MshrRow \/ \E u \in Uppers : k = PqRow(u)
  <2>1. CASE k > NumUppers /\ k <= 2 * NumUppers
    <3>1. k - NumUppers \in Uppers /\ k = PqRow(k - NumUppers)
      BY <1>1, <1>2, <2>1 DEF Rows, Uppers, PqRow
    <3> QED BY <3>1
  <2>2. CASE ~(k > NumUppers /\ k <= 2 * NumUppers)
    BY <1>1, <1>2, <2>2 DEF Rows, Uppers, TagRow, MshrRow
  <2> QED BY <2>1, <2>2
<1>3. \A k \in Uppers : k \in Rows /\ PqRow(k) \in Rows BY <1>1 DEF Rows, Uppers, PqRow
<1>4. TagRow \in Rows /\ MshrRow \in Rows BY <1>1 DEF Rows, TagRow, MshrRow
<1>5. TagRow # MshrRow /\ TagRow \notin Uppers /\ MshrRow \notin Uppers
  BY <1>1 DEF Uppers, TagRow, MshrRow
<1>6. \A u \in Uppers : PqRow(u) \notin Uppers \cup {TagRow, MshrRow} /\ PqRow(u) - NumUppers = u
  BY <1>1 DEF Uppers, PqRow, TagRow, MshrRow
<1>7. \A u, v \in Uppers : PqRow(u) = PqRow(v) => u = v BY <1>1 DEF Uppers, PqRow
<1> QED BY <1>2, <1>3, <1>4, <1>5, <1>6, <1>7

IsLayout(Q, rq, pq, t, m) == Q = Layout(rq, pq, t, m)
LEMMA LayoutFacts ==
  ASSUME NEW rq, NEW pq, NEW t, NEW m, NEW Q, IsLayout(Q, rq, pq, t, m)
  PROVE  /\ \A u \in Uppers : u \in Rows /\ PqRow(u) \in Rows /\ Q[u] = rq[u] /\ Q[PqRow(u)] = pq[u]
         /\ TagRow \in Rows /\ MshrRow \in Rows /\ Q[TagRow] = t /\ Q[MshrRow] = m
<1>1. \A u \in Uppers : u \in Rows /\ PqRow(u) \in Rows BY RowKinds
<1>2. TagRow \in Rows /\ MshrRow \in Rows BY RowKinds
<1>3. \A k \in Rows : Q[k] = IF k \in Uppers THEN rq[k]
                             ELSE IF k = TagRow THEN t
                             ELSE IF k = MshrRow THEN m ELSE pq[k - NumUppers]
  BY DEF IsLayout, Layout
<1>4. Q[TagRow] = t /\ Q[MshrRow] = m BY <1>2, <1>3, RowKinds
<1>5. \A u \in Uppers : Q[u] = rq[u] BY <1>1, <1>3
<1>6. ASSUME NEW u \in Uppers PROVE Q[PqRow(u)] = pq[u]
  <2>1. PICK k \in Rows : k = PqRow(u) BY <1>1
  <2>2. k \notin Uppers /\ k # TagRow /\ k # MshrRow /\ k - NumUppers = u BY <2>1, RowKinds
  <2> QED BY <1>3, <2>1, <2>2
<1> QED BY <1>1, <1>2, <1>4, <1>5, <1>6

\* The rows that a step leaves alone.
LEMMA SameRows ==
  ASSUME NEW rq, NEW pq, NEW t, NEW m, NEW Q, IsLayout(Q, rq, pq, t, m),
         NEW rq2, NEW pq2, NEW t2, NEW m2, NEW P, IsLayout(P, rq2, pq2, t2, m2),
         NEW ks, \A u \in Uppers : u \notin ks => rq2[u] = rq[u],
         \A u \in Uppers : PqRow(u) \notin ks => pq2[u] = pq[u],
         TagRow \notin ks => t2 = t, MshrRow \notin ks => m2 = m
  PROVE  \A n \in Rows \ ks : P[n] = Q[n]
<1> SUFFICES ASSUME NEW n \in Rows, n \notin ks PROVE P[n] = Q[n] OBVIOUS
<1>1. /\ \A u \in Uppers : Q[u] = rq[u] /\ Q[PqRow(u)] = pq[u]
      /\ Q[TagRow] = t /\ Q[MshrRow] = m
  BY LayoutFacts
<1>2. /\ \A u \in Uppers : P[u] = rq2[u] /\ P[PqRow(u)] = pq2[u]
      /\ P[TagRow] = t2 /\ P[MshrRow] = m2
  BY LayoutFacts
<1>3. n \in Uppers \/ n = TagRow \/ n = MshrRow \/ \E u \in Uppers : n = PqRow(u) BY RowKinds
<1> QED BY <1>1, <1>2, <1>3

LEMMA KeptRows ==
  ASSUME NEW Q, NEW P, NEW l, \A n \in Rows : Kept(Q[n], P[n], l)
  PROVE  (Absent(Q, l) => Absent(P, l)) /\ (Once(Q, l) => Once(P, l))
BY DEF Kept, Absent, Once

LEMMA OneIsNotNone == \A q, l : OneIn(q, l) => ~NoneIn(q, l)
BY DEF OneIn, NoneIn

\* A load that is in row k leaves it, for row k2 or for good.
LEMMA LeftRows ==
  ASSUME NEW Q, NEW P, NEW l, NEW k \in Rows, Once(Q, l), ~NoneIn(Q[k], l),
         OneIn(Q[k], l) => NoneIn(P[k], l)
  PROVE  /\ (\A n \in Rows \ {k} : NoneIn(Q[n], l) => NoneIn(P[n], l)) => Absent(P, l)
         /\ \A k2 \in Rows \ {k} :
              /\ NoneIn(Q[k2], l) => OneIn(P[k2], l)
              /\ \A n \in Rows \ {k, k2} : NoneIn(Q[n], l) => NoneIn(P[n], l)
              => Once(P, l)
<1>1. PICK n \in Rows : OneIn(Q[n], l) /\ \A o \in Rows \ {n} : NoneIn(Q[o], l) BY DEF Once
<1>2. n = k BY <1>1
<1>3. NoneIn(P[k], l) /\ \A o \in Rows \ {k} : NoneIn(Q[o], l) BY <1>1, <1>2
<1>4. (\A o \in Rows \ {k} : NoneIn(Q[o], l) => NoneIn(P[o], l)) => Absent(P, l)
  BY <1>3 DEF Absent
<1>5. ASSUME NEW k2 \in Rows \ {k}, NoneIn(Q[k2], l) => OneIn(P[k2], l),
             \A o \in Rows \ {k, k2} : NoneIn(Q[o], l) => NoneIn(P[o], l)
      PROVE  Once(P, l)
  <2>1. OneIn(P[k2], l) /\ \A o \in Rows \ {k2} : NoneIn(P[o], l) BY <1>3, <1>5
  <2> QED BY <2>1 DEF Once
<1> QED BY <1>4, <1>5

LEMMA NewInRow ==
  ASSUME NEW Q, NEW P, NEW l, NEW k \in Rows, Absent(Q, l), NoneIn(Q[k], l) => OneIn(P[k], l),
         \A n \in Rows \ {k} : NoneIn(Q[n], l) => NoneIn(P[n], l)
  PROVE  Once(P, l)
BY DEF Absent, Once
-----------------------------------------------------------------------------
(* What a step does to the loads *)

Held1(Q, w, l) == IF w = None THEN Absent(Q, l) ELSE Once(Q, l)

\* Row k changes; its loads D leave it, and are answered.
LEMMA RowAnswers ==
  ASSUME NEW Q, NEW P, NEW k \in Rows, \A n \in Rows \ {k} : P[n] = Q[n], NEW D, NEW l, NEW w, NEW w2,
         Held1(Q, w, l),
         l \notin D => w2 = w /\ Kept(Q[k], P[k], l),
         l \in D => w2 = None /\ ~NoneIn(Q[k], l) /\ (OneIn(Q[k], l) => NoneIn(P[k], l))
  PROVE  Held1(P, w2, l)
<1>1. CASE l \notin D
  <2>1. \A n \in Rows : Kept(Q[n], P[n], l) BY <1>1 DEF Kept
  <2> QED BY <1>1, <2>1, KeptRows DEF Held1
<1>2. CASE l \in D
  <2>1. ~Absent(Q, l) BY <1>2 DEF Absent
  <2>2. Once(Q, l) BY <2>1 DEF Held1
  <2>3. \A n \in Rows \ {k} : NoneIn(Q[n], l) => NoneIn(P[n], l) OBVIOUS
  <2>4. Absent(P, l) BY <1>2, <2>2, <2>3, LeftRows
  <2> QED BY <1>2, <2>4 DEF Held1
<1> QED BY <1>1, <1>2

\* Rows k and k2 change; the loads D go from one to the other.
LEMMA RowHands ==
  ASSUME NEW Q, NEW P, NEW k \in Rows, NEW k2 \in Rows \ {k}, \A n \in Rows \ {k, k2} : P[n] = Q[n],
         NEW D, NEW l, NEW w, Held1(Q, w, l),
         l \notin D => Kept(Q[k], P[k], l) /\ Kept(Q[k2], P[k2], l),
         l \in D => /\ ~NoneIn(Q[k], l) /\ (OneIn(Q[k], l) => NoneIn(P[k], l))
                    /\ NoneIn(Q[k2], l) => OneIn(P[k2], l)
  PROVE  Held1(P, w, l)
<1>1. CASE l \notin D
  <2>1. \A n \in Rows : Kept(Q[n], P[n], l) BY <1>1 DEF Kept
  <2> QED BY <1>1, <2>1, KeptRows DEF Held1
<1>2. CASE l \in D
  <2>1. ~Absent(Q, l) BY <1>2 DEF Absent
  <2>2. Once(Q, l) /\ w # None BY <2>1 DEF Held1
  <2>3. \A n \in Rows \ {k, k2} : NoneIn(Q[n], l) => NoneIn(P[n], l) OBVIOUS
  <2>4. Once(P, l) BY <1>2, <2>2, <2>3, LeftRows
  <2> QED BY <2>2, <2>4 DEF Held1
<1> QED BY <1>1, <1>2

LEMMA HeldAfter ==
  ASSUME NEW P, IsLayout(P, RQ', PQ', inflight_tag_check', MSHR'),
         \A l \in Loads : Held1(P, waiting'[l], l)
  PROVE  HeldInv'
<1>1. Queues' = P BY DEF Queues, Layout, IsLayout
<1>2. \A l \in Loads : IF waiting'[l] = None THEN Absent(Queues', l) ELSE Once(Queues', l)
  BY <1>1 DEF Held1
<1> QED BY <1>2 DEF HeldInv, Absent, Once

LEMMA HeldBefore ==
  ASSUME HeldInv, NEW Q, IsLayout(Q, RQ, PQ, inflight_tag_check, MSHR)
  PROVE  \A l \in Loads : Held1(Q, waiting[l], l)
BY DEF HeldInv, Held1, Queues, IsLayout

LEMMA HeldSame ==
  ASSUME HeldInv, UNCHANGED <<RQ, PQ, inflight_tag_check, MSHR, waiting>>
  PROVE  HeldInv'
<1>1. PICK Q : IsLayout(Q, RQ, PQ, inflight_tag_check, MSHR) BY DEF IsLayout
<1> QED BY <1>1, HeldBefore, HeldAfter

\* The loads D of one queue or pipeline, which becomes p, are answered; the others stay.
Answers(q, p, D) ==
  \A l \in Loads :
    /\ l \notin D => waiting'[l] = waiting[l] /\ Kept(q, p, l)
    /\ l \in D => waiting'[l] = None /\ ~NoneIn(q, l) /\ (OneIn(q, l) => NoneIn(p, l))
\* The loads D of q, which becomes p, enter r, which becomes s.
Hands(q, p, r, s, D) ==
  \A l \in Loads :
    /\ l \notin D => Kept(q, p, l) /\ Kept(r, s, l)
    /\ l \in D => ~NoneIn(q, l) /\ (OneIn(q, l) => NoneIn(p, l)) /\ (NoneIn(r, l) => OneIn(s, l))

LEMMA HeldRow ==
  ASSUME HeldInv, NEW Q, IsLayout(Q, RQ, PQ, inflight_tag_check, MSHR),
         NEW P, IsLayout(P, RQ', PQ', inflight_tag_check', MSHR'),
         NEW k \in Rows, NEW ks, ks = {k}, \A n \in Rows \ ks : P[n] = Q[n],
         NEW D, Answers(Q[k], P[k], D)
  PROVE  HeldInv'
<1>1. ASSUME NEW l \in Loads PROVE Held1(P, waiting'[l], l)
  <2>1. Held1(Q, waiting[l], l) BY HeldBefore
  <2>2. PICK w, w2 : w = waiting[l] /\ w2 = waiting'[l] OBVIOUS
  <2>3. /\ l \notin D => w2 = w /\ Kept(Q[k], P[k], l)
        /\ l \in D => w2 = None /\ ~NoneIn(Q[k], l) /\ (OneIn(Q[k], l) => NoneIn(P[k], l))
    BY <2>2 DEF Answers
  <2>4. Held1(P, w2, l) BY <2>1, <2>2, <2>3, RowAnswers
  <2> QED BY <2>2, <2>4
<1> QED BY <1>1, HeldAfter

LEMMA HeldRows ==
  ASSUME HeldInv, UNCHANGED waiting, NEW Q, IsLayout(Q, RQ, PQ, inflight_tag_check, MSHR),
         NEW P, IsLayout(P, RQ', PQ', inflight_tag_check', MSHR'),
         NEW k \in Rows, NEW k2 \in Rows, k2 # k, NEW ks, ks = {k, k2},
         \A n \in Rows \ ks : P[n] = Q[n], NEW D, Hands(Q[k], P[k], Q[k2], P[k2], D)
  PROVE  HeldInv'
<1>1. ASSUME NEW l \in Loads PROVE Held1(P, waiting'[l], l)
  <2>1. Held1(Q, waiting[l], l) BY HeldBefore
  <2>2. /\ l \notin D => Kept(Q[k], P[k], l) /\ Kept(Q[k2], P[k2], l)
        /\ l \in D => /\ ~NoneIn(Q[k], l) /\ (OneIn(Q[k], l) => NoneIn(P[k], l))
                      /\ NoneIn(Q[k2], l) => OneIn(P[k2], l)
    BY DEF Hands
  <2>3. PICK w : w = waiting[l] OBVIOUS
  <2>4. Held1(P, w, l) BY <2>1, <2>2, <2>3, RowHands
  <2> QED BY <2>3, <2>4
<1> QED BY <1>1, HeldAfter

LEMMA HeldRq ==
  ASSUME HeldInv, NEW u \in Uppers, \A v \in Uppers \ {u} : RQ'[v] = RQ[v],
         UNCHANGED <<PQ, inflight_tag_check, MSHR>>, NEW D, Answers(RQ[u], RQ'[u], D)
  PROVE  HeldInv'
<1>1. PICK Q : IsLayout(Q, RQ, PQ, inflight_tag_check, MSHR) BY DEF IsLayout
<1>2. PICK P : IsLayout(P, RQ', PQ', inflight_tag_check', MSHR') BY DEF IsLayout
<1>3. u \in Rows /\ Q[u] = RQ[u] BY <1>1, LayoutFacts
<1>4. P[u] = RQ'[u] BY <1>2, LayoutFacts
<1>5. PICK ks : ks = {u} OBVIOUS
<1>6. \A v \in Uppers : v \notin ks => RQ'[v] = RQ[v] BY <1>5
<1>7. \A n \in Rows \ ks : P[n] = Q[n] BY <1>1, <1>2, <1>6, SameRows
<1>8. Answers(Q[u], P[u], D) BY <1>3, <1>4
<1> QED BY <1>1, <1>2, <1>3, <1>5, <1>7, <1>8, HeldRow

LEMMA HeldPq ==
  ASSUME HeldInv, NEW u \in Uppers, \A v \in Uppers \ {u} : PQ'[v] = PQ[v],
         UNCHANGED <<RQ, inflight_tag_check, MSHR>>, NEW D, Answers(PQ[u], PQ'[u], D)
  PROVE  HeldInv'
<1>1. PICK Q : IsLayout(Q, RQ, PQ, inflight_tag_check, MSHR) BY DEF IsLayout
<1>2. PICK P : IsLayout(P, RQ', PQ', inflight_tag_check', MSHR') BY DEF IsLayout
<1>3. PICK k : k = PqRow(u) OBVIOUS
<1>4. k \in Rows /\ Q[k] = PQ[u] BY <1>1, <1>3, LayoutFacts
<1>5. P[k] = PQ'[u] BY <1>2, <1>3, LayoutFacts
<1>6. PICK ks : ks = {k} OBVIOUS
<1>7. \A v \in Uppers : PqRow(v) \notin ks => PQ'[v] = PQ[v] BY <1>3, <1>6
<1>8. \A n \in Rows \ ks : P[n] = Q[n] BY <1>1, <1>2, <1>7, SameRows
<1>9. Answers(Q[k], P[k], D) BY <1>4, <1>5
<1> QED BY <1>1, <1>2, <1>4, <1>6, <1>8, <1>9, HeldRow

LEMMA HeldTag ==
  ASSUME HeldInv, UNCHANGED <<RQ, PQ, MSHR>>, NEW D,
         Answers(inflight_tag_check, inflight_tag_check', D)
  PROVE  HeldInv'
<1>1. PICK Q : IsLayout(Q, RQ, PQ, inflight_tag_check, MSHR) BY DEF IsLayout
<1>2. PICK P : IsLayout(P, RQ', PQ', inflight_tag_check', MSHR') BY DEF IsLayout
<1>3. PICK k : k = TagRow OBVIOUS
<1>4. k \in Rows /\ Q[k] = inflight_tag_check BY <1>1, <1>3, LayoutFacts
<1>5. P[k] = inflight_tag_check' BY <1>2, <1>3, LayoutFacts
<1>6. PICK ks : ks = {k} OBVIOUS
<1>7. TagRow \in ks BY <1>3, <1>6
<1>8. \A n \in Rows \ ks : P[n] = Q[n] BY <1>1, <1>2, <1>7, SameRows
<1>9. Answers(Q[k], P[k], D) BY <1>4, <1>5
<1> QED BY <1>1, <1>2, <1>4, <1>6, <1>8, <1>9, HeldRow

LEMMA HeldMshr ==
  ASSUME HeldInv, UNCHANGED <<RQ, PQ, inflight_tag_check>>, NEW D, Answers(MSHR, MSHR', D)
  PROVE  HeldInv'
<1>1. PICK Q : IsLayout(Q, RQ, PQ, inflight_tag_check, MSHR) BY DEF IsLayout
<1>2. PICK P : IsLayout(P, RQ', PQ', inflight_tag_check', MSHR') BY DEF IsLayout
<1>3. PICK k : k = MshrRow OBVIOUS
<1>4. k \in Rows /\ Q[k] = MSHR BY <1>1, <1>3, LayoutFacts
<1>5. P[k] = MSHR' BY <1>2, <1>3, LayoutFacts
<1>6. PICK ks : ks = {k} OBVIOUS
<1>7. MshrRow \in ks BY <1>3, <1>6
<1>8. \A n \in Rows \ ks : P[n] = Q[n] BY <1>1, <1>2, <1>7, SameRows
<1>9. Answers(Q[k], P[k], D) BY <1>4, <1>5
<1> QED BY <1>1, <1>2, <1>4, <1>6, <1>8, <1>9, HeldRow

LEMMA HeldTagMshr ==
  ASSUME HeldInv, UNCHANGED <<RQ, PQ, waiting>>, NEW D,
         Hands(inflight_tag_check, inflight_tag_check', MSHR, MSHR', D)
  PROVE  HeldInv'
<1>1. PICK Q : IsLayout(Q, RQ, PQ, inflight_tag_check, MSHR) BY DEF IsLayout
<1>2. PICK P : IsLayout(P, RQ', PQ', inflight_tag_check', MSHR') BY DEF IsLayout
<1>3. PICK k : k = TagRow OBVIOUS
<1>4. PICK k2 : k2 = MshrRow OBVIOUS
<1>5. k \in Rows /\ k2 \in Rows /\ k2 # k /\ Q[k] = inflight_tag_check /\ Q[k2] = MSHR
  BY <1>1, <1>3, <1>4, LayoutFacts, RowKinds
<1>6. P[k] = inflight_tag_check' /\ P[k2] = MSHR' BY <1>2, <1>3, <1>4, LayoutFacts
<1>7. PICK ks : ks = {k, k2} OBVIOUS
<1>8. TagRow \in ks /\ MshrRow \in ks BY <1>3, <1>4, <1>7
<1>9. \A n \in Rows \ ks : P[n] = Q[n] BY <1>1, <1>2, <1>8, SameRows
<1>10. Hands(Q[k], P[k], Q[k2], P[k2], D) BY <1>5, <1>6
<1> QED BY <1>1, <1>2, <1>5, <1>7, <1>9, <1>10, HeldRows

LEMMA HeldRqTag ==
  ASSUME HeldInv, NEW u \in Uppers, \A v \in Uppers \ {u} : RQ'[v] = RQ[v],
         UNCHANGED <<PQ, MSHR, waiting>>, NEW D,
         Hands(RQ[u], RQ'[u], inflight_tag_check, inflight_tag_check', D)
  PROVE  HeldInv'
<1>1. PICK Q : IsLayout(Q, RQ, PQ, inflight_tag_check, MSHR) BY DEF IsLayout
<1>2. PICK P : IsLayout(P, RQ', PQ', inflight_tag_check', MSHR') BY DEF IsLayout
<1>3. PICK k2 : k2 = TagRow OBVIOUS
<1>4. u \in Rows /\ k2 \in Rows /\ k2 # u /\ Q[u] = RQ[u] /\ Q[k2] = inflight_tag_check
  BY <1>1, <1>3, LayoutFacts, RowKinds
<1>5. P[u] = RQ'[u] /\ P[k2] = inflight_tag_check' BY <1>2, <1>3, LayoutFacts
<1>6. PICK ks : ks = {u, k2} OBVIOUS
<1>7. TagRow \in ks /\ \A v \in Uppers : v \notin ks => RQ'[v] = RQ[v] BY <1>3, <1>6
<1>8. \A n \in Rows \ ks : P[n] = Q[n] BY <1>1, <1>2, <1>7, SameRows
<1>9. Hands(Q[u], P[u], Q[k2], P[k2], D) BY <1>4, <1>5
<1> QED BY <1>1, <1>2, <1>4, <1>6, <1>8, <1>9, HeldRows

LEMMA HeldPqTag ==
  ASSUME HeldInv, NEW u \in Uppers, \A v \in Uppers \ {u} : PQ'[v] = PQ[v],
         UNCHANGED <<RQ, MSHR, waiting>>, NEW D,
         Hands(PQ[u], PQ'[u], inflight_tag_check, inflight_tag_check', D)
  PROVE  HeldInv'
<1>1. PICK Q : IsLayout(Q, RQ, PQ, inflight_tag_check, MSHR) BY DEF IsLayout
<1>2. PICK P : IsLayout(P, RQ', PQ', inflight_tag_check', MSHR') BY DEF IsLayout
<1>3. PICK k2 : k2 = TagRow OBVIOUS
<1>4. PICK k : k = PqRow(u) OBVIOUS
<1>5. k \in Rows /\ k2 \in Rows /\ k2 # k /\ Q[k] = PQ[u] /\ Q[k2] = inflight_tag_check
  BY <1>1, <1>3, <1>4, LayoutFacts, RowKinds
<1>6. P[k] = PQ'[u] /\ P[k2] = inflight_tag_check' BY <1>2, <1>3, <1>4, LayoutFacts
<1>7. PICK ks : ks = {k, k2} OBVIOUS
<1>8. TagRow \in ks /\ \A v \in Uppers : PqRow(v) \notin ks => PQ'[v] = PQ[v]
  BY <1>3, <1>4, <1>7
<1>9. \A n \in Rows \ ks : P[n] = Q[n] BY <1>1, <1>2, <1>8, SameRows
<1>10. Hands(Q[k], P[k], Q[k2], P[k2], D) BY <1>5, <1>6
<1> QED BY <1>1, <1>2, <1>5, <1>7, <1>9, <1>10, HeldRows

\* A response of an entry answers its loads and no other.
LEMMA RespondServes ==
  ASSUME TypeInv, NEW e, Serves(e), Respond(e.to_return, e.instr_depend_on_me)
  PROVE  \A l \in Loads : waiting'[l] = IF l \in e.instr_depend_on_me THEN None ELSE waiting[l]
<1> SUFFICES ASSUME NEW l \in Loads
             PROVE  waiting'[l] = IF l \in e.instr_depend_on_me THEN None ELSE waiting[l]
  OBVIOUS
<1>1. PICK T : T = Served(e.to_return, e.instr_depend_on_me) OBVIOUS
<1>2. waiting'[l] = IF l \in T THEN None ELSE waiting[l] BY <1>1 DEF Respond
<1>3. l \in T => l \in e.instr_depend_on_me BY <1>1 DEF Served
<1>4. l \in e.instr_depend_on_me => waiting[l] # None BY Constants DEF Serves
<1>5. l \in e.instr_depend_on_me => l \in T BY <1>1, <1>4 DEF Serves, Served
<1> QED BY <1>2, <1>3, <1>5

\* A request that is answered from WQ: its loads, if it has any, want the response.
LEMMA ForwardServes ==
  ASSUME TypeInv, NEW u \in Uppers, NEW q \in Seq(Request), RequestsServe(q, u), NEW j \in DOMAIN q,
         Forwarded(u, q, j), AnswerForwarded(u, q[j])
  PROVE  \A l \in Loads : waiting'[l] = IF l \in q[j].instr_depend_on_me THEN None ELSE waiting[l]
<1>1. CASE q[j].response_requested
  <2>1. Respond({u}, q[j].instr_depend_on_me) BY <1>1 DEF AnswerForwarded, Forwarded
  <2>2. PICK T : T = Served({u}, q[j].instr_depend_on_me) OBVIOUS
  <2>3. \A l \in Loads : waiting'[l] = IF l \in T THEN None ELSE waiting[l] BY <2>1, <2>2 DEF Respond
  <2>4. \A l : l \in T => l \in q[j].instr_depend_on_me BY <2>2 DEF Served
  <2>5. ASSUME NEW l \in q[j].instr_depend_on_me PROVE l \in T
    <3>1. waiting[l] = [upper |-> u, block |-> BlockOf[q[j].address]] BY DEF RequestsServe
    <3>2. waiting[l] # None /\ waiting[l].upper = u
      <4>1. q[j] \in Request OBVIOUS
      <4>2. BlockOf[q[j].address] \in Blocks BY <4>1 DEF Request, Blocks
      <4> QED BY <3>1, <4>2, Constants DEF Wanted
    <3> QED BY <2>2, <3>2 DEF Served
  <2> QED BY <2>3, <2>4, <2>5
<1>2. CASE ~q[j].response_requested
  <2>1. UNCHANGED waiting BY <1>2 DEF AnswerForwarded
  <2>2. \A l : l \notin q[j].instr_depend_on_me BY <1>2 DEF RequestsServe
  <2> QED BY <2>1, <2>2
<1> QED BY <1>1, <1>2

\* A load that is issued enters one queue, which becomes p.
Enters(q, p, l) == /\ \A m \in Loads : m # l => Kept(q, p, m)
                   /\ NoneIn(q, l) => OneIn(p, l)

LEMMA HeldIssue ==
  ASSUME TypeInv, HeldInv, NEW Q, IsLayout(Q, RQ, PQ, inflight_tag_check, MSHR),
         NEW P, IsLayout(P, RQ', PQ', inflight_tag_check', MSHR'),
         NEW k \in Rows, NEW ks, ks = {k}, \A n \in Rows \ ks : P[n] = Q[n],
         NEW u \in Uppers, NEW l \in Loads, NEW a \in Addresses, Issue(u, l, a),
         Enters(Q[k], P[k], l)
  PROVE  HeldInv'
<1>1. PICK w : w = [upper |-> u, block |-> BlockOf[a]] OBVIOUS
<1>2. w # None BY <1>1, Constants DEF Wanted, Blocks
<1>3. waiting[l] = None /\ waiting'[l] = w /\ \A m \in Loads \ {l} : waiting'[m] = waiting[m]
  BY <1>1 DEF Issue, TypeInv, WaitingOK
<1>4. ASSUME NEW m \in Loads PROVE Held1(P, waiting'[m], m)
  <2>1. Held1(Q, waiting[m], m) BY HeldBefore
  <2>2. CASE m # l
    <3>1. \A n \in Rows : Kept(Q[n], P[n], m) BY <2>2 DEF Kept, Enters
    <3>2. (Absent(Q, m) => Absent(P, m)) /\ (Once(Q, m) => Once(P, m)) BY <3>1, KeptRows
    <3>3. waiting'[m] = waiting[m] BY <1>3, <2>2
    <3> QED BY <2>1, <3>2, <3>3 DEF Held1
  <2>3. CASE m = l
    <3>1. Absent(Q, l) BY <1>3, <2>1, <2>3 DEF Held1
    <3>2. NoneIn(Q[k], l) => OneIn(P[k], l) BY DEF Enters
    <3>3. \A n \in Rows \ {k} : NoneIn(Q[n], l) => NoneIn(P[n], l) OBVIOUS
    <3>4. Once(P, l) BY <3>1, <3>2, <3>3, NewInRow
    <3> QED BY <1>2, <1>3, <2>3, <3>4 DEF Held1
  <2> QED BY <2>2, <2>3
<1> QED BY <1>4, HeldAfter

LEMMA AppendEnters ==
  ASSUME NEW q \in Seq(Request), NEW r \in Request, NEW l, \A m : m \in r.instr_depend_on_me <=> m = l
  PROVE  Enters(q, Append(q, r), l)
BY AppendLoads DEF Enters

LEMMA HeldArrive == ASSUME TypeInv, HeldInv, Arrive PROVE HeldInv'
<1>1. /\ \A u \in Uppers : RQ[u] \in Seq(Request) /\ PQ[u] \in Seq(Request)
      /\ DOMAIN RQ = Uppers /\ DOMAIN PQ = Uppers
  BY RequestQueues DEF TypeInv, QueuesOK
<1>2. PICK u \in Uppers, a \in Addresses : \/ AddWq(u, a) \/ AddPqNoResponse(u, a)
                                           \/ \E l \in Loads : AddRq(u, l, a) \/ AddPq(u, l, a)
  BY DEF Arrive
<1>3. CASE AddWq(u, a) BY <1>3, HeldSame DEF AddWq, tags, misses
<1>4. CASE AddPqNoResponse(u, a)
  <2>1. PICK r : r = SilentRequest(a, "PREFETCH") OBVIOUS
  <2>2. r \in Request /\ r.instr_depend_on_me = {} BY <2>1, SilentRequestFacts
  <2>3. PQ'[u] = Append(PQ[u], r) /\ \A v \in Uppers \ {u} : PQ'[v] = PQ[v]
    BY <1>1, <1>4, <2>1, Arrivals
  <2>4. UNCHANGED <<RQ, inflight_tag_check, MSHR, waiting>>
    BY <1>4 DEF AddPqNoResponse, tags, misses
  <2>5. PICK D : D = {} OBVIOUS
  <2>6. \A l \in Loads : Kept(PQ[u], PQ'[u], l) BY <1>1, <2>2, <2>3, AppendLoads
  <2>7. Answers(PQ[u], PQ'[u], D) BY <2>4, <2>5, <2>6 DEF Answers
  <2> QED BY <2>3, <2>4, <2>7, HeldPq
<1>5. ASSUME NEW l \in Loads, AddRq(u, l, a) PROVE HeldInv'
  <2>1. PICK r : r = LoadRequest(a, "LOAD", l) OBVIOUS
  <2>2. r \in Request /\ r.instr_depend_on_me = {l} BY <2>1, LoadRequestFacts DEF Readers
  <2>3. RQ' = [RQ EXCEPT ![u] = Append(@, r)] BY <1>5, <2>1, Arrivals
  <2>4. RQ'[u] = Append(RQ[u], r) /\ \A v \in Uppers \ {u} : RQ'[v] = RQ[v] BY <1>1, <2>3
  <2> HIDE <2>3
  <2>5. UNCHANGED <<PQ, inflight_tag_check, MSHR>> /\ Issue(u, l, a)
    BY <1>5 DEF AddRq, tags, misses
  <2>6. Enters(RQ[u], RQ'[u], l) BY <1>1, <2>2, <2>4, AppendEnters
  <2>7. PICK Q : IsLayout(Q, RQ, PQ, inflight_tag_check, MSHR) BY DEF IsLayout
  <2>8. PICK P : IsLayout(P, RQ', PQ', inflight_tag_check', MSHR') BY DEF IsLayout
  <2>9. u \in Rows /\ Q[u] = RQ[u] BY <2>7, LayoutFacts
  <2>10. P[u] = RQ'[u] BY <2>8, LayoutFacts
  <2>11. PICK ks : ks = {u} OBVIOUS
  <2>12. \A v \in Uppers : v \notin ks => RQ'[v] = RQ[v] BY <2>4, <2>11
  <2>13. \A n \in Rows \ ks : P[n] = Q[n] BY <2>5, <2>7, <2>8, <2>12, SameRows
  <2>14. Enters(Q[u], P[u], l) BY <2>6, <2>9, <2>10
  <2> QED BY <2>5, <2>7, <2>8, <2>9, <2>11, <2>13, <2>14, HeldIssue
<1>6. ASSUME NEW l \in Loads, AddPq(u, l, a) PROVE HeldInv'
  <2>1. PICK r : r = LoadRequest(a, "PREFETCH", l) OBVIOUS
  <2>2. r \in Request /\ r.instr_depend_on_me = {l} BY <2>1, LoadRequestFacts DEF Readers
  <2>3. PQ' = [PQ EXCEPT ![u] = Append(@, r)] BY <1>6, <2>1, Arrivals
  <2>4. PQ'[u] = Append(PQ[u], r) /\ \A v \in Uppers \ {u} : PQ'[v] = PQ[v] BY <1>1, <2>3
  <2> HIDE <2>3
  <2>5. UNCHANGED <<RQ, inflight_tag_check, MSHR>> /\ Issue(u, l, a)
    BY <1>6 DEF AddPq, tags, misses
  <2>6. Enters(PQ[u], PQ'[u], l) BY <1>1, <2>2, <2>4, AppendEnters
  <2>7. PICK Q : IsLayout(Q, RQ, PQ, inflight_tag_check, MSHR) BY DEF IsLayout
  <2>8. PICK P : IsLayout(P, RQ', PQ', inflight_tag_check', MSHR') BY DEF IsLayout
  <2>9. PICK k : k = PqRow(u) OBVIOUS
  <2>10. k \in Rows /\ Q[k] = PQ[u] BY <2>7, <2>9, LayoutFacts
  <2>11. P[k] = PQ'[u] BY <2>8, <2>9, LayoutFacts
  <2>12. PICK ks : ks = {k} OBVIOUS
  <2>13. \A v \in Uppers : PqRow(v) \notin ks => PQ'[v] = PQ[v] BY <2>4, <2>9, <2>12
  <2>14. \A n \in Rows \ ks : P[n] = Q[n] BY <2>5, <2>7, <2>8, <2>13, SameRows
  <2>15. Enters(Q[k], P[k], l) BY <2>6, <2>10, <2>11
  <2> QED BY <2>5, <2>7, <2>8, <2>10, <2>12, <2>14, <2>15, HeldIssue
<1> QED BY <1>2, <1>3, <1>4, <1>5, <1>6

LEMMA CheckedAnswers ==
  ASSUME TypeInv, NEW u \in Uppers, NEW q \in Seq(Request), RequestsServe(q, u), NEW j \in DOMAIN q,
         AnswerForwarded(u, q[j])
  PROVE  \E D : Answers(q, CheckedReads(u, q, j), D)
<1>1. PICK p : p = CheckedReads(u, q, j) OBVIOUS
<1>2. CASE Forwarded(u, q, j)
  <2>1. PICK D : D = q[j].instr_depend_on_me OBVIOUS
  <2>2. \A l \in Loads : waiting'[l] = IF l \in D THEN None ELSE waiting[l]
    BY <1>2, <2>1, ForwardServes
  <2>3. \A l : /\ l \notin D => Kept(q, p, l)
               /\ l \in D => (OneIn(q, l) => NoneIn(p, l)) /\ ~NoneIn(q, l)
    BY <1>1, <1>2, <2>1, CheckedReadsLoads
  <2> QED BY <1>1, <2>2, <2>3 DEF Answers
<1>3. CASE ~Forwarded(u, q, j)
  <2>1. PICK D : D = {} OBVIOUS
  <2>2. UNCHANGED waiting BY <1>3 DEF AnswerForwarded, Forwarded
  <2>3. \A l : Kept(q, p, l) BY <1>1, <1>3, CheckedReadsLoads
  <2> QED BY <1>1, <2>1, <2>2, <2>3 DEF Answers
<1> QED BY <1>2, <1>3

LEMMA HeldCheck ==
  ASSUME TypeInv, ServeInv, HeldInv, NEW u \in Uppers,
         \/ \E j \in At(RQ[u]) : CheckRq(u, j)
         \/ \E j \in At(PQ[u]) : CheckPq(u, j)
  PROVE  HeldInv'
<1>1. /\ RQ[u] \in Seq(Request) /\ PQ[u] \in Seq(Request)
      /\ DOMAIN RQ = Uppers /\ DOMAIN PQ = Uppers
  BY RequestQueues DEF TypeInv, QueuesOK
<1>2. RequestsServe(RQ[u], u) /\ RequestsServe(PQ[u], u) BY DEF ServeInv
<1>3. ASSUME NEW j \in DOMAIN RQ[u], CheckRq(u, j) PROVE HeldInv'
  <2>1. /\ AnswerForwarded(u, RQ[u][j]) /\ UNCHANGED <<PQ, inflight_tag_check, MSHR>>
        /\ RQ' = [RQ EXCEPT ![u] = CheckedReads(u, @, j)]
    BY <1>3 DEF CheckRq, tags, misses
  <2>2. /\ RQ'[u] = CheckedReads(u, RQ[u], j)
        /\ \A v \in Uppers \ {u} : RQ'[v] = RQ[v]
    BY <1>1, <2>1
  <2>3. PICK D : Answers(RQ[u], CheckedReads(u, RQ[u], j), D) BY <1>1, <1>2, <2>1, CheckedAnswers
  <2>4. Answers(RQ[u], RQ'[u], D) BY <2>2, <2>3
  <2>5. UNCHANGED <<PQ, inflight_tag_check, MSHR>> BY <2>1
  <2> HIDE <2>1
  <2> QED BY <2>2, <2>4, <2>5, HeldRq
<1>4. ASSUME NEW j \in DOMAIN PQ[u], CheckPq(u, j) PROVE HeldInv'
  <2>1. /\ AnswerForwarded(u, PQ[u][j]) /\ UNCHANGED <<RQ, inflight_tag_check, MSHR>>
        /\ PQ' = [PQ EXCEPT ![u] = CheckedReads(u, @, j)]
    BY <1>4 DEF CheckPq, tags, misses
  <2>2. /\ PQ'[u] = CheckedReads(u, PQ[u], j)
        /\ \A v \in Uppers \ {u} : PQ'[v] = PQ[v]
    BY <1>1, <2>1
  <2>3. PICK D : Answers(PQ[u], CheckedReads(u, PQ[u], j), D) BY <1>1, <1>2, <2>1, CheckedAnswers
  <2>4. Answers(PQ[u], PQ'[u], D) BY <2>2, <2>3
  <2>5. UNCHANGED <<RQ, inflight_tag_check, MSHR>> BY <2>1
  <2> HIDE <2>1
  <2> QED BY <2>2, <2>4, <2>5, HeldPq
<1> QED BY <1>3, <1>4 DEF At

\* A request that starts its tag check takes its loads along.
LEMMA StartHands ==
  ASSUME TypeInv, NEW u \in Uppers, NEW q \in Seq(Readers), q # <<>>, Start(q[1], u)
  PROVE  Hands(q, Tail(q), inflight_tag_check, inflight_tag_check', q[1].instr_depend_on_me)
<1>1. q[1] \in Readers BY TailFacts
<1>2. PICK e : e = ToTagCheck(q[1], u) OBVIOUS
<1>3. e \in TagEntries BY <1>1, <1>2, ToTagCheckType
<1>4. e.instr_depend_on_me = q[1].instr_depend_on_me BY <1>2 DEF ToTagCheck
<1>5. inflight_tag_check' = Append(inflight_tag_check, e) BY <1>2 DEF Start
<1>6. inflight_tag_check \in Seq(TagEntries) BY DEF TypeInv, PipesOK
<1>7. ASSUME NEW l
      PROVE  /\ l \notin e.instr_depend_on_me => Kept(inflight_tag_check, inflight_tag_check', l)
             /\ l \in e.instr_depend_on_me /\ NoneIn(inflight_tag_check, l)
                  => OneIn(inflight_tag_check', l)
  BY <1>3, <1>5, <1>6, AppendLoads
<1>8. ASSUME NEW l
      PROVE  /\ l \notin q[1].instr_depend_on_me => Kept(q, Tail(q), l)
             /\ l \in q[1].instr_depend_on_me =>
                  (OneIn(q, l) => NoneIn(Tail(q), l)) /\ ~NoneIn(q, l)
  BY TailLoads
<1> QED BY <1>4, <1>7, <1>8 DEF Hands

LEMMA HeldStart ==
  ASSUME TypeInv, HeldInv, NEW u \in Uppers, StartRq(u) \/ StartPq(u)
  PROVE  HeldInv'
<1>1. /\ RQ[u] \in Seq(Readers) /\ PQ[u] \in Seq(Readers)
      /\ DOMAIN RQ = Uppers /\ DOMAIN PQ = Uppers
  BY DEF TypeInv, QueuesOK
<1>2. CASE StartRq(u)
  <2>1. RQ' = [RQ EXCEPT ![u] = Tail(@)] BY <1>2 DEF StartRq
  <2>2. RQ'[u] = Tail(RQ[u]) /\ \A v \in Uppers \ {u} : RQ'[v] = RQ[v] BY <1>1, <2>1
  <2> HIDE <2>1
  <2>3. RQ[u] # <<>> /\ Start(RQ[u][1], u) /\ UNCHANGED <<PQ, MSHR, waiting>>
    BY <1>2 DEF StartRq, misses
  <2>4. PICK D : D = RQ[u][1].instr_depend_on_me OBVIOUS
  <2>5. Hands(RQ[u], RQ'[u], inflight_tag_check, inflight_tag_check', D)
    BY <1>1, <2>2, <2>3, <2>4, StartHands
  <2> QED BY <2>2, <2>3, <2>5, HeldRqTag
<1>3. CASE StartPq(u)
  <2>1. PQ' = [PQ EXCEPT ![u] = Tail(@)] BY <1>3 DEF StartPq
  <2>2. PQ'[u] = Tail(PQ[u]) /\ \A v \in Uppers \ {u} : PQ'[v] = PQ[v] BY <1>1, <2>1
  <2> HIDE <2>1
  <2>3. PQ[u] # <<>> /\ Start(PQ[u][1], u) /\ UNCHANGED <<RQ, MSHR, waiting>>
    BY <1>3 DEF StartPq, misses
  <2>4. PICK D : D = PQ[u][1].instr_depend_on_me OBVIOUS
  <2>5. Hands(PQ[u], PQ'[u], inflight_tag_check, inflight_tag_check', D)
    BY <1>1, <2>2, <2>3, <2>4, StartHands
  <2> QED BY <2>2, <2>3, <2>5, HeldPqTag
<1> QED BY <1>2, <1>3

LEMMA HeldNewTag ==
  ASSUME TypeInv, HeldInv, NEW e \in TagEntries, e.instr_depend_on_me = {},
         inflight_tag_check' = Append(inflight_tag_check, e), UNCHANGED <<RQ, PQ, MSHR, waiting>>
  PROVE  HeldInv'
<1>1. inflight_tag_check \in Seq(TagEntries) BY DEF TypeInv, PipesOK
<1>2. \A l : Kept(inflight_tag_check, inflight_tag_check', l) BY <1>1, AppendLoads
<1>3. PICK D : D = {} OBVIOUS
<1>4. Answers(inflight_tag_check, inflight_tag_check', D) BY <1>2, <1>3 DEF Answers
<1> QED BY <1>4, HeldTag

LEMMA HeldSilentStart ==
  ASSUME TypeInv, HeldInv, StartInternal \/ \E u \in Uppers : StartWq(u)
  PROVE  HeldInv'
<1>1. ASSUME NEW u \in Uppers, StartWq(u) PROVE HeldInv'
  <2>1. WQ[u] \in Seq(Writers) /\ WQ[u] # <<>> BY <1>1 DEF TypeInv, QueuesOK, StartWq
  <2>2. WQ[u][1] \in Writers BY <2>1, TailFacts
  <2>3. PICK e : e = ToTagCheck(WQ[u][1], u) OBVIOUS
  <2>4. e \in TagEntries BY <2>2, <2>3, ToTagCheckType
  <2>5. e.instr_depend_on_me = {} BY <2>2, <2>3 DEF ToTagCheck, Writers
  <2>6. inflight_tag_check' = Append(inflight_tag_check, e) BY <1>1, <2>3 DEF StartWq, Start
  <2>7. UNCHANGED <<RQ, PQ, MSHR, waiting>> BY <1>1 DEF StartWq, misses
  <2> QED BY <2>4, <2>5, <2>6, <2>7, HeldNewTag
<1>2. CASE StartInternal
  <2>1. internal_PQ \in Seq(OwnPrefetches) /\ internal_PQ # <<>>
    BY <1>2 DEF TypeInv, PipesOK, StartInternal
  <2>2. internal_PQ[1] \in OwnPrefetches BY <2>1, TailFacts
  <2>3. PICK h \in Nat : h = Hit_latency BY Latencies
  <2>4. PICK e : e = [internal_PQ[1] EXCEPT !.left = h] OBVIOUS
  <2>5. e \in TagEntries /\ e.instr_depend_on_me = {}
    BY <2>2, <2>4 DEF OwnPrefetches, TagEntries, tag_lookup_type
  <2>6. inflight_tag_check' = Append(inflight_tag_check, e) BY <1>2, <2>3, <2>4 DEF StartInternal
  <2>7. UNCHANGED <<RQ, PQ, MSHR, waiting>> BY <1>2 DEF StartInternal, queues, misses
  <2> QED BY <2>5, <2>6, <2>7, HeldNewTag
<1> QED BY <1>1, <1>2

LEMMA HeldFill ==
  ASSUME TypeInv, ServeInv, HeldInv,
         \/ \E i, j \in At(MSHR) : FinishPacket(i, j)
         \/ FillMshr \/ FillWrite
  PROVE  HeldInv'
<1>1. MSHR \in Seq(MissEntries) /\ inflight_writes \in Seq(WriteEntries) BY DEF TypeInv, PipesOK
<1>2. ASSUME NEW i \in DOMAIN MSHR, NEW j \in DOMAIN MSHR, FinishPacket(i, j) PROVE HeldInv'
  <2>1. PICK f \in Nat : f = Fill_latency BY Latencies
  <2>2. PICK e : e = [MSHR[i] EXCEPT !.left = f] OBVIOUS
  <2>3. MSHR[i] \in MissEntries BY <1>1
  <2>4. e \in MissEntries /\ e.instr_depend_on_me = MSHR[i].instr_depend_on_me
    BY <2>1, <2>2, <2>3 DEF MissEntries, mshr_type
  <2>5. MSHR' = Swapped(MSHR, i, j, e) /\ UNCHANGED <<RQ, PQ, inflight_tag_check, waiting>>
    BY <1>2, <2>1, <2>2 DEF FinishPacket, queues, tags
  <2>6. \A l : Kept(MSHR, MSHR', l) BY <1>1, <2>4, <2>5, SwappedLoads
  <2>7. PICK D : D = {} OBVIOUS
  <2>8. Answers(MSHR, MSHR', D) BY <2>5, <2>6, <2>7 DEF Answers
  <2> QED BY <2>5, <2>8, HeldMshr
<1>3. CASE FillMshr
  <2>1. PICK e : e = MSHR[1] OBVIOUS
  <2>2. /\ MSHR # <<>> /\ Respond(e.to_return, e.instr_depend_on_me) /\ MSHR' = Tail(MSHR)
        /\ UNCHANGED <<RQ, PQ, inflight_tag_check>>
    BY <1>3, <2>1 DEF FillMshr, Due, queues, tags
  <2>3. Serves(e) BY <1>1, <2>1, <2>2, TailFacts DEF ServeInv, EntriesServe
  <2>4. \A l \in Loads : waiting'[l] = IF l \in e.instr_depend_on_me THEN None ELSE waiting[l]
    BY <2>2, <2>3, RespondServes
  <2>5. \A l : /\ l \notin e.instr_depend_on_me => Kept(MSHR, MSHR', l)
               /\ l \in e.instr_depend_on_me =>
                    (OneIn(MSHR, l) => NoneIn(MSHR', l)) /\ ~NoneIn(MSHR, l)
    BY <1>1, <2>1, <2>2, TailLoads
  <2>6. Answers(MSHR, MSHR', e.instr_depend_on_me) BY <2>4, <2>5 DEF Answers
  <2> QED BY <2>2, <2>6, HeldMshr
<1>4. CASE FillWrite
  <2>1. PICK e : e = inflight_writes[1] OBVIOUS
  <2>2. /\ inflight_writes # <<>> /\ Respond(e.to_return, e.instr_depend_on_me)
        /\ UNCHANGED <<RQ, PQ, inflight_tag_check, MSHR>>
    BY <1>4, <2>1 DEF FillWrite, Due, queues, tags
  <2>3. e \in WriteEntries BY <1>1, <2>1, <2>2, TailFacts
  <2>4. e.instr_depend_on_me = {} BY <2>3 DEF WriteEntries
  <2>5. Serves(e) BY <2>4 DEF Serves
  <2>6. \A l \in Loads : waiting'[l] = waiting[l] BY <2>2, <2>4, <2>5, RespondServes
  <2>7. waiting' = waiting
    BY <2>2, <2>6 DEF Respond, TypeInv, WaitingOK
  <2> QED BY <2>2, <2>7, HeldSame
<1> QED BY <1>2, <1>3, <1>4 DEF At

\* A tag check that is done leaves with its loads.
LEMMA DoneLoads ==
  ASSUME TypeInv, Checking, CheckDone, NEW l
  PROVE  /\ l \notin Pkt.instr_depend_on_me => Kept(inflight_tag_check, inflight_tag_check', l)
         /\ l \in Pkt.instr_depend_on_me =>
              /\ OneIn(inflight_tag_check, l) => NoneIn(inflight_tag_check', l)
              /\ ~NoneIn(inflight_tag_check, l)
<1>1. inflight_tag_check \in Seq(TagEntries) /\ inflight_tag_check # <<>>
  BY PktFacts DEF TypeInv, PipesOK
<1>2. inflight_tag_check' = Tail(inflight_tag_check) BY DEF CheckDone
<1> QED BY <1>1, <1>2, TailLoads DEF Pkt

LEMMA HeldTagCheck ==
  ASSUME TypeInv, ServeInv, HeldInv, TryHit \/ HandleWrite \/ MergeMiss \/ SendMiss
  PROVE  HeldInv'
<1>1. MSHR \in Seq(MissEntries) /\ inflight_tag_check \in Seq(TagEntries) BY DEF TypeInv, PipesOK
<1>2. Checking /\ CheckDone BY DEF TryHit, HandleWrite, MergeMiss, SendMiss, Miss
<1>3. Pkt \in TagEntries BY <1>2, PktFacts
<1>4. PICK D : D = Pkt.instr_depend_on_me OBVIOUS
<1>5. \A l : /\ l \notin D => Kept(inflight_tag_check, inflight_tag_check', l)
             /\ l \in D => /\ OneIn(inflight_tag_check, l) => NoneIn(inflight_tag_check', l)
                           /\ ~NoneIn(inflight_tag_check, l)
  BY <1>2, <1>4, DoneLoads
<1>6. CASE TryHit
  <2>1. Serves(Pkt) BY <1>1, <1>2, PktFacts DEF ServeInv, EntriesServe, Pkt
  <2>2. Respond(Pkt.to_return, Pkt.instr_depend_on_me) /\ UNCHANGED <<RQ, PQ, MSHR>>
    BY <1>6 DEF TryHit, queues, misses
  <2>3. \A l \in Loads : waiting'[l] = IF l \in D THEN None ELSE waiting[l]
    BY <1>4, <2>1, <2>2, RespondServes
  <2>4. Answers(inflight_tag_check, inflight_tag_check', D) BY <1>5, <2>3 DEF Answers
  <2> QED BY <2>2, <2>4, HeldTag
<1>7. CASE HandleWrite
  <2>1. UNCHANGED <<RQ, PQ, MSHR, waiting>> BY <1>7 DEF HandleWrite, queues
  <2>2. D = {} BY <1>3, <1>4, <1>7 DEF HandleWrite, TagEntries
  <2>3. Answers(inflight_tag_check, inflight_tag_check', D) BY <1>5, <2>1, <2>2 DEF Answers
  <2> QED BY <2>1, <2>3, HeldTag
<1>8. CASE MergeMiss
  <2>1. Miss /\ UNCHANGED <<RQ, PQ, waiting>> BY <1>8 DEF MergeMiss, queues
  <2>2. PICK i \in DOMAIN MSHR : MSHR' = [MSHR EXCEPT ![i] = Merged(@, Pkt)]
    BY <1>8 DEF MergeMiss, EntryOf
  <2>3. PICK e : e = Merged(MSHR[i], Pkt) OBVIOUS
  <2>4. MSHR[i] \in MissEntries BY <1>1
  <2>5. e.instr_depend_on_me = MSHR[i].instr_depend_on_me \cup D
    BY <1>2, <1>4, <2>1, <2>3, <2>4, PktFacts, MergedType
  <2>6. MSHR' = [MSHR EXCEPT ![i] = e] BY <2>2, <2>3
  <2>7. /\ DOMAIN MSHR' = DOMAIN MSHR /\ MSHR'[i] = e
        /\ \A k \in DOMAIN MSHR \ {i} : MSHR'[k] = MSHR[k]
    BY <1>1, <2>6
  <2>8. PICK p : p = MSHR' OBVIOUS
  <2>9. \A l : (l \notin D => Kept(MSHR, p, l)) /\ (l \in D /\ NoneIn(MSHR, l) => OneIn(p, l))
    BY <2>5, <2>7, <2>8, JoinLoads
  <2>10. Hands(inflight_tag_check, inflight_tag_check', MSHR, MSHR', D)
    BY <1>5, <2>8, <2>9 DEF Hands
  <2> QED BY <2>1, <2>10, HeldTagMshr
<1>9. CASE SendMiss
  <2>1. UNCHANGED <<RQ, PQ, waiting>> BY <1>9 DEF SendMiss, queues
  <2>2. CASE ~Pkt.prefetch_from_this \/ ~Pkt.skip_fill
    <3>1. PICK t \in Nat \cup {Never} : t = Never OBVIOUS
    <3>2. PICK e : e = ToMshr(Pkt, t) OBVIOUS
    <3>3. e \in mshr_type /\ e.instr_depend_on_me = D BY <1>3, <1>4, <3>2, ToMshrType
    <3>4. MSHR' = Append(MSHR, e) BY <1>9, <2>2, <3>1, <3>2 DEF SendMiss
    <3>5. MSHR \in Seq(mshr_type) BY <1>1, SeqGrows DEF MissEntries
    <3>6. \A l : (l \notin D => Kept(MSHR, MSHR', l)) /\ (l \in D /\ NoneIn(MSHR, l) => OneIn(MSHR', l))
      BY <3>3, <3>4, <3>5, AppendLoads
    <3>7. Hands(inflight_tag_check, inflight_tag_check', MSHR, MSHR', D)
      BY <1>5, <3>6 DEF Hands
    <3> QED BY <2>1, <3>7, HeldTagMshr
  <2>3. CASE ~(~Pkt.prefetch_from_this \/ ~Pkt.skip_fill)
    <3>1. UNCHANGED MSHR BY <1>9, <2>3 DEF SendMiss
    <3>2. D = {} BY <1>3, <1>4, <2>3 DEF TagEntries
    <3>3. Answers(inflight_tag_check, inflight_tag_check', D) BY <1>5, <2>1, <3>2 DEF Answers
    <3> QED BY <2>1, <3>1, <3>3, HeldTag
  <2> QED BY <2>2, <2>3
<1> QED BY <1>6, <1>7, <1>8, <1>9

LEMMA SoonerLoads ==
  ASSUME NEW S, NEW q \in Seq(S), S \subseteq mshr_type \/ S \subseteq tag_lookup_type, NEW l
  PROVE  Kept(q, Sooner(q), l)
<1>1. DOMAIN Sooner(q) = DOMAIN q /\ \A i \in DOMAIN q : Sooner(q)[i] = Nearer(q[i]) /\ q[i] \in S
  BY SoonerFacts
<1>2. \A i \in DOMAIN q : Nearer(q[i]).instr_depend_on_me = q[i].instr_depend_on_me
  BY <1>1, NearerFacts
<1>3. \A i \in DOMAIN q : Sooner(q)[i].instr_depend_on_me = q[i].instr_depend_on_me BY <1>1, <1>2
<1> QED BY <1>1, <1>3, SameLoads

LEMMA HeldTick == ASSUME TypeInv, HeldInv, Tick PROVE HeldInv'
<1>1. MSHR \in Seq(MissEntries) /\ inflight_tag_check \in Seq(TagEntries) BY DEF TypeInv, PipesOK
<1>2. /\ inflight_tag_check' = Sooner(inflight_tag_check) /\ MSHR' = Sooner(MSHR)
      /\ UNCHANGED <<RQ, PQ, waiting>>
  BY DEF Tick, queues
<1>3. MissEntries \subseteq mshr_type /\ TagEntries \subseteq tag_lookup_type
  BY DEF MissEntries, TagEntries
<1>4. \A l : Kept(inflight_tag_check, inflight_tag_check', l) BY <1>1, <1>2, <1>3, SoonerLoads
<1>5. \A l : Kept(MSHR, MSHR', l) BY <1>1, <1>2, <1>3, SoonerLoads
<1>6. PICK D : D = {} OBVIOUS
<1>7. Hands(inflight_tag_check, inflight_tag_check', MSHR, MSHR', D)
  BY <1>4, <1>5, <1>6 DEF Hands
<1> QED BY <1>2, <1>7, HeldTagMshr

LEMMA HeldKeeps == ASSUME TypeInv, ServeInv, HeldInv, [Next]_vars PROVE HeldInv'
<1>1. CASE UNCHANGED <<RQ, PQ, inflight_tag_check, MSHR, waiting>> BY <1>1, HeldSame
<1>2. CASE Arrive BY <1>2, HeldArrive
<1>3. CASE LowerLevel \/ EndWarmup \/ Prefetch
  BY <1>1, <1>3 DEF LowerLevel, LowerAnswers, LowerTakesWrite, EndWarmup, Prefetch, PrefetchLine,
                    queues, tags, misses
<1>4. CASE StartCycle \/ EndCollide \/ EndFinish \/ EndFill \/ EndWrite \/ EndStart \/ EndCheck
  BY <1>1, <1>4 DEF StartCycle, EndCollide, EndFinish, EndFill, EndWrite, EndStart, EndCheck,
                    queues, tags, misses
<1>5. ASSUME NEW u \in Uppers,
             \/ \E j \in At(WQ[u]) : CheckWq(u, j)
             \/ \E j \in At(RQ[u]) : CheckRq(u, j)
             \/ \E j \in At(PQ[u]) : CheckPq(u, j)
             \/ StartWq(u) \/ StartRq(u) \/ StartPq(u)
      PROVE  HeldInv'
  <2>1. CASE \E j \in At(WQ[u]) : CheckWq(u, j) BY <1>1, <2>1 DEF CheckWq, tags, misses
  <2>2. CASE (\E j \in At(RQ[u]) : CheckRq(u, j)) \/ (\E j \in At(PQ[u]) : CheckPq(u, j))
    BY <2>2, HeldCheck
  <2>3. CASE StartWq(u) BY <2>3, HeldSilentStart
  <2>4. CASE StartRq(u) \/ StartPq(u) BY <2>4, HeldStart
  <2> QED BY <1>5, <2>1, <2>2, <2>3, <2>4
<1>6. CASE (\E i, j \in At(MSHR) : FinishPacket(i, j)) \/ FillMshr \/ FillWrite BY <1>6, HeldFill
<1>7. CASE StartInternal BY <1>7, HeldSilentStart
<1>8. CASE TryHit \/ HandleWrite \/ MergeMiss \/ SendMiss BY <1>8, HeldTagCheck
<1>9. CASE Tick BY <1>9, HeldTick
<1>10. CASE UNCHANGED vars BY <1>1, <1>10 DEF vars, queues, tags, misses
<1> QED BY <1>2, <1>3, <1>4, <1>5, <1>6, <1>7, <1>8, <1>9, <1>10 DEF Next, Operate
-----------------------------------------------------------------------------
(* What holds a load answers it *)

RequestServes(r, u) ==
  \A l \in r.instr_depend_on_me :
    r.response_requested /\ waiting[l] = [upper |-> u, block |-> BlockOf[r.address]]

LEMMA RequestsServeEach ==
  \A q, u : RequestsServe(q, u) <=> \A i \in DOMAIN q : RequestServes(q[i], u)
BY DEF RequestsServe, RequestServes

LEMMA CheckedReadsServe ==
  ASSUME NEW u, NEW v, NEW q \in Seq(Request), NEW j \in DOMAIN q, RequestsServe(q, v)
  PROVE  RequestsServe(CheckedReads(u, q, j), v)
<1>1. Len(q) \in Nat /\ DOMAIN q = 1..Len(q) /\ \A i \in DOMAIN q : q[i] \in Request OBVIOUS
<1>2. \A i \in DOMAIN q : RequestServes(q[i], v) BY RequestsServeEach
<1>3. CASE CheckedReads(u, q, j) = RemoveAt(q, j)
  <2>1. PICK p : p = RemoveAt(q, j) OBVIOUS
  <2>2. /\ p \in Seq(Request) /\ Len(p) = Len(q) - 1
        /\ \A k \in 1..(Len(q) - 1) : p[k] = q[IF k < j THEN k ELSE k + 1]
    BY <2>1, RemoveAtFacts
  <2>3. DOMAIN p = 1..(Len(q) - 1) BY <2>2
  <2>4. ASSUME NEW k \in DOMAIN p PROVE RequestServes(p[k], v)
    <3>1. PICK n : n = IF k < j THEN k ELSE k + 1 OBVIOUS
    <3>2. n \in DOMAIN q BY <1>1, <2>3, <3>1
    <3>3. p[k] = q[n] BY <2>2, <2>3, <3>1
    <3> QED BY <1>2, <3>2, <3>3
  <2> QED BY <1>3, <2>1, <2>4, RequestsServeEach
<1>4. ASSUME NEW i \in DOMAIN q, i < j, BlockOf[q[i].address] = BlockOf[q[j].address],
             CheckedReads(u, q, j) = Merge(q, i, j)
      PROVE  RequestsServe(CheckedReads(u, q, j), v)
  <2>1. PICK p : p = Merge(q, i, j) OBVIOUS
  <2>2. /\ p \in Seq(Request) /\ Len(p) = Len(q) - 1
        /\ \A k \in 1..(Len(q) - 1) : p[k] = IF k = i THEN Joined(q[i], q[j])
                                             ELSE q[IF k < j THEN k ELSE k + 1]
    BY <1>4, <2>1, MergeFacts
  <2>3. DOMAIN p = 1..(Len(q) - 1) BY <2>2
  <2>4. ASSUME NEW k \in DOMAIN p PROVE RequestServes(p[k], v)
    <3>1. PICK n : n = IF k < j THEN k ELSE k + 1 OBVIOUS
    <3>2. n \in DOMAIN q BY <1>1, <2>3, <3>1
    <3>3. CASE k # i
      <4>1. p[k] = q[n] BY <2>2, <2>3, <3>1, <3>3
      <4> QED BY <1>2, <3>2, <4>1
    <3>4. CASE k = i
      <4>1. PICK r : r = Joined(q[i], q[j]) OBVIOUS
      <4>2. p[k] = r BY <2>2, <2>3, <3>4, <4>1
      <4>3. /\ r.address = q[i].address
            /\ r.instr_depend_on_me = q[i].instr_depend_on_me \cup q[j].instr_depend_on_me
            /\ r.response_requested = (q[i].response_requested \/ q[j].response_requested)
        <5>1. q[i] \in Request /\ q[j] \in Request BY <1>1
        <5> QED BY <4>1, <5>1, JoinedFacts
      <4>4. RequestServes(q[i], v) /\ RequestServes(q[j], v) BY <1>2
      <4>5. RequestServes(r, v) BY <1>4, <4>3, <4>4 DEF RequestServes
      <4> QED BY <4>2, <4>5
    <3> QED BY <3>3, <3>4
  <2> QED BY <1>4, <2>1, <2>4, RequestsServeEach
<1>5. CASE CheckedReads(u, q, j) = Checked(q, j)
  <2>1. PICK p : p = Checked(q, j) OBVIOUS
  <2>2. /\ DOMAIN p = DOMAIN q /\ \A i \in DOMAIN q : i # j => p[i] = q[i]
        /\ p[j] = [q[j] EXCEPT !.forward_checked = TRUE]
    BY <2>1, CheckedFacts
  <2>3. /\ p[j].instr_depend_on_me = q[j].instr_depend_on_me /\ p[j].address = q[j].address
        /\ p[j].response_requested = q[j].response_requested
    BY <1>1, <2>2 DEF Request
  <2>4. RequestServes(q[j], v) BY <1>2
  <2>5. RequestServes(p[j], v) BY <2>3, <2>4 DEF RequestServes
  <2>6. \A k \in DOMAIN p : RequestServes(p[k], v) BY <1>2, <2>2, <2>5
  <2> QED BY <1>5, <2>1, <2>6, RequestsServeEach
<1> QED BY <1>3, <1>4, <1>5, CheckedReadsCases

LEMMA RequestsServeAppend ==
  ASSUME NEW q \in Seq(Request), NEW u, RequestsServe(q, u), NEW r \in Request, RequestServes(r, u)
  PROVE  RequestsServe(Append(q, r), u)
<1>1. PICK p, n : p = Append(q, r) /\ n = Len(q) + 1 OBVIOUS
<1>2. DOMAIN p = DOMAIN q \cup {n} /\ p[n] = r /\ \A i \in DOMAIN q : p[i] = q[i]
  BY <1>1, AppendFacts
<1>3. \A i \in DOMAIN q : RequestServes(q[i], u) BY RequestsServeEach
<1>4. \A i \in DOMAIN p : RequestServes(p[i], u) BY <1>2, <1>3
<1> QED BY <1>1, <1>4, RequestsServeEach

LEMMA RequestsServeTail ==
  ASSUME NEW q \in Seq(Request), q # <<>>, NEW u, RequestsServe(q, u)
  PROVE  RequestsServe(Tail(q), u) /\ RequestServes(q[1], u)
<1>1. PICK p : p = Tail(q) OBVIOUS
<1>2. 1 \in DOMAIN q /\ \A i \in DOMAIN p : i + 1 \in DOMAIN q /\ p[i] = q[i + 1]
  BY <1>1, TailFacts
<1>3. \A i \in DOMAIN q : RequestServes(q[i], u) BY RequestsServeEach
<1>4. \A i \in DOMAIN p : RequestServes(p[i], u) BY <1>2, <1>3
<1> QED BY <1>1, <1>2, <1>3, <1>4, RequestsServeEach

LEMMA EntriesServeAppend ==
  ASSUME NEW S, NEW q \in Seq(S), EntriesServe(q), NEW e \in S, Serves(e)
  PROVE  EntriesServe(Append(q, e))
BY AppendFacts DEF EntriesServe

LEMMA EntriesServeTail ==
  ASSUME NEW S, NEW q \in Seq(S), q # <<>>, EntriesServe(q)
  PROVE  EntriesServe(Tail(q)) /\ Serves(q[1])
BY TailFacts DEF EntriesServe

LEMMA EntriesServeSwapped ==
  ASSUME NEW S, NEW q \in Seq(S), EntriesServe(q), NEW i \in DOMAIN q, NEW j \in DOMAIN q,
         NEW e \in S, Serves(e)
  PROVE  EntriesServe(Swapped(q, i, j, e))
<1> DEFINE p == Swapped(q, i, j, e)
<1>1. /\ DOMAIN p = DOMAIN q /\ p[j] = e /\ (i # j => p[i] = q[j])
      /\ \A k \in DOMAIN q \ {i, j} : p[k] = q[k]
  BY SwappedFacts
<1> HIDE DEF p
<1>2. EntriesServe(p) BY <1>1 DEF EntriesServe
<1> QED BY <1>2 DEF p

LEMMA EntriesServeSooner ==
  ASSUME NEW S, NEW q \in Seq(S), S \subseteq mshr_type \/ S \subseteq tag_lookup_type, EntriesServe(q)
  PROVE  EntriesServe(Sooner(q))
<1>1. DOMAIN Sooner(q) = DOMAIN q /\ \A i \in DOMAIN q : Sooner(q)[i] = Nearer(q[i]) /\ q[i] \in S
  BY SoonerFacts
<1>2. ASSUME NEW i \in DOMAIN q PROVE Serves(Nearer(q[i]))
  <2>1. Serves(q[i]) BY DEF EntriesServe
  <2>2. /\ Nearer(q[i]).instr_depend_on_me = q[i].instr_depend_on_me
        /\ Nearer(q[i]).to_return = q[i].to_return /\ Nearer(q[i]).block = q[i].block
    BY <1>1, NearerFacts
  <2> QED BY <2>1, <2>2 DEF Serves
<1> QED BY <1>1, <1>2 DEF EntriesServe

LEMMA NoneIsHeld ==
  ASSUME HeldInv', NEW l \in Loads, waiting'[l] = None
  PROVE  /\ \A u \in Uppers : NoneIn(RQ'[u], l) /\ NoneIn(PQ'[u], l)
         /\ NoneIn(inflight_tag_check', l) /\ NoneIn(MSHR', l)
<1>1. PICK P : IsLayout(P, RQ', PQ', inflight_tag_check', MSHR') BY DEF IsLayout
<1>2. Queues' = P BY <1>1 DEF Queues, Layout, IsLayout
<1>3. Absent(Queues', l) BY DEF HeldInv, Absent
<1>4. \A k \in Rows : NoneIn(P[k], l) BY <1>2, <1>3 DEF Absent
<1>5. /\ \A u \in Uppers : u \in Rows /\ PqRow(u) \in Rows /\ P[u] = RQ'[u] /\ P[PqRow(u)] = PQ'[u]
      /\ TagRow \in Rows /\ MshrRow \in Rows /\ P[TagRow] = inflight_tag_check' /\ P[MshrRow] = MSHR'
  BY <1>1, LayoutFacts
<1> QED BY <1>4, <1>5

\* What the queues and pipelines hold is waited for in the state before.
AwaitedBefore(rq, pq, t, m) ==
  /\ \A u \in Uppers : RequestsServe(rq[u], u) /\ RequestsServe(pq[u], u)
  /\ EntriesServe(t) /\ EntriesServe(m)

LEMMA StillAwaited ==
  ASSUME TypeInv', HeldInv', AwaitedBefore(RQ', PQ', inflight_tag_check', MSHR'),
         \A l \in Loads : waiting'[l] \in {waiting[l], None}
  PROVE  ServeInv'
<1>1. /\ \A u \in Uppers : RQ'[u] \in Seq(Request) /\ PQ'[u] \in Seq(Request)
      /\ inflight_tag_check' \in Seq(tag_lookup_type) /\ MSHR' \in Seq(mshr_type)
  <2>1. /\ \A u \in Uppers : RQ'[u] \in Seq(Readers) /\ PQ'[u] \in Seq(Readers)
        /\ inflight_tag_check' \in Seq(TagEntries) /\ MSHR' \in Seq(MissEntries)
    BY DEF TypeInv, QueuesOK, PipesOK
  <2>2. Readers \subseteq Request /\ TagEntries \subseteq tag_lookup_type /\ MissEntries \subseteq mshr_type
    BY DEF Readers, TagEntries, MissEntries
  <2> QED BY <2>1, <2>2, SeqGrows
<1>2. ASSUME NEW q \in Seq(Request), NEW u, RequestsServe(q, u),
             \A l \in Loads : waiting'[l] = None => NoneIn(q, l)
      PROVE  \A i \in DOMAIN q : \A l \in q[i].instr_depend_on_me :
               /\ q[i].response_requested
               /\ waiting'[l] = [upper |-> u, block |-> BlockOf[q[i].address]]
  <2> SUFFICES ASSUME NEW i \in DOMAIN q, NEW l \in q[i].instr_depend_on_me
               PROVE  /\ q[i].response_requested
                      /\ waiting'[l] = [upper |-> u, block |-> BlockOf[q[i].address]]
    OBVIOUS
  <2>1. q[i] \in Request OBVIOUS
  <2>2. l \in Loads BY <2>1 DEF Request
  <2>3. waiting'[l] # None BY <1>2, <2>2 DEF NoneIn
  <2>4. waiting'[l] = waiting[l] BY <2>2, <2>3
  <2>5. q[i].response_requested BY <1>2 DEF RequestsServe
  <2>6. waiting[l] = [upper |-> u, block |-> BlockOf[q[i].address]] BY <1>2 DEF RequestsServe
  <2> QED BY <2>4, <2>5, <2>6
<1>3. ASSUME NEW q, EntriesServe(q), \A i \in DOMAIN q : q[i].instr_depend_on_me \subseteq Loads,
             \A l \in Loads : waiting'[l] = None => NoneIn(q, l)
      PROVE  \A i \in DOMAIN q : \A l \in q[i].instr_depend_on_me :
               /\ waiting'[l] \in Wanted
               /\ waiting'[l].upper \in q[i].to_return /\ waiting'[l].block = q[i].block
  <2> SUFFICES ASSUME NEW i \in DOMAIN q, NEW l \in q[i].instr_depend_on_me
               PROVE  /\ waiting'[l] \in Wanted
                      /\ waiting'[l].upper \in q[i].to_return /\ waiting'[l].block = q[i].block
    OBVIOUS
  <2>1. l \in Loads BY <1>3
  <2>2. waiting'[l] # None BY <1>3, <2>1 DEF NoneIn
  <2>3. waiting'[l] = waiting[l] BY <2>1, <2>2
  <2> QED BY <1>3, <2>3 DEF EntriesServe, Serves
<1>4. ASSUME NEW u \in Uppers PROVE RequestsServe(RQ[u], u)' /\ RequestsServe(PQ[u], u)'
  <2>1. RequestsServe(RQ'[u], u) /\ RequestsServe(PQ'[u], u) BY DEF AwaitedBefore
  <2>2. \A l \in Loads : waiting'[l] = None => NoneIn(RQ'[u], l) /\ NoneIn(PQ'[u], l) BY NoneIsHeld
  <2>3. RequestsServe(RQ[u], u)'
    <3>1. RQ'[u] \in Seq(Request) /\ \A l \in Loads : waiting'[l] = None => NoneIn(RQ'[u], l)
      BY <1>1, <2>2
    <3>2. \A i \in DOMAIN RQ'[u] : \A l \in RQ'[u][i].instr_depend_on_me :
            /\ RQ'[u][i].response_requested
            /\ waiting'[l] = [upper |-> u, block |-> BlockOf[RQ'[u][i].address]]
      BY <1>2, <2>1, <3>1
    <3> QED BY <3>2 DEF RequestsServe
  <2>4. RequestsServe(PQ[u], u)'
    <3>1. PQ'[u] \in Seq(Request) /\ \A l \in Loads : waiting'[l] = None => NoneIn(PQ'[u], l)
      BY <1>1, <2>2
    <3>2. \A i \in DOMAIN PQ'[u] : \A l \in PQ'[u][i].instr_depend_on_me :
            /\ PQ'[u][i].response_requested
            /\ waiting'[l] = [upper |-> u, block |-> BlockOf[PQ'[u][i].address]]
      BY <1>2, <2>1, <3>1
    <3> QED BY <3>2 DEF RequestsServe
  <2> QED BY <2>3, <2>4
<1>5. EntriesServe(inflight_tag_check)'
  <2>1. EntriesServe(inflight_tag_check') BY DEF AwaitedBefore
  <2>2. \A l \in Loads : waiting'[l] = None => NoneIn(inflight_tag_check', l) BY NoneIsHeld
  <2>3. \A i \in DOMAIN inflight_tag_check' : inflight_tag_check'[i] \in tag_lookup_type BY <1>1
  <2>4. \A i \in DOMAIN inflight_tag_check' : inflight_tag_check'[i].instr_depend_on_me \subseteq Loads
    BY <2>3 DEF tag_lookup_type
  <2> QED BY <1>3, <2>1, <2>2, <2>4 DEF EntriesServe, Serves
<1>6. EntriesServe(MSHR)'
  <2>1. EntriesServe(MSHR') BY DEF AwaitedBefore
  <2>2. \A l \in Loads : waiting'[l] = None => NoneIn(MSHR', l) BY NoneIsHeld
  <2>3. \A i \in DOMAIN MSHR' : MSHR'[i] \in mshr_type BY <1>1
  <2>4. \A i \in DOMAIN MSHR' : MSHR'[i].instr_depend_on_me \subseteq Loads BY <2>3 DEF mshr_type
  <2> QED BY <1>3, <2>1, <2>2, <2>4 DEF EntriesServe, Serves
<1> QED BY <1>4, <1>5, <1>6 DEF ServeInv

\* The same for a queue and the loads waited for after a step.
ServesAfter(r, u) ==
  \A l \in r.instr_depend_on_me :
    r.response_requested /\ waiting'[l] = [upper |-> u, block |-> BlockOf[r.address]]

LEMMA IssueLeavesOthers ==
  ASSUME TypeInv, ServeInv, NEW u \in Uppers, NEW l \in Loads, NEW a \in Addresses, Issue(u, l, a)
  PROVE  /\ \A v \in Uppers : /\ \A i \in DOMAIN RQ[v] : ServesAfter(RQ[v][i], v)
                              /\ \A i \in DOMAIN PQ[v] : ServesAfter(PQ[v][i], v)
         /\ waiting'[l] = [upper |-> u, block |-> BlockOf[a]]
         /\ \A e : /\ e \in mshr_type \cup tag_lookup_type /\ Serves(e)
                   => \A m \in e.instr_depend_on_me : waiting'[m] = waiting[m]
<1>1. /\ waiting[l] = None /\ waiting'[l] = [upper |-> u, block |-> BlockOf[a]]
      /\ \A m \in Loads \ {l} : waiting'[m] = waiting[m]
  BY DEF Issue, TypeInv, WaitingOK
<1>2. ASSUME NEW v \in Uppers, NEW r \in Request, RequestServes(r, v) PROVE ServesAfter(r, v)
  <2> SUFFICES ASSUME NEW m \in r.instr_depend_on_me
               PROVE  /\ r.response_requested
                      /\ waiting'[m] = [upper |-> v, block |-> BlockOf[r.address]]
    BY DEF ServesAfter
  <2>1. m \in Loads /\ BlockOf[r.address] \in Blocks BY DEF Request, Blocks
  <2>2. waiting[m] = [upper |-> v, block |-> BlockOf[r.address]] BY <1>2 DEF RequestServes
  <2>3. waiting[m] # None BY <2>1, <2>2, Constants DEF Wanted
  <2>4. waiting'[m] = waiting[m] BY <1>1, <2>1, <2>3
  <2>5. r.response_requested BY <1>2 DEF RequestServes
  <2> QED BY <2>2, <2>4, <2>5
<1>3. ASSUME NEW e \in mshr_type \cup tag_lookup_type, Serves(e), NEW m \in e.instr_depend_on_me
      PROVE  waiting'[m] = waiting[m]
  <2>1. m \in Loads BY <1>3 DEF mshr_type, tag_lookup_type
  <2>2. waiting[m] # None BY <1>3, Constants DEF Serves
  <2> QED BY <1>1, <2>1, <2>2
<1>4. ASSUME NEW v \in Uppers
      PROVE  /\ \A i \in DOMAIN RQ[v] : ServesAfter(RQ[v][i], v)
             /\ \A i \in DOMAIN PQ[v] : ServesAfter(PQ[v][i], v)
  <2>1. RQ[v] \in Seq(Request) /\ PQ[v] \in Seq(Request) BY RequestQueues
  <2>2. RequestsServe(RQ[v], v) /\ RequestsServe(PQ[v], v) BY DEF ServeInv
  <2>3. ASSUME NEW i \in DOMAIN RQ[v] PROVE ServesAfter(RQ[v][i], v)
    <3>1. RQ[v][i] \in Request BY <2>1
    <3>2. RequestServes(RQ[v][i], v) BY <2>2, RequestsServeEach
    <3> QED BY <1>2, <3>1, <3>2
  <2>4. ASSUME NEW i \in DOMAIN PQ[v] PROVE ServesAfter(PQ[v][i], v)
    <3>1. PQ[v][i] \in Request BY <2>1
    <3>2. RequestServes(PQ[v][i], v) BY <2>2, RequestsServeEach
    <3> QED BY <1>2, <3>1, <3>2
  <2> QED BY <2>3, <2>4
<1> QED BY <1>1, <1>3, <1>4

LEMMA ServesAfterAppend ==
  ASSUME NEW q \in Seq(Request), NEW u, \A i \in DOMAIN q : ServesAfter(q[i], u),
         NEW r \in Request, ServesAfter(r, u)
  PROVE  \A i \in DOMAIN Append(q, r) : ServesAfter(Append(q, r)[i], u)
<1>1. PICK p, n : p = Append(q, r) /\ n = Len(q) + 1 OBVIOUS
<1>2. DOMAIN p = DOMAIN q \cup {n} /\ p[n] = r /\ \A i \in DOMAIN q : p[i] = q[i]
  BY <1>1, AppendFacts
<1>3. \A i \in DOMAIN p : ServesAfter(p[i], u) BY <1>2
<1> QED BY <1>1, <1>3

LEMMA ServeIssue ==
  ASSUME TypeInv, ServeInv, NEW u \in Uppers, NEW l \in Loads, NEW a \in Addresses,
         AddRq(u, l, a) \/ AddPq(u, l, a)
  PROVE  ServeInv'
<1>1. Issue(u, l, a) /\ UNCHANGED <<inflight_tag_check, MSHR>> BY DEF AddRq, AddPq, tags, misses
<1>2. /\ \A v \in Uppers : /\ \A i \in DOMAIN RQ[v] : ServesAfter(RQ[v][i], v)
                           /\ \A i \in DOMAIN PQ[v] : ServesAfter(PQ[v][i], v)
      /\ waiting'[l] = [upper |-> u, block |-> BlockOf[a]]
      /\ \A e : /\ e \in mshr_type \cup tag_lookup_type /\ Serves(e)
                => \A m \in e.instr_depend_on_me : waiting'[m] = waiting[m]
  BY <1>1, IssueLeavesOthers
<1>3. ASSUME NEW t \in {"LOAD", "PREFETCH"}
      PROVE  LoadRequest(a, t, l) \in Request /\ ServesAfter(LoadRequest(a, t, l), u)
  <2>1. PICK r : r = LoadRequest(a, t, l) OBVIOUS
  <2>2. r \in Request /\ r.instr_depend_on_me = {l} /\ r.address = a /\ r.response_requested
    BY <2>1, LoadRequestFacts DEF Readers
  <2>3. ServesAfter(r, u) BY <1>2, <2>2 DEF ServesAfter
  <2> QED BY <2>1, <2>2, <2>3
<1>4. /\ \A v \in Uppers : RQ[v] \in Seq(Request) /\ PQ[v] \in Seq(Request)
      /\ DOMAIN RQ = Uppers /\ DOMAIN PQ = Uppers
  BY RequestQueues DEF TypeInv, QueuesOK
<1>5. ASSUME NEW v \in Uppers PROVE /\ \A i \in DOMAIN RQ'[v] : ServesAfter(RQ'[v][i], v)
                                    /\ \A i \in DOMAIN PQ'[v] : ServesAfter(PQ'[v][i], v)
  <2>1. CASE AddRq(u, l, a)
    <3>1. RQ' = [RQ EXCEPT ![u] = Append(@, LoadRequest(a, "LOAD", l))] BY <2>1, Arrivals
    <3>2. UNCHANGED PQ BY <2>1 DEF AddRq
    <3>3. CASE v # u BY <1>2, <1>4, <3>1, <3>2, <3>3
    <3>4. CASE v = u
      <4>1. RQ'[u] = Append(RQ[u], LoadRequest(a, "LOAD", l)) BY <1>4, <3>1
      <4>2. PICK p : p = RQ'[u] OBVIOUS
      <4>3. \A i \in DOMAIN p : ServesAfter(p[i], u)
        BY <1>2, <1>3, <1>4, <4>1, <4>2, ServesAfterAppend
      <4> QED BY <1>2, <3>2, <3>4, <4>2, <4>3
    <3> QED BY <3>3, <3>4
  <2>2. CASE AddPq(u, l, a)
    <3>1. PQ' = [PQ EXCEPT ![u] = Append(@, LoadRequest(a, "PREFETCH", l))] BY <2>2, Arrivals
    <3>2. UNCHANGED RQ BY <2>2 DEF AddPq
    <3>3. CASE v # u BY <1>2, <1>4, <3>1, <3>2, <3>3
    <3>4. CASE v = u
      <4>1. PQ'[u] = Append(PQ[u], LoadRequest(a, "PREFETCH", l)) BY <1>4, <3>1
      <4>2. PICK p : p = PQ'[u] OBVIOUS
      <4>3. \A i \in DOMAIN p : ServesAfter(p[i], u)
        BY <1>2, <1>3, <1>4, <4>1, <4>2, ServesAfterAppend
      <4> QED BY <1>2, <3>2, <3>4, <4>2, <4>3
    <3> QED BY <3>3, <3>4
  <2> QED BY <2>1, <2>2
<1>6. \A v \in Uppers : RequestsServe(RQ[v], v)' /\ RequestsServe(PQ[v], v)'
  BY <1>5 DEF RequestsServe, ServesAfter
<1>7. EntriesServe(inflight_tag_check)'
  <2>1. ASSUME NEW i \in DOMAIN inflight_tag_check, NEW m \in inflight_tag_check[i].instr_depend_on_me
        PROVE  waiting'[m] = waiting[m]
    <3>1. inflight_tag_check[i] \in tag_lookup_type BY DEF TypeInv, PipesOK, TagEntries
    <3>2. Serves(inflight_tag_check[i]) BY DEF ServeInv, EntriesServe
    <3> QED BY <1>2, <3>1, <3>2
  <2> QED BY <1>1, <2>1 DEF ServeInv, EntriesServe, Serves
<1>8. EntriesServe(MSHR)'
  <2>1. ASSUME NEW i \in DOMAIN MSHR, NEW m \in MSHR[i].instr_depend_on_me
        PROVE  waiting'[m] = waiting[m]
    <3>1. MSHR[i] \in mshr_type BY DEF TypeInv, PipesOK, MissEntries
    <3>2. Serves(MSHR[i]) BY DEF ServeInv, EntriesServe
    <3> QED BY <1>2, <3>1, <3>2
  <2> QED BY <1>1, <2>1 DEF ServeInv, EntriesServe, Serves
<1> QED BY <1>6, <1>7, <1>8 DEF ServeInv

\* One queue changes; what it holds is still what it held.
LEMMA AwaitedQueues ==
  ASSUME TypeInv, ServeInv, NEW u \in Uppers,
         \A v \in Uppers \ {u} : RQ'[v] = RQ[v] /\ PQ'[v] = PQ[v],
         RequestsServe(RQ'[u], u), RequestsServe(PQ'[u], u),
         EntriesServe(inflight_tag_check'), EntriesServe(MSHR')
  PROVE  AwaitedBefore(RQ', PQ', inflight_tag_check', MSHR')
<1>1. ASSUME NEW v \in Uppers PROVE RequestsServe(RQ'[v], v) /\ RequestsServe(PQ'[v], v)
  <2>1. CASE v = u BY <2>1
  <2>2. CASE v # u
    <3>1. RequestsServe(RQ[v], v) /\ RequestsServe(PQ[v], v) BY DEF ServeInv
    <3>2. RQ'[v] = RQ[v] /\ PQ'[v] = PQ[v] BY <2>2
    <3> QED BY <3>1, <3>2
  <2> QED BY <2>1, <2>2
<1> QED BY <1>1 DEF AwaitedBefore

LEMMA ServeQueues ==
  ASSUME TypeInv, ServeInv, NEW u \in Uppers,
         \/ \E a \in Addresses : AddPqNoResponse(u, a)
         \/ \E j \in At(RQ[u]) : CheckRq(u, j)
         \/ \E j \in At(PQ[u]) : CheckPq(u, j)
  PROVE  AwaitedBefore(RQ', PQ', inflight_tag_check', MSHR')
<1>1. /\ RQ[u] \in Seq(Request) /\ PQ[u] \in Seq(Request) /\ DOMAIN RQ = Uppers /\ DOMAIN PQ = Uppers
  BY RequestQueues DEF TypeInv, QueuesOK
<1>2. /\ RequestsServe(RQ[u], u) /\ RequestsServe(PQ[u], u)
      /\ EntriesServe(inflight_tag_check) /\ EntriesServe(MSHR)
  BY DEF ServeInv
<1>3. UNCHANGED <<inflight_tag_check, MSHR>> BY DEF AddPqNoResponse, CheckRq, CheckPq, tags, misses
<1>4. EntriesServe(inflight_tag_check') /\ EntriesServe(MSHR') BY <1>2, <1>3
<1>5. ASSUME NEW a \in Addresses, AddPqNoResponse(u, a)
      PROVE  AwaitedBefore(RQ', PQ', inflight_tag_check', MSHR')
  <2>1. PICK r : r = SilentRequest(a, "PREFETCH") OBVIOUS
  <2>2. r \in Request /\ r.instr_depend_on_me = {} BY <2>1, SilentRequestFacts
  <2>3. PQ'[u] = Append(PQ[u], r) /\ \A v \in Uppers \ {u} : PQ'[v] = PQ[v]
    BY <1>1, <1>5, <2>1, Arrivals
  <2>4. RequestServes(r, u) BY <2>2 DEF RequestServes
  <2>5. RequestsServe(PQ'[u], u) BY <1>1, <1>2, <2>2, <2>3, <2>4, RequestsServeAppend
  <2>6. RQ' = RQ BY <1>5 DEF AddPqNoResponse
  <2>7. RequestsServe(RQ'[u], u) /\ \A v \in Uppers \ {u} : RQ'[v] = RQ[v] /\ PQ'[v] = PQ[v]
    BY <1>2, <2>3, <2>6
  <2> QED BY <1>4, <2>5, <2>7, AwaitedQueues
<1>6. ASSUME NEW j \in DOMAIN RQ[u], CheckRq(u, j)
      PROVE  AwaitedBefore(RQ', PQ', inflight_tag_check', MSHR')
  <2>1. RQ' = [RQ EXCEPT ![u] = CheckedReads(u, @, j)] /\ PQ' = PQ BY <1>6 DEF CheckRq
  <2>2. /\ RQ'[u] = CheckedReads(u, RQ[u], j) /\ PQ'[u] = PQ[u]
        /\ \A v \in Uppers \ {u} : RQ'[v] = RQ[v] /\ PQ'[v] = PQ[v]
    BY <1>1, <2>1
  <2> HIDE <2>1
  <2>3. RequestsServe(RQ'[u], u) /\ RequestsServe(PQ'[u], u)
    BY <1>1, <1>2, <2>2, CheckedReadsServe
  <2> QED BY <1>4, <2>2, <2>3, AwaitedQueues
<1>7. ASSUME NEW j \in DOMAIN PQ[u], CheckPq(u, j)
      PROVE  AwaitedBefore(RQ', PQ', inflight_tag_check', MSHR')
  <2>1. PQ' = [PQ EXCEPT ![u] = CheckedReads(u, @, j)] /\ RQ' = RQ BY <1>7 DEF CheckPq
  <2>2. /\ PQ'[u] = CheckedReads(u, PQ[u], j) /\ RQ'[u] = RQ[u]
        /\ \A v \in Uppers \ {u} : RQ'[v] = RQ[v] /\ PQ'[v] = PQ[v]
    BY <1>1, <2>1
  <2> HIDE <2>1
  <2>3. RequestsServe(RQ'[u], u) /\ RequestsServe(PQ'[u], u)
    BY <1>1, <1>2, <2>2, CheckedReadsServe
  <2> QED BY <1>4, <2>2, <2>3, AwaitedQueues
<1> QED BY <1>5, <1>6, <1>7 DEF At

\* A tag check that starts returns to the level its request came from.
LEMMA StartServes ==
  ASSUME TypeInv, ServeInv, NEW u \in Uppers, NEW r \in Readers \cup Writers, RequestServes(r, u),
         Start(r, u)
  PROVE  EntriesServe(inflight_tag_check')
<1>1. PICK e : e = ToTagCheck(r, u) OBVIOUS
<1>2. e \in TagEntries BY <1>1, ToTagCheckType
<1>3. /\ e.instr_depend_on_me = r.instr_depend_on_me /\ e.block = BlockOf[r.address]
      /\ r.response_requested => e.to_return = {u}
  BY <1>1 DEF ToTagCheck
<1>4. r \in Request BY DEF Readers, Writers
<1>5. ASSUME NEW l \in e.instr_depend_on_me
      PROVE  /\ waiting[l] \in Wanted
             /\ waiting[l].upper \in e.to_return /\ waiting[l].block = e.block
  <2>1. r.response_requested BY <1>3, <1>5 DEF RequestServes
  <2>2. waiting[l] = [upper |-> u, block |-> BlockOf[r.address]] BY <1>3, <1>5 DEF RequestServes
  <2>3. BlockOf[r.address] \in Blocks BY <1>4 DEF Request, Blocks
  <2> QED BY <1>3, <2>1, <2>2, <2>3 DEF Wanted
<1>6. Serves(e) BY <1>5 DEF Serves
<1>7. inflight_tag_check \in Seq(TagEntries) /\ EntriesServe(inflight_tag_check)
  BY DEF TypeInv, PipesOK, ServeInv
<1>8. inflight_tag_check' = Append(inflight_tag_check, e) BY <1>1 DEF Start
<1> QED BY <1>2, <1>6, <1>7, <1>8, EntriesServeAppend

LEMMA ServeStart ==
  ASSUME TypeInv, ServeInv, NEW u \in Uppers, StartWq(u) \/ StartRq(u) \/ StartPq(u)
  PROVE  AwaitedBefore(RQ', PQ', inflight_tag_check', MSHR')
<1>1. /\ RQ[u] \in Seq(Readers) /\ PQ[u] \in Seq(Readers) /\ WQ[u] \in Seq(Writers)
      /\ DOMAIN RQ = Uppers /\ DOMAIN PQ = Uppers
  BY DEF TypeInv, QueuesOK
<1>2. RQ[u] \in Seq(Request) /\ PQ[u] \in Seq(Request) BY RequestQueues
<1>3. RequestsServe(RQ[u], u) /\ RequestsServe(PQ[u], u) /\ EntriesServe(MSHR) BY DEF ServeInv
<1>4. EntriesServe(MSHR') BY <1>3 DEF StartWq, StartRq, StartPq, misses
<1>5. CASE StartWq(u)
  <2>1. WQ[u] # <<>> /\ Start(WQ[u][1], u) /\ RQ' = RQ /\ PQ' = PQ BY <1>5 DEF StartWq
  <2>2. WQ[u][1] \in Writers BY <1>1, <2>1, TailFacts
  <2>3. RequestServes(WQ[u][1], u) BY <2>2 DEF Writers, RequestServes
  <2>4. EntriesServe(inflight_tag_check') BY <2>1, <2>2, <2>3, StartServes
  <2> QED BY <1>3, <1>4, <2>1, <2>4, AwaitedQueues
<1>6. CASE StartRq(u)
  <2>1. RQ[u] # <<>> /\ Start(RQ[u][1], u) /\ RQ' = [RQ EXCEPT ![u] = Tail(@)] /\ PQ' = PQ
    BY <1>6 DEF StartRq
  <2>2. RQ[u][1] \in Readers BY <1>1, <2>1, TailFacts
  <2>3. RequestServes(RQ[u][1], u) BY <1>2, <1>3, <2>1, RequestsServeTail
  <2>4. EntriesServe(inflight_tag_check') BY <2>1, <2>2, <2>3, StartServes
  <2>5. /\ RQ'[u] = Tail(RQ[u]) /\ PQ'[u] = PQ[u] /\ RQ[u] # <<>>
        /\ \A v \in Uppers \ {u} : RQ'[v] = RQ[v] /\ PQ'[v] = PQ[v]
    BY <1>1, <2>1
  <2> HIDE <2>1
  <2>6. RequestsServe(RQ'[u], u) /\ RequestsServe(PQ'[u], u)
    BY <1>2, <1>3, <2>5, RequestsServeTail
  <2> QED BY <1>4, <2>4, <2>5, <2>6, AwaitedQueues
<1>7. CASE StartPq(u)
  <2>1. PQ[u] # <<>> /\ Start(PQ[u][1], u) /\ PQ' = [PQ EXCEPT ![u] = Tail(@)] /\ RQ' = RQ
    BY <1>7 DEF StartPq
  <2>2. PQ[u][1] \in Readers BY <1>1, <2>1, TailFacts
  <2>3. RequestServes(PQ[u][1], u) BY <1>2, <1>3, <2>1, RequestsServeTail
  <2>4. EntriesServe(inflight_tag_check') BY <2>1, <2>2, <2>3, StartServes
  <2>5. /\ PQ'[u] = Tail(PQ[u]) /\ RQ'[u] = RQ[u] /\ PQ[u] # <<>>
        /\ \A v \in Uppers \ {u} : RQ'[v] = RQ[v] /\ PQ'[v] = PQ[v]
    BY <1>1, <2>1
  <2> HIDE <2>1
  <2>6. RequestsServe(RQ'[u], u) /\ RequestsServe(PQ'[u], u)
    BY <1>2, <1>3, <2>5, RequestsServeTail
  <2> QED BY <1>4, <2>4, <2>5, <2>6, AwaitedQueues
<1> QED BY <1>5, <1>6, <1>7

\* Only the tag checks and the MSHRs change.
LEMMA AwaitedPipes ==
  ASSUME ServeInv, UNCHANGED <<RQ, PQ>>, EntriesServe(inflight_tag_check'), EntriesServe(MSHR')
  PROVE  AwaitedBefore(RQ', PQ', inflight_tag_check', MSHR')
BY DEF ServeInv, AwaitedBefore

LEMMA ServeMshr ==
  ASSUME TypeInv, ServeInv,
         \/ StartInternal \/ Tick \/ FillMshr
         \/ \E i, j \in At(MSHR) : FinishPacket(i, j)
  PROVE  AwaitedBefore(RQ', PQ', inflight_tag_check', MSHR')
<1>1. inflight_tag_check \in Seq(TagEntries) /\ MSHR \in Seq(MissEntries) BY DEF TypeInv, PipesOK
<1>2. EntriesServe(inflight_tag_check) /\ EntriesServe(MSHR) BY DEF ServeInv
<1>3. UNCHANGED <<RQ, PQ>> BY DEF StartInternal, Tick, FillMshr, FinishPacket, queues
<1>4. CASE StartInternal
  <2>1. internal_PQ \in Seq(OwnPrefetches) /\ internal_PQ # <<>>
    BY <1>4 DEF TypeInv, PipesOK, StartInternal
  <2>2. internal_PQ[1] \in OwnPrefetches BY <2>1, TailFacts
  <2>3. PICK h \in Nat : h = Hit_latency BY Latencies
  <2>4. PICK e : e = [internal_PQ[1] EXCEPT !.left = h] OBVIOUS
  <2>5. e \in TagEntries /\ e.instr_depend_on_me = {}
    BY <2>2, <2>4 DEF OwnPrefetches, TagEntries, tag_lookup_type
  <2>6. inflight_tag_check' = Append(inflight_tag_check, e) BY <1>4, <2>3, <2>4 DEF StartInternal
  <2>7. Serves(e) BY <2>5 DEF Serves
  <2>8. EntriesServe(inflight_tag_check') BY <1>1, <1>2, <2>5, <2>6, <2>7, EntriesServeAppend
  <2>9. EntriesServe(MSHR') BY <1>2, <1>4 DEF StartInternal, misses
  <2> QED BY <1>3, <2>8, <2>9, AwaitedPipes
<1>5. CASE Tick
  <2>1. inflight_tag_check' = Sooner(inflight_tag_check) /\ MSHR' = Sooner(MSHR) BY <1>5 DEF Tick
  <2>2. MissEntries \subseteq mshr_type /\ TagEntries \subseteq tag_lookup_type
    BY DEF MissEntries, TagEntries
  <2>3. EntriesServe(inflight_tag_check') BY <1>1, <1>2, <2>1, <2>2, EntriesServeSooner
  <2>4. EntriesServe(MSHR') BY <1>1, <1>2, <2>1, <2>2, EntriesServeSooner
  <2> QED BY <1>3, <2>3, <2>4, AwaitedPipes
<1>6. CASE FillMshr
  <2>1. MSHR # <<>> /\ MSHR' = Tail(MSHR) /\ UNCHANGED inflight_tag_check
    BY <1>6 DEF FillMshr, Due, tags
  <2>2. EntriesServe(MSHR') BY <1>1, <1>2, <2>1, EntriesServeTail
  <2> QED BY <1>2, <1>3, <2>1, <2>2, AwaitedPipes
<1>7. ASSUME NEW i \in DOMAIN MSHR, NEW j \in DOMAIN MSHR, FinishPacket(i, j)
      PROVE  AwaitedBefore(RQ', PQ', inflight_tag_check', MSHR')
  <2>1. PICK f \in Nat : f = Fill_latency BY Latencies
  <2>2. PICK e : e = [MSHR[i] EXCEPT !.left = f] OBVIOUS
  <2>3. MSHR[i] \in MissEntries BY <1>1
  <2>4. /\ e \in MissEntries /\ e.instr_depend_on_me = MSHR[i].instr_depend_on_me
        /\ e.block = MSHR[i].block /\ e.to_return = MSHR[i].to_return
    BY <2>1, <2>2, <2>3 DEF MissEntries, mshr_type
  <2>5. MSHR' = Swapped(MSHR, i, j, e) /\ UNCHANGED inflight_tag_check
    BY <1>7, <2>1, <2>2 DEF FinishPacket, tags
  <2>6. Serves(e) BY <1>2, <2>4 DEF EntriesServe, Serves
  <2>7. EntriesServe(Swapped(MSHR, i, j, e)) BY <1>1, <1>2, <2>4, <2>6, EntriesServeSwapped
  <2> QED BY <1>2, <1>3, <2>5, <2>7, AwaitedPipes
<1> QED BY <1>4, <1>5, <1>6, <1>7 DEF At

LEMMA ServeTagCheck ==
  ASSUME TypeInv, ServeInv, TryHit \/ HandleWrite \/ MergeMiss \/ SendMiss
  PROVE  AwaitedBefore(RQ', PQ', inflight_tag_check', MSHR')
<1>1. MSHR \in Seq(MissEntries) /\ inflight_tag_check \in Seq(TagEntries) BY DEF TypeInv, PipesOK
<1>2. Checking /\ CheckDone BY DEF TryHit, HandleWrite, MergeMiss, SendMiss, Miss
<1>3. Pkt \in TagEntries /\ inflight_tag_check # <<>> BY <1>2, PktFacts
<1>4. EntriesServe(inflight_tag_check) /\ EntriesServe(MSHR) BY DEF ServeInv
<1>5. EntriesServe(inflight_tag_check') /\ Serves(Pkt)
  BY <1>1, <1>2, <1>3, <1>4, EntriesServeTail DEF CheckDone, Pkt
<1>6. UNCHANGED <<RQ, PQ>> BY DEF TryHit, HandleWrite, MergeMiss, SendMiss, queues
<1>7. CASE TryHit \/ HandleWrite
  <2>1. UNCHANGED MSHR BY <1>7 DEF TryHit, HandleWrite, misses
  <2> QED BY <1>4, <1>5, <1>6, <2>1, AwaitedPipes
<1>8. CASE MergeMiss
  <2>1. Miss BY <1>8 DEF MergeMiss
  <2>2. PICK i \in DOMAIN MSHR : /\ MSHR[i].block = Pkt.block
                                 /\ MSHR' = [MSHR EXCEPT ![i] = Merged(@, Pkt)]
    BY <1>8 DEF MergeMiss, EntryOf
  <2>3. PICK e : e = Merged(MSHR[i], Pkt) OBVIOUS
  <2>4. MSHR[i] \in MissEntries BY <1>1
  <2>5. /\ e.instr_depend_on_me = MSHR[i].instr_depend_on_me \cup Pkt.instr_depend_on_me
        /\ e.to_return = MSHR[i].to_return \cup Pkt.to_return /\ e.block = MSHR[i].block
    BY <1>2, <1>3, <2>1, <2>3, <2>4, PktFacts, MergedType
  <2>6. Serves(MSHR[i]) BY <1>4 DEF EntriesServe
  <2>7. Serves(e) BY <1>5, <2>2, <2>5, <2>6 DEF Serves
  <2>8. PICK p : p = MSHR' OBVIOUS
  <2>9. DOMAIN p = DOMAIN MSHR /\ p[i] = e /\ \A k \in DOMAIN MSHR \ {i} : p[k] = MSHR[k]
    BY <1>1, <2>2, <2>3, <2>8
  <2>10. EntriesServe(p) BY <1>4, <2>7, <2>9 DEF EntriesServe
  <2> QED BY <1>5, <1>6, <2>8, <2>10, AwaitedPipes
<1>9. CASE SendMiss
  <2>1. CASE UNCHANGED MSHR BY <1>4, <1>5, <1>6, <2>1, AwaitedPipes
  <2>2. CASE MSHR' # MSHR
    <3>1. PICK t \in Nat \cup {Never} : t = Never OBVIOUS
    <3>2. PICK e : e = ToMshr(Pkt, t) OBVIOUS
    <3>3. /\ e \in mshr_type /\ e.instr_depend_on_me = Pkt.instr_depend_on_me
          /\ e.block = Pkt.block /\ e.to_return = Pkt.to_return
      BY <1>3, <3>2, ToMshrType
    <3>4. MSHR' = Append(MSHR, e) BY <1>9, <2>2, <3>1, <3>2 DEF SendMiss
    <3>5. MSHR \in Seq(mshr_type) BY <1>1, SeqGrows DEF MissEntries
    <3>6. Serves(e) BY <1>5, <3>3 DEF Serves
    <3>7. EntriesServe(MSHR') BY <1>4, <3>3, <3>4, <3>5, <3>6, EntriesServeAppend
    <3> QED BY <1>5, <1>6, <3>7, AwaitedPipes
  <2> QED BY <2>1, <2>2
<1> QED BY <1>7, <1>8, <1>9

LEMMA ServeKeeps == ASSUME TypeInv, ServeInv, TypeInv', HeldInv', [Next]_vars PROVE ServeInv'
<1>1. ASSUME AwaitedBefore(RQ', PQ', inflight_tag_check', MSHR'),
             UNCHANGED waiting \/ \E ret, deps : Respond(ret, deps)
      PROVE  ServeInv'
  <2>1. \A l \in Loads : waiting'[l] \in {waiting[l], None} BY <1>1 DEF Respond
  <2> QED BY <1>1, <2>1, StillAwaited
<1>2. CASE UNCHANGED <<RQ, PQ, inflight_tag_check, MSHR>>
           /\ (UNCHANGED waiting \/ \E ret, deps : Respond(ret, deps))
  <2>1. AwaitedBefore(RQ', PQ', inflight_tag_check', MSHR') BY <1>2 DEF ServeInv, AwaitedBefore
  <2> QED BY <1>1, <1>2, <2>1
<1>3. ASSUME NEW u \in Uppers, NEW a \in Addresses,
             \/ AddWq(u, a) \/ AddPqNoResponse(u, a) \/ \E l \in Loads : AddRq(u, l, a) \/ AddPq(u, l, a)
      PROVE  ServeInv'
  <2>1. CASE AddWq(u, a) BY <1>2, <2>1 DEF AddWq, tags, misses
  <2>2. CASE AddPqNoResponse(u, a)
    <3>1. UNCHANGED waiting BY <2>2 DEF AddPqNoResponse
    <3> QED BY <1>1, <2>2, <3>1, ServeQueues
  <2>3. CASE \E l \in Loads : AddRq(u, l, a) \/ AddPq(u, l, a) BY <2>3, ServeIssue
  <2> QED BY <1>3, <2>1, <2>2, <2>3
<1>4. CASE LowerLevel \/ EndWarmup \/ Prefetch
  BY <1>2, <1>4 DEF LowerLevel, LowerAnswers, LowerTakesWrite, EndWarmup, Prefetch, PrefetchLine,
                    queues, tags, misses
<1>5. CASE StartCycle \/ EndCollide \/ EndFinish \/ EndFill \/ EndWrite \/ EndStart \/ EndCheck
  BY <1>2, <1>5 DEF StartCycle, EndCollide, EndFinish, EndFill, EndWrite, EndStart, EndCheck,
                    queues, tags, misses
<1>6. ASSUME NEW u \in Uppers,
             \/ \E j \in At(WQ[u]) : CheckWq(u, j)
             \/ \E j \in At(RQ[u]) : CheckRq(u, j)
             \/ \E j \in At(PQ[u]) : CheckPq(u, j)
             \/ StartWq(u) \/ StartRq(u) \/ StartPq(u)
      PROVE  ServeInv'
  <2>1. CASE \E j \in At(WQ[u]) : CheckWq(u, j) BY <1>2, <2>1 DEF CheckWq, tags, misses
  <2>2. CASE (\E j \in At(RQ[u]) : CheckRq(u, j)) \/ (\E j \in At(PQ[u]) : CheckPq(u, j))
    <3>1. UNCHANGED waiting \/ \E ret, deps : Respond(ret, deps)
      BY <2>2 DEF CheckRq, CheckPq, AnswerForwarded
    <3> QED BY <1>1, <2>2, <3>1, ServeQueues
  <2>3. CASE StartWq(u) \/ StartRq(u) \/ StartPq(u)
    <3>1. UNCHANGED waiting BY <2>3 DEF StartWq, StartRq, StartPq
    <3> QED BY <1>1, <2>3, <3>1, ServeStart
  <2> QED BY <1>6, <2>1, <2>2, <2>3
<1>7. CASE (\E i, j \in At(MSHR) : FinishPacket(i, j)) \/ FillMshr \/ StartInternal \/ Tick
  <2>1. UNCHANGED waiting \/ \E ret, deps : Respond(ret, deps)
    BY <1>7 DEF FinishPacket, FillMshr, StartInternal, Tick
  <2> QED BY <1>1, <1>7, <2>1, ServeMshr
<1>8. CASE FillWrite BY <1>2, <1>8 DEF FillWrite, queues, tags
<1>9. CASE TryHit \/ HandleWrite \/ MergeMiss \/ SendMiss
  <2>1. UNCHANGED waiting \/ \E ret, deps : Respond(ret, deps)
    BY <1>9 DEF TryHit, HandleWrite, MergeMiss, SendMiss
  <2> QED BY <1>1, <1>9, <2>1, ServeTagCheck
<1>10. CASE UNCHANGED vars BY <1>2, <1>10 DEF vars, queues, tags, misses
<1> QED BY <1>3, <1>4, <1>5, <1>6, <1>7, <1>8, <1>9, <1>10 DEF Next, Operate, Arrive
-----------------------------------------------------------------------------
(* The invariant *)

LEMMA InitHolds == ASSUME Init PROVE IInv
<1>1. /\ pc = "idle" /\ bw = 0 /\ warmup \in BOOLEAN
      /\ RQ = [u \in Uppers |-> <<>>] /\ WQ = [u \in Uppers |-> <<>>] /\ PQ = [u \in Uppers |-> <<>>]
      /\ inflight_tag_check = <<>> /\ MSHR = <<>> /\ inflight_writes = <<>> /\ internal_PQ = <<>>
      /\ block = [s \in Sets |-> [w \in Ways |-> Invalid]]
      /\ asked = {} /\ lower_WQ = <<>> /\ returned = <<>>
      /\ waiting = [l \in Loads |-> None] /\ unwritten = {}
  BY DEF Init
<1>2. TypeInv
  <2>1. StageOK BY <1>1, Constants DEF StageOK
  <2>2. QueuesOK BY <1>1 DEF QueuesOK
  <2>3. PipesOK BY <1>1 DEF PipesOK
  <2>4. Invalid \in Lines BY DEF Invalid, Lines, BLOCK
  <2>5. StoreOK BY <1>1, <2>4 DEF StoreOK
  <2>6. LowerOK BY <1>1 DEF LowerOK
  <2>7. WaitingOK BY <1>1 DEF WaitingOK
  <2> QED BY <2>1, <2>2, <2>3, <2>5, <2>6, <2>7 DEF TypeInv
<1>3. MergedInv BY <1>1 DEF MergedInv, CheckedInFront, KeyOnce
<1>4. TimeInv BY <1>1 DEF TimeInv, InTime, Ordered
<1>5. LowerInv
  <2>1. Len(MSHR) <= MSHR_SIZE BY <1>1, Constants
  <2>2. OnePerBlock(MSHR) /\ OutstandingBlocks(MSHR) = {}
    BY <1>1 DEF OnePerBlock, OutstandingBlocks, Outstanding
  <2>3. IsFiniteSet(asked) BY <1>1, FS_EmptySet
  <2>4. BlocksOf(asked) = {} /\ ToSet(returned) = {} BY <1>1 DEF BlocksOf, ToSet
  <2>5. /\ \A r, s \in asked : r.block = s.block => r = s
        /\ \A i, j \in DOMAIN returned : returned[i] = returned[j] => i = j
        /\ \A r \in asked : r.block \notin ToSet(returned)
    BY <1>1
  <2> QED BY <2>1, <2>2, <2>3, <2>4, <2>5 DEF LowerInv
<1>6. BoundInv BY <1>1, Constants DEF BoundInv, TagsBounded
<1>7. ServeInv BY <1>1 DEF ServeInv, RequestsServe, EntriesServe
<1>8. HeldInv
  <2>1. PICK Q : IsLayout(Q, RQ, PQ, inflight_tag_check, MSHR) BY DEF IsLayout
  <2>2. Q = Queues BY <2>1 DEF IsLayout, Queues
  <2>3. ASSUME NEW k \in Rows PROVE Q[k] = <<>>
    <3>1. /\ \A u \in Uppers : Q[u] = RQ[u] /\ Q[PqRow(u)] = PQ[u]
          /\ Q[TagRow] = inflight_tag_check /\ Q[MshrRow] = MSHR
      BY <2>1, LayoutFacts
    <3>2. k \in Uppers \/ k = TagRow \/ k = MshrRow \/ \E u \in Uppers : k = PqRow(u) BY RowKinds
    <3> QED BY <1>1, <3>1, <3>2
  <2>4. \A l : Absent(Q, l) BY <2>3 DEF Absent, NoneIn
  <2> QED BY <1>1, <2>2, <2>4 DEF HeldInv
<1>9. DirtyInv BY <1>1 DEF DirtyInv
<1> QED BY <1>2, <1>3, <1>4, <1>5, <1>6, <1>7, <1>8, <1>9 DEF IInv

LEMMA StepKeeps == ASSUME IInv, [Next]_vars PROVE IInv'
<1>1. TypeInv /\ MergedInv /\ TimeInv /\ LowerInv /\ BoundInv /\ ServeInv /\ HeldInv /\ DirtyInv
  BY DEF IInv
<1>2. TypeInv' BY <1>1, TypeKeeps
<1>3. MergedInv' BY <1>1, MergedKeeps
<1>4. TimeInv' BY <1>1, TimeKeeps
<1>5. LowerInv' BY <1>1, LowerStep
<1>6. BoundInv' BY <1>1, BoundKeeps
<1>7. HeldInv' BY <1>1, HeldKeeps
<1>8. ServeInv' BY <1>1, <1>2, <1>7, ServeKeeps
<1>9. DirtyInv' BY <1>1, DirtyKeeps
<1> QED BY <1>2, <1>3, <1>4, <1>5, <1>6, <1>7, <1>8, <1>9 DEF IInv

\* The inductive invariant holds of every execution.
THEOREM Invariance == Spec => []IInv
<1>1. Init => IInv BY InitHolds
<1>2. IInv /\ [Next]_vars => IInv' BY StepKeeps
<1> QED BY <1>1, <1>2, PTL DEF Spec
-----------------------------------------------------------------------------
(* What the invariant says of the pipelines *)

LEMMA TypesAreRight == ASSUME TypeInv PROVE TypeOK
<1>1. Readers \subseteq Request /\ Writers \subseteq Request BY DEF Readers, Writers
<1>2. ASSUME NEW u \in Uppers PROVE {RQ[u], WQ[u], PQ[u]} \subseteq Seq(Request)
  BY RequestQueues
<1>3. /\ inflight_tag_check \in Seq(TagEntries) /\ internal_PQ \in Seq(OwnPrefetches)
      /\ MSHR \in Seq(MissEntries) /\ inflight_writes \in Seq(WriteEntries)
  BY DEF TypeInv, PipesOK
<1>4. /\ TagEntries \subseteq tag_lookup_type /\ OwnPrefetches \subseteq tag_lookup_type
      /\ MissEntries \subseteq mshr_type /\ WriteEntries \subseteq mshr_type
  BY DEF TagEntries, OwnPrefetches, MissEntries, WriteEntries
<1>5. inflight_tag_check \in Seq(tag_lookup_type) BY <1>3, <1>4, SeqGrows
<1>6. internal_PQ \in Seq(tag_lookup_type) BY <1>3, <1>4, SeqGrows
<1>7. MSHR \in Seq(mshr_type) BY <1>3, <1>4, SeqGrows
<1>8. inflight_writes \in Seq(mshr_type) BY <1>3, <1>4, SeqGrows
<1>9. block \in [Sets -> [Ways -> BLOCK]]
  <2>1. block \in [Sets -> [Ways -> Lines]] /\ Lines \subseteq BLOCK BY DEF TypeInv, StoreOK, Lines
  <2> QED BY <2>1
<1>10. asked \subseteq [block : Blocks, queue : {"rq", "pq"}] BY DEF TypeInv, LowerOK, Questions
<1> QED BY <1>2, <1>5, <1>6, <1>7, <1>8, <1>9, <1>10
        DEF TypeOK, TypeInv, StageOK, StoreOK, LowerOK, WaitingOK

LEMMA QueuesAreMerged == ASSUME TypeInv, MergedInv PROVE QueuesMerged
<1> SUFFICES ASSUME NEW u \in Uppers
             PROVE  /\ \A i, j \in DOMAIN WQ[u] \ Unchecked(WQ[u]) :
                         i < j => WriteKey(WQ[u][i].address) # WriteKey(WQ[u][j].address)
                    /\ \A q \in {RQ[u], PQ[u]} : \A i, j \in DOMAIN q \ Unchecked(q) :
                         i < j => BlockOf[q[i].address] # BlockOf[q[j].address]
  BY DEF QueuesMerged
<1>1. RQ[u] \in Seq(Request) /\ PQ[u] \in Seq(Request) /\ WQ[u] \in Seq(Request) BY RequestQueues
<1>2. KeyOnce(RQ[u], BlockOf) /\ KeyOnce(PQ[u], BlockOf) /\ KeyOnce(WQ[u], WriteKeys) BY DEF MergedInv
<1>3. ASSUME NEW i \in DOMAIN WQ[u] \ Unchecked(WQ[u]), NEW j \in DOMAIN WQ[u] \ Unchecked(WQ[u]), i < j
      PROVE  WriteKey(WQ[u][i].address) # WriteKey(WQ[u][j].address)
  <2>1. WQ[u][i] \in Request /\ WQ[u][j] \in Request BY <1>1
  <2>2. WQ[u][i].address \in Addresses /\ WQ[u][j].address \in Addresses BY <2>1 DEF Request
  <2>3. WQ[u][i].forward_checked /\ WQ[u][j].forward_checked BY DEF Unchecked
  <2>4. WriteKeys[WQ[u][i].address] # WriteKeys[WQ[u][j].address] BY <1>2, <1>3, <2>3 DEF KeyOnce
  <2> QED BY <2>2, <2>4 DEF WriteKeys
<1>4. ASSUME NEW q \in {RQ[u], PQ[u]}, NEW i \in DOMAIN q \ Unchecked(q), NEW j \in DOMAIN q \ Unchecked(q),
             i < j
      PROVE  BlockOf[q[i].address] # BlockOf[q[j].address]
  BY <1>2, <1>4 DEF KeyOnce, Unchecked
<1> QED BY <1>3, <1>4

LEMMA NoneHeldHere ==
  ASSUME NEW q, NEW l, NoneIn(q, l), NEW w
  PROVE  Cardinality(Queued(q, l, w)) = 0 /\ Cardinality(Piped(q, l, w)) = 0
<1>1. Queued(q, l, w) = {} /\ Piped(q, l, w) = {} BY DEF NoneIn, Queued, Piped
<1> QED BY <1>1, FS_EmptySet

LEMMA OneQueued ==
  ASSUME NEW q, NEW u, RequestsServe(q, u), NEW l, OneIn(q, l), NEW w, w = waiting[l]
  PROVE  w.upper = u /\ Cardinality(Queued(q, l, w)) = 1
<1>1. PICK n \in DOMAIN q : \A m \in DOMAIN q : l \in q[m].instr_depend_on_me <=> m = n BY OneAt
<1>2. q[n].response_requested /\ w = [upper |-> u, block |-> BlockOf[q[n].address]]
  BY <1>1 DEF RequestsServe
<1>3. Queued(q, l, w) = {n} BY <1>1, <1>2 DEF Queued
<1>4. Cardinality(Queued(q, l, w)) = 1 BY <1>3, FS_Singleton
<1>5. w.upper = u BY <1>2
<1> QED BY <1>4, <1>5

LEMMA OnePiped ==
  ASSUME NEW q, EntriesServe(q), NEW l, OneIn(q, l), NEW w, w = waiting[l]
  PROVE  Cardinality(Piped(q, l, w)) = 1
<1>1. PICK n \in DOMAIN q : \A m \in DOMAIN q : l \in q[m].instr_depend_on_me <=> m = n BY OneAt
<1>2. w.upper \in q[n].to_return /\ w.block = q[n].block BY <1>1 DEF EntriesServe, Serves
<1>3. Piped(q, l, w) = {n} BY <1>1, <1>2 DEF Piped
<1> QED BY <1>3, FS_Singleton

\* A load that nobody waits for has no place, one that is waited for has one.
LEMMA LoadPlaces ==
  ASSUME TypeInv, ServeInv, HeldInv, NEW l \in Loads
  PROVE  /\ waiting[l] = None => \A w \in Wanted : Places(l, w) = 0
         /\ waiting[l] # None => Places(l, waiting[l]) = 1
<1>1. PICK Q : IsLayout(Q, RQ, PQ, inflight_tag_check, MSHR) BY DEF IsLayout
<1>2. Held1(Q, waiting[l], l) BY <1>1, HeldBefore
<1>3. /\ \A u \in Uppers : u \in Rows /\ PqRow(u) \in Rows /\ Q[u] = RQ[u] /\ Q[PqRow(u)] = PQ[u]
      /\ TagRow \in Rows /\ MshrRow \in Rows /\ Q[TagRow] = inflight_tag_check /\ Q[MshrRow] = MSHR
  BY <1>1, LayoutFacts
<1>4. NoneIn(inflight_writes, l)
  <2>1. inflight_writes \in Seq(WriteEntries) BY DEF TypeInv, PipesOK
  <2>2. \A i \in DOMAIN inflight_writes : inflight_writes[i] \in WriteEntries BY <2>1
  <2> QED BY <2>2 DEF WriteEntries, NoneIn
<1>5. \A w : Cardinality(Piped(inflight_writes, l, w)) = 0 BY <1>4, NoneHeldHere
<1>6. ASSUME waiting[l] = None, NEW w \in Wanted PROVE Places(l, w) = 0
  <2>1. w.upper \in Uppers BY DEF Wanted
  <2>2. \A k \in Rows : NoneIn(Q[k], l) BY <1>2, <1>6 DEF Held1, Absent
  <2>3. /\ NoneIn(RQ[w.upper], l) /\ NoneIn(PQ[w.upper], l)
        /\ NoneIn(inflight_tag_check, l) /\ NoneIn(MSHR, l)
    BY <1>3, <2>1, <2>2
  <2>4. Cardinality(Queued(RQ[w.upper], l, w)) = 0 /\ Cardinality(Queued(PQ[w.upper], l, w)) = 0
    BY <2>3, NoneHeldHere
  <2>5. Cardinality(Piped(inflight_tag_check, l, w)) = 0 /\ Cardinality(Piped(MSHR, l, w)) = 0
    BY <2>3, NoneHeldHere
  <2> QED BY <1>5, <2>4, <2>5 DEF Places
<1>7. ASSUME waiting[l] # None PROVE Places(l, waiting[l]) = 1
  <2>1. PICK w : w = waiting[l] OBVIOUS
  <2>2. w \in Wanted /\ w.upper \in Uppers BY <1>7, <2>1 DEF TypeInv, WaitingOK, Wanted
  <2>3. PICK u \in Uppers : u = w.upper BY <2>2
  <2>4. PICK k \in Rows : OneIn(Q[k], l) /\ \A n \in Rows \ {k} : NoneIn(Q[n], l)
    BY <1>2, <1>7 DEF Held1, Once
  <2>5. /\ k # u => NoneIn(RQ[u], l)
        /\ k # PqRow(u) => NoneIn(PQ[u], l)
        /\ k # TagRow => NoneIn(inflight_tag_check, l)
        /\ k # MshrRow => NoneIn(MSHR, l)
    BY <1>3, <2>4
  <2>6. /\ k # u => Cardinality(Queued(RQ[u], l, w)) = 0
        /\ k # PqRow(u) => Cardinality(Queued(PQ[u], l, w)) = 0
        /\ k # TagRow => Cardinality(Piped(inflight_tag_check, l, w)) = 0
        /\ k # MshrRow => Cardinality(Piped(MSHR, l, w)) = 0
    BY <2>5, NoneHeldHere
  <2>7. /\ \A v \in Uppers : RequestsServe(RQ[v], v) /\ RequestsServe(PQ[v], v)
        /\ EntriesServe(inflight_tag_check) /\ EntriesServe(MSHR)
    BY DEF ServeInv
  <2>8. /\ k \in Uppers => k = u /\ Cardinality(Queued(RQ[u], l, w)) = 1
        /\ \A v \in Uppers : k = PqRow(v) => v = u /\ Cardinality(Queued(PQ[u], l, w)) = 1
    <3>1. ASSUME k \in Uppers PROVE k = u /\ Cardinality(Queued(RQ[u], l, w)) = 1
      BY <1>3, <2>1, <2>3, <2>4, <2>7, <3>1, OneQueued
    <3>2. ASSUME NEW v \in Uppers, k = PqRow(v)
          PROVE  v = u /\ Cardinality(Queued(PQ[u], l, w)) = 1
      BY <1>3, <2>1, <2>3, <2>4, <2>7, <3>2, OneQueued
    <3> QED BY <3>1, <3>2
  <2>9. /\ k = TagRow => Cardinality(Piped(inflight_tag_check, l, w)) = 1
        /\ k = MshrRow => Cardinality(Piped(MSHR, l, w)) = 1
    BY <1>3, <2>1, <2>4, <2>7, OnePiped
  <2>10. Places(l, w) = 1
    <3>1. PICK a, b, c, d, e :
            /\ a = Cardinality(Queued(RQ[u], l, w)) /\ b = Cardinality(Queued(PQ[u], l, w))
            /\ c = Cardinality(Piped(inflight_tag_check, l, w)) /\ d = Cardinality(Piped(MSHR, l, w))
            /\ e = Cardinality(Piped(inflight_writes, l, w))
      OBVIOUS
    <3>2. Places(l, w) = a + b + c + d + e BY <2>3, <3>1 DEF Places
    <3>3. e = 0 BY <1>5, <3>1
    <3>4. CASE k \in Uppers
      <4>1. k = u /\ k # PqRow(u) /\ k # TagRow /\ k # MshrRow BY <2>8, <3>4, RowKinds
      <4> QED BY <2>6, <2>8, <3>1, <3>2, <3>3, <3>4, <4>1
    <3>5. ASSUME NEW v \in Uppers, k = PqRow(v) PROVE Places(l, w) = 1
      <4>1. v = u /\ k # u /\ k # TagRow /\ k # MshrRow BY <2>8, <3>5, RowKinds
      <4> QED BY <2>6, <2>8, <3>1, <3>2, <3>3, <3>5, <4>1
    <3>6. CASE k = TagRow
      <4>1. k # u /\ k # PqRow(u) /\ k # MshrRow BY <3>6, RowKinds
      <4> QED BY <2>6, <2>9, <3>1, <3>2, <3>3, <3>6, <4>1
    <3>7. CASE k = MshrRow
      <4>1. k # u /\ k # PqRow(u) /\ k # TagRow BY <3>7, RowKinds
      <4> QED BY <2>6, <2>9, <3>1, <3>2, <3>3, <3>7, <4>1
    <3> QED BY <2>4, <3>4, <3>5, <3>6, <3>7, RowKinds
  <2> QED BY <2>1, <2>10
<1> QED BY <1>6, <1>7

LEMMA InvariantImplies ==
  ASSUME IInv
  PROVE  /\ PipelinesAgree
         /\ ~match_offset_bits => WrittenBlocksStayDirty
<1>1. TypeInv /\ MergedInv /\ TimeInv /\ LowerInv /\ BoundInv /\ ServeInv /\ HeldInv /\ DirtyInv
  BY DEF IInv
<1>2. DueInFront BY <1>1 DEF TimeInv, InTime, DueInFront
<1>3. TagsBounded BY <1>1 DEF BoundInv
<1>4. LoadsHeldOnce BY <1>1, LoadPlaces DEF LoadsHeldOnce
<1>5. PipelinesAgree
  BY <1>1, <1>2, <1>3, <1>4, TypesAreRight, QueuesAreMerged, MissesAreMatched DEF PipelinesAgree
<1>6. ASSUME ~match_offset_bits PROVE WrittenBlocksStayDirty
  BY <1>1, <1>6 DEF DirtyInv, DirtyAt, WrittenBlocksStayDirty
<1> QED BY <1>5, <1>6

\* The queues, the pipelines, the MSHRs and the level below always agree about what is on
\* its way: one checked request per block, what is due in front, one MSHR per block that
\* the level below owes, tag checks within their bandwidth, a load in one place.
THEOREM PipelinesAlwaysAgree == Spec => []PipelinesAgree
<1>1. IInv => PipelinesAgree BY InvariantImplies
<1> QED BY <1>1, Invariance, PTL

\* In a cache that is no L1D, a block that was written is known to be dirty somewhere
\* until it is written back, through every fill, merge and write-back.
THEOREM WrittenBlocksAreAlwaysDirty ==
  ASSUME ~match_offset_bits PROVE Spec => []WrittenBlocksStayDirty
<1>1. IInv => WrittenBlocksStayDirty BY InvariantImplies
<1> QED BY <1>1, Invariance, PTL
-----------------------------------------------------------------------------
(* The cache implements LoadPort *)

\* What the cache remembers is what is waited for.
RemembersWaiting == Held = waiting

LEMMA RemembersWhatIsWaited == ASSUME IInv PROVE RemembersWaiting
<1>1. TypeInv /\ ServeInv /\ HeldInv BY DEF IInv
<1>2. waiting \in [Loads -> Wanted \cup {None}] BY <1>1 DEF TypeInv, WaitingOK
<1>3. ASSUME NEW l \in Loads PROVE Held[l] = waiting[l]
  <2>1. CASE waiting[l] = None
    <3>1. None \notin HeldFor(l) BY Constants DEF HeldFor
    <3>2. \A w \in Wanted : Places(l, w) = 0 BY <1>1, <2>1, LoadPlaces
    <3>3. HeldFor(l) = {} BY <3>2 DEF HeldFor
    <3> QED BY <2>1, <3>1, <3>3 DEF Held
  <2>2. CASE waiting[l] # None
    <3>1. waiting[l] \in Wanted BY <1>2, <2>2
    <3>2. Places(l, waiting[l]) > 0
      <4>1. Places(l, waiting[l]) = 1 BY <1>1, <2>2, LoadPlaces
      <4> QED BY <4>1
    <3>3. waiting[l] \in HeldFor(l) BY <3>1, <3>2 DEF HeldFor
    <3> QED BY <3>3 DEF Held
  <2> QED BY <2>1, <2>2
<1>4. DOMAIN Held = Loads /\ Held = [l \in Loads |-> Held[l]] BY DEF Held
<1> QED BY <1>2, <1>3, <1>4 DEF RemembersWaiting

LEMMA RespondIsAnswer ==
  ASSUME TypeInv, NEW ret, NEW deps, Respond(ret, deps), Held = waiting, Held' = waiting'
  PROVE  [Port!Next]_<<waiting, Held>>
<1>1. PICK S \in SUBSET Loads : S = Served(ret, deps) \cap Loads OBVIOUS
<1>2. waiting' = [l \in Loads |-> IF l \in S THEN None ELSE waiting[l]]
  BY <1>1 DEF Respond
<1>3. \A l \in S : waiting[l] # None BY <1>1 DEF Served
<1>4. CASE S = {}
  <2>1. waiting' = waiting BY <1>2, <1>4 DEF TypeInv, WaitingOK
  <2> QED BY <2>1
<1>5. CASE S # {}
  <2>1. Port!Answer(S) BY <1>2, <1>3, <1>5 DEF Port!Answer
  <2> QED BY <2>1 DEF Port!Next
<1> QED BY <1>4, <1>5

\* A step of the cache is one of the port, or none of it.
LEMMA PortStep ==
  ASSUME TypeInv, [Next]_vars, RemembersWaiting, RemembersWaiting'
  PROVE  [Port!Next]_<<waiting, Held>>
<1> SUFFICES ASSUME Held = waiting, Held' = waiting' PROVE [Port!Next]_<<waiting, Held>>
  BY DEF RemembersWaiting
<1>1. CASE UNCHANGED waiting BY <1>1
<1>2. ASSUME NEW u \in Uppers, NEW l \in Loads, NEW a \in Addresses, Issue(u, l, a)
      PROVE  Port!Next
  <2>1. PICK w \in Wanted : w = [upper |-> u, block |-> BlockOf[a]] BY DEF Wanted, Blocks
  <2>2. waiting[l] = None /\ waiting' = [waiting EXCEPT ![l] = w] BY <1>2, <2>1 DEF Issue
  <2>3. Port!Issue(w, l) BY <2>2 DEF Port!Issue
  <2> QED BY <2>3 DEF Port!Next
<1>3. CASE Arrive
  BY <1>1, <1>2, <1>3 DEF Arrive, AddRq, AddPq, AddPqNoResponse, AddWq
<1>4. CASE LowerLevel \/ EndWarmup \/ Prefetch
  BY <1>1, <1>4 DEF LowerLevel, LowerAnswers, LowerTakesWrite, EndWarmup, Prefetch, PrefetchLine
<1>5. CASE StartCycle \/ EndCollide \/ EndFinish \/ EndFill \/ EndWrite \/ EndStart \/ EndCheck \/ Tick
  BY <1>1, <1>5
     DEF StartCycle, EndCollide, EndFinish, EndFill, EndWrite, EndStart, EndCheck, Tick
<1>6. CASE \E u \in Uppers : \/ \E j \in At(WQ[u]) : CheckWq(u, j)
                             \/ \E j \in At(RQ[u]) : CheckRq(u, j)
                             \/ \E j \in At(PQ[u]) : CheckPq(u, j)
  BY <1>1, <1>6, RespondIsAnswer DEF CheckWq, CheckRq, CheckPq, AnswerForwarded
<1>7. CASE \E u \in Uppers : StartWq(u) \/ StartRq(u) \/ StartPq(u)
  BY <1>1, <1>7 DEF StartWq, StartRq, StartPq
<1>8. CASE \E i, j \in At(MSHR) : FinishPacket(i, j) BY <1>1, <1>8 DEF FinishPacket
<1>9. CASE FillMshr \/ FillWrite \/ TryHit
  BY <1>9, RespondIsAnswer DEF FillMshr, FillWrite, TryHit
<1>10. CASE StartInternal \/ HandleWrite \/ MergeMiss \/ SendMiss
  BY <1>1, <1>10 DEF StartInternal, HandleWrite, MergeMiss, SendMiss
<1>11. CASE UNCHANGED vars BY <1>1, <1>11 DEF vars
<1> QED BY <1>3, <1>4, <1>5, <1>6, <1>7, <1>8, <1>9, <1>10, <1>11 DEF Next, Operate

\* The cache implements LoadPort: a load is pending from its add_rq or add_pq to its
\* answer, is remembered all that time, and is answered once.
THEOREM CacheImplementsLoadPort == Spec => ImplementsLoadPort
<1>1. IInv => RemembersWaiting /\ TypeInv BY RemembersWhatIsWaited DEF IInv
<1>2. TypeInv /\ [Next]_vars /\ RemembersWaiting /\ RemembersWaiting' => [Port!Next]_<<waiting, Held>>
  BY PortStep
<1>3. Init /\ RemembersWaiting => Port!Init BY DEF Init, RemembersWaiting, Port!Init
<1> QED BY <1>1, <1>2, <1>3, Invariance, PTL DEF Spec, ImplementsLoadPort, Port!Spec, Port!vars
=============================================================================
