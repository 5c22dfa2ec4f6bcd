--------------------------- MODULE FrontEnd_proofs ---------------------------
(***************************************************************************)
(* Proofs about the front end of O3_CPU, for any trace, windows and        *)
(* blocks, any sizes of the buffers, the DIB and the L1I's queue, and any  *)
(* widths and latencies.  The instructions in the three buffers are        *)
(* consecutive (OrderInv).  A chunk is asked for only when none of its     *)
(* instructions is in a packet (FetchInv), so every instruction in flight  *)
(* has one packet; and a branch is in one place until it is resolved.      *)
(***************************************************************************)
EXTENDS FrontEnd, WellFoundedInduction, NaturalsInduction, TLAPS

\* A stage has left itself room for the instructions it may still move.
RoomInv ==
  /\ pc = "decode" => Len(DISPATCH_BUFFER) + bw <= DISPATCH_BUFFER_SIZE
  /\ pc = "promote" => Len(DECODE_BUFFER) + bw <= DECODE_BUFFER_SIZE
  /\ pc = "init" => Len(IFETCH_BUFFER) + bw <= IFETCH_BUFFER_SIZE

\* The last instruction that has left each buffer.
Promoted   == next - 1 - Len(IFETCH_BUFFER)
Decoded    == Promoted - Len(DECODE_BUFFER)
Dispatched == Decoded - Len(DISPATCH_BUFFER)
OrderInv ==
  /\ Dispatched >= 0
  /\ \A i \in DOMAIN IFETCH_BUFFER : IFETCH_BUFFER[i].instr_id = Promoted + i
  /\ \A i \in DOMAIN DECODE_BUFFER : DECODE_BUFFER[i].instr_id = Decoded + i
  /\ \A i \in DOMAIN DISPATCH_BUFFER : DISPATCH_BUFFER[i].instr_id = Dispatched + i
  /\ \A id \in executing : id <= Dispatched

\* An instruction is a dependent of one packet at most, of one in asked or one in returned.
PacketInv ==
  /\ \A i, j \in DOMAIN asked :
       i # j => asked[i].instr_depend_on_me \cap asked[j].instr_depend_on_me = {}
  /\ \A i, j \in DOMAIN returned :
       i # j => returned[i].instr_depend_on_me \cap returned[j].instr_depend_on_me = {}
  /\ \A i \in DOMAIN asked, j \in DOMAIN returned :
       asked[i].instr_depend_on_me \cap returned[j].instr_depend_on_me = {}
  /\ \A i \in DOMAIN asked : asked[i].instr_depend_on_me \in SUBSET (1..(next - 1))
  /\ \A i \in DOMAIN returned : returned[i].instr_depend_on_me \in SUBSET (1..(next - 1))

Awaited(id) == \/ \E i \in DOMAIN asked : id \in asked[i].instr_depend_on_me
               \/ \E i \in DOMAIN returned : id \in returned[i].instr_depend_on_me
\* check_dib and fetch_instruction go through IFETCH_BUFFER from the front: nothing
\* behind an instruction that is not asked for is in a packet.
FetchInv ==
  /\ \A i, j \in DOMAIN IFETCH_BUFFER :
       i <= j /\ IFETCH_BUFFER[i].fetched = "no" => ~Awaited(IFETCH_BUFFER[j].instr_id)
  /\ \A i, j \in DOMAIN IFETCH_BUFFER :
       i <= j /\ IFETCH_BUFFER[j].dib_checked => IFETCH_BUFFER[i].dib_checked
  /\ pc = "fetch" /\ Len(asked) < L1I_SIZE =>
       \A i \in DOMAIN IFETCH_BUFFER :
         i < at => ~(IFETCH_BUFFER[i].dib_checked /\ IFETCH_BUFFER[i].fetched = "no")

\* A packet of block b has the instruction as a dependent.
Carried(id, b) ==
  \/ \E k \in DOMAIN asked : id \in asked[k].instr_depend_on_me /\ b = asked[k].block
  \/ \E k \in DOMAIN returned : id \in returned[k].instr_depend_on_me /\ b = returned[k].block
PendingInv ==
  \A i \in DOMAIN IFETCH_BUFFER : IFETCH_BUFFER[i].fetched = "INFLIGHT" =>
    Carried(IFETCH_BUFFER[i].instr_id, BlockOf[IFETCH_BUFFER[i].window])

IInv == /\ TypeOK /\ RoomInv /\ OrderInv /\ PacketInv /\ FetchInv /\ PendingInv
        /\ MispredictionStopsFetch
-----------------------------------------------------------------------------
(* Sequences and greatest elements *)

LEMMA ItemFacts ==
  ASSUME NEW S, NEW q \in Seq(S), NEW i \in DOMAIN q
  PROVE  q[i] \in S
OBVIOUS

LEMMA TailFacts ==
  ASSUME NEW S, NEW q \in Seq(S), q # <<>>
  PROVE  /\ Tail(q) \in Seq(S) /\ Len(Tail(q)) = Len(q) - 1 /\ Len(q) \in Nat \ {0}
         /\ 1 \in DOMAIN q /\ q[1] \in S
         /\ \A i \in DOMAIN Tail(q) : i \in Nat /\ i + 1 \in DOMAIN q /\ Tail(q)[i] = q[i + 1]
         /\ \A i \in DOMAIN q : i # 1 => i - 1 \in DOMAIN Tail(q) /\ Tail(q)[i - 1] = q[i]
<1>1. Len(q) \in Nat \ {0} /\ DOMAIN q = 1..Len(q) OBVIOUS
<1>2. Tail(q) \in Seq(S) /\ Len(Tail(q)) = Len(q) - 1 /\ DOMAIN Tail(q) = 1..(Len(q) - 1)
      /\ \A i \in DOMAIN Tail(q) : Tail(q)[i] = q[i + 1]
  BY <1>1
<1>3. ASSUME NEW i \in DOMAIN q, i # 1 PROVE i - 1 \in DOMAIN Tail(q) /\ Tail(q)[i - 1] = q[i]
  <2>1. i - 1 \in 1..(Len(q) - 1) /\ (i - 1) + 1 = i BY <1>1, <1>3
  <2> QED BY <1>2, <2>1
<1>4. \A i \in DOMAIN Tail(q) : i \in Nat /\ i + 1 \in DOMAIN q BY <1>1, <1>2
<1>5. 1 \in DOMAIN q /\ q[1] \in S BY <1>1
<1> QED BY <1>1, <1>2, <1>3, <1>4, <1>5

LEMMA AppendFacts ==
  ASSUME NEW S, NEW q \in Seq(S), NEW y \in S
  PROVE  /\ Append(q, y) \in Seq(S) /\ Len(Append(q, y)) = Len(q) + 1
         /\ Append(q, y)[Len(q) + 1] = y
         /\ \A i \in 1..Len(q) : Append(q, y)[i] = q[i]
OBVIOUS

LEMMA LeastIn ==
  ASSUME NEW R, IsWellFoundedOn(R, Nat), \A x, y \in Nat : <<y, x>> \in R <=> y < x,
         NEW S \in SUBSET Nat, S # {}
  PROVE  \E x \in S : \A m \in S : x <= m
<1>1. PICK x \in S : \A m \in S : ~ (<<m, x>> \in R) BY WFMin
<1>2. ASSUME NEW m \in S PROVE x <= m
  <2>1. x \in Nat /\ m \in Nat OBVIOUS
  <2>2. ~(m < x) BY <1>1, <2>1
  <2> QED BY <2>1, <2>2
<1> QED BY <1>2

LEMMA LeastOf ==
  ASSUME NEW S \in SUBSET Nat, S # {}
  PROVE  \E x \in S : \A m \in S : x <= m
<1>1. IsWellFoundedOn(OpToRel(<, Nat), Nat) BY NatLessThanWellFounded
<1>2. \A x, y \in Nat : <<y, x>> \in OpToRel(<, Nat) <=> y < x BY DEF OpToRel
<1> QED BY <1>1, <1>2, LeastIn

LEMMA GreatestOf ==
  ASSUME NEW S, S # {}, NEW n \in Nat, S \subseteq 0..n
  PROVE  Max(S) \in S /\ \A m \in S : m <= Max(S)
<1> DEFINE gaps == {n - m : m \in S}
<1>1. \A m \in S : m \in Nat /\ n - m \in Nat OBVIOUS
<1>2. gaps \in SUBSET Nat /\ gaps # {} BY <1>1
<1>3. PICK g \in gaps : \A m \in gaps : g <= m BY <1>2, LeastOf
<1>4. PICK x \in S : g = n - x OBVIOUS
<1>5. \A m \in S : x >= m
  <2> TAKE m \in S
  <2>1. n - x <= n - m BY <1>3, <1>4
  <2> QED BY <1>1, <2>1
<1>6. \E y \in S : \A m \in S : y >= m BY <1>5
<1>7. Max(S) \in S /\ \A m \in S : Max(S) >= m BY <1>6 DEF Max
<1>8. \A m \in S : m \in Int OBVIOUS
<1> QED BY <1>7, <1>8

LEMMA ConcatAt ==
  ASSUME NEW S, NEW a \in Seq(S), NEW b \in Seq(S), NEW n \in 1..Len(b)
  PROVE  (a \o b)[Len(a) + n] = b[n]
OBVIOUS

LEMMA RemoveAtFacts ==
  ASSUME NEW S, NEW s \in Seq(S), NEW i \in DOMAIN s
  PROVE  /\ RemoveAt(s, i) \in Seq(S)
         /\ Len(RemoveAt(s, i)) = Len(s) - 1
         /\ \A j \in 1..(Len(s) - 1) : RemoveAt(s, i)[j] = s[IF j < i THEN j ELSE j + 1]
<1>1. Len(s) \in Nat /\ i \in 1..Len(s) OBVIOUS
<1>2. SubSeq(s, 1, i - 1) \in Seq(S) /\ Len(SubSeq(s, 1, i - 1)) = i - 1
      /\ \A j \in 1..(i - 1) : SubSeq(s, 1, i - 1)[j] = s[j]
  BY <1>1
<1>3. SubSeq(s, i + 1, Len(s)) \in Seq(S) /\ Len(SubSeq(s, i + 1, Len(s))) = Len(s) - i
      /\ \A j \in 1..(Len(s) - i) : SubSeq(s, i + 1, Len(s))[j] = s[i + j]
  BY <1>1
<1> DEFINE a == SubSeq(s, 1, i - 1)  b == SubSeq(s, i + 1, Len(s))
<1>4. RemoveAt(s, i) = a \o b BY DEF RemoveAt
<1> HIDE DEF a, b
<1>5. /\ a \in Seq(S) /\ Len(a) = i - 1 /\ \A j \in 1..(i - 1) : a[j] = s[j]
      /\ b \in Seq(S) /\ Len(b) = Len(s) - i /\ \A j \in 1..(Len(s) - i) : b[j] = s[i + j]
  BY <1>2, <1>3 DEF a, b
<1>6. a \o b \in Seq(S) /\ Len(a \o b) = Len(s) - 1 BY <1>1, <1>5
<1>7. ASSUME NEW j \in 1..(Len(s) - 1) PROVE (a \o b)[j] = s[IF j < i THEN j ELSE j + 1]
  <2>1. CASE j < i BY <1>1, <1>5, <2>1
  <2>2. CASE ~(j < i)
    <3>1. PICK n : n = j - (i - 1) OBVIOUS
    <3>2. n \in 1..(Len(s) - i) /\ j = (i - 1) + n /\ i + n = j + 1 BY <1>1, <2>2, <3>1, SMTT(30)
    <3>3. a \in Seq(S) /\ b \in Seq(S) /\ n \in 1..Len(b) BY <1>5, <3>2
    <3>4. (a \o b)[Len(a) + n] = b[n] BY <3>3, ConcatAt
    <3>5. Len(a) + n = j /\ b[n] = s[i + n] BY <1>5, <3>2
    <3> QED BY <2>2, <3>2, <3>4, <3>5
  <2> QED BY <2>1, <2>2
<1> QED BY <1>4, <1>6, <1>7
-----------------------------------------------------------------------------
(* Types *)

LEMMA Constants ==
  /\ {IFETCH_BUFFER_SIZE, DECODE_BUFFER_SIZE, DISPATCH_BUFFER_SIZE, DIB_WAY, FETCH_WIDTH,
      DECODE_WIDTH, L1I_BANDWIDTH, L1I_SIZE} \subseteq Nat \ {0}
  /\ DECODE_LATENCY \in Nat /\ BRANCH_MISPREDICT_PENALTY \in Nat /\ TraceLength \in Nat
BY FrontEndAssumption

LEMMA BufferTypes ==
  ASSUME TypeOK
  PROVE  /\ IFETCH_BUFFER \in Seq(instr_type) /\ DECODE_BUFFER \in Seq(instr_type)
         /\ DISPATCH_BUFFER \in Seq(instr_type) /\ asked \in Seq(Packet) /\ returned \in Seq(Packet)
         /\ \A i \in DOMAIN IFETCH_BUFFER : IFETCH_BUFFER[i] \in instr_type
         /\ \A i \in DOMAIN DECODE_BUFFER : DECODE_BUFFER[i] \in instr_type
         /\ \A i \in DOMAIN DISPATCH_BUFFER : DISPATCH_BUFFER[i] \in instr_type
         /\ \A i \in DOMAIN asked : asked[i] \in Packet
         /\ \A i \in DOMAIN returned : returned[i] \in Packet
<1>1. {IFETCH_BUFFER, DECODE_BUFFER, DISPATCH_BUFFER} \subseteq Seq(instr_type)
      /\ {asked, returned} \subseteq Seq(Packet)
  BY DEF TypeOK
<1>2. /\ IFETCH_BUFFER \in Seq(instr_type) /\ DECODE_BUFFER \in Seq(instr_type)
      /\ DISPATCH_BUFFER \in Seq(instr_type) /\ asked \in Seq(Packet) /\ returned \in Seq(Packet)
  BY <1>1
<1> QED BY <1>2, ItemFacts

LEMMA ChunkFacts ==
  ASSUME TypeOK, NEW i \in DOMAIN IFETCH_BUFFER
  PROVE  /\ i \in Chunk(i) /\ Chunk(i) \subseteq DOMAIN IFETCH_BUFFER
         /\ Max(Chunk(i)) \in Chunk(i) /\ \A j \in Chunk(i) : j <= Max(Chunk(i))
         /\ \A j \in DOMAIN IFETCH_BUFFER : i <= j /\ j <= Max(Chunk(i)) => j \in Chunk(i)
         /\ \A j \in Chunk(i) : i <= j /\ BlockOf[IFETCH_BUFFER[j].window]
                                           = BlockOf[IFETCH_BUFFER[i].window]
<1>1. Len(IFETCH_BUFFER) \in Nat /\ DOMAIN IFETCH_BUFFER = 1..Len(IFETCH_BUFFER)
  BY BufferTypes
<1>2. \A j : j \in Chunk(i) <=> /\ j \in DOMAIN IFETCH_BUFFER /\ j >= i
                                /\ \A k \in i..j : BlockOf[IFETCH_BUFFER[k].window]
                                                     = BlockOf[IFETCH_BUFFER[i].window]
  BY DEF Chunk
<1>3. i \in Chunk(i)
  <2>1. \A k \in i..i : k = i BY <1>1
  <2> QED BY <1>1, <1>2, <2>1
<1>4. Chunk(i) \subseteq 0..Len(IFETCH_BUFFER) BY <1>1, <1>2
<1> DEFINE m == Max(Chunk(i))
<1>5. m \in Chunk(i) /\ \A j \in Chunk(i) : j <= m
  <2>1. Chunk(i) # {} BY <1>3
  <2> QED BY <1>1, <1>4, <2>1, GreatestOf
<1> HIDE DEF m
<1>6. ASSUME NEW j \in DOMAIN IFETCH_BUFFER, i <= j, j <= m PROVE j \in Chunk(i)
  <2>1. m \in 1..Len(IFETCH_BUFFER) BY <1>1, <1>2, <1>5
  <2>2. \A k \in i..j : k \in i..m BY <1>1, <1>6, <2>1
  <2> QED BY <1>1, <1>2, <1>5, <1>6, <2>2
<1>7. \A j \in Chunk(i) : i <= j /\ j \in i..j BY <1>1, <1>2
<1>8. \A j \in Chunk(i) : BlockOf[IFETCH_BUFFER[j].window] = BlockOf[IFETCH_BUFFER[i].window]
  BY <1>2, <1>7
<1> QED BY <1>2, <1>3, <1>5, <1>6, <1>7, <1>8 DEF m
-----------------------------------------------------------------------------
(* What the steps do to the packets and to IFETCH_BUFFER *)

\* The packets that are still asked for, and where they were.
Moved(gone, o) ==
  /\ DOMAIN o = DOMAIN asked'
  /\ \A k \in DOMAIN o : o[k] \in DOMAIN asked /\ o[k] # gone
  /\ \A k, l \in DOMAIN o : o[k] = o[l] => k = l
  /\ \A k \in DOMAIN asked : k # gone => \E l \in DOMAIN o : o[l] = k

LEMMA RemovedAsked ==
  ASSUME NEW q \in Seq(Packet), NEW i \in DOMAIN q, DOMAIN q = DOMAIN asked, asked' = RemoveAt(q, i)
  PROVE  \E o : Moved(i, o) /\ asked' \in Seq(Packet) /\ Len(asked') = Len(q) - 1
                /\ \A k \in DOMAIN o : asked'[k] = q[o[k]]
<1>1. /\ asked' \in Seq(Packet) /\ Len(asked') = Len(q) - 1
      /\ \A k \in 1..(Len(q) - 1) : asked'[k] = q[IF k < i THEN k ELSE k + 1]
  BY RemoveAtFacts
<1>2. Len(q) \in Nat /\ DOMAIN q = 1..Len(q) /\ i \in 1..Len(q) /\ DOMAIN asked' = 1..(Len(q) - 1)
  BY <1>1
<1> DEFINE o == [k \in 1..(Len(q) - 1) |-> IF k < i THEN k ELSE k + 1]
<1>3. \A k \in DOMAIN o : o[k] \in DOMAIN asked /\ o[k] # i BY <1>2
<1>4. \A k, l \in DOMAIN o : o[k] = o[l] => k = l BY <1>2
<1>5. ASSUME NEW k \in DOMAIN asked, k # i PROVE \E l \in DOMAIN o : o[l] = k
  <2>1. CASE k < i
    <3>1. k \in DOMAIN o /\ o[k] = k BY <1>2, <2>1
    <3> QED BY <3>1
  <2>2. CASE ~(k < i)
    <3>1. k - 1 \in DOMAIN o /\ o[k - 1] = k BY <1>2, <1>5, <2>2
    <3> QED BY <3>1
  <2> QED BY <2>1, <2>2
<1>6. \A k \in DOMAIN o : asked'[k] = q[o[k]] BY <1>1
<1> QED BY <1>1, <1>2, <1>3, <1>4, <1>5, <1>6, ZenonT(40) DEF Moved

LEMMA PacketFields ==
  ASSUME NEW p \in Packet
  PROVE  p.block \in {BlockOf[w] : w \in Windows} /\ p.instr_depend_on_me \in SUBSET Ids
BY DEF Packet

LEMMA MergeEffect ==
  ASSUME TypeOK, NEW i \in DOMAIN asked, NEW j \in DOMAIN asked, L1IMerges(i, j)
  PROVE  \E o : /\ Moved(i, o) /\ asked' \in Seq(Packet) /\ Len(asked') = Len(asked) - 1
                /\ \A k \in DOMAIN o :
                     /\ asked'[k].block = asked[o[k]].block
                     /\ asked'[k].instr_depend_on_me =
                          IF o[k] = j THEN asked[j].instr_depend_on_me \cup asked[i].instr_depend_on_me
                          ELSE asked[o[k]].instr_depend_on_me
<1> DEFINE q == [asked EXCEPT ![j].instr_depend_on_me = @ \cup asked[i].instr_depend_on_me]
<1>1. asked \in Seq(Packet) /\ \A k \in DOMAIN asked : asked[k] \in Packet BY BufferTypes
<1>2. [asked[j] EXCEPT !.instr_depend_on_me = @ \cup asked[i].instr_depend_on_me] \in Packet
  BY <1>1 DEF Packet
<1>3. q = [asked EXCEPT ![j] =
             [asked[j] EXCEPT !.instr_depend_on_me = @ \cup asked[i].instr_depend_on_me]]
  OBVIOUS
<1>4. q \in Seq(Packet) /\ DOMAIN q = DOMAIN asked /\ Len(q) = Len(asked) BY <1>1, <1>2, <1>3
<1>5. asked' = RemoveAt(q, i) BY DEF L1IMerges
<1>6. \A k \in DOMAIN asked : /\ q[k].block = asked[k].block
                              /\ q[k].instr_depend_on_me =
                                   IF k = j
                                   THEN asked[j].instr_depend_on_me \cup asked[i].instr_depend_on_me
                                   ELSE asked[k].instr_depend_on_me
  BY <1>1, <1>3 DEF Packet
<1> HIDE DEF q
<1>7. PICK o : Moved(i, o) /\ asked' \in Seq(Packet) /\ Len(asked') = Len(q) - 1
               /\ \A k \in DOMAIN o : asked'[k] = q[o[k]]
  BY <1>4, <1>5, RemovedAsked
<1>8. \A k \in DOMAIN o : o[k] \in DOMAIN asked BY <1>7 DEF Moved
<1>9. \A k \in DOMAIN o :
        /\ asked'[k].block = asked[o[k]].block
        /\ asked'[k].instr_depend_on_me =
             IF o[k] = j THEN asked[j].instr_depend_on_me \cup asked[i].instr_depend_on_me
             ELSE asked[o[k]].instr_depend_on_me
  BY <1>6, <1>7, <1>8
<1>10. Moved(i, o) /\ asked' \in Seq(Packet) /\ Len(asked') = Len(asked) - 1 BY <1>4, <1>7
<1> QED BY <1>9, <1>10

LEMMA AnswerEffect ==
  ASSUME TypeOK, NEW i \in DOMAIN asked, L1IAnswers(i)
  PROVE  /\ \E o : Moved(i, o) /\ asked' \in Seq(Packet) /\ Len(asked') = Len(asked) - 1
                   /\ \A k \in DOMAIN o : asked'[k] = asked[o[k]]
         /\ returned' \in Seq(Packet) /\ Len(returned') = Len(returned) + 1
         /\ DOMAIN returned' = DOMAIN returned \cup {Len(returned) + 1}
         /\ \A k \in DOMAIN returned : returned'[k] = returned[k] /\ k # Len(returned) + 1
         /\ returned'[Len(returned) + 1] = asked[i]
<1>1. asked \in Seq(Packet) /\ returned \in Seq(Packet) /\ asked[i] \in Packet BY BufferTypes
<1>2. asked' = RemoveAt(asked, i) /\ returned' = Append(returned, asked[i]) BY DEF L1IAnswers
<1>3. \E o : Moved(i, o) /\ asked' \in Seq(Packet) /\ Len(asked') = Len(asked) - 1
             /\ \A k \in DOMAIN o : asked'[k] = asked[o[k]]
  BY <1>1, <1>2, RemovedAsked
<1>4. /\ returned' \in Seq(Packet) /\ Len(returned') = Len(returned) + 1
      /\ returned'[Len(returned) + 1] = asked[i]
      /\ \A k \in 1..Len(returned) : returned'[k] = returned[k]
  BY <1>1, <1>2, AppendFacts
<1>5. /\ DOMAIN returned' = DOMAIN returned \cup {Len(returned) + 1}
      /\ DOMAIN returned = 1..Len(returned) /\ Len(returned) \in Nat
  BY <1>1, <1>4
<1> QED BY <1>3, <1>4, <1>5

\* The answer in front loses its oldest dependent, and goes with the last one.
LEMMA DependentEffect ==
  ASSUME TypeOK, Taking, NextDependent
  PROVE  /\ returned' \in Seq(Packet) /\ reads' \in 0..reads
         /\ \/ /\ DOMAIN returned' = DOMAIN returned
               /\ returned[1].instr_depend_on_me \ {Oldest} # {}
               /\ \A k \in DOMAIN returned :
                    /\ returned'[k].block = returned[k].block
                    /\ returned'[k].instr_depend_on_me =
                         IF k = 1 THEN returned[1].instr_depend_on_me \ {Oldest}
                         ELSE returned[k].instr_depend_on_me
            \/ /\ returned[1].instr_depend_on_me \subseteq {Oldest}
               /\ \A k \in DOMAIN returned' : /\ k + 1 \in DOMAIN returned /\ k \in Nat \ {0}
                                              /\ returned'[k] = returned[k + 1]
               /\ \A k \in DOMAIN returned : k # 1 => k - 1 \in DOMAIN returned' /\ k \in Nat
         /\ 1 \in DOMAIN returned
<1> DEFINE rest == returned[1].instr_depend_on_me \ {Oldest}
<1>1. returned \in Seq(Packet) /\ returned # <<>> /\ reads \in Nat /\ reads > 0
  BY BufferTypes DEF Taking, TypeOK
<1>2. /\ \A k \in DOMAIN returned : returned[k] \in Packet
      /\ 1 \in DOMAIN returned
  BY <1>1, TailFacts, BufferTypes
<1>3. reads' \in 0..reads BY <1>1 DEF NextDependent
<1>4. CASE rest = {}
  <2>1. returned' = Tail(returned) BY <1>4 DEF NextDependent
  <2>2. /\ returned' \in Seq(Packet)
        /\ \A k \in DOMAIN returned' : k \in Nat \ {0} /\ k + 1 \in DOMAIN returned
                                       /\ returned'[k] = returned[k + 1]
        /\ \A k \in DOMAIN returned : k # 1 => k - 1 \in DOMAIN returned' /\ k \in Nat
    BY <1>1, <2>1, TailFacts
  <2> QED BY <1>2, <1>3, <1>4, <2>2
<1>5. CASE rest # {}
  <2>1. returned' = [returned EXCEPT ![1] = [returned[1] EXCEPT !.instr_depend_on_me = rest]]
    BY <1>5 DEF NextDependent
  <2>2. [returned[1] EXCEPT !.instr_depend_on_me = rest] \in Packet BY <1>2 DEF Packet
  <2>3. returned' \in Seq(Packet) /\ DOMAIN returned' = DOMAIN returned BY <1>1, <2>1, <2>2
  <2>4. \A k \in DOMAIN returned :
          /\ returned'[k].block = returned[k].block
          /\ returned'[k].instr_depend_on_me =
               IF k = 1 THEN rest ELSE returned[k].instr_depend_on_me
    BY <1>2, <2>1 DEF Packet
  <2> QED BY <1>2, <1>3, <1>5, <2>3, <2>4
<1> QED BY <1>4, <1>5

\* A step that only changes what is known about the instructions of IFETCH_BUFFER.
Edited ==
  /\ IFETCH_BUFFER' \in Seq(instr_type) /\ Len(IFETCH_BUFFER') = Len(IFETCH_BUFFER)
  /\ DOMAIN IFETCH_BUFFER' = DOMAIN IFETCH_BUFFER
  /\ \A i \in DOMAIN IFETCH_BUFFER :
       /\ IFETCH_BUFFER'[i].instr_id = IFETCH_BUFFER[i].instr_id
       /\ IFETCH_BUFFER'[i].window = IFETCH_BUFFER[i].window
       /\ IFETCH_BUFFER'[i].mispredicted = IFETCH_BUFFER[i].mispredicted

\* One instruction is fetched, by an answer or in the DIB.
LEMMA FetchedEffect ==
  ASSUME TypeOK, NEW i \in DOMAIN IFETCH_BUFFER, Fetched(i)
  PROVE  /\ Edited
         /\ \A j \in DOMAIN IFETCH_BUFFER :
              /\ IFETCH_BUFFER'[j].dib_checked = IFETCH_BUFFER[j].dib_checked
              /\ IFETCH_BUFFER'[j].fetched = IF j = i THEN "COMPLETED" ELSE IFETCH_BUFFER[j].fetched
<1>1. IFETCH_BUFFER \in Seq(instr_type) /\ \A j \in DOMAIN IFETCH_BUFFER : IFETCH_BUFFER[j] \in instr_type
  BY BufferTypes
<1>2. IFETCH_BUFFER' = [IFETCH_BUFFER EXCEPT ![i] = [IFETCH_BUFFER[i] EXCEPT !.fetched = "COMPLETED"]]
  BY DEF Fetched
<1>3. [IFETCH_BUFFER[i] EXCEPT !.fetched = "COMPLETED"] \in instr_type BY <1>1 DEF instr_type
<1>4. /\ IFETCH_BUFFER' \in Seq(instr_type) /\ Len(IFETCH_BUFFER') = Len(IFETCH_BUFFER)
      /\ DOMAIN IFETCH_BUFFER' = DOMAIN IFETCH_BUFFER
  BY <1>1, <1>2, <1>3
<1> QED BY <1>1, <1>2, <1>4 DEF Edited, instr_type

LEMMA SameBuffer ==
  ASSUME TypeOK, UNCHANGED IFETCH_BUFFER
  PROVE  Edited
BY BufferTypes DEF Edited

LEMMA FetchEffect ==
  ASSUME TypeOK, NEW i \in DOMAIN IFETCH_BUFFER, Fetch(i)
  PROVE  /\ Edited
         /\ \A j \in DOMAIN IFETCH_BUFFER :
              /\ IFETCH_BUFFER'[j].dib_checked = IFETCH_BUFFER[j].dib_checked
              /\ IFETCH_BUFFER'[j].fetched =
                   IF j \in Chunk(i) THEN "INFLIGHT" ELSE IFETCH_BUFFER[j].fetched
         /\ asked' \in Seq(Packet) /\ Len(asked') = Len(asked) + 1
         /\ DOMAIN asked' = DOMAIN asked \cup {Len(asked) + 1}
         /\ \A k \in DOMAIN asked : asked'[k] = asked[k] /\ k # Len(asked) + 1
         /\ asked'[Len(asked) + 1].block = BlockOf[IFETCH_BUFFER[i].window]
         /\ asked'[Len(asked) + 1].instr_depend_on_me = {IFETCH_BUFFER[j].instr_id : j \in Chunk(i)}
<1>1. /\ IFETCH_BUFFER \in Seq(instr_type) /\ asked \in Seq(Packet)
      /\ \A j \in DOMAIN IFETCH_BUFFER : IFETCH_BUFFER[j] \in instr_type
  BY BufferTypes
<1>2. IFETCH_BUFFER' = [j \in DOMAIN IFETCH_BUFFER |->
        IF j \in Chunk(i) THEN [IFETCH_BUFFER[j] EXCEPT !.fetched = "INFLIGHT"] ELSE IFETCH_BUFFER[j]]
  BY DEF Fetch
<1>3. \A j \in DOMAIN IFETCH_BUFFER : [IFETCH_BUFFER[j] EXCEPT !.fetched = "INFLIGHT"] \in instr_type
  BY <1>1 DEF instr_type
<1>4. Len(IFETCH_BUFFER) \in Nat /\ DOMAIN IFETCH_BUFFER = 1..Len(IFETCH_BUFFER) BY <1>1
<1>5. \A j \in 1..Len(IFETCH_BUFFER) : IFETCH_BUFFER'[j] \in instr_type BY <1>1, <1>2, <1>3, <1>4
<1>6. IFETCH_BUFFER' \in [1..Len(IFETCH_BUFFER) -> instr_type] BY <1>2, <1>4, <1>5
<1>7. /\ IFETCH_BUFFER' \in Seq(instr_type) /\ Len(IFETCH_BUFFER') = Len(IFETCH_BUFFER)
      /\ DOMAIN IFETCH_BUFFER' = DOMAIN IFETCH_BUFFER
  BY <1>4, <1>6
<1>8. \A j \in DOMAIN IFETCH_BUFFER :
        /\ IFETCH_BUFFER'[j].instr_id = IFETCH_BUFFER[j].instr_id
        /\ IFETCH_BUFFER'[j].window = IFETCH_BUFFER[j].window
        /\ IFETCH_BUFFER'[j].mispredicted = IFETCH_BUFFER[j].mispredicted
        /\ IFETCH_BUFFER'[j].dib_checked = IFETCH_BUFFER[j].dib_checked
        /\ IFETCH_BUFFER'[j].fetched = IF j \in Chunk(i) THEN "INFLIGHT" ELSE IFETCH_BUFFER[j].fetched
  BY <1>1, <1>2 DEF instr_type
<1> DEFINE p == [block |-> BlockOf[IFETCH_BUFFER[i].window],
                 instr_depend_on_me |-> {IFETCH_BUFFER[j].instr_id : j \in Chunk(i)}]
<1>9. p \in Packet
  <2>1. \A j \in Chunk(i) : IFETCH_BUFFER[j].instr_id \in Ids BY <1>1, ChunkFacts DEF instr_type
  <2>2. IFETCH_BUFFER[i].window \in Windows BY <1>1 DEF instr_type
  <2> QED BY <2>1, <2>2 DEF Packet
<1>10. asked' = Append(asked, p) BY DEF Fetch
<1>11. p.block = BlockOf[IFETCH_BUFFER[i].window]
       /\ p.instr_depend_on_me = {IFETCH_BUFFER[j].instr_id : j \in Chunk(i)}
  OBVIOUS
<1> HIDE DEF p
<1>12. /\ asked' \in Seq(Packet) /\ Len(asked') = Len(asked) + 1 /\ asked'[Len(asked) + 1] = p
       /\ \A k \in 1..Len(asked) : asked'[k] = asked[k]
  BY <1>1, <1>9, <1>10, AppendFacts
<1>13. /\ DOMAIN asked' = DOMAIN asked \cup {Len(asked) + 1}
       /\ DOMAIN asked = 1..Len(asked) /\ Len(asked) \in Nat
  BY <1>1, <1>12
<1> QED BY <1>7, <1>8, <1>11, <1>12, <1>13 DEF Edited

LEMMA CheckDibEffect ==
  ASSUME TypeOK, NEW i \in DOMAIN IFETCH_BUFFER, CheckDib(i)
  PROVE  /\ Edited
         /\ \A j \in DOMAIN IFETCH_BUFFER :
              /\ (IFETCH_BUFFER'[j].dib_checked <=> j = i \/ IFETCH_BUFFER[j].dib_checked)
              /\ IFETCH_BUFFER'[j].fetched = IFETCH_BUFFER[j].fetched
                 \/ (j = i /\ IFETCH_BUFFER'[j].fetched = "COMPLETED")
<1>1. IFETCH_BUFFER \in Seq(instr_type) /\ \A j \in DOMAIN IFETCH_BUFFER : IFETCH_BUFFER[j] \in instr_type
  BY BufferTypes
<1>2. PICK x \in instr_type :
        /\ IFETCH_BUFFER' = [IFETCH_BUFFER EXCEPT ![i] = x]
        /\ x.dib_checked /\ x.instr_id = IFETCH_BUFFER[i].instr_id
        /\ x.window = IFETCH_BUFFER[i].window /\ x.mispredicted = IFETCH_BUFFER[i].mispredicted
        /\ x.fetched = IFETCH_BUFFER[i].fetched \/ x.fetched = "COMPLETED"
  <2>1. CASE IFETCH_BUFFER[i].window \in ToSet(DIB)
    <3> DEFINE x == [IFETCH_BUFFER[i] EXCEPT !.dib_checked = TRUE, !.decoded = TRUE,
                                             !.fetched = "COMPLETED"]
    <3>1. IFETCH_BUFFER' = [IFETCH_BUFFER EXCEPT ![i] = x] BY <1>1, <2>1 DEF CheckDib
    <3>2. /\ x \in instr_type /\ x.dib_checked /\ x.instr_id = IFETCH_BUFFER[i].instr_id
          /\ x.window = IFETCH_BUFFER[i].window /\ x.mispredicted = IFETCH_BUFFER[i].mispredicted
          /\ x.fetched = "COMPLETED"
      BY <1>1 DEF instr_type
    <3> HIDE DEF x
    <3> QED BY <3>1, <3>2
  <2>2. CASE IFETCH_BUFFER[i].window \notin ToSet(DIB)
    <3> DEFINE x == [IFETCH_BUFFER[i] EXCEPT !.dib_checked = TRUE]
    <3>1. IFETCH_BUFFER' = [IFETCH_BUFFER EXCEPT ![i] = x] BY <1>1, <2>2 DEF CheckDib
    <3>2. /\ x \in instr_type /\ x.dib_checked /\ x.instr_id = IFETCH_BUFFER[i].instr_id
          /\ x.window = IFETCH_BUFFER[i].window /\ x.mispredicted = IFETCH_BUFFER[i].mispredicted
          /\ x.fetched = IFETCH_BUFFER[i].fetched
      BY <1>1 DEF instr_type
    <3> HIDE DEF x
    <3> QED BY <3>1, <3>2
  <2> QED BY <2>1, <2>2
<1>3. /\ IFETCH_BUFFER' \in Seq(instr_type) /\ Len(IFETCH_BUFFER') = Len(IFETCH_BUFFER)
      /\ DOMAIN IFETCH_BUFFER' = DOMAIN IFETCH_BUFFER
  BY <1>1, <1>2
<1>4. \A j \in DOMAIN IFETCH_BUFFER : IFETCH_BUFFER'[j] = IF j = i THEN x ELSE IFETCH_BUFFER[j]
  BY <1>1, <1>2
<1>6. ASSUME NEW j \in DOMAIN IFETCH_BUFFER
      PROVE  /\ IFETCH_BUFFER'[j].instr_id = IFETCH_BUFFER[j].instr_id
             /\ IFETCH_BUFFER'[j].window = IFETCH_BUFFER[j].window
             /\ IFETCH_BUFFER'[j].mispredicted = IFETCH_BUFFER[j].mispredicted
             /\ (IFETCH_BUFFER'[j].dib_checked <=> j = i \/ IFETCH_BUFFER[j].dib_checked)
             /\ IFETCH_BUFFER'[j].fetched = IFETCH_BUFFER[j].fetched
                \/ (j = i /\ IFETCH_BUFFER'[j].fetched = "COMPLETED")
  <2>1. CASE j = i
    <3>1. IFETCH_BUFFER'[j] = x BY <1>4, <2>1
    <3> QED BY <1>2, <2>1, <3>1
  <2>2. CASE j # i
    <3>1. IFETCH_BUFFER'[j] = IFETCH_BUFFER[j] BY <1>4, <2>2
    <3> QED BY <2>2, <3>1
  <2> QED BY <2>1, <2>2
<1> QED BY <1>3, <1>6 DEF Edited
-----------------------------------------------------------------------------
(* Types, and room in the buffers *)

LEMMA LesserFacts ==
  ASSUME NEW m \in Nat, NEW n \in Nat
  PROVE  Lesser(m, n) \in Nat /\ Lesser(m, n) <= m /\ Lesser(m, n) <= n
BY DEF Lesser

LEMMA UsedType ==
  ASSUME TypeOK, NEW w \in Windows
  PROVE  Used(w) \in Seq(Windows) /\ Len(Used(w)) <= DIB_WAY
<1>1. DIB \in Seq(Windows) /\ Len(DIB) <= DIB_WAY /\ Len(DIB) \in Nat /\ DOMAIN DIB = 1..Len(DIB)
  BY DEF TypeOK
<1>2. DIB_WAY \in Nat \ {0} BY Constants
<1>3. /\ WayOf(w) \in 1..DIB_WAY
      /\ WayOf(w) \in DOMAIN DIB \/ WayOf(w) = Len(DIB) + 1
  <2>1. CASE w \in ToSet(DIB)
    <3>1. \E i \in DOMAIN DIB : DIB[i] = w BY <2>1 DEF ToSet
    <3>2. WayOf(w) = CHOOSE i \in DOMAIN DIB : DIB[i] = w BY <2>1 DEF WayOf
    <3>3. WayOf(w) \in DOMAIN DIB BY <3>1, <3>2
    <3> QED BY <1>1, <1>2, <3>3
  <2>2. CASE w \notin ToSet(DIB)
    <3>1. WayOf(w) = Lesser(DIB_WAY, Len(DIB) + 1) BY <2>2 DEF WayOf
    <3> QED BY <1>1, <1>2, <3>1 DEF Lesser
  <2> QED BY <2>1, <2>2
<1> DEFINE n == IF WayOf(w) \in DOMAIN DIB THEN Len(DIB) ELSE Len(DIB) + 1
<1>4. n \in Nat /\ n <= DIB_WAY /\ DOMAIN DIB \cup {WayOf(w)} = 1..n BY <1>1, <1>2, <1>3
<1>5. \A i \in 1..n : i # 1 /\ i <= WayOf(w) => i - 1 \in DOMAIN DIB BY <1>1, <1>3
<1>6. \A i \in 1..n : ~(i <= WayOf(w)) => i \in DOMAIN DIB BY <1>1, <1>3
<1>7. \A i \in 1..n : (IF i = 1 THEN w ELSE IF i <= WayOf(w) THEN DIB[i - 1] ELSE DIB[i]) \in Windows
  BY <1>1, <1>5, <1>6
<1> HIDE DEF n
<1>8. Used(w) \in [1..n -> Windows] BY <1>4, <1>7 DEF Used
<1> QED BY <1>4, <1>8

LEMMA TypeEnvironment ==
  ASSUME TypeOK, RoomInv, NEW i \in DOMAIN asked,
         L1IAnswers(i) \/ \E j \in DOMAIN asked : L1IMerges(i, j)
  PROVE  TypeOK' /\ RoomInv'
<1>1. pc = "idle" /\ UNCHANGED <<pc, bw, reads, at, warmup, next, buffers, DIB, resume, executing>>
  BY DEF L1IAnswers, L1IMerges
<1>2. RoomInv' BY <1>1 DEF RoomInv, buffers
<1>3. {asked', returned'} \subseteq Seq(Packet)
  <2>1. CASE L1IAnswers(i)
    <3>1. asked' \in Seq(Packet) /\ returned' \in Seq(Packet) BY <2>1, AnswerEffect
    <3> QED BY <3>1
  <2>2. ASSUME NEW j \in DOMAIN asked, L1IMerges(i, j) PROVE {asked', returned'} \subseteq Seq(Packet)
    <3>1. asked' \in Seq(Packet) BY <2>2, MergeEffect
    <3>2. returned' = returned /\ returned \in Seq(Packet) BY <2>2, BufferTypes DEF L1IMerges
    <3> QED BY <3>1, <3>2
  <2> QED BY <2>1, <2>2
<1> QED BY <1>1, <1>2, <1>3 DEF TypeOK, buffers

LEMMA TypeBackEnd ==
  ASSUME TypeOK, RoomInv, BackEnd \/ EndWarmup
  PROVE  TypeOK' /\ RoomInv'
<1>1. CASE Dispatch
  <2>1. /\ DISPATCH_BUFFER' \in Seq(instr_type) /\ Len(DISPATCH_BUFFER') = Len(DISPATCH_BUFFER) - 1
        /\ DISPATCH_BUFFER[1] \in instr_type
    BY <1>1, BufferTypes, TailFacts DEF Dispatch
  <2>2. DISPATCH_BUFFER[1].instr_id \in Ids BY <2>1 DEF instr_type
  <2>3. executing' \subseteq Ids BY <1>1, <2>2 DEF Dispatch, TypeOK
  <2>4. Len(DISPATCH_BUFFER') <= DISPATCH_BUFFER_SIZE
    <3>1. Len(DISPATCH_BUFFER) \in Nat /\ Len(DISPATCH_BUFFER) <= DISPATCH_BUFFER_SIZE
      BY BufferTypes DEF TypeOK
    <3>2. DISPATCH_BUFFER_SIZE \in Nat BY Constants
    <3> QED BY <2>1, <3>1, <3>2
  <2>5. TypeOK' BY <1>1, <2>1, <2>3, <2>4 DEF Dispatch, TypeOK, L1I
  <2>6. RoomInv' BY <1>1 DEF Dispatch, RoomInv
  <2> QED BY <2>5, <2>6
<1>2. ASSUME NEW id \in executing, Complete(id) PROVE TypeOK' /\ RoomInv'
  <2>1. TypeOK' BY <1>2, Constants DEF Complete, TypeOK, buffers, L1I
  <2> QED BY <1>2, <2>1 DEF Complete, RoomInv, buffers
<1>3. CASE EndWarmup
  BY <1>3 DEF EndWarmup, TypeOK, RoomInv, buffers, L1I
<1> QED BY <1>1, <1>2, <1>3 DEF BackEnd

LEMMA TypeStages ==
  ASSUME TypeOK, RoomInv,
         StartCycle \/ EndMemory \/ EndDecode \/ EndPromote \/ EndFetch \/ EndDib
  PROVE  TypeOK' /\ RoomInv'
<1>0. /\ Len(IFETCH_BUFFER) \in Nat /\ Len(DECODE_BUFFER) \in Nat /\ Len(DISPATCH_BUFFER) \in Nat
      /\ Len(IFETCH_BUFFER) <= IFETCH_BUFFER_SIZE /\ Len(DECODE_BUFFER) <= DECODE_BUFFER_SIZE
      /\ Len(DISPATCH_BUFFER) <= DISPATCH_BUFFER_SIZE
      /\ {IFETCH_BUFFER_SIZE, DECODE_BUFFER_SIZE, DISPATCH_BUFFER_SIZE, FETCH_WIDTH, DECODE_WIDTH,
          L1I_BANDWIDTH} \subseteq Nat
  <2>1. /\ Len(IFETCH_BUFFER) \in Nat /\ Len(DECODE_BUFFER) \in Nat /\ Len(DISPATCH_BUFFER) \in Nat
    BY BufferTypes
  <2>2. /\ Len(IFETCH_BUFFER) <= IFETCH_BUFFER_SIZE /\ Len(DECODE_BUFFER) <= DECODE_BUFFER_SIZE
        /\ Len(DISPATCH_BUFFER) <= DISPATCH_BUFFER_SIZE
    BY DEF TypeOK
  <2>3. {IFETCH_BUFFER_SIZE, DECODE_BUFFER_SIZE, DISPATCH_BUFFER_SIZE, FETCH_WIDTH, DECODE_WIDTH,
         L1I_BANDWIDTH} \subseteq Nat
    BY Constants
  <2> QED BY <2>1, <2>2, <2>3
<1>1. CASE StartCycle
  <2>1. /\ bw' \in Nat /\ pc' = "memory" /\ reads' \in 0..L1I_BANDWIDTH
        /\ UNCHANGED <<at, warmup, next, buffers, DIB, resume, L1I, executing>>
    BY <1>0, <1>1 DEF StartCycle, GoTo
  <2>2. TypeOK' BY <2>1 DEF TypeOK, buffers, L1I
  <2> QED BY <2>1, <2>2 DEF RoomInv
<1>2. CASE EndMemory
  <2>1. DISPATCH_BUFFER_SIZE - Len(DISPATCH_BUFFER) \in Nat BY <1>0
  <2>2. /\ bw' \in Nat /\ bw' <= DISPATCH_BUFFER_SIZE - Len(DISPATCH_BUFFER)
        /\ pc' = "decode" /\ reads' = 0
        /\ UNCHANGED <<at, warmup, next, buffers, DIB, resume, L1I, executing>>
    BY <1>0, <1>2, <2>1, LesserFacts DEF EndMemory, GoTo
  <2>3. reads' \in 0..L1I_BANDWIDTH BY <1>0, <2>2
  <2>4. TypeOK' BY <2>2, <2>3 DEF TypeOK, buffers, L1I
  <2>5. Len(DISPATCH_BUFFER') + bw' <= DISPATCH_BUFFER_SIZE BY <1>0, <2>2 DEF buffers
  <2> QED BY <2>2, <2>4, <2>5 DEF RoomInv
<1>3. CASE EndDecode
  <2>1. DECODE_BUFFER_SIZE - Len(DECODE_BUFFER) \in Nat BY <1>0
  <2>2. /\ bw' \in Nat /\ bw' <= DECODE_BUFFER_SIZE - Len(DECODE_BUFFER) /\ pc' = "promote"
        /\ UNCHANGED <<reads, at, warmup, next, buffers, DIB, resume, L1I, executing>>
    BY <1>0, <1>3, <2>1, LesserFacts DEF EndDecode, GoTo
  <2>3. TypeOK' BY <2>2 DEF TypeOK, buffers, L1I
  <2>4. Len(DECODE_BUFFER') + bw' <= DECODE_BUFFER_SIZE BY <1>0, <2>2 DEF buffers
  <2> QED BY <2>2, <2>3, <2>4 DEF RoomInv
<1>4. CASE EndPromote
  <2>1. /\ bw' \in Nat /\ pc' = "fetch" /\ at' = 1
        /\ UNCHANGED <<reads, warmup, next, buffers, DIB, resume, L1I, executing>>
    BY <1>0, <1>4 DEF EndPromote, GoTo
  <2>2. at' \in 1..(IFETCH_BUFFER_SIZE + 1) BY <1>0, <2>1
  <2>3. TypeOK' BY <2>1, <2>2 DEF TypeOK, buffers, L1I
  <2> QED BY <2>1, <2>3 DEF RoomInv
<1>5. CASE EndFetch
  <2>1. /\ bw' \in Nat /\ pc' = "dib"
        /\ UNCHANGED <<reads, at, warmup, next, buffers, DIB, resume, L1I, executing>>
    BY <1>0, <1>5 DEF EndFetch, GoTo
  <2>2. TypeOK' BY <2>1 DEF TypeOK, buffers, L1I
  <2> QED BY <2>1, <2>2 DEF RoomInv
<1>6. CASE EndDib
  <2>1. IFETCH_BUFFER_SIZE - Len(IFETCH_BUFFER) \in Nat BY <1>0
  <2>2. /\ bw' \in Nat /\ bw' <= IFETCH_BUFFER_SIZE - Len(IFETCH_BUFFER) /\ pc' = "init"
        /\ UNCHANGED <<reads, at, warmup, next, buffers, DIB, resume, L1I, executing>>
    BY <1>0, <1>6, <2>1, LesserFacts DEF EndDib, GoTo
  <2>3. TypeOK' BY <2>2 DEF TypeOK, buffers, L1I
  <2>4. Len(IFETCH_BUFFER') + bw' <= IFETCH_BUFFER_SIZE BY <1>0, <2>2 DEF buffers
  <2> QED BY <2>2, <2>3, <2>4 DEF RoomInv
<1> QED BY <1>1, <1>2, <1>3, <1>4, <1>5, <1>6

LEMMA TickEffect ==
  ASSUME TypeOK, Tick
  PROVE  /\ DECODE_BUFFER' \in Seq(instr_type) /\ Len(DECODE_BUFFER') = Len(DECODE_BUFFER)
         /\ DOMAIN DECODE_BUFFER' = DOMAIN DECODE_BUFFER
         /\ \A i \in DOMAIN DECODE_BUFFER :
              /\ DECODE_BUFFER'[i].instr_id = DECODE_BUFFER[i].instr_id
              /\ DECODE_BUFFER'[i].mispredicted = DECODE_BUFFER[i].mispredicted
<1>1. DECODE_BUFFER \in Seq(instr_type) /\ \A i \in DOMAIN DECODE_BUFFER : DECODE_BUFFER[i] \in instr_type
  BY BufferTypes
<1>2. DECODE_BUFFER' = [i \in DOMAIN DECODE_BUFFER |-> [DECODE_BUFFER[i] EXCEPT !.left = Sooner(@)]]
  BY DEF Tick
<1>3. \A n \in Nat : Sooner(n) \in Nat BY DEF Sooner
<1>4. \A i \in DOMAIN DECODE_BUFFER : [DECODE_BUFFER[i] EXCEPT !.left = Sooner(@)] \in instr_type
  BY <1>1, <1>3 DEF instr_type
<1>5. Len(DECODE_BUFFER) \in Nat /\ DOMAIN DECODE_BUFFER = 1..Len(DECODE_BUFFER) BY <1>1
<1>6. DECODE_BUFFER' \in [1..Len(DECODE_BUFFER) -> instr_type] BY <1>2, <1>4, <1>5
<1>7. /\ DECODE_BUFFER' \in Seq(instr_type) /\ Len(DECODE_BUFFER') = Len(DECODE_BUFFER)
      /\ DOMAIN DECODE_BUFFER' = DOMAIN DECODE_BUFFER
  BY <1>5, <1>6
<1> QED BY <1>1, <1>2, <1>7 DEF instr_type

LEMMA ResolvedFacts ==
  ASSUME NEW x \in instr_type
  PROVE  /\ Resolved(x) \in instr_type /\ Resolved(x).instr_id = x.instr_id
         /\ Resolved(x).mispredicted = IF x.mispredicted = "decode" THEN "no" ELSE x.mispredicted
BY DEF Resolved, instr_type

\* The front instruction of a buffer goes to the end of the next one.
LEMMA DecodeEffect ==
  ASSUME TypeOK, Decode
  PROVE  /\ DECODE_BUFFER # <<>> /\ DECODE_BUFFER' = Tail(DECODE_BUFFER)
         /\ \E x \in instr_type :
              /\ DISPATCH_BUFFER' = Append(DISPATCH_BUFFER, x)
              /\ x.instr_id = DECODE_BUFFER[1].instr_id
              /\ x.mispredicted = IF DECODE_BUFFER[1].mispredicted = "decode" THEN "no"
                                  ELSE DECODE_BUFFER[1].mispredicted
<1>1. DECODE_BUFFER # <<>> BY DEF Decode, Decodable
<1>2. DECODE_BUFFER[1] \in instr_type BY <1>1, BufferTypes, TailFacts
<1> QED BY <1>1, <1>2, ResolvedFacts DEF Decode

LEMMA PromoteEffect ==
  ASSUME TypeOK, Promote
  PROVE  /\ IFETCH_BUFFER # <<>> /\ IFETCH_BUFFER' = Tail(IFETCH_BUFFER)
         /\ \E x \in instr_type :
              /\ DECODE_BUFFER' = Append(DECODE_BUFFER, x)
              /\ x.instr_id = IFETCH_BUFFER[1].instr_id
              /\ x.mispredicted = IFETCH_BUFFER[1].mispredicted
<1>1. IFETCH_BUFFER # <<>> BY DEF Promote, Promotable
<1>2. IFETCH_BUFFER[1] \in instr_type BY <1>1, BufferTypes, TailFacts
<1> DEFINE wait == IF warmup \/ IFETCH_BUFFER[1].decoded THEN 0 ELSE DECODE_LATENCY
           x == [IFETCH_BUFFER[1] EXCEPT !.left = wait]
<1>3. wait \in Nat BY Constants
<1> HIDE DEF wait
<1>4. x \in instr_type /\ x.instr_id = IFETCH_BUFFER[1].instr_id
      /\ x.mispredicted = IFETCH_BUFFER[1].mispredicted
  BY <1>2, <1>3 DEF instr_type
<1>5. DECODE_BUFFER' = Append(DECODE_BUFFER, x) BY DEF Promote, wait
<1>6. IFETCH_BUFFER' = Tail(IFETCH_BUFFER) BY DEF Promote
<1> HIDE DEF x
<1> QED BY <1>1, <1>4, <1>5, <1>6

LEMMA InitializeEffect ==
  ASSUME TypeOK, NEW w \in Windows, InitPlain(w) \/ InitTaken(w) \/ InitMispredicted(w)
  PROVE  /\ pc = "init" /\ bw > 0 /\ resume = 0 /\ next \in Ids /\ next' = next + 1
         /\ bw' \in {0, bw - 1} /\ resume' \in {0, Never}
         /\ UNCHANGED <<pc, reads, at, warmup, DECODE_BUFFER, DISPATCH_BUFFER, DIB, L1I, executing>>
         /\ \E x \in instr_type :
              /\ IFETCH_BUFFER' = Append(IFETCH_BUFFER, x)
              /\ x.instr_id = next /\ x.fetched = "no" /\ ~x.dib_checked
              /\ x.mispredicted = "no" <=> resume' = 0
<1>1. PICK where \in {"no", "decode", "execute"} :
        Initialize(w, where) /\ bw' \in {0, bw - 1} /\ resume' = IF where = "no" THEN resume ELSE Never
  BY DEF InitPlain, InitTaken, InitMispredicted
<1>2. /\ pc = "init" /\ bw > 0 /\ resume = 0 /\ next \in Ids /\ next' = next + 1
      /\ UNCHANGED <<pc, reads, at, warmup, DECODE_BUFFER, DISPATCH_BUFFER, DIB, L1I, executing>>
      /\ IFETCH_BUFFER' = Append(IFETCH_BUFFER, NewInstr(w, where))
  BY <1>1 DEF Initialize
<1>3. /\ NewInstr(w, where) \in instr_type /\ NewInstr(w, where).instr_id = next
      /\ NewInstr(w, where).fetched = "no" /\ ~NewInstr(w, where).dib_checked
      /\ NewInstr(w, where).mispredicted = where
  BY <1>2 DEF NewInstr, instr_type
<1>4. (where = "no" <=> resume' = 0) /\ resume' \in {0, Never} BY <1>1, <1>2 DEF Never
<1> QED BY <1>1, <1>2, <1>3, <1>4

LEMMA EditedType ==
  ASSUME TypeOK, Edited, pc' = pc, pc \in {"memory", "fetch", "dib"}, bw' \in Nat,
         reads' \in 0..L1I_BANDWIDTH, at' \in 1..(IFETCH_BUFFER_SIZE + 1),
         DIB' \in Seq(Windows), Len(DIB') <= DIB_WAY, asked' \in Seq(Packet), returned' \in Seq(Packet),
         UNCHANGED <<warmup, next, DECODE_BUFFER, DISPATCH_BUFFER, resume, executing>>
  PROVE  TypeOK' /\ RoomInv'
<1>1. IFETCH_BUFFER' \in Seq(instr_type) /\ Len(IFETCH_BUFFER') = Len(IFETCH_BUFFER) BY DEF Edited
<1>2. {IFETCH_BUFFER', DECODE_BUFFER', DISPATCH_BUFFER'} \subseteq Seq(instr_type)
      /\ {asked', returned'} \subseteq Seq(Packet)
  BY <1>1, BufferTypes
<1>3. TypeOK' BY <1>1, <1>2 DEF TypeOK
<1> QED BY <1>3 DEF RoomInv

LEMMA TypeMemory ==
  ASSUME TypeOK, RoomInv,
         DanglingFetch \/ \E i \in DOMAIN IFETCH_BUFFER : CompleteFetch(i)
  PROVE  TypeOK' /\ RoomInv' /\ Edited
<1>1. Taking /\ NextDependent BY DEF DanglingFetch, CompleteFetch
<1>2. returned' \in Seq(Packet) /\ reads' \in 0..reads BY <1>1, DependentEffect
<1>3. reads' \in 0..L1I_BANDWIDTH
  <2>1. reads \in 0..L1I_BANDWIDTH BY DEF TypeOK
  <2>2. L1I_BANDWIDTH \in Nat BY Constants
  <2> QED BY <1>2, <2>1, <2>2
<1>4. bw \in Nat /\ bw > 0 /\ bw - 1 \in Nat /\ pc = "memory" BY <1>1 DEF Taking, TypeOK
<1>5. Edited /\ bw' \in Nat
  <2>1. ASSUME NEW i \in DOMAIN IFETCH_BUFFER, CompleteFetch(i) PROVE Edited /\ bw' \in Nat
    <3>1. Fetched(i) BY <2>1 DEF CompleteFetch
    <3> QED BY <1>4, <2>1, <3>1, FetchedEffect DEF CompleteFetch
  <2>2. CASE DanglingFetch
    <3>1. bw' \in Nat BY <1>4, <2>2 DEF DanglingFetch
    <3>2. UNCHANGED IFETCH_BUFFER \/ \E i \in DOMAIN IFETCH_BUFFER : Fetched(i)
      BY <2>2 DEF DanglingFetch
    <3> QED BY <3>1, <3>2, FetchedEffect, SameBuffer
  <2> QED BY <2>1, <2>2
<1>6. UNCHANGED <<pc, at, warmup, next, DECODE_BUFFER, DISPATCH_BUFFER, DIB, resume, asked, executing>>
  BY DEF DanglingFetch, CompleteFetch
<1>7. at \in 1..(IFETCH_BUFFER_SIZE + 1) /\ DIB \in Seq(Windows) /\ Len(DIB) <= DIB_WAY
  BY DEF TypeOK
<1>8. asked \in Seq(Packet) BY BufferTypes
<1> QED BY <1>2, <1>3, <1>4, <1>5, <1>6, <1>7, <1>8, EditedType

LEMMA TypeFetches ==
  ASSUME TypeOK, RoomInv, NEW i \in DOMAIN IFETCH_BUFFER, Fetch(i) \/ FetchRefused(i)
  PROVE  TypeOK' /\ RoomInv' /\ Edited
<1>1. pc = "fetch" /\ bw > 0 /\ at' = Max(Chunk(i)) + 1 /\ bw' = bw - 1
      /\ UNCHANGED <<pc, reads, warmup, next, DECODE_BUFFER, DISPATCH_BUFFER, DIB, resume, returned, executing>>
  BY DEF Fetch, FetchRefused, buffers, L1I
<1>2. bw' \in Nat BY <1>1 DEF TypeOK
<1>3. at' \in 1..(IFETCH_BUFFER_SIZE + 1)
  <2>1. Max(Chunk(i)) \in DOMAIN IFETCH_BUFFER BY ChunkFacts
  <2>2. DOMAIN IFETCH_BUFFER = 1..Len(IFETCH_BUFFER) /\ Len(IFETCH_BUFFER) \in Nat BY BufferTypes
  <2>3. Len(IFETCH_BUFFER) <= IFETCH_BUFFER_SIZE BY DEF TypeOK
  <2>4. IFETCH_BUFFER_SIZE \in Nat BY Constants
  <2> QED BY <1>1, <2>1, <2>2, <2>3, <2>4
<1>4. Edited /\ asked' \in Seq(Packet)
  <2>1. CASE Fetch(i) BY <2>1, FetchEffect
  <2>2. CASE FetchRefused(i)
    <3>1. UNCHANGED <<IFETCH_BUFFER, asked>> BY <2>2 DEF FetchRefused, buffers, L1I
    <3> QED BY <3>1, SameBuffer, BufferTypes
  <2> QED BY <2>1, <2>2
<1>5. reads \in 0..L1I_BANDWIDTH /\ DIB \in Seq(Windows) /\ Len(DIB) <= DIB_WAY BY DEF TypeOK
<1>6. returned \in Seq(Packet) BY BufferTypes
<1> QED BY <1>1, <1>2, <1>3, <1>4, <1>5, <1>6, EditedType

LEMMA TypeCheckDib ==
  ASSUME TypeOK, RoomInv, NEW i \in DOMAIN IFETCH_BUFFER, CheckDib(i)
  PROVE  TypeOK' /\ RoomInv' /\ Edited
<1>1. pc = "dib" /\ bw > 0 /\ bw' = bw - 1
      /\ UNCHANGED <<pc, reads, at, warmup, next, DECODE_BUFFER, DISPATCH_BUFFER, resume, L1I, executing>>
  BY DEF CheckDib
<1>2. bw' \in Nat BY <1>1 DEF TypeOK
<1>3. Edited BY CheckDibEffect
<1>4. DIB' \in Seq(Windows) /\ Len(DIB') <= DIB_WAY
  <2>1. DIB' \in {DIB, Used(IFETCH_BUFFER[i].window)} BY DEF CheckDib
  <2>2. IFETCH_BUFFER[i].window \in Windows BY BufferTypes DEF instr_type
  <2>3. DIB \in Seq(Windows) /\ Len(DIB) <= DIB_WAY BY DEF TypeOK
  <2> QED BY <2>1, <2>2, <2>3, UsedType
<1>5. reads \in 0..L1I_BANDWIDTH /\ at \in 1..(IFETCH_BUFFER_SIZE + 1) BY DEF TypeOK
<1>6. asked' \in Seq(Packet) /\ returned' \in Seq(Packet) BY <1>1, BufferTypes DEF L1I
<1> QED BY <1>1, <1>2, <1>3, <1>4, <1>5, <1>6, EditedType

\* The front of one buffer goes to the end of another.
LEMMA MoveTypes ==
  ASSUME NEW S, NEW a \in Seq(S), a # <<>>, NEW b \in Seq(S), NEW x \in S
  PROVE  /\ Tail(a) \in Seq(S) /\ Len(Tail(a)) = Len(a) - 1 /\ Len(a) \in Nat
         /\ Append(b, x) \in Seq(S) /\ Len(Append(b, x)) = Len(b) + 1 /\ Len(b) \in Nat
BY TailFacts, AppendFacts

LEMMA TypeDecode ==
  ASSUME TypeOK, RoomInv, Decode
  PROVE  TypeOK' /\ RoomInv'
<1>1. pc = "decode" /\ bw > 0 /\ bw' = bw - 1 /\ DIB' = Used(DECODE_BUFFER[1].window)
      /\ resume' \in {resume, BRANCH_MISPREDICT_PENALTY}
      /\ UNCHANGED <<pc, reads, at, warmup, next, IFETCH_BUFFER, L1I, executing>>
  BY DEF Decode
<1>2. PICK x \in instr_type : DISPATCH_BUFFER' = Append(DISPATCH_BUFFER, x) BY DecodeEffect
<1>3. DECODE_BUFFER # <<>> /\ DECODE_BUFFER' = Tail(DECODE_BUFFER) BY DecodeEffect
<1>4. /\ DECODE_BUFFER' \in Seq(instr_type) /\ Len(DECODE_BUFFER') = Len(DECODE_BUFFER) - 1
      /\ DISPATCH_BUFFER' \in Seq(instr_type) /\ Len(DISPATCH_BUFFER') = Len(DISPATCH_BUFFER) + 1
      /\ Len(DECODE_BUFFER) \in Nat /\ Len(DISPATCH_BUFFER) \in Nat
  BY <1>2, <1>3, BufferTypes, MoveTypes
<1>5. DECODE_BUFFER_SIZE \in Nat /\ DISPATCH_BUFFER_SIZE \in Nat /\ BRANCH_MISPREDICT_PENALTY \in Nat
  BY Constants
<1>6. bw \in Nat /\ bw' \in Nat /\ resume' \in Nat \cup {Never} BY <1>1, <1>5 DEF TypeOK
<1>7. Len(DISPATCH_BUFFER') + bw' <= DISPATCH_BUFFER_SIZE BY <1>1, <1>4, <1>5, <1>6 DEF RoomInv
<1>8. Len(DISPATCH_BUFFER') <= DISPATCH_BUFFER_SIZE BY <1>4, <1>5, <1>6, <1>7
<1>9. Len(DECODE_BUFFER') <= DECODE_BUFFER_SIZE BY <1>4, <1>5 DEF TypeOK
<1>10. DIB' \in Seq(Windows) /\ Len(DIB') <= DIB_WAY
  <2>1. DECODE_BUFFER[1].window \in Windows BY <1>3, BufferTypes, TailFacts DEF instr_type
  <2> QED BY <1>1, <2>1, UsedType
<1>11. {IFETCH_BUFFER', DECODE_BUFFER', DISPATCH_BUFFER'} \subseteq Seq(instr_type)
  BY <1>1, <1>4, BufferTypes
<1>12. TypeOK' BY <1>1, <1>6, <1>8, <1>9, <1>10, <1>11 DEF TypeOK, L1I
<1> QED BY <1>1, <1>7, <1>12 DEF RoomInv

LEMMA TypePromote ==
  ASSUME TypeOK, RoomInv, Promote
  PROVE  TypeOK' /\ RoomInv'
<1>1. pc = "promote" /\ bw > 0 /\ bw' = bw - 1
      /\ UNCHANGED <<pc, reads, at, warmup, next, DISPATCH_BUFFER, DIB, resume, L1I, executing>>
  BY DEF Promote
<1>2. PICK x \in instr_type : DECODE_BUFFER' = Append(DECODE_BUFFER, x) BY PromoteEffect
<1>3. IFETCH_BUFFER # <<>> /\ IFETCH_BUFFER' = Tail(IFETCH_BUFFER) BY PromoteEffect
<1>4. /\ IFETCH_BUFFER' \in Seq(instr_type) /\ Len(IFETCH_BUFFER') = Len(IFETCH_BUFFER) - 1
      /\ DECODE_BUFFER' \in Seq(instr_type) /\ Len(DECODE_BUFFER') = Len(DECODE_BUFFER) + 1
      /\ Len(IFETCH_BUFFER) \in Nat /\ Len(DECODE_BUFFER) \in Nat
  BY <1>2, <1>3, BufferTypes, MoveTypes
<1>5. DECODE_BUFFER_SIZE \in Nat /\ IFETCH_BUFFER_SIZE \in Nat BY Constants
<1>6. bw \in Nat /\ bw' \in Nat BY <1>1 DEF TypeOK
<1>7. Len(DECODE_BUFFER') + bw' <= DECODE_BUFFER_SIZE BY <1>1, <1>4, <1>5, <1>6 DEF RoomInv
<1>8. Len(DECODE_BUFFER') <= DECODE_BUFFER_SIZE BY <1>4, <1>5, <1>6, <1>7
<1>9. Len(IFETCH_BUFFER') <= IFETCH_BUFFER_SIZE BY <1>4, <1>5 DEF TypeOK
<1>10. {IFETCH_BUFFER', DECODE_BUFFER', DISPATCH_BUFFER'} \subseteq Seq(instr_type)
  BY <1>1, <1>4, BufferTypes
<1>11. TypeOK' BY <1>1, <1>6, <1>8, <1>9, <1>10 DEF TypeOK, L1I
<1> QED BY <1>1, <1>7, <1>11 DEF RoomInv

LEMMA TypeInitialize ==
  ASSUME TypeOK, RoomInv, NEW w \in Windows, InitPlain(w) \/ InitTaken(w) \/ InitMispredicted(w)
  PROVE  TypeOK' /\ RoomInv'
<1>1. /\ pc = "init" /\ bw > 0 /\ next \in Ids /\ next' = next + 1
      /\ bw' \in {0, bw - 1} /\ resume' \in {0, Never}
      /\ UNCHANGED <<pc, reads, at, warmup, DECODE_BUFFER, DISPATCH_BUFFER, DIB, L1I, executing>>
  BY InitializeEffect
<1>2. PICK x \in instr_type : IFETCH_BUFFER' = Append(IFETCH_BUFFER, x) BY InitializeEffect
<1>3. /\ IFETCH_BUFFER' \in Seq(instr_type) /\ Len(IFETCH_BUFFER') = Len(IFETCH_BUFFER) + 1
      /\ Len(IFETCH_BUFFER) \in Nat
  BY <1>2, BufferTypes, AppendFacts
<1>4. IFETCH_BUFFER_SIZE \in Nat /\ TraceLength \in Nat BY Constants
<1>5. bw \in Nat /\ bw' \in Nat /\ resume' \in Nat \cup {Never} BY <1>1 DEF TypeOK
<1>6. Len(IFETCH_BUFFER') + bw' <= IFETCH_BUFFER_SIZE BY <1>1, <1>3, <1>4, <1>5 DEF RoomInv
<1>7. Len(IFETCH_BUFFER') <= IFETCH_BUFFER_SIZE BY <1>3, <1>4, <1>5, <1>6
<1>8. next' \in 1..(TraceLength + 1) BY <1>1, <1>4 DEF Ids
<1>9. {IFETCH_BUFFER', DECODE_BUFFER', DISPATCH_BUFFER'} \subseteq Seq(instr_type)
  BY <1>1, <1>3, BufferTypes
<1>10. TypeOK' BY <1>1, <1>5, <1>7, <1>8, <1>9 DEF TypeOK, L1I
<1> QED BY <1>1, <1>6, <1>10 DEF RoomInv

LEMMA TypeTick ==
  ASSUME TypeOK, RoomInv, Tick
  PROVE  TypeOK' /\ RoomInv'
<1>1. /\ pc' = "idle" /\ bw' = 0 /\ at' = 1 /\ resume' = Sooner(resume)
      /\ UNCHANGED <<reads, warmup, next, IFETCH_BUFFER, DISPATCH_BUFFER, DIB, L1I, executing>>
  BY DEF Tick, GoTo
<1>2. DECODE_BUFFER' \in Seq(instr_type) /\ Len(DECODE_BUFFER') = Len(DECODE_BUFFER) BY TickEffect
<1>3. resume' \in Nat \cup {Never} BY <1>1 DEF Sooner, TypeOK, Never
<1>4. at' \in 1..(IFETCH_BUFFER_SIZE + 1) BY <1>1, Constants
<1>5. {IFETCH_BUFFER', DECODE_BUFFER', DISPATCH_BUFFER'} \subseteq Seq(instr_type)
  BY <1>1, <1>2, BufferTypes
<1>6. TypeOK' BY <1>1, <1>2, <1>3, <1>4, <1>5 DEF TypeOK, L1I
<1> QED BY <1>1, <1>6 DEF RoomInv

LEMMA TypeStep ==
  ASSUME TypeOK, RoomInv, Next
  PROVE  TypeOK' /\ RoomInv'
<1>1. \/ \E i \in DOMAIN asked : L1IAnswers(i) \/ \E j \in DOMAIN asked : L1IMerges(i, j)
      \/ BackEnd \/ EndWarmup
      \/ StartCycle \/ EndMemory \/ EndDecode \/ EndPromote \/ EndFetch \/ EndDib \/ Tick
      \/ DanglingFetch \/ Decode \/ Promote
      \/ \E i \in DOMAIN IFETCH_BUFFER : CompleteFetch(i) \/ Fetch(i) \/ FetchRefused(i) \/ CheckDib(i)
      \/ \E w \in Windows : InitPlain(w) \/ InitTaken(w) \/ InitMispredicted(w)
  BY DEF Next, Operate
<1> QED BY <1>1, TypeEnvironment, TypeBackEnd, TypeStages, TypeMemory, TypeFetches, TypeCheckDib,
           TypeDecode, TypePromote, TypeInitialize, TypeTick
-----------------------------------------------------------------------------
(* The order of the instructions *)

LEMMA Lengths ==
  ASSUME TypeOK
  PROVE  /\ Len(IFETCH_BUFFER) \in Nat /\ DOMAIN IFETCH_BUFFER = 1..Len(IFETCH_BUFFER)
         /\ Len(DECODE_BUFFER) \in Nat /\ DOMAIN DECODE_BUFFER = 1..Len(DECODE_BUFFER)
         /\ Len(DISPATCH_BUFFER) \in Nat /\ DOMAIN DISPATCH_BUFFER = 1..Len(DISPATCH_BUFFER)
         /\ next \in Nat /\ Promoted \in Int /\ Decoded \in Int /\ Dispatched \in Int
         /\ Promoted + Len(IFETCH_BUFFER) = next - 1 /\ Decoded + Len(DECODE_BUFFER) = Promoted
         /\ Dispatched + Len(DISPATCH_BUFFER) = Decoded
<1>1. /\ Len(IFETCH_BUFFER) \in Nat /\ DOMAIN IFETCH_BUFFER = 1..Len(IFETCH_BUFFER)
      /\ Len(DECODE_BUFFER) \in Nat /\ DOMAIN DECODE_BUFFER = 1..Len(DECODE_BUFFER)
      /\ Len(DISPATCH_BUFFER) \in Nat /\ DOMAIN DISPATCH_BUFFER = 1..Len(DISPATCH_BUFFER)
  BY BufferTypes
<1>2. next \in Nat
  <2>1. next \in 1..(TraceLength + 1) BY DEF TypeOK
  <2> QED BY <2>1, Constants
<1> QED BY <1>1, <1>2 DEF Promoted, Decoded, Dispatched

LEMMA Numbers ==
  ASSUME TypeOK
  PROVE  /\ Len(IFETCH_BUFFER) \in Nat /\ Len(DECODE_BUFFER) \in Nat /\ Len(DISPATCH_BUFFER) \in Nat
         /\ next \in Nat
BY Lengths

LEMMA IdTypes ==
  ASSUME TypeOK
  PROVE  /\ \A i \in DOMAIN IFETCH_BUFFER : IFETCH_BUFFER[i].instr_id \in Nat
         /\ \A i \in DOMAIN DECODE_BUFFER : DECODE_BUFFER[i].instr_id \in Nat
         /\ \A i \in DOMAIN DISPATCH_BUFFER : DISPATCH_BUFFER[i].instr_id \in Nat
         /\ \A id \in executing : id \in Nat
<1>1. Ids \subseteq Nat BY Constants DEF Ids
<1>2. \A x \in instr_type : x.instr_id \in Ids BY DEF instr_type
<1> QED BY <1>1, <1>2, BufferTypes DEF TypeOK

\* The buffers keep the numbers of their instructions.
SameOrder ==
  /\ next' = next /\ executing' = executing
  /\ Len(IFETCH_BUFFER') = Len(IFETCH_BUFFER) /\ DOMAIN IFETCH_BUFFER' = DOMAIN IFETCH_BUFFER
  /\ Len(DECODE_BUFFER') = Len(DECODE_BUFFER) /\ DOMAIN DECODE_BUFFER' = DOMAIN DECODE_BUFFER
  /\ DISPATCH_BUFFER' = DISPATCH_BUFFER
  /\ \A i \in DOMAIN IFETCH_BUFFER : /\ IFETCH_BUFFER'[i].instr_id = IFETCH_BUFFER[i].instr_id
                                     /\ IFETCH_BUFFER'[i].mispredicted = IFETCH_BUFFER[i].mispredicted
  /\ \A i \in DOMAIN DECODE_BUFFER : /\ DECODE_BUFFER'[i].instr_id = DECODE_BUFFER[i].instr_id
                                     /\ DECODE_BUFFER'[i].mispredicted = DECODE_BUFFER[i].mispredicted

LEMMA WhoKeepsOrder ==
  ASSUME TypeOK, RoomInv, Next,
         ~(BackEnd \/ Decode \/ Promote \/ \E w \in Windows : InitPlain(w) \/ InitTaken(w) \/ InitMispredicted(w))
  PROVE  SameOrder /\ resume' \in {resume, Sooner(resume)}
<1>1. CASE \E i \in DOMAIN asked : L1IAnswers(i) \/ \E j \in DOMAIN asked : L1IMerges(i, j)
  BY <1>1 DEF L1IAnswers, L1IMerges, SameOrder, buffers
<1>2. CASE EndWarmup BY <1>2 DEF EndWarmup, SameOrder, buffers
<1>3. CASE StartCycle \/ EndMemory \/ EndDecode \/ EndPromote \/ EndFetch \/ EndDib
  <2>1. UNCHANGED <<next, executing, IFETCH_BUFFER, DECODE_BUFFER, DISPATCH_BUFFER, resume>>
    BY <1>3 DEF StartCycle, EndMemory, EndDecode, EndPromote, EndFetch, EndDib, buffers
  <2> QED BY <2>1 DEF SameOrder
<1>4. CASE \/ DanglingFetch
           \/ \E i \in DOMAIN IFETCH_BUFFER : CompleteFetch(i) \/ Fetch(i) \/ FetchRefused(i) \/ CheckDib(i)
  <2>1. UNCHANGED <<next, executing, DECODE_BUFFER, DISPATCH_BUFFER, resume>>
    BY <1>4 DEF DanglingFetch, CompleteFetch, Fetch, FetchRefused, CheckDib, buffers
  <2>2. Edited BY <1>4, TypeMemory, TypeFetches, TypeCheckDib
  <2> QED BY <2>1, <2>2 DEF SameOrder, Edited
<1>5. CASE Tick
  <2>1. UNCHANGED <<next, executing, IFETCH_BUFFER, DISPATCH_BUFFER>> /\ resume' = Sooner(resume)
    BY <1>5 DEF Tick
  <2> QED BY <1>5, <2>1, TickEffect DEF SameOrder
<1> QED BY <1>1, <1>2, <1>3, <1>4, <1>5 DEF Next, Operate

LEMMA OrderKept ==
  ASSUME TypeOK, OrderInv, SameOrder
  PROVE  OrderInv'
<1>1. Promoted' = Promoted /\ Decoded' = Decoded /\ Dispatched' = Dispatched
  BY DEF SameOrder, Promoted, Decoded, Dispatched
<1> QED BY <1>1 DEF OrderInv, SameOrder

\* What moves to the end of a buffer continues its numbers, and what is left does too.
LEMMA OrderMove ==
  ASSUME NEW a \in Seq(instr_type), NEW first \in Int, a # <<>>,
         \A i \in DOMAIN a : a[i].instr_id = first + i
  PROVE  \A i \in DOMAIN Tail(a) : Tail(a)[i].instr_id = first + 1 + i
<1>1. \A i \in DOMAIN Tail(a) : i \in Nat /\ i + 1 \in DOMAIN a /\ Tail(a)[i] = a[i + 1] BY TailFacts
<1> QED BY <1>1

LEMMA OrderAppend ==
  ASSUME NEW b \in Seq(instr_type), NEW first \in Int, NEW x \in instr_type,
         \A i \in DOMAIN b : b[i].instr_id = first + i,
         x.instr_id = first + Len(b) + 1
  PROVE  \A i \in DOMAIN Append(b, x) : Append(b, x)[i].instr_id = first + i
<1>1. /\ Append(b, x) \in Seq(instr_type) /\ Len(Append(b, x)) = Len(b) + 1
      /\ Append(b, x)[Len(b) + 1] = x /\ \A i \in 1..Len(b) : Append(b, x)[i] = b[i]
  BY AppendFacts
<1>2. Len(b) \in Nat /\ DOMAIN b = 1..Len(b) OBVIOUS
<1>3. DOMAIN Append(b, x) = 1..(Len(b) + 1) BY <1>1, <1>2
<1> QED BY <1>1, <1>2, <1>3

LEMMA OrderDecode ==
  ASSUME TypeOK, OrderInv, Decode
  PROVE  OrderInv'
<1>1. UNCHANGED <<next, IFETCH_BUFFER, executing>> BY DEF Decode
<1>2. PICK x \in instr_type : /\ DISPATCH_BUFFER' = Append(DISPATCH_BUFFER, x)
                              /\ x.instr_id = DECODE_BUFFER[1].instr_id
  BY DecodeEffect
<1>3. DECODE_BUFFER # <<>> /\ DECODE_BUFFER' = Tail(DECODE_BUFFER) BY DecodeEffect
<1>4. /\ Len(DECODE_BUFFER') = Len(DECODE_BUFFER) - 1
      /\ Len(DISPATCH_BUFFER') = Len(DISPATCH_BUFFER) + 1
  BY <1>2, <1>3, BufferTypes, MoveTypes
<1>5. Promoted' = Promoted /\ Decoded' = Decoded + 1 /\ Dispatched' = Dispatched
  <2>1. next' = next /\ Len(IFETCH_BUFFER') = Len(IFETCH_BUFFER) BY <1>1
  <2>2. Promoted' = Promoted BY <1>4, <2>1, Numbers DEF Promoted
  <2>3. Decoded' = Decoded + 1 BY <1>4, <2>2, Lengths DEF Decoded
  <2>4. Dispatched' = Dispatched BY <1>4, <2>1, <2>3, Lengths DEF Dispatched
  <2> QED BY <2>2, <2>3, <2>4
<1>6. x.instr_id = Dispatched + Len(DISPATCH_BUFFER) + 1
  <2>1. 1 \in DOMAIN DECODE_BUFFER BY <1>3, BufferTypes, TailFacts
  <2> QED BY <1>2, <2>1, Lengths DEF OrderInv
<1>7. \A i \in DOMAIN DISPATCH_BUFFER' : DISPATCH_BUFFER'[i].instr_id = Dispatched' + i
  BY <1>2, <1>5, <1>6, BufferTypes, Lengths, OrderAppend DEF OrderInv
<1>8. \A i \in DOMAIN DECODE_BUFFER' : DECODE_BUFFER'[i].instr_id = Decoded' + i
  BY <1>3, <1>5, BufferTypes, Lengths, OrderMove DEF OrderInv
<1> QED BY <1>1, <1>5, <1>7, <1>8 DEF OrderInv

LEMMA OrderPromote ==
  ASSUME TypeOK, OrderInv, Promote
  PROVE  OrderInv'
<1>1. UNCHANGED <<next, DISPATCH_BUFFER, executing>> BY DEF Promote
<1>2. PICK x \in instr_type : /\ DECODE_BUFFER' = Append(DECODE_BUFFER, x)
                              /\ x.instr_id = IFETCH_BUFFER[1].instr_id
  BY PromoteEffect
<1>3. IFETCH_BUFFER # <<>> /\ IFETCH_BUFFER' = Tail(IFETCH_BUFFER) BY PromoteEffect
<1>4. /\ Len(IFETCH_BUFFER') = Len(IFETCH_BUFFER) - 1 /\ Len(DECODE_BUFFER') = Len(DECODE_BUFFER) + 1
  BY <1>2, <1>3, BufferTypes, MoveTypes
<1>5. Promoted' = Promoted + 1 /\ Decoded' = Decoded /\ Dispatched' = Dispatched
  <2>1. next' = next /\ Len(DISPATCH_BUFFER') = Len(DISPATCH_BUFFER) BY <1>1
  <2>2. Promoted' = Promoted + 1 BY <1>4, <2>1, Numbers DEF Promoted
  <2>3. Decoded' = Decoded BY <1>4, <2>2, Lengths DEF Decoded
  <2>4. Dispatched' = Dispatched BY <1>4, <2>1, <2>3, Lengths DEF Dispatched
  <2> QED BY <2>2, <2>3, <2>4
<1>6. x.instr_id = Decoded + Len(DECODE_BUFFER) + 1
  <2>1. 1 \in DOMAIN IFETCH_BUFFER BY <1>3, BufferTypes, TailFacts
  <2> QED BY <1>2, <2>1, Lengths DEF OrderInv
<1>7. \A i \in DOMAIN DECODE_BUFFER' : DECODE_BUFFER'[i].instr_id = Decoded' + i
  BY <1>2, <1>5, <1>6, BufferTypes, Lengths, OrderAppend DEF OrderInv
<1>8. \A i \in DOMAIN IFETCH_BUFFER' : IFETCH_BUFFER'[i].instr_id = Promoted' + i
  BY <1>3, <1>5, BufferTypes, Lengths, OrderMove DEF OrderInv
<1> QED BY <1>1, <1>5, <1>7, <1>8 DEF OrderInv

LEMMA OrderInitialize ==
  ASSUME TypeOK, OrderInv, NEW w \in Windows, InitPlain(w) \/ InitTaken(w) \/ InitMispredicted(w)
  PROVE  OrderInv'
<1>1. next' = next + 1 /\ UNCHANGED <<DECODE_BUFFER, DISPATCH_BUFFER, executing>> BY InitializeEffect
<1>2. PICK x \in instr_type : IFETCH_BUFFER' = Append(IFETCH_BUFFER, x) /\ x.instr_id = next
  BY InitializeEffect
<1>3. Len(IFETCH_BUFFER') = Len(IFETCH_BUFFER) + 1 BY <1>2, BufferTypes, AppendFacts
<1>4. Promoted' = Promoted /\ Decoded' = Decoded /\ Dispatched' = Dispatched
  <2>1. next' = next + 1 /\ Len(DECODE_BUFFER') = Len(DECODE_BUFFER)
        /\ Len(DISPATCH_BUFFER') = Len(DISPATCH_BUFFER)
    BY <1>1
  <2> QED BY <1>3, <2>1, Numbers, SMTT(30) DEF Promoted, Decoded, Dispatched
<1>5. x.instr_id = Promoted + Len(IFETCH_BUFFER) + 1 BY <1>2, Lengths
<1>6. \A i \in DOMAIN IFETCH_BUFFER' : IFETCH_BUFFER'[i].instr_id = Promoted' + i
  BY <1>2, <1>4, <1>5, BufferTypes, Lengths, OrderAppend DEF OrderInv
<1> QED BY <1>1, <1>4, <1>6 DEF OrderInv

LEMMA OrderBackEnd ==
  ASSUME TypeOK, OrderInv, BackEnd
  PROVE  OrderInv'
<1>1. CASE Dispatch
  <2>1. DISPATCH_BUFFER # <<>> /\ DISPATCH_BUFFER' = Tail(DISPATCH_BUFFER)
        /\ UNCHANGED <<next, IFETCH_BUFFER, DECODE_BUFFER>>
    BY <1>1 DEF Dispatch
  <2>2. Len(DISPATCH_BUFFER') = Len(DISPATCH_BUFFER) - 1 /\ 1 \in DOMAIN DISPATCH_BUFFER
    BY <2>1, BufferTypes, TailFacts
  <2>3. Promoted' = Promoted /\ Decoded' = Decoded /\ Dispatched' = Dispatched + 1
    BY <2>1, <2>2, Numbers DEF Promoted, Decoded, Dispatched
  <2>4. \A i \in DOMAIN DISPATCH_BUFFER' : DISPATCH_BUFFER'[i].instr_id = Dispatched' + i
    BY <2>1, <2>3, BufferTypes, Lengths, OrderMove DEF OrderInv
  <2>5. \A id \in executing' : id \in executing \/ id = DISPATCH_BUFFER[1].instr_id
    BY <1>1 DEF Dispatch
  <2>6. \A id \in executing : id \in Nat /\ id <= Dispatched BY IdTypes DEF OrderInv
  <2>7. DISPATCH_BUFFER[1].instr_id = Dispatched + 1 BY <2>2 DEF OrderInv
  <2>8. \A id \in executing' : id <= Dispatched' BY <2>3, <2>5, <2>6, <2>7, Lengths, SMTT(30)
  <2>9. Dispatched' >= 0 BY <2>3, Lengths DEF OrderInv
  <2> QED BY <2>1, <2>3, <2>4, <2>8, <2>9 DEF OrderInv
<1>2. ASSUME NEW id \in executing, Complete(id) PROVE OrderInv'
  <2>1. executing' \subseteq executing /\ UNCHANGED <<next, IFETCH_BUFFER, DECODE_BUFFER, DISPATCH_BUFFER>>
    BY <1>2 DEF Complete, buffers
  <2>2. Promoted' = Promoted /\ Decoded' = Decoded /\ Dispatched' = Dispatched
    BY <2>1 DEF Promoted, Decoded, Dispatched
  <2> QED BY <2>1, <2>2 DEF OrderInv
<1> QED BY <1>1, <1>2 DEF BackEnd

LEMMA OrderStep ==
  ASSUME TypeOK, RoomInv, OrderInv, Next
  PROVE  OrderInv'
BY WhoKeepsOrder, OrderKept, OrderDecode, OrderPromote, OrderInitialize, OrderBackEnd
-----------------------------------------------------------------------------
(* The packets *)

LEMMA PacketIndices ==
  ASSUME TypeOK
  PROVE  /\ Len(asked) \in Nat /\ DOMAIN asked = 1..Len(asked)
         /\ Len(returned) \in Nat /\ DOMAIN returned = 1..Len(returned)
BY BufferTypes

LEMMA PacketMerge ==
  ASSUME TypeOK, PacketInv, NEW i \in DOMAIN asked, NEW j \in DOMAIN asked, L1IMerges(i, j)
  PROVE  /\ PacketInv' /\ \A id : Awaited(id)' => Awaited(id)
         /\ \A id, b : Carried(id, b) => Carried(id, b)'
<1>1. PICK o : /\ Moved(i, o) /\ asked' \in Seq(Packet) /\ Len(asked') = Len(asked) - 1
               /\ \A k \in DOMAIN o :
                    /\ asked'[k].block = asked[o[k]].block
                    /\ asked'[k].instr_depend_on_me =
                         IF o[k] = j THEN asked[j].instr_depend_on_me \cup asked[i].instr_depend_on_me
                         ELSE asked[o[k]].instr_depend_on_me
  BY MergeEffect, Zenon
<1>2. /\ DOMAIN o = DOMAIN asked'
      /\ \A k \in DOMAIN o : o[k] \in DOMAIN asked /\ o[k] # i
      /\ \A k, l \in DOMAIN o : o[k] = o[l] => k = l
      /\ \A k \in DOMAIN asked : k # i => \E l \in DOMAIN o : o[l] = k
  BY <1>1 DEF Moved
<1>3. i # j /\ asked[i].block = asked[j].block /\ returned' = returned /\ next' = next
  BY DEF L1IMerges
<1>4. \A k \in DOMAIN asked' :
        /\ o[k] \in DOMAIN asked /\ o[k] # i
        /\ o[k] = j => asked'[k].instr_depend_on_me =
                         asked[j].instr_depend_on_me \cup asked[i].instr_depend_on_me
        /\ o[k] # j => asked'[k].instr_depend_on_me = asked[o[k]].instr_depend_on_me
  BY <1>1, <1>2
<1>5. PacketInv'
  <2>1. \A k, l \in DOMAIN asked' :
          k # l => asked'[k].instr_depend_on_me \cap asked'[l].instr_depend_on_me = {}
    <3> TAKE k, l \in DOMAIN asked'
    <3> HAVE k # l
    <3>1. o[k] # o[l] BY <1>2
    <3>2. asked[i].instr_depend_on_me \cap asked[o[k]].instr_depend_on_me = {}
          /\ asked[i].instr_depend_on_me \cap asked[o[l]].instr_depend_on_me = {}
          /\ asked[o[k]].instr_depend_on_me \cap asked[o[l]].instr_depend_on_me = {}
      BY <1>4, <3>1 DEF PacketInv
    <3> QED BY <1>4, <3>1, <3>2
  <2>2. \A k \in DOMAIN asked', l \in DOMAIN returned' :
          asked'[k].instr_depend_on_me \cap returned'[l].instr_depend_on_me = {}
    <3> TAKE k \in DOMAIN asked', l \in DOMAIN returned'
    <3>1. asked[i].instr_depend_on_me \cap returned[l].instr_depend_on_me = {}
          /\ asked[o[k]].instr_depend_on_me \cap returned[l].instr_depend_on_me = {}
      BY <1>3, <1>4 DEF PacketInv
    <3> QED BY <1>3, <1>4, <3>1
  <2>3. \A k \in DOMAIN asked' : asked'[k].instr_depend_on_me \in SUBSET (1..(next' - 1))
    <3> TAKE k \in DOMAIN asked'
    <3>1. /\ asked[i].instr_depend_on_me \in SUBSET (1..(next - 1))
          /\ asked[o[k]].instr_depend_on_me \in SUBSET (1..(next - 1))
      BY <1>4 DEF PacketInv
    <3> QED BY <1>3, <1>4, <3>1
  <2> QED BY <1>3, <2>1, <2>2, <2>3 DEF PacketInv
<1>6. \A id : Awaited(id)' => Awaited(id) BY <1>3, <1>4 DEF Awaited
<1>7. ASSUME NEW id, NEW b, Carried(id, b) PROVE Carried(id, b)'
  <2>1. CASE \E k \in DOMAIN returned : id \in returned[k].instr_depend_on_me /\ b = returned[k].block
    BY <1>3, <2>1 DEF Carried
  <2>2. ASSUME NEW k \in DOMAIN asked, id \in asked[k].instr_depend_on_me, b = asked[k].block
        PROVE  Carried(id, b)'
    <3>1. PICK l \in DOMAIN o : o[l] = IF k = i THEN j ELSE k BY <1>2, <1>3
    <3>2. asked'[l].block = b /\ id \in asked'[l].instr_depend_on_me BY <1>1, <1>3, <2>2, <3>1
    <3>3. l \in DOMAIN asked' BY <1>2
    <3> QED BY <3>2, <3>3 DEF Carried
  <2> QED BY <1>7, <2>1, <2>2 DEF Carried
<1> QED BY <1>5, <1>6, <1>7

LEMMA PacketAnswer ==
  ASSUME TypeOK, PacketInv, NEW i \in DOMAIN asked, L1IAnswers(i)
  PROVE  /\ PacketInv' /\ \A id : Awaited(id)' => Awaited(id)
         /\ \A id, b : Carried(id, b) => Carried(id, b)'
<1> DEFINE n == Len(returned) + 1
<1>1. PICK o : Moved(i, o) /\ \A k \in DOMAIN o : asked'[k] = asked[o[k]] BY AnswerEffect
<1>2. /\ DOMAIN o = DOMAIN asked'
      /\ \A k \in DOMAIN o : o[k] \in DOMAIN asked /\ o[k] # i
      /\ \A k, l \in DOMAIN o : o[k] = o[l] => k = l
      /\ \A k \in DOMAIN asked : k # i => \E l \in DOMAIN o : o[l] = k
  BY <1>1 DEF Moved
<1>3. /\ DOMAIN returned' = DOMAIN returned \cup {n} /\ returned'[n] = asked[i]
      /\ \A k \in DOMAIN returned : returned'[k] = returned[k] /\ k # n
  BY AnswerEffect
<1>4. next' = next BY DEF L1IAnswers
<1> HIDE DEF n
<1>5. PacketInv'
  <2>1. \A k, l \in DOMAIN asked' :
          k # l => asked'[k].instr_depend_on_me \cap asked'[l].instr_depend_on_me = {}
    BY <1>1, <1>2 DEF PacketInv
  <2>2. \A k, l \in DOMAIN returned' :
          k # l => returned'[k].instr_depend_on_me \cap returned'[l].instr_depend_on_me = {}
    <3>1. \A k \in DOMAIN returned : returned[k].instr_depend_on_me \cap asked[i].instr_depend_on_me = {}
      BY DEF PacketInv
    <3> QED BY <1>3, <3>1 DEF PacketInv
  <2>3. \A k \in DOMAIN asked', l \in DOMAIN returned' :
          asked'[k].instr_depend_on_me \cap returned'[l].instr_depend_on_me = {}
    BY <1>1, <1>2, <1>3 DEF PacketInv
  <2>4. \A k \in DOMAIN asked' : asked'[k].instr_depend_on_me \in SUBSET (1..(next' - 1))
    BY <1>1, <1>2, <1>4 DEF PacketInv
  <2>5. \A k \in DOMAIN returned' : returned'[k].instr_depend_on_me \in SUBSET (1..(next' - 1))
    BY <1>3, <1>4 DEF PacketInv
  <2> QED BY <2>1, <2>2, <2>3, <2>4, <2>5 DEF PacketInv
<1>6. \A id : Awaited(id)' => Awaited(id) BY <1>1, <1>2, <1>3 DEF Awaited
<1>7. ASSUME NEW id, NEW b, Carried(id, b) PROVE Carried(id, b)'
  <2>1. CASE \E k \in DOMAIN returned : id \in returned[k].instr_depend_on_me /\ b = returned[k].block
    BY <1>3, <2>1 DEF Carried
  <2>2. ASSUME NEW k \in DOMAIN asked, id \in asked[k].instr_depend_on_me, b = asked[k].block
        PROVE  Carried(id, b)'
    BY <1>1, <1>2, <1>3, <2>2 DEF Carried
  <2> QED BY <1>7, <2>1, <2>2 DEF Carried
<1> QED BY <1>5, <1>6, <1>7

LEMMA PacketDependent ==
  ASSUME TypeOK, PacketInv, Taking, NextDependent, asked' = asked, next' = next
  PROVE  /\ PacketInv' /\ \A id : Awaited(id)' => Awaited(id)
         /\ \A id, b : Carried(id, b) /\ id # Oldest => Carried(id, b)'
<1>1. 1 \in DOMAIN returned BY DependentEffect
<1>2. CASE /\ DOMAIN returned' = DOMAIN returned
           /\ returned[1].instr_depend_on_me \ {Oldest} # {}
           /\ \A k \in DOMAIN returned :
                /\ returned'[k].block = returned[k].block
                /\ returned'[k].instr_depend_on_me =
                     IF k = 1 THEN returned[1].instr_depend_on_me \ {Oldest}
                     ELSE returned[k].instr_depend_on_me
  <2>1. \A k \in DOMAIN returned :
          /\ returned'[k].instr_depend_on_me \subseteq returned[k].instr_depend_on_me
          /\ returned[k].instr_depend_on_me \subseteq returned'[k].instr_depend_on_me \cup {Oldest}
          /\ returned'[k].block = returned[k].block
    BY <1>2
  <2>2. \A k, l \in DOMAIN returned' :
          k # l => returned'[k].instr_depend_on_me \cap returned'[l].instr_depend_on_me = {}
    <3> TAKE k, l \in DOMAIN returned'
    <3> HAVE k # l
    <3>1. returned[k].instr_depend_on_me \cap returned[l].instr_depend_on_me = {} BY <1>2 DEF PacketInv
    <3> QED BY <1>2, <2>1, <3>1
  <2>3. \A k \in DOMAIN asked', l \in DOMAIN returned' :
          asked'[k].instr_depend_on_me \cap returned'[l].instr_depend_on_me = {}
    <3> TAKE k \in DOMAIN asked', l \in DOMAIN returned'
    <3>1. asked[k].instr_depend_on_me \cap returned[l].instr_depend_on_me = {} BY <1>2 DEF PacketInv
    <3> QED BY <1>2, <2>1, <3>1
  <2>4. \A k \in DOMAIN returned' : returned'[k].instr_depend_on_me \in SUBSET (1..(next' - 1))
    BY <1>2, <2>1 DEF PacketInv
  <2>5. PacketInv' BY <2>2, <2>3, <2>4 DEF PacketInv
  <2>6. \A id : Awaited(id)' => Awaited(id) BY <1>2, <2>1 DEF Awaited
  <2>7. \A id, b : Carried(id, b) /\ id # Oldest => Carried(id, b)'
    <3> TAKE id, b
    <3> HAVE Carried(id, b) /\ id # Oldest
    <3>1. CASE \E k \in DOMAIN asked : id \in asked[k].instr_depend_on_me /\ b = asked[k].block
      BY <3>1 DEF Carried
    <3>2. ASSUME NEW k \in DOMAIN returned, id \in returned[k].instr_depend_on_me, b = returned[k].block
          PROVE  Carried(id, b)'
      BY <1>2, <2>1, <3>2 DEF Carried
    <3> QED BY <3>1, <3>2 DEF Carried
  <2> QED BY <2>5, <2>6, <2>7
<1>3. CASE /\ returned[1].instr_depend_on_me \subseteq {Oldest}
           /\ \A k \in DOMAIN returned' : /\ k + 1 \in DOMAIN returned /\ k \in Nat \ {0}
                                          /\ returned'[k] = returned[k + 1]
           /\ \A k \in DOMAIN returned : k # 1 => k - 1 \in DOMAIN returned' /\ k \in Nat
  <2>1. PacketInv'
    <3>1. \A k, l \in DOMAIN returned' :
            k # l => returned'[k].instr_depend_on_me \cap returned'[l].instr_depend_on_me = {}
      <4> TAKE k, l \in DOMAIN returned'
      <4> HAVE k # l
      <4>1. k + 1 # l + 1 BY <1>3
      <4> QED BY <1>3, <4>1 DEF PacketInv
    <3> QED BY <1>3, <3>1 DEF PacketInv
  <2>2. \A id : Awaited(id)' => Awaited(id) BY <1>3 DEF Awaited
  <2>3. \A id, b : Carried(id, b) /\ id # Oldest => Carried(id, b)'
    <3> TAKE id, b
    <3> HAVE Carried(id, b) /\ id # Oldest
    <3>1. CASE \E k \in DOMAIN asked : id \in asked[k].instr_depend_on_me /\ b = asked[k].block
      BY <3>1 DEF Carried
    <3>2. ASSUME NEW k \in DOMAIN returned, id \in returned[k].instr_depend_on_me, b = returned[k].block
          PROVE  Carried(id, b)'
      <4>1. k # 1 BY <1>3, <3>2
      <4>2. k - 1 \in DOMAIN returned' /\ (k - 1) + 1 = k BY <1>3, <4>1
      <4>3. returned'[k - 1] = returned[k] BY <1>3, <4>2
      <4> QED BY <3>2, <4>2, <4>3 DEF Carried
    <3> QED BY <3>1, <3>2 DEF Carried
  <2> QED BY <2>1, <2>2, <2>3
<1> QED BY <1>2, <1>3, DependentEffect

\* A chunk is fetched when every instruction before it is asked for or not yet looked up.
LEMMA BeforeTheChunk ==
  ASSUME TypeOK, FetchInv, NEW i \in DOMAIN IFETCH_BUFFER, i \in Begins, pc = "fetch",
         Len(asked) < L1I_SIZE, NEW j \in DOMAIN IFETCH_BUFFER, j < i
  PROVE  IFETCH_BUFFER[j].fetched # "no" /\ IFETCH_BUFFER[i].dib_checked
<1>1. /\ IFETCH_BUFFER[i].dib_checked
      /\ \A k \in DOMAIN IFETCH_BUFFER :
           k >= at /\ IFETCH_BUFFER[k].dib_checked /\ IFETCH_BUFFER[k].fetched = "no" => i <= k
  BY DEF Begins
<1>2. i \in Nat /\ j \in Nat /\ j <= i BY Lengths, SMTT(30)
<1>3. IFETCH_BUFFER[j].dib_checked BY <1>1, <1>2 DEF FetchInv
<1>4. at \in Nat
  <2>1. at \in 1..(IFETCH_BUFFER_SIZE + 1) BY DEF TypeOK
  <2> QED BY <2>1, Constants
<1>5. CASE j < at BY <1>1, <1>3, <1>5 DEF FetchInv
<1>6. CASE ~(j < at)
  <2>1. j >= at /\ ~(i <= j) BY <1>2, <1>4, <1>6
  <2> QED BY <1>1, <1>3, <2>1
<1> QED BY <1>5, <1>6

\* None of the instructions of the chunk is in a packet.
LEMMA ChunkIsFree ==
  ASSUME TypeOK, FetchInv, NEW i \in DOMAIN IFETCH_BUFFER, i \in Begins, NEW j \in Chunk(i)
  PROVE  ~Awaited(IFETCH_BUFFER[j].instr_id)
<1>1. IFETCH_BUFFER[i].fetched = "no" BY DEF Begins
<1>2. j \in DOMAIN IFETCH_BUFFER /\ i <= j BY ChunkFacts
<1> QED BY <1>1, <1>2 DEF FetchInv

LEMMA DistinctIds ==
  ASSUME TypeOK, OrderInv, NEW i \in DOMAIN IFETCH_BUFFER, NEW j \in DOMAIN IFETCH_BUFFER,
         IFETCH_BUFFER[i].instr_id = IFETCH_BUFFER[j].instr_id
  PROVE  i = j
<1>1. Promoted + i = Promoted + j BY DEF OrderInv
<1>2. i \in Nat /\ j \in Nat /\ Promoted \in Int BY Lengths, SMTT(30)
<1> QED BY <1>1, <1>2

LEMMA IdRange ==
  ASSUME TypeOK, OrderInv, NEW i \in DOMAIN IFETCH_BUFFER
  PROVE  IFETCH_BUFFER[i].instr_id \in 1..(next - 1)
<1>1. Promoted >= 0 BY Lengths, SMTT(30) DEF OrderInv
<1>2. IFETCH_BUFFER[i].instr_id = Promoted + i BY DEF OrderInv
<1>3. i \in 1..Len(IFETCH_BUFFER) /\ Len(IFETCH_BUFFER) \in Nat /\ Promoted \in Int
      /\ Promoted + Len(IFETCH_BUFFER) = next - 1 /\ next \in Nat
  BY Lengths
<1> QED BY <1>1, <1>2, <1>3

LEMMA PacketFetch ==
  ASSUME TypeOK, OrderInv, PacketInv, FetchInv, NEW i \in DOMAIN IFETCH_BUFFER, Fetch(i)
  PROVE  /\ PacketInv'
         /\ \A id : Awaited(id)' => \/ Awaited(id)
                                    \/ \E j \in Chunk(i) : id = IFETCH_BUFFER[j].instr_id
         /\ \A id, b : Carried(id, b) => Carried(id, b)'
         /\ \A j \in Chunk(i) : Carried(IFETCH_BUFFER[j].instr_id, BlockOf[IFETCH_BUFFER[j].window])'
<1> DEFINE n == Len(asked) + 1
           ids == {IFETCH_BUFFER[j].instr_id : j \in Chunk(i)}
           block == BlockOf[IFETCH_BUFFER[i].window]
<1>1. /\ DOMAIN asked' = DOMAIN asked \cup {n}
      /\ \A k \in DOMAIN asked : asked'[k] = asked[k] /\ k # n
      /\ asked'[n].block = block /\ asked'[n].instr_depend_on_me = ids
  BY FetchEffect
<1>2. returned' = returned /\ next' = next /\ i \in Begins BY DEF Fetch
<1>3. \A id \in ids : ~Awaited(id) /\ id \in 1..(next - 1)
  <2> TAKE id \in ids
  <2>1. PICK j \in Chunk(i) : id = IFETCH_BUFFER[j].instr_id OBVIOUS
  <2>2. ~Awaited(id) BY <1>2, <2>1, ChunkIsFree
  <2>3. id \in 1..(next - 1) BY <2>1, ChunkFacts, IdRange
  <2> QED BY <2>2, <2>3
<1>4. ids \in SUBSET (1..(next - 1)) BY <1>3
<1>5. \A j \in Chunk(i) : /\ IFETCH_BUFFER[j].instr_id \in ids
                          /\ BlockOf[IFETCH_BUFFER[j].window] = block
  BY ChunkFacts
<1>6. \A id \in ids : \E j \in Chunk(i) : id = IFETCH_BUFFER[j].instr_id OBVIOUS
<1> HIDE DEF n, ids, block
<1>7. \A k \in DOMAIN asked : asked[k].instr_depend_on_me \cap ids = {} BY <1>3 DEF Awaited
<1>8. \A k \in DOMAIN returned : returned[k].instr_depend_on_me \cap ids = {} BY <1>3 DEF Awaited
<1>9. PacketInv'
  <2>1. \A k, l \in DOMAIN asked' :
          k # l => asked'[k].instr_depend_on_me \cap asked'[l].instr_depend_on_me = {}
    BY <1>1, <1>7 DEF PacketInv
  <2>2. \A k \in DOMAIN asked', l \in DOMAIN returned' :
          asked'[k].instr_depend_on_me \cap returned'[l].instr_depend_on_me = {}
    BY <1>1, <1>2, <1>8 DEF PacketInv
  <2>3. \A k \in DOMAIN asked' : asked'[k].instr_depend_on_me \in SUBSET (1..(next' - 1))
    BY <1>1, <1>2, <1>4 DEF PacketInv
  <2> QED BY <1>2, <2>1, <2>2, <2>3 DEF PacketInv
<1>10. \A id : Awaited(id)' => Awaited(id) \/ id \in ids BY <1>1, <1>2 DEF Awaited
<1>11. \A id, b : Carried(id, b) => Carried(id, b)' BY <1>1, <1>2 DEF Carried
<1>12. ASSUME NEW j \in Chunk(i)
       PROVE  Carried(IFETCH_BUFFER[j].instr_id, BlockOf[IFETCH_BUFFER[j].window])'
  <2>1. j \in DOMAIN IFETCH_BUFFER BY ChunkFacts
  <2>2. IFETCH_BUFFER'[j].instr_id \in ids /\ BlockOf[IFETCH_BUFFER'[j].window] = block
    BY <1>5, <2>1, FetchEffect DEF Edited
  <2> QED BY <1>1, <2>2 DEF Carried
<1> QED BY <1>6, <1>9, <1>10, <1>11, <1>12

\* The other steps leave the packets alone.
LEMMA PacketOthers ==
  ASSUME TypeOK, PacketInv, UNCHANGED L1I, next' \in {next, next + 1}
  PROVE  /\ PacketInv' /\ \A id : Awaited(id)' <=> Awaited(id)
         /\ \A id, b : Carried(id, b)' <=> Carried(id, b)
<1>1. asked' = asked /\ returned' = returned BY DEF L1I
<1>2. 1..(next - 1) \subseteq 1..(next' - 1) BY Numbers
<1>3. PacketInv' BY <1>1, <1>2 DEF PacketInv
<1> QED BY <1>1, <1>3 DEF Awaited, Carried
-----------------------------------------------------------------------------
(* The instructions that wait for a packet *)

\* What an edit of IFETCH_BUFFER must respect.
LEMMA FetchEdit ==
  ASSUME TypeOK, FetchInv, Edited, pc' # "fetch",
         \A id : Awaited(id)' => Awaited(id),
         \A i \in DOMAIN IFETCH_BUFFER : IFETCH_BUFFER'[i].fetched = "no" => IFETCH_BUFFER[i].fetched = "no",
         \A i \in DOMAIN IFETCH_BUFFER : IFETCH_BUFFER'[i].dib_checked = IFETCH_BUFFER[i].dib_checked
  PROVE  FetchInv'
BY DEF FetchInv, Edited

LEMMA FetchEnvironment ==
  ASSUME TypeOK, PacketInv, FetchInv, PendingInv, NEW i \in DOMAIN asked,
         L1IAnswers(i) \/ \E j \in DOMAIN asked : L1IMerges(i, j)
  PROVE  FetchInv' /\ PendingInv' /\ PacketInv'
<1>1. IFETCH_BUFFER' = IFETCH_BUFFER /\ pc' = "idle" BY DEF L1IAnswers, L1IMerges, buffers
<1>2. /\ PacketInv' /\ \A id : Awaited(id)' => Awaited(id)
      /\ \A id, b : Carried(id, b) => Carried(id, b)'
  BY PacketAnswer, PacketMerge
<1>3. FetchInv' BY <1>1, <1>2, SameBuffer, FetchEdit
<1>4. PendingInv' BY <1>1, <1>2 DEF PendingInv
<1> QED BY <1>2, <1>3, <1>4

LEMMA FetchMemory ==
  ASSUME TypeOK, RoomInv, OrderInv, PacketInv, FetchInv, PendingInv,
         DanglingFetch \/ \E i \in DOMAIN IFETCH_BUFFER : CompleteFetch(i)
  PROVE  FetchInv' /\ PendingInv' /\ PacketInv'
<1>1. /\ Taking /\ NextDependent /\ asked' = asked /\ next' = next /\ pc' = "memory"
  BY DEF DanglingFetch, CompleteFetch, Taking
<1>2. Edited BY TypeMemory
<1>3. /\ PacketInv' /\ \A id : Awaited(id)' => Awaited(id)
      /\ \A id, b : Carried(id, b) /\ id # Oldest => Carried(id, b)'
  BY <1>1, PacketDependent
<1>4. \A i \in DOMAIN IFETCH_BUFFER :
        /\ IFETCH_BUFFER'[i].dib_checked = IFETCH_BUFFER[i].dib_checked
        /\ IFETCH_BUFFER'[i].fetched # "COMPLETED" => /\ IFETCH_BUFFER'[i].fetched = IFETCH_BUFFER[i].fetched
                                                      /\ IFETCH_BUFFER[i].instr_id # Oldest
  <2>1. ASSUME NEW i \in DOMAIN IFETCH_BUFFER, CompleteFetch(i)
        PROVE  \A j \in DOMAIN IFETCH_BUFFER :
                 /\ IFETCH_BUFFER'[j].dib_checked = IFETCH_BUFFER[j].dib_checked
                 /\ IFETCH_BUFFER'[j].fetched # "COMPLETED" =>
                      /\ IFETCH_BUFFER'[j].fetched = IFETCH_BUFFER[j].fetched
                      /\ IFETCH_BUFFER[j].instr_id # Oldest
    <3>1. Fetched(i) /\ IFETCH_BUFFER[i].instr_id = Oldest BY <2>1 DEF CompleteFetch, At
    <3>2. \A j \in DOMAIN IFETCH_BUFFER : IFETCH_BUFFER[j].instr_id = Oldest => j = i
      BY <3>1, DistinctIds
    <3> QED BY <3>1, <3>2, FetchedEffect
  <2>2. CASE DanglingFetch
    <3>1. \A i \in DOMAIN IFETCH_BUFFER : IFETCH_BUFFER[i].instr_id # Oldest
      BY <2>2 DEF DanglingFetch, At
    <3>2. CASE UNCHANGED IFETCH_BUFFER BY <3>1, <3>2
    <3>3. ASSUME NEW i \in DOMAIN IFETCH_BUFFER, Fetched(i)
          PROVE  \A j \in DOMAIN IFETCH_BUFFER :
                   /\ IFETCH_BUFFER'[j].dib_checked = IFETCH_BUFFER[j].dib_checked
                   /\ IFETCH_BUFFER'[j].fetched # "COMPLETED" =>
                        IFETCH_BUFFER'[j].fetched = IFETCH_BUFFER[j].fetched
      BY <3>3, FetchedEffect
    <3> QED BY <2>2, <3>1, <3>2, <3>3 DEF DanglingFetch
  <2> QED BY <2>1, <2>2
<1>5. \A i \in DOMAIN IFETCH_BUFFER : IFETCH_BUFFER'[i].fetched = "no" => IFETCH_BUFFER[i].fetched = "no"
  BY <1>4
<1>6. FetchInv' BY <1>1, <1>2, <1>3, <1>4, <1>5, FetchEdit
<1>7. PendingInv'
  <2> SUFFICES ASSUME NEW i \in DOMAIN IFETCH_BUFFER', IFETCH_BUFFER'[i].fetched = "INFLIGHT"
               PROVE  Carried(IFETCH_BUFFER[i].instr_id, BlockOf[IFETCH_BUFFER[i].window])'
    BY DEF PendingInv
  <2>1. i \in DOMAIN IFETCH_BUFFER BY <1>2 DEF Edited
  <2>2. IFETCH_BUFFER[i].fetched = "INFLIGHT" /\ IFETCH_BUFFER[i].instr_id # Oldest BY <1>4, <2>1
  <2>3. Carried(IFETCH_BUFFER[i].instr_id, BlockOf[IFETCH_BUFFER[i].window]) BY <2>1, <2>2 DEF PendingInv
  <2>4. IFETCH_BUFFER'[i].instr_id = IFETCH_BUFFER[i].instr_id
        /\ IFETCH_BUFFER'[i].window = IFETCH_BUFFER[i].window
    BY <1>2, <2>1 DEF Edited
  <2>5. \A id, b : id = IFETCH_BUFFER'[i].instr_id /\ b = BlockOf[IFETCH_BUFFER'[i].window] =>
                     (Carried(id, b)' => Carried(IFETCH_BUFFER[i].instr_id, BlockOf[IFETCH_BUFFER[i].window])')
    BY DEF Carried
  <2> QED BY <1>3, <2>2, <2>3, <2>4, <2>5
<1> QED BY <1>3, <1>6, <1>7

\* An instruction that stays in flight, and where it is, keeps its packet.
LEMMA PendingEdit ==
  ASSUME TypeOK, PendingInv, Edited, \A id, b : Carried(id, b) => Carried(id, b)',
         \A i \in DOMAIN IFETCH_BUFFER : IFETCH_BUFFER'[i].fetched = "INFLIGHT" =>
           \/ IFETCH_BUFFER[i].fetched = "INFLIGHT"
           \/ Carried(IFETCH_BUFFER[i].instr_id, BlockOf[IFETCH_BUFFER[i].window])'
  PROVE  PendingInv'
<1> SUFFICES ASSUME NEW i \in DOMAIN IFETCH_BUFFER', IFETCH_BUFFER'[i].fetched = "INFLIGHT"
             PROVE  Carried(IFETCH_BUFFER[i].instr_id, BlockOf[IFETCH_BUFFER[i].window])'
  BY DEF PendingInv
<1>1. i \in DOMAIN IFETCH_BUFFER BY DEF Edited
<1>2. CASE IFETCH_BUFFER[i].fetched = "INFLIGHT"
  <2>1. Carried(IFETCH_BUFFER[i].instr_id, BlockOf[IFETCH_BUFFER[i].window])
    BY <1>1, <1>2 DEF PendingInv
  <2>2. IFETCH_BUFFER'[i].instr_id = IFETCH_BUFFER[i].instr_id
        /\ IFETCH_BUFFER'[i].window = IFETCH_BUFFER[i].window
    BY <1>1 DEF Edited
  <2>3. \A id, b : id = IFETCH_BUFFER'[i].instr_id /\ b = BlockOf[IFETCH_BUFFER'[i].window] =>
                     (Carried(id, b)' => Carried(IFETCH_BUFFER[i].instr_id, BlockOf[IFETCH_BUFFER[i].window])')
    BY DEF Carried
  <2> QED BY <2>1, <2>2, <2>3
<1> QED BY <1>1, <1>2

LEMMA FetchFetch ==
  ASSUME TypeOK, OrderInv, PacketInv, FetchInv, PendingInv, NEW i \in DOMAIN IFETCH_BUFFER, Fetch(i)
  PROVE  FetchInv' /\ PendingInv' /\ PacketInv'
<1>1. /\ PacketInv'
      /\ \A id : Awaited(id)' => \/ Awaited(id)
                                 \/ \E j \in Chunk(i) : id = IFETCH_BUFFER[j].instr_id
      /\ \A id, b : Carried(id, b) => Carried(id, b)'
      /\ \A j \in Chunk(i) : Carried(IFETCH_BUFFER[j].instr_id, BlockOf[IFETCH_BUFFER[j].window])'
  BY PacketFetch
<1>2. /\ Edited
      /\ \A j \in DOMAIN IFETCH_BUFFER :
           /\ IFETCH_BUFFER'[j].dib_checked = IFETCH_BUFFER[j].dib_checked
           /\ IFETCH_BUFFER'[j].fetched = IF j \in Chunk(i) THEN "INFLIGHT" ELSE IFETCH_BUFFER[j].fetched
  BY FetchEffect
<1>3. DOMAIN IFETCH_BUFFER' = DOMAIN IFETCH_BUFFER
      /\ \A j \in DOMAIN IFETCH_BUFFER : IFETCH_BUFFER'[j].instr_id = IFETCH_BUFFER[j].instr_id
  BY <1>2 DEF Edited
<1>4. pc = "fetch" /\ i \in Begins /\ Len(asked) < L1I_SIZE /\ at' = Max(Chunk(i)) + 1 BY DEF Fetch
<1>5. PendingInv' BY <1>1, <1>2, PendingEdit
<1>6. \A j \in DOMAIN IFETCH_BUFFER : j < i => IFETCH_BUFFER[j].fetched # "no"
  BY <1>4, BeforeTheChunk
<1>7. \A j, k \in DOMAIN IFETCH_BUFFER :
        j <= k /\ IFETCH_BUFFER'[j].fetched = "no" => ~Awaited(IFETCH_BUFFER[k].instr_id)'
  <2> SUFFICES ASSUME NEW j \in DOMAIN IFETCH_BUFFER, NEW k \in DOMAIN IFETCH_BUFFER, j <= k,
                      IFETCH_BUFFER'[j].fetched = "no", Awaited(IFETCH_BUFFER[k].instr_id)'
               PROVE  FALSE
    OBVIOUS
  <2>1. j \notin Chunk(i) /\ IFETCH_BUFFER[j].fetched = "no" BY <1>2
  <2>2. ~Awaited(IFETCH_BUFFER[k].instr_id) BY <2>1 DEF FetchInv
  <2>3. \A id : id = IFETCH_BUFFER[k].instr_id => Awaited(id)' BY <1>3 DEF Awaited
  <2>4. PICK l \in Chunk(i) : IFETCH_BUFFER[k].instr_id = IFETCH_BUFFER[l].instr_id
    BY <1>1, <2>2, <2>3
  <2>5. k \in Chunk(i) BY <2>4, ChunkFacts, DistinctIds
  <2>6. i <= k /\ k <= Max(Chunk(i)) /\ Max(Chunk(i)) \in DOMAIN IFETCH_BUFFER BY <2>5, ChunkFacts
  <2>7. i \in Nat /\ j \in Nat /\ k \in Nat /\ Max(Chunk(i)) \in Nat BY <2>6, Lengths, SMTT(30)
  <2>8. ~(j < i) BY <1>6, <2>1
  <2>9. i <= j /\ j <= Max(Chunk(i)) BY <2>6, <2>7, <2>8
  <2>10. j \in Chunk(i) BY <2>9, ChunkFacts
  <2> QED BY <2>1, <2>10
<1>8. ASSUME NEW j \in DOMAIN IFETCH_BUFFER, j < at' PROVE IFETCH_BUFFER'[j].fetched # "no"
  <2>1. i \in Nat /\ j \in Nat /\ Max(Chunk(i)) \in Nat
    <3>1. Max(Chunk(i)) \in DOMAIN IFETCH_BUFFER BY ChunkFacts
    <3> QED BY <3>1, Lengths, SMTT(30)
  <2>2. CASE j \in Chunk(i) BY <1>2, <2>2
  <2>3. CASE j \notin Chunk(i)
    <3>1. j <= Max(Chunk(i)) BY <1>4, <1>8, <2>1
    <3>2. j < i BY <2>1, <2>3, <3>1, ChunkFacts
    <3> QED BY <1>2, <1>6, <2>3, <3>2
  <2> QED BY <2>2, <2>3
<1>9. FetchInv' BY <1>2, <1>3, <1>7, <1>8 DEF FetchInv
<1> QED BY <1>1, <1>5, <1>9

LEMMA FetchCheckDib ==
  ASSUME TypeOK, PacketInv, FetchInv, PendingInv, NEW i \in DOMAIN IFETCH_BUFFER, CheckDib(i)
  PROVE  FetchInv' /\ PendingInv' /\ PacketInv'
<1>1. /\ pc' = "dib" /\ UNCHANGED L1I /\ next' \in {next, next + 1} /\ ~IFETCH_BUFFER[i].dib_checked
      /\ \A j \in 1..(i - 1) : IFETCH_BUFFER[j].dib_checked
  BY DEF CheckDib, FirstUnchecked
<1>2. /\ PacketInv' /\ \A id : Awaited(id)' <=> Awaited(id)
      /\ \A id, b : Carried(id, b)' <=> Carried(id, b)
  BY <1>1, PacketOthers
<1>3. /\ Edited
      /\ \A j \in DOMAIN IFETCH_BUFFER :
           /\ (IFETCH_BUFFER'[j].dib_checked <=> j = i \/ IFETCH_BUFFER[j].dib_checked)
           /\ IFETCH_BUFFER'[j].fetched = IFETCH_BUFFER[j].fetched
              \/ (j = i /\ IFETCH_BUFFER'[j].fetched = "COMPLETED")
  BY CheckDibEffect
<1>4. DOMAIN IFETCH_BUFFER' = DOMAIN IFETCH_BUFFER
      /\ \A j \in DOMAIN IFETCH_BUFFER : IFETCH_BUFFER'[j].instr_id = IFETCH_BUFFER[j].instr_id
  BY <1>3 DEF Edited
<1>5. PendingInv' BY <1>2, <1>3, PendingEdit
<1>6. \A j, k \in DOMAIN IFETCH_BUFFER :
        j <= k /\ IFETCH_BUFFER'[j].fetched = "no" => ~Awaited(IFETCH_BUFFER[k].instr_id)'
  <2> SUFFICES ASSUME NEW j \in DOMAIN IFETCH_BUFFER, NEW k \in DOMAIN IFETCH_BUFFER, j <= k,
                      IFETCH_BUFFER'[j].fetched = "no"
               PROVE  ~Awaited(IFETCH_BUFFER[k].instr_id)'
    OBVIOUS
  <2>1. IFETCH_BUFFER[j].fetched = "no" BY <1>3
  <2>2. ~Awaited(IFETCH_BUFFER[k].instr_id) BY <2>1 DEF FetchInv
  <2>3. \A id : id = IFETCH_BUFFER[k].instr_id => (Awaited(IFETCH_BUFFER[k].instr_id)' => Awaited(id)')
    BY <1>4 DEF Awaited
  <2> QED BY <1>2, <2>2, <2>3
<1>7. \A j, k \in DOMAIN IFETCH_BUFFER :
        j <= k /\ IFETCH_BUFFER'[k].dib_checked => IFETCH_BUFFER'[j].dib_checked
  <2> SUFFICES ASSUME NEW j \in DOMAIN IFETCH_BUFFER, NEW k \in DOMAIN IFETCH_BUFFER, j <= k,
                      IFETCH_BUFFER'[k].dib_checked, j # i
               PROVE  IFETCH_BUFFER[j].dib_checked
    BY <1>3
  <2>1. CASE k = i
    <3>1. j \in 1..(i - 1) BY <2>1, Lengths, SMTT(30)
    <3> QED BY <1>1, <3>1
  <2>2. CASE k # i
    <3>1. IFETCH_BUFFER[k].dib_checked BY <1>3, <2>2
    <3> QED BY <3>1 DEF FetchInv
  <2> QED BY <2>1, <2>2
<1>8. FetchInv' BY <1>1, <1>4, <1>6, <1>7 DEF FetchInv
<1> QED BY <1>2, <1>5, <1>8

LEMMA FetchPromote ==
  ASSUME TypeOK, PacketInv, FetchInv, PendingInv, Promote
  PROVE  FetchInv' /\ PendingInv' /\ PacketInv'
<1>1. /\ pc' = "promote" /\ UNCHANGED L1I /\ next' \in {next, next + 1} BY DEF Promote
<1>2. /\ PacketInv' /\ \A id : Awaited(id)' <=> Awaited(id)
      /\ \A id, b : Carried(id, b)' <=> Carried(id, b)
  BY <1>1, PacketOthers
<1>3. IFETCH_BUFFER # <<>> /\ IFETCH_BUFFER' = Tail(IFETCH_BUFFER) BY PromoteEffect
<1>4. \A i \in DOMAIN IFETCH_BUFFER' : i \in Nat /\ i + 1 \in DOMAIN IFETCH_BUFFER
                                       /\ IFETCH_BUFFER'[i] = IFETCH_BUFFER[i + 1]
  BY <1>3, BufferTypes, TailFacts
<1>5. \A i, j \in DOMAIN IFETCH_BUFFER' : i <= j => i + 1 <= j + 1 BY <1>4
<1>6. \A i, j \in DOMAIN IFETCH_BUFFER' :
        i <= j /\ IFETCH_BUFFER'[i].fetched = "no" => ~Awaited(IFETCH_BUFFER[j].instr_id)'
  <2> SUFFICES ASSUME NEW i \in DOMAIN IFETCH_BUFFER', NEW j \in DOMAIN IFETCH_BUFFER', i <= j,
                      IFETCH_BUFFER'[i].fetched = "no"
               PROVE  ~Awaited(IFETCH_BUFFER[j].instr_id)'
    OBVIOUS
  <2>1. ~Awaited(IFETCH_BUFFER[j + 1].instr_id) BY <1>4, <1>5 DEF FetchInv
  <2>2. \A id : id = IFETCH_BUFFER'[j].instr_id => (Awaited(IFETCH_BUFFER[j].instr_id)' => Awaited(id)')
    BY DEF Awaited
  <2>3. IFETCH_BUFFER'[j].instr_id = IFETCH_BUFFER[j + 1].instr_id BY <1>4
  <2> QED BY <1>2, <2>1, <2>2, <2>3
<1>7. FetchInv'
  <2>1. \A i, j \in DOMAIN IFETCH_BUFFER' :
          i <= j /\ IFETCH_BUFFER'[j].dib_checked => IFETCH_BUFFER'[i].dib_checked
    BY <1>4, <1>5 DEF FetchInv
  <2> QED BY <1>1, <1>6, <2>1 DEF FetchInv
<1>8. PendingInv'
  <2> SUFFICES ASSUME NEW i \in DOMAIN IFETCH_BUFFER', IFETCH_BUFFER'[i].fetched = "INFLIGHT"
               PROVE  Carried(IFETCH_BUFFER[i].instr_id, BlockOf[IFETCH_BUFFER[i].window])'
    BY DEF PendingInv
  <2>1. Carried(IFETCH_BUFFER[i + 1].instr_id, BlockOf[IFETCH_BUFFER[i + 1].window])
    BY <1>4 DEF PendingInv
  <2>2. \A id, b : id = IFETCH_BUFFER'[i].instr_id /\ b = BlockOf[IFETCH_BUFFER'[i].window] =>
                     (Carried(id, b)' => Carried(IFETCH_BUFFER[i].instr_id, BlockOf[IFETCH_BUFFER[i].window])')
    BY DEF Carried
  <2>3. IFETCH_BUFFER'[i] = IFETCH_BUFFER[i + 1] BY <1>4
  <2> QED BY <1>2, <2>1, <2>2, <2>3
<1> QED BY <1>2, <1>7, <1>8

LEMMA FetchInitialize ==
  ASSUME TypeOK, PacketInv, FetchInv, PendingInv, NEW w \in Windows,
         InitPlain(w) \/ InitTaken(w) \/ InitMispredicted(w)
  PROVE  FetchInv' /\ PendingInv' /\ PacketInv'
<1>1. /\ pc' = "init" /\ UNCHANGED L1I /\ next' \in {next, next + 1} BY InitializeEffect
<1>2. /\ PacketInv' /\ \A id : Awaited(id)' <=> Awaited(id)
      /\ \A id, b : Carried(id, b)' <=> Carried(id, b)
  BY <1>1, PacketOthers
<1>3. PICK x \in instr_type : /\ IFETCH_BUFFER' = Append(IFETCH_BUFFER, x)
                              /\ x.instr_id = next /\ x.fetched = "no" /\ ~x.dib_checked
  BY InitializeEffect
<1> DEFINE n == Len(IFETCH_BUFFER) + 1
<1>4. /\ DOMAIN IFETCH_BUFFER' = DOMAIN IFETCH_BUFFER \cup {n} /\ IFETCH_BUFFER'[n] = x
      /\ \A i \in DOMAIN IFETCH_BUFFER : IFETCH_BUFFER'[i] = IFETCH_BUFFER[i] /\ i < n
      /\ n \in Nat /\ \A i \in DOMAIN IFETCH_BUFFER : i \in Nat
  <2>1. /\ IFETCH_BUFFER' \in Seq(instr_type) /\ Len(IFETCH_BUFFER') = Len(IFETCH_BUFFER) + 1
        /\ IFETCH_BUFFER'[n] = x /\ \A i \in 1..Len(IFETCH_BUFFER) : IFETCH_BUFFER'[i] = IFETCH_BUFFER[i]
    BY <1>3, BufferTypes, AppendFacts
  <2>2. Len(IFETCH_BUFFER) \in Nat /\ DOMAIN IFETCH_BUFFER = 1..Len(IFETCH_BUFFER) BY Lengths
  <2>3. DOMAIN IFETCH_BUFFER' = 1..(Len(IFETCH_BUFFER) + 1) BY <2>1, <2>2
  <2> QED BY <2>1, <2>2, <2>3
<1> HIDE DEF n
<1>5. ~Awaited(next)
  <2>1. next \notin 1..(next - 1) BY Numbers
  <2> QED BY <2>1 DEF Awaited, PacketInv
<1>6. \A i, j \in DOMAIN IFETCH_BUFFER' :
        i <= j /\ IFETCH_BUFFER'[i].fetched = "no" => ~Awaited(IFETCH_BUFFER[j].instr_id)'
  <2> SUFFICES ASSUME NEW i \in DOMAIN IFETCH_BUFFER', NEW j \in DOMAIN IFETCH_BUFFER', i <= j,
                      IFETCH_BUFFER'[i].fetched = "no"
               PROVE  ~Awaited(IFETCH_BUFFER[j].instr_id)'
    OBVIOUS
  <2>1. ~Awaited(IFETCH_BUFFER'[j].instr_id)
    <3>1. CASE j = n
      <4>1. IFETCH_BUFFER'[j].instr_id = next BY <1>3, <1>4, <3>1
      <4> QED BY <1>5, <4>1
    <3>2. CASE j # n
      <4>1. i # n /\ i \in DOMAIN IFETCH_BUFFER /\ j \in DOMAIN IFETCH_BUFFER BY <1>4, <3>2
      <4>2. IFETCH_BUFFER'[i] = IFETCH_BUFFER[i] /\ IFETCH_BUFFER'[j] = IFETCH_BUFFER[j] BY <1>4, <4>1
      <4>3. ~Awaited(IFETCH_BUFFER[j].instr_id) BY <4>1, <4>2 DEF FetchInv
      <4> QED BY <4>2, <4>3
    <3> QED BY <3>1, <3>2
  <2>2. \A id : id = IFETCH_BUFFER'[j].instr_id => (Awaited(IFETCH_BUFFER[j].instr_id)' => Awaited(id)')
    BY DEF Awaited
  <2> QED BY <1>2, <2>1, <2>2
<1>7. FetchInv'
  <2>1. \A i, j \in DOMAIN IFETCH_BUFFER' :
          i <= j /\ IFETCH_BUFFER'[j].dib_checked => IFETCH_BUFFER'[i].dib_checked
    BY <1>3, <1>4 DEF FetchInv
  <2> QED BY <1>1, <1>6, <2>1 DEF FetchInv
<1>8. PendingInv'
  <2> SUFFICES ASSUME NEW i \in DOMAIN IFETCH_BUFFER', IFETCH_BUFFER'[i].fetched = "INFLIGHT"
               PROVE  Carried(IFETCH_BUFFER[i].instr_id, BlockOf[IFETCH_BUFFER[i].window])'
    BY DEF PendingInv
  <2>1. i # n BY <1>3, <1>4
  <2>2. i \in DOMAIN IFETCH_BUFFER /\ IFETCH_BUFFER'[i] = IFETCH_BUFFER[i] BY <1>4, <2>1
  <2>3. Carried(IFETCH_BUFFER[i].instr_id, BlockOf[IFETCH_BUFFER[i].window])
    BY <2>2 DEF PendingInv
  <2>4. \A id, b : id = IFETCH_BUFFER'[i].instr_id /\ b = BlockOf[IFETCH_BUFFER'[i].window] =>
                     (Carried(id, b)' => Carried(IFETCH_BUFFER[i].instr_id, BlockOf[IFETCH_BUFFER[i].window])')
    BY DEF Carried
  <2> QED BY <1>2, <2>2, <2>3, <2>4
<1> QED BY <1>2, <1>7, <1>8

\* What leaves the packets and IFETCH_BUFFER alone; EndPromote starts fetch_instruction.
LEMMA FetchOthers ==
  ASSUME TypeOK, PacketInv, FetchInv, PendingInv, UNCHANGED <<L1I, IFETCH_BUFFER, next>>,
         pc' = "fetch" => (at' = 1 \/ Len(asked) >= L1I_SIZE)
  PROVE  FetchInv' /\ PendingInv' /\ PacketInv'
<1>1. UNCHANGED L1I /\ next' \in {next, next + 1} /\ IFETCH_BUFFER' = IFETCH_BUFFER OBVIOUS
<1>2. /\ PacketInv' /\ \A id : Awaited(id)' <=> Awaited(id)
      /\ \A id, b : Carried(id, b)' <=> Carried(id, b)
  BY <1>1, PacketOthers
<1>3. PendingInv' BY <1>1, <1>2 DEF PendingInv
<1>4. pc' = "fetch" /\ Len(asked') < L1I_SIZE =>
        \A i \in DOMAIN IFETCH_BUFFER' :
          i < at' => ~(IFETCH_BUFFER'[i].dib_checked /\ IFETCH_BUFFER'[i].fetched = "no")
  <2>1. \A i \in DOMAIN IFETCH_BUFFER : ~(i < 1) BY Lengths
  <2>2. Len(asked') = Len(asked) /\ Len(asked) \in Nat /\ L1I_SIZE \in Nat
    BY PacketIndices, Constants DEF L1I
  <2>3. Len(asked') < L1I_SIZE => ~(Len(asked) >= L1I_SIZE) BY <2>2
  <2> QED BY <1>1, <2>1, <2>3
<1>5. FetchInv' BY <1>1, <1>2, <1>4 DEF FetchInv
<1> QED BY <1>2, <1>3, <1>5

LEMMA FetchStep ==
  ASSUME TypeOK, RoomInv, OrderInv, PacketInv, FetchInv, PendingInv, Next
  PROVE  FetchInv' /\ PendingInv' /\ PacketInv'
<1>1. CASE \/ BackEnd \/ EndWarmup \/ StartCycle \/ EndMemory \/ EndDecode \/ EndPromote
           \/ EndFetch \/ EndDib \/ Tick \/ Decode
  <2>1. CASE BackEnd
    <3>1. UNCHANGED <<L1I, IFETCH_BUFFER, next>> /\ pc' = "idle"
      BY <2>1 DEF BackEnd, Dispatch, Complete, buffers
    <3> QED BY <3>1, FetchOthers
  <2>2. CASE EndWarmup
    <3>1. UNCHANGED <<L1I, IFETCH_BUFFER, next>> /\ pc' = "idle" BY <2>2 DEF EndWarmup, buffers
    <3> QED BY <3>1, FetchOthers
  <2>3. CASE StartCycle \/ EndMemory \/ EndDecode \/ EndPromote \/ EndFetch \/ EndDib \/ Tick
    <3>1. UNCHANGED <<L1I, IFETCH_BUFFER, next>> /\ (pc' = "fetch" => at' = 1)
      BY <2>3 DEF StartCycle, EndMemory, EndDecode, EndPromote, EndFetch, EndDib, Tick, GoTo, buffers
    <3> QED BY <3>1, FetchOthers
  <2>4. CASE Decode
    <3>1. UNCHANGED <<L1I, IFETCH_BUFFER, next>> /\ pc' = "decode" BY <2>4 DEF Decode
    <3> QED BY <3>1, FetchOthers
  <2> QED BY <1>1, <2>1, <2>2, <2>3, <2>4
<1>2. ASSUME NEW i \in DOMAIN IFETCH_BUFFER, FetchRefused(i)
      PROVE  FetchInv' /\ PendingInv' /\ PacketInv'
  <2>1. UNCHANGED <<L1I, IFETCH_BUFFER, next>> /\ Len(asked) >= L1I_SIZE
    BY <1>2 DEF FetchRefused, buffers
  <2> QED BY <2>1, FetchOthers
<1>3. \/ \E i \in DOMAIN asked : L1IAnswers(i) \/ \E j \in DOMAIN asked : L1IMerges(i, j)
      \/ BackEnd \/ EndWarmup
      \/ StartCycle \/ EndMemory \/ EndDecode \/ EndPromote \/ EndFetch \/ EndDib \/ Tick
      \/ DanglingFetch \/ Decode \/ Promote
      \/ \E i \in DOMAIN IFETCH_BUFFER : CompleteFetch(i) \/ Fetch(i) \/ FetchRefused(i) \/ CheckDib(i)
      \/ \E w \in Windows : InitPlain(w) \/ InitTaken(w) \/ InitMispredicted(w)
  BY DEF Next, Operate
<1> QED BY <1>1, <1>2, <1>3, FetchEnvironment, FetchMemory, FetchFetch, FetchCheckDib, FetchPromote,
           FetchInitialize
-----------------------------------------------------------------------------
(* Mispredicted branches *)

Waiting(b) == {b[i].instr_id : i \in {i \in DOMAIN b : b[i].mispredicted # "no"}}

LEMMA UnresolvedIs ==
  Unresolved = executing \cup Waiting(IFETCH_BUFFER) \cup Waiting(DECODE_BUFFER)
                         \cup Waiting(DISPATCH_BUFFER)
BY DEF Unresolved, Waiting

LEMMA WaitingTail ==
  ASSUME NEW b \in Seq(instr_type), b # <<>>
  PROVE  Waiting(b) = Waiting(Tail(b)) \cup (IF b[1].mispredicted = "no" THEN {} ELSE {b[1].instr_id})
<1>1. /\ 1 \in DOMAIN b
      /\ \A i \in DOMAIN Tail(b) : i \in Nat /\ i + 1 \in DOMAIN b /\ Tail(b)[i] = b[i + 1]
      /\ \A i \in DOMAIN b : i # 1 => i - 1 \in DOMAIN Tail(b) /\ Tail(b)[i - 1] = b[i]
  BY TailFacts
<1>2. ASSUME NEW id \in Waiting(b)
      PROVE  id \in Waiting(Tail(b)) \cup (IF b[1].mispredicted = "no" THEN {} ELSE {b[1].instr_id})
  <2>1. PICK i \in DOMAIN b : b[i].mispredicted # "no" /\ id = b[i].instr_id BY DEF Waiting
  <2>2. CASE i = 1 BY <2>1, <2>2
  <2>3. CASE i # 1
    <3>1. /\ i - 1 \in DOMAIN Tail(b) /\ Tail(b)[i - 1].mispredicted # "no"
          /\ id = Tail(b)[i - 1].instr_id
      BY <1>1, <2>1, <2>3
    <3> QED BY <3>1 DEF Waiting
  <2> QED BY <2>2, <2>3
<1>3. ASSUME NEW id \in Waiting(Tail(b)) PROVE id \in Waiting(b)
  <2>1. PICK i \in DOMAIN Tail(b) : Tail(b)[i].mispredicted # "no" /\ id = Tail(b)[i].instr_id
    BY DEF Waiting
  <2>2. i + 1 \in DOMAIN b /\ b[i + 1].mispredicted # "no" /\ id = b[i + 1].instr_id BY <1>1, <2>1
  <2> QED BY <2>2 DEF Waiting
<1>4. b[1].mispredicted # "no" => b[1].instr_id \in Waiting(b) BY <1>1 DEF Waiting
<1> QED BY <1>2, <1>3, <1>4

LEMMA WaitingAppend ==
  ASSUME NEW b \in Seq(instr_type), NEW x \in instr_type
  PROVE  Waiting(Append(b, x)) = Waiting(b) \cup (IF x.mispredicted = "no" THEN {} ELSE {x.instr_id})
<1>1. /\ DOMAIN Append(b, x) = DOMAIN b \cup {Len(b) + 1} /\ Append(b, x)[Len(b) + 1] = x
      /\ \A i \in DOMAIN b : Append(b, x)[i] = b[i]
  <2>1. Len(b) \in Nat /\ DOMAIN b = 1..Len(b) OBVIOUS
  <2>2. /\ Append(b, x) \in Seq(instr_type) /\ Len(Append(b, x)) = Len(b) + 1
        /\ Append(b, x)[Len(b) + 1] = x /\ \A i \in 1..Len(b) : Append(b, x)[i] = b[i]
    BY AppendFacts
  <2>3. DOMAIN Append(b, x) = 1..(Len(b) + 1) BY <2>1, <2>2
  <2> QED BY <2>1, <2>2, <2>3
<1> DEFINE c == Append(b, x)  n == Len(b) + 1
<1> HIDE DEF c, n
<1>2. DOMAIN c = DOMAIN b \cup {n} /\ c[n] = x /\ \A i \in DOMAIN b : c[i] = b[i] BY <1>1 DEF c, n
<1>3. Waiting(c) = Waiting(b) \cup (IF x.mispredicted = "no" THEN {} ELSE {x.instr_id})
  BY <1>2 DEF Waiting
<1> QED BY <1>3 DEF c

\* Where the numbers of the waiting branches of each buffer lie.
LEMMA WaitingRange ==
  ASSUME TypeOK, OrderInv
  PROVE  /\ \A id \in Waiting(IFETCH_BUFFER) : id \in Nat /\ id > Promoted
         /\ \A id \in Waiting(DECODE_BUFFER) : id \in Nat /\ id > Decoded /\ id <= Promoted
         /\ \A id \in Waiting(DISPATCH_BUFFER) : id \in Nat /\ id > Dispatched /\ id <= Decoded
         /\ \A id \in executing : id \in Nat /\ id <= Dispatched
<1>1. \A i \in DOMAIN IFETCH_BUFFER :
        IFETCH_BUFFER[i].instr_id \in Nat /\ IFETCH_BUFFER[i].instr_id > Promoted
  <2> TAKE i \in DOMAIN IFETCH_BUFFER
  <2>1. i \in Nat \ {0} /\ Promoted \in Int BY Lengths
  <2>2. IFETCH_BUFFER[i].instr_id = Promoted + i BY DEF OrderInv
  <2> QED BY <2>1, <2>2, IdTypes
<1>2. \A i \in DOMAIN DECODE_BUFFER :
        /\ DECODE_BUFFER[i].instr_id \in Nat /\ DECODE_BUFFER[i].instr_id > Decoded
        /\ DECODE_BUFFER[i].instr_id <= Promoted
  <2> TAKE i \in DOMAIN DECODE_BUFFER
  <2>1. i \in 1..Len(DECODE_BUFFER) /\ Len(DECODE_BUFFER) \in Nat /\ Decoded \in Int
        /\ Decoded + Len(DECODE_BUFFER) = Promoted
    BY Lengths
  <2>2. DECODE_BUFFER[i].instr_id = Decoded + i BY DEF OrderInv
  <2> QED BY <2>1, <2>2, IdTypes
<1>3. \A i \in DOMAIN DISPATCH_BUFFER :
        /\ DISPATCH_BUFFER[i].instr_id \in Nat /\ DISPATCH_BUFFER[i].instr_id > Dispatched
        /\ DISPATCH_BUFFER[i].instr_id <= Decoded
  <2> TAKE i \in DOMAIN DISPATCH_BUFFER
  <2>1. i \in 1..Len(DISPATCH_BUFFER) /\ Len(DISPATCH_BUFFER) \in Nat /\ Dispatched \in Int
        /\ Dispatched + Len(DISPATCH_BUFFER) = Decoded
    BY Lengths
  <2>2. DISPATCH_BUFFER[i].instr_id = Dispatched + i BY DEF OrderInv
  <2> QED BY <2>1, <2>2, IdTypes
<1>4. \A id \in executing : id \in Nat /\ id <= Dispatched BY IdTypes DEF OrderInv
<1>5. \A id \in Waiting(IFETCH_BUFFER) : \E i \in DOMAIN IFETCH_BUFFER : id = IFETCH_BUFFER[i].instr_id
  BY DEF Waiting
<1>6. \A id \in Waiting(DECODE_BUFFER) : \E i \in DOMAIN DECODE_BUFFER : id = DECODE_BUFFER[i].instr_id
  BY DEF Waiting
<1>7. \A id \in Waiting(DISPATCH_BUFFER) :
        \E i \in DOMAIN DISPATCH_BUFFER : id = DISPATCH_BUFFER[i].instr_id
  BY DEF Waiting
<1>8. /\ \A id \in Waiting(IFETCH_BUFFER) : id \in Nat /\ id > Promoted BY <1>1, <1>5
<1>9. \A id \in Waiting(DECODE_BUFFER) : id \in Nat /\ id > Decoded /\ id <= Promoted BY <1>2, <1>6
<1>10. \A id \in Waiting(DISPATCH_BUFFER) : id \in Nat /\ id > Dispatched /\ id <= Decoded
  BY <1>3, <1>7
<1> QED BY <1>4, <1>8, <1>9, <1>10

\* The primed form of UnresolvedIs.
LEMMA UnresolvedThen ==
  Unresolved' = executing' \cup Waiting(IFETCH_BUFFER') \cup Waiting(DECODE_BUFFER')
                           \cup Waiting(DISPATCH_BUFFER')
BY DEF Unresolved, Waiting

LEMMA BranchKept ==
  ASSUME TypeOK, MispredictionStopsFetch, SameOrder, resume' \in {resume, Sooner(resume)}
  PROVE  MispredictionStopsFetch'
<1>1. Waiting(IFETCH_BUFFER') = Waiting(IFETCH_BUFFER) BY DEF SameOrder, Waiting
<1>2. Waiting(DECODE_BUFFER') = Waiting(DECODE_BUFFER) BY DEF SameOrder, Waiting
<1>3. Waiting(DISPATCH_BUFFER') = Waiting(DISPATCH_BUFFER) /\ executing' = executing /\ next' = next
  BY DEF SameOrder, Waiting
<1>4. Unresolved' = Unresolved BY <1>1, <1>2, <1>3, UnresolvedIs, UnresolvedThen
<1>5. resume' = Never <=> resume = Never
  <2>1. resume \in Nat \cup {Never} BY DEF TypeOK
  <2> QED BY <2>1 DEF Sooner, Never
<1> QED BY <1>3, <1>4, <1>5 DEF MispredictionStopsFetch

LEMMA BranchDecode ==
  ASSUME TypeOK, OrderInv, MispredictionStopsFetch, Decode
  PROVE  MispredictionStopsFetch'
<1> DEFINE y == DECODE_BUFFER[1]
<1>1. PICK x \in instr_type :
        /\ DISPATCH_BUFFER' = Append(DISPATCH_BUFFER, x) /\ x.instr_id = y.instr_id
        /\ x.mispredicted = IF y.mispredicted = "decode" THEN "no" ELSE y.mispredicted
  BY DecodeEffect
<1>2. DECODE_BUFFER # <<>> /\ DECODE_BUFFER' = Tail(DECODE_BUFFER) BY DecodeEffect
<1>3. /\ resume' = IF y.mispredicted = "decode" THEN BRANCH_MISPREDICT_PENALTY ELSE resume
      /\ UNCHANGED <<next, IFETCH_BUFFER, executing>>
  BY DEF Decode
<1>4. y.instr_id = Decoded + 1 /\ Decoded \in Int
  <2>1. 1 \in DOMAIN DECODE_BUFFER BY <1>2, BufferTypes, TailFacts
  <2> QED BY <2>1, Lengths DEF OrderInv
<1> HIDE DEF y
<1>5. Waiting(DECODE_BUFFER) = Waiting(DECODE_BUFFER')
                               \cup (IF y.mispredicted = "no" THEN {} ELSE {y.instr_id})
  BY <1>2, BufferTypes, WaitingTail DEF y
<1>6. Waiting(DISPATCH_BUFFER') = Waiting(DISPATCH_BUFFER)
                                  \cup (IF x.mispredicted = "no" THEN {} ELSE {x.instr_id})
  BY <1>1, BufferTypes, WaitingAppend
<1>7. CASE y.mispredicted # "decode"
  <2>1. Unresolved' = Unresolved BY <1>1, <1>3, <1>5, <1>6, <1>7, UnresolvedIs, UnresolvedThen
  <2> QED BY <1>3, <1>7, <2>1 DEF MispredictionStopsFetch
<1>8. CASE y.mispredicted = "decode"
  <2>1. y.instr_id \in Unresolved BY <1>5, <1>8, UnresolvedIs
  <2>2. Unresolved = {y.instr_id} BY <2>1 DEF MispredictionStopsFetch
  <2>3. Unresolved' \subseteq Unresolved BY <1>1, <1>3, <1>5, <1>6, <1>8, UnresolvedIs, UnresolvedThen
  <2>4. y.instr_id \notin Waiting(IFETCH_BUFFER)
    <3>1. Promoted >= Decoded + 1
      <4>1. Len(DECODE_BUFFER) >= 1
        <5>1. 1 \in 1..Len(DECODE_BUFFER) /\ Len(DECODE_BUFFER) \in Nat
          BY <1>2, BufferTypes, Lengths, TailFacts
        <5> QED BY <5>1
      <4> QED BY <4>1, Lengths
    <3> QED BY <1>4, <3>1, Lengths, WaitingRange
  <2>5. y.instr_id \notin Waiting(DISPATCH_BUFFER) BY <1>4, WaitingRange
  <2>6. y.instr_id \notin executing
    <3>1. Dispatched <= Decoded BY Lengths
    <3> QED BY <1>4, <3>1, Lengths, WaitingRange
  <2>7. y.instr_id \notin Waiting(DECODE_BUFFER')
    <3>1. OrderInv' BY OrderDecode
    <3>2. \A i \in DOMAIN DECODE_BUFFER' : DECODE_BUFFER'[i].instr_id = Decoded' + i /\ i \in Nat \ {0}
      BY <1>2, <3>1, BufferTypes, MoveTypes DEF OrderInv
    <3>3. Decoded' = Decoded + 1
      <4>1. Len(DECODE_BUFFER') = Len(DECODE_BUFFER) - 1 BY <1>2, BufferTypes, TailFacts
      <4>2. Promoted' = Promoted BY <1>3 DEF Promoted
      <4> QED BY <4>1, <4>2, Lengths DEF Decoded
    <3> QED BY <1>4, <3>2, <3>3 DEF Waiting
  <2>8. Unresolved' = {} BY <1>1, <1>3, <1>6, <1>8, <2>2, <2>3, <2>4, <2>5, <2>6, <2>7, UnresolvedThen
  <2>9. resume' # Never BY <1>3, <1>8, Constants DEF Never
  <2> QED BY <2>8, <2>9 DEF MispredictionStopsFetch
<1> QED BY <1>7, <1>8

LEMMA BranchPromote ==
  ASSUME TypeOK, MispredictionStopsFetch, Promote
  PROVE  MispredictionStopsFetch'
<1> DEFINE y == IFETCH_BUFFER[1]
<1>1. PICK x \in instr_type : /\ DECODE_BUFFER' = Append(DECODE_BUFFER, x) /\ x.instr_id = y.instr_id
                              /\ x.mispredicted = y.mispredicted
  BY PromoteEffect
<1>2. IFETCH_BUFFER # <<>> /\ IFETCH_BUFFER' = Tail(IFETCH_BUFFER) BY PromoteEffect
<1> HIDE DEF y
<1>3. UNCHANGED <<next, DISPATCH_BUFFER, resume, executing>> BY DEF Promote
<1>4. Waiting(IFETCH_BUFFER) = Waiting(IFETCH_BUFFER')
                               \cup (IF y.mispredicted = "no" THEN {} ELSE {y.instr_id})
  BY <1>2, BufferTypes, WaitingTail DEF y
<1>5. Waiting(DECODE_BUFFER') = Waiting(DECODE_BUFFER)
                                \cup (IF x.mispredicted = "no" THEN {} ELSE {x.instr_id})
  BY <1>1, BufferTypes, WaitingAppend
<1>6. Unresolved' = Unresolved BY <1>1, <1>3, <1>4, <1>5, UnresolvedIs, UnresolvedThen
<1> QED BY <1>3, <1>6 DEF MispredictionStopsFetch

LEMMA BranchInitialize ==
  ASSUME TypeOK, MispredictionStopsFetch, NEW w \in Windows,
         InitPlain(w) \/ InitTaken(w) \/ InitMispredicted(w)
  PROVE  MispredictionStopsFetch'
<1>1. /\ resume = 0 /\ next' = next + 1 /\ resume' \in {0, Never}
      /\ UNCHANGED <<DECODE_BUFFER, DISPATCH_BUFFER, executing>>
  BY InitializeEffect
<1>2. PICK x \in instr_type : /\ IFETCH_BUFFER' = Append(IFETCH_BUFFER, x) /\ x.instr_id = next
                              /\ x.mispredicted = "no" <=> resume' = 0
  BY InitializeEffect
<1>3. Unresolved = {} BY <1>1 DEF MispredictionStopsFetch, Never
<1>4. Waiting(IFETCH_BUFFER') = Waiting(IFETCH_BUFFER)
                                \cup (IF x.mispredicted = "no" THEN {} ELSE {x.instr_id})
  BY <1>2, BufferTypes, WaitingAppend
<1>5. Unresolved' = IF x.mispredicted = "no" THEN {} ELSE {x.instr_id}
  BY <1>1, <1>3, <1>4, UnresolvedIs, UnresolvedThen
<1>6. next' - 1 = next BY <1>1, Numbers
<1>7. resume' = Never <=> x.mispredicted # "no" BY <1>1, <1>2 DEF Never
<1> QED BY <1>2, <1>5, <1>6, <1>7 DEF MispredictionStopsFetch

LEMMA BranchBackEnd ==
  ASSUME TypeOK, OrderInv, MispredictionStopsFetch, BackEnd
  PROVE  MispredictionStopsFetch'
<1>1. CASE Dispatch
  <2> DEFINE y == DISPATCH_BUFFER[1]
  <2>1. /\ DISPATCH_BUFFER # <<>> /\ DISPATCH_BUFFER' = Tail(DISPATCH_BUFFER)
        /\ executing' = executing \cup (IF y.mispredicted = "no" THEN {} ELSE {y.instr_id})
        /\ UNCHANGED <<next, IFETCH_BUFFER, DECODE_BUFFER, resume>>
    BY <1>1 DEF Dispatch
  <2>2. Waiting(DISPATCH_BUFFER) = Waiting(DISPATCH_BUFFER')
                                   \cup (IF y.mispredicted = "no" THEN {} ELSE {y.instr_id})
    BY <2>1, BufferTypes, WaitingTail
  <2> HIDE DEF y
  <2>3. Unresolved' = Unresolved BY <2>1, <2>2, UnresolvedIs, UnresolvedThen
  <2> QED BY <2>1, <2>3 DEF MispredictionStopsFetch
<1>2. ASSUME NEW id \in executing, Complete(id) PROVE MispredictionStopsFetch'
  <2>1. /\ executing' = executing \ {id} /\ resume' = BRANCH_MISPREDICT_PENALTY
        /\ UNCHANGED <<next, IFETCH_BUFFER, DECODE_BUFFER, DISPATCH_BUFFER>>
    BY <1>2 DEF Complete, buffers
  <2>2. id \in Unresolved BY UnresolvedIs
  <2>3. Unresolved = {id} BY <2>2 DEF MispredictionStopsFetch
  <2>4. id \in Nat /\ id <= Dispatched BY WaitingRange
  <2>5. Dispatched <= Decoded /\ Decoded <= Promoted BY Lengths
  <2>6. id <= Decoded /\ id <= Promoted BY <2>4, <2>5, Lengths
  <2>7. /\ id \notin Waiting(IFETCH_BUFFER) /\ id \notin Waiting(DECODE_BUFFER)
        /\ id \notin Waiting(DISPATCH_BUFFER)
    BY <2>4, <2>6, Lengths, WaitingRange
  <2>8. Unresolved' = {} BY <2>1, <2>3, <2>7, UnresolvedIs, UnresolvedThen
  <2>9. resume' # Never BY <2>1, Constants DEF Never
  <2> QED BY <2>8, <2>9 DEF MispredictionStopsFetch
<1> QED BY <1>1, <1>2 DEF BackEnd

LEMMA BranchStep ==
  ASSUME TypeOK, RoomInv, OrderInv, MispredictionStopsFetch, Next
  PROVE  MispredictionStopsFetch'
BY WhoKeepsOrder, BranchKept, BranchDecode, BranchPromote, BranchInitialize, BranchBackEnd
-----------------------------------------------------------------------------
(* The invariant *)

LEMMA InitInv ==
  ASSUME Init
  PROVE  IInv
<1>1. TypeOK
  <2>1. /\ {IFETCH_BUFFER, DECODE_BUFFER, DISPATCH_BUFFER} \subseteq Seq(instr_type)
        /\ {asked, returned} \subseteq Seq(Packet) /\ DIB \in Seq(Windows)
    BY DEF Init
  <2>2. /\ Len(IFETCH_BUFFER) = 0 /\ Len(DECODE_BUFFER) = 0 /\ Len(DISPATCH_BUFFER) = 0 /\ Len(DIB) = 0
    BY DEF Init
  <2>3. /\ 0 <= IFETCH_BUFFER_SIZE /\ 0 <= DECODE_BUFFER_SIZE /\ 0 <= DISPATCH_BUFFER_SIZE /\ 0 <= DIB_WAY
        /\ 0 \in 0..L1I_BANDWIDTH /\ 1 \in 1..(IFETCH_BUFFER_SIZE + 1) /\ 1 \in 1..(TraceLength + 1)
    BY Constants
  <2> QED BY <2>1, <2>2, <2>3 DEF Init, TypeOK
<1>2. RoomInv BY DEF Init, RoomInv
<1>3. OrderInv BY DEF Init, OrderInv, Dispatched, Decoded, Promoted
<1>4. PacketInv BY DEF Init, PacketInv
<1>5. FetchInv BY DEF Init, FetchInv
<1>6. PendingInv BY DEF Init, PendingInv
<1>7. MispredictionStopsFetch
  <2>1. Waiting(<<>>) = {} BY DEF Waiting
  <2>2. Unresolved = {} BY <2>1, UnresolvedIs DEF Init
  <2> QED BY <2>2 DEF Init, MispredictionStopsFetch, Never
<1> QED BY <1>1, <1>2, <1>3, <1>4, <1>5, <1>6, <1>7 DEF IInv

LEMMA NextInv ==
  ASSUME IInv, [Next]_vars
  PROVE  IInv'
<1>1. CASE Next
  <2>1. TypeOK /\ RoomInv /\ OrderInv /\ PacketInv /\ FetchInv /\ PendingInv /\ MispredictionStopsFetch
    BY DEF IInv
  <2> QED BY <1>1, <2>1, TypeStep, OrderStep, FetchStep, BranchStep DEF IInv
<1>2. CASE UNCHANGED vars
  <2>1. TypeOK' /\ RoomInv' BY <1>2 DEF IInv, TypeOK, RoomInv, vars, buffers, L1I
  <2>2. OrderInv' BY <1>2 DEF IInv, OrderInv, Dispatched, Decoded, Promoted, vars, buffers
  <2>3. PacketInv' BY <1>2 DEF IInv, PacketInv, vars, L1I
  <2>4. FetchInv' BY <1>2 DEF IInv, FetchInv, Awaited, vars, buffers, L1I
  <2>5. PendingInv' BY <1>2 DEF IInv, PendingInv, Carried, vars, buffers, L1I
  <2>6. MispredictionStopsFetch' BY <1>2 DEF IInv, MispredictionStopsFetch, Unresolved, vars, buffers
  <2> QED BY <2>1, <2>2, <2>3, <2>4, <2>5, <2>6 DEF IInv
<1> QED BY <1>1, <1>2

\* The invariant holds in every state: the types, the order of the instructions, the
\* packets and the branches of the front end.
THEOREM Invariance == Spec => []IInv
<1>1. Init => IInv BY InitInv
<1>2. IInv /\ [Next]_vars => IInv' BY NextInv
<1> QED BY <1>1, <1>2, PTL DEF Spec

LEMMA PendingFollows ==
  ASSUME IInv
  PROVE  FetchesArePending
<1>1. TypeOK /\ PacketInv /\ PendingInv BY DEF IInv
<1>2. ASSUME NEW i \in DOMAIN IFETCH_BUFFER, IFETCH_BUFFER[i].fetched = "INFLIGHT"
      PROVE  \E p \in Packets : /\ IFETCH_BUFFER[i].instr_id \in p.instr_depend_on_me
                                /\ BlockOf[IFETCH_BUFFER[i].window] = p.block
  <2>1. Carried(IFETCH_BUFFER[i].instr_id, BlockOf[IFETCH_BUFFER[i].window])
    BY <1>1, <1>2 DEF PendingInv
  <2> QED BY <2>1 DEF Carried, Packets
<1>3. ASSUME NEW p \in Packets, NEW q \in Packets, p # q
      PROVE  p.instr_depend_on_me \cap q.instr_depend_on_me = {}
  BY <1>1, <1>3 DEF PacketInv, Packets
<1> QED BY <1>1, <1>2, <1>3 DEF FetchesArePending

\* Every instruction in flight is the dependent of one packet of its block, asked for or
\* answered (fetch_instruction and handle_memory_return): whatever the L1I merges,
\* refuses or answers late, and whichever dangling reference an answer follows.
THEOREM FetchesAreAlwaysPending == Spec => []FetchesArePending
<1>1. IInv => FetchesArePending BY PendingFollows
<1> QED BY <1>1, Invariance, PTL

\* Fetch stands still exactly while one mispredicted branch is unresolved, the last
\* instruction that was fetched; decode_instruction or do_complete_execution resolves it,
\* and one of them only.
THEOREM MispredictionAlwaysStopsFetch == Spec => []MispredictionStopsFetch
<1>1. IInv => MispredictionStopsFetch BY DEF IInv
<1> QED BY <1>1, Invariance, PTL
=============================================================================
