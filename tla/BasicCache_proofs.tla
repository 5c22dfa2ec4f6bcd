------------------------- MODULE BasicCache_proofs --------------------------
(***************************************************************************)
(* Proofs about one CACHE of the older simulator, of every kind, for any   *)
(* number of ways, queue entries, MSHRs, blocks and loads.  Three          *)
(* invariants: what each queue may hold (TypeInv), that the RQ, the PQ and *)
(* the MSHRs keep one entry for a block and hold each waiting level in     *)
(* exactly one of them (HolderInv), and that the levels above wait for no  *)
(* more than the RQ has room for (RoomInv), without which add_rq would     *)
(* forget a read.                                                          *)
(***************************************************************************)
EXTENDS BasicCache, FiniteSetTheorems, WellFoundedInduction, NaturalsInduction, TLAPS

Levels  == {Up, Here, Below}
Packets == {p \in [address : Blocks, type : {"LOAD", "PREFETCH", "RFO", "WRITEBACK"},
                   fill_level : Levels, instruction : BOOLEAN, loads : SUBSET Loads,
                   returned : BOOLEAN] :
              /\ p.instruction <=> p.address \in CodeBlocks
              /\ p.type = "PREFETCH" => p.loads = {}}
Reads      == {p \in Packets : /\ p.type = "LOAD" /\ ~p.returned
                               /\ p.fill_level = IF kind = "L1D" THEN Here ELSE Up}
Prefetches == {p \in Packets : p.type = "PREFETCH" /\ ~p.returned}
Writes     == {p \in Packets : p.type # "PREFETCH" /\ p.loads = {} /\ ~p.returned}

\* A queue with one entry for a block at most.
OnePerBlock(q) == \A m, n \in DOMAIN q : q[m].address = q[n].address => m = n

\* MSHRs, by the blocks that they are for.
MshrsOK(m) == /\ DOMAIN m \subseteq Blocks /\ m \in [DOMAIN m -> Packets]
              /\ \A a \in DOMAIN m : m[a].address = a

TypeInv ==
  /\ kind \in Kinds
  /\ RQ \in Seq(Reads) /\ OnePerBlock(RQ)
  /\ PQ \in Seq(Prefetches) /\ OnePerBlock(PQ)
  /\ WQ \in Seq(Writes)
  /\ MshrsOK(MSHR)
  /\ block \in [Ways -> [address : Blocks \cup {None}, valid : BOOLEAN, dirty : BOOLEAN]]
-----------------------------------------------------------------------------
(* Sequences and least elements *)

LEMMA LeastWay == ASSUME NEW S \in SUBSET Ways, S # {}
                  PROVE  \E n \in S : \A m \in S : n <= m
<1>1. S \subseteq Nat BY DEF Ways
<1>2. PICK n \in S : \A m \in Nat : <<m, n>> \in OpToRel(<, Nat) => m \notin S
  BY <1>1, NatLessThanWellFounded, WFMin
<1>3. \A m \in S : ~(m < n) BY <1>1, <1>2 DEF OpToRel
<1> QED BY <1>1, <1>3

LEMMA HitWayHits == ASSUME NEW a, Hits(a) # {} PROVE HitWay(a) \in Hits(a)
<1>1. Hits(a) \subseteq Ways BY DEF Hits
<1>2. \E n \in Hits(a) : \A m \in Hits(a) : n <= m BY <1>1, LeastWay
<1> QED BY <1>2 DEF HitWay

LEMMA AppendSet ==
  ASSUME NEW S, NEW q \in Seq(S), NEW p \in S
  PROVE  /\ Append(q, p) \in Seq(S) /\ ToSet(Append(q, p)) = ToSet(q) \cup {p}
<1>1. DOMAIN Append(q, p) = DOMAIN q \cup {Len(q) + 1} OBVIOUS
<1>2. \A n \in DOMAIN q : Append(q, p)[n] = q[n] OBVIOUS
<1>3. Append(q, p)[Len(q) + 1] = p OBVIOUS
<1> QED BY <1>1, <1>2, <1>3 DEF ToSet

LEMMA AppendOnePerBlock ==
  ASSUME NEW S, NEW q \in Seq(S), NEW p \in S, OnePerBlock(q), ~InQueue(q, p.address)
  PROVE  OnePerBlock(Append(q, p))
<1>1. DOMAIN Append(q, p) = DOMAIN q \cup {Len(q) + 1} OBVIOUS
<1>2. \A n \in DOMAIN q : Append(q, p)[n] = q[n] /\ n # Len(q) + 1 OBVIOUS
<1>3. Append(q, p)[Len(q) + 1] = p OBVIOUS
<1>4. \A n \in DOMAIN q : q[n].address # p.address BY DEF InQueue
<1> QED BY <1>1, <1>2, <1>3, <1>4 DEF OnePerBlock

LEMMA TailFacts ==
  ASSUME NEW S, NEW q \in Seq(S), q # << >>
  PROVE  /\ Head(q) \in S /\ Tail(q) \in Seq(S)
         /\ \A a : InQueue(q, a) => InQueue(Tail(q), a) \/ a = Head(q).address
         /\ ToSet(q) = ToSet(Tail(q)) \cup {Head(q)}
<1>1. /\ DOMAIN q = {1} \cup {n + 1 : n \in DOMAIN Tail(q)}
      /\ \A n \in DOMAIN Tail(q) : Tail(q)[n] = q[n + 1]
      /\ q[1] = Head(q) /\ Head(q) \in S /\ Tail(q) \in Seq(S)
  <2>1. Len(q) \in Nat /\ Len(q) >= 1 /\ DOMAIN q = 1..Len(q) OBVIOUS
  <2>2. DOMAIN Tail(q) = 1..(Len(q) - 1) OBVIOUS
  <2>3. \A n \in DOMAIN Tail(q) : Tail(q)[n] = q[n + 1] OBVIOUS
  <2>4. \A n \in 2..Len(q) : n - 1 \in 1..(Len(q) - 1) /\ n = (n - 1) + 1 BY <2>1
  <2>5. \A n \in 1..(Len(q) - 1) : n + 1 \in 2..Len(q) BY <2>1
  <2>6. 1..Len(q) = {1} \cup 2..Len(q) BY <2>1
  <2>7. 2..Len(q) = {n + 1 : n \in 1..(Len(q) - 1)} BY <2>4, <2>5
  <2>8. DOMAIN q = {1} \cup {n + 1 : n \in DOMAIN Tail(q)} BY <2>1, <2>2, <2>6, <2>7
  <2>9. q[1] = Head(q) /\ Head(q) \in S /\ Tail(q) \in Seq(S) BY <2>1
  <2> QED BY <2>3, <2>8, <2>9
<1> QED BY <1>1 DEF InQueue, ToSet

\* The rest of a queue has another block than its head.
LEMMA TailOnePerBlock ==
  ASSUME NEW S, NEW q \in Seq(S), q # << >>, OnePerBlock(q)
  PROVE  OnePerBlock(Tail(q)) /\ ToSet(Tail(q)) = ToSet(q) \ {Head(q)}
<1>1. Len(q) \in Nat /\ DOMAIN Tail(q) = 1..(Len(q) - 1) /\ DOMAIN q = 1..Len(q) /\ Head(q) = q[1]
  OBVIOUS
<1>2. \A n \in DOMAIN Tail(q) : Tail(q)[n] = q[n + 1] /\ n + 1 \in DOMAIN q /\ n + 1 # 1 
  BY <1>1
<1>3. \A m, n \in DOMAIN Tail(q) : m + 1 = n + 1 => m = n BY <1>1
<1>4. OnePerBlock(Tail(q)) BY <1>2, <1>3 DEF OnePerBlock
<1>5. 1 \in DOMAIN q BY <1>1
<1>6. \A n \in DOMAIN Tail(q) : Tail(q)[n] # Head(q) BY <1>1, <1>2, <1>5 DEF OnePerBlock
<1>7. ToSet(q) = ToSet(Tail(q)) \cup {Head(q)} BY TailFacts
<1>8. Head(q) \notin ToSet(Tail(q)) BY <1>6 DEF ToSet
<1> QED BY <1>4, <1>7, <1>8
-----------------------------------------------------------------------------
(* Packets that take another one along *)

Joined(e, p) ==
  [e EXCEPT !.loads = @ \cup p.loads, !.fill_level = Least(@, p.fill_level)]

LEMMA JoinedType ==
  ASSUME NEW e \in Packets, NEW p \in Packets, e.type = "PREFETCH" => p.type = "PREFETCH"
  PROVE  /\ Joined(e, p) \in Packets
         /\ Joined(e, p).address = e.address /\ Joined(e, p).type = e.type
         /\ Joined(e, p).returned = e.returned /\ Joined(e, p).instruction = e.instruction
         /\ Joined(e, p).loads = e.loads \cup p.loads
         /\ Joined(e, p).fill_level = Least(e.fill_level, p.fill_level)
<1>1. e.fill_level \in Levels /\ p.fill_level \in Levels BY DEF Packets
<1>2. Least(e.fill_level, p.fill_level) \in Levels BY <1>1 DEF Least
<1>3. e.type = "PREFETCH" => e.loads \cup p.loads = {} BY DEF Packets
<1> QED BY <1>2, <1>3 DEF Joined, Packets

\* Whom a packet answers is joined as well, if both are for one block.
LEMMA JoinedServed ==
  ASSUME NEW e \in Packets, NEW p \in Packets, e.address = p.address,
         e.type = "PREFETCH" => p.type = "PREFETCH"
  PROVE  Served(Joined(e, p)) = Served(e) \cup Served(p)
<1> DEFINE j == Joined(e, p)
<1>1. /\ j.address = e.address /\ j.type = e.type /\ j.instruction = e.instruction
      /\ j.loads = e.loads \cup p.loads /\ j.fill_level = Least(e.fill_level, p.fill_level)
  BY JoinedType
<1>2. e.instruction = p.instruction BY DEF Packets
<1>3. j.fill_level = Up <=> e.fill_level = Up \/ p.fill_level = Up
  <2>1. e.fill_level \in 1..3 /\ p.fill_level \in 1..3 BY DEF Packets, Levels, Up, Here, Below
  <2> QED BY <1>1, <2>1 DEF Least, Up
<1> SUFFICES Served(j) = Served(e) \cup Served(p) OBVIOUS
<1> HIDE DEF j
<1>4. CASE kind = "L1D"
  <2>1. p.type = "PREFETCH" => p.loads = {} BY DEF Packets
  <2> QED BY <1>1, <1>4, <2>1 DEF Served
<1>5. CASE kind # "L1D" BY <1>1, <1>2, <1>3, <1>5 DEF Served
<1> QED BY <1>4, <1>5

LEMMA MergedFacts ==
  ASSUME NEW S \in SUBSET Packets, NEW q \in Seq(S), NEW p \in S,
         InQueue(q, p.address), OnePerBlock(q),
         \A e \in S : Joined(e, p) \in S /\ Joined(e, p).address = e.address
  PROVE  /\ Merged(q, p) \in Seq(S) /\ OnePerBlock(Merged(q, p))
         /\ \E e \in ToSet(q) : /\ e.address = p.address
                                /\ ToSet(Merged(q, p)) = (ToSet(q) \ {e}) \cup {Joined(e, p)}
<1> DEFINE s == Merged(q, p)
<1>1. PICK k \in DOMAIN q : q[k].address = p.address BY DEF InQueue
<1>2. \A n \in DOMAIN q : q[n].address = p.address => n = k BY <1>1 DEF OnePerBlock
<1>3. \A n \in DOMAIN q : q[n] \in S OBVIOUS
<1>4. /\ DOMAIN s = DOMAIN q /\ s[k] = Joined(q[k], p)
      /\ \A n \in DOMAIN q \ {k} : s[n] = q[n]
  BY <1>1, <1>2 DEF Merged, Joined
<1>5. s = [n \in DOMAIN q |-> s[n]] BY DEF Merged
<1>6. \A n \in DOMAIN q : s[n] \in S /\ s[n].address = q[n].address BY <1>3, <1>4
<1>7. s \in Seq(S)
  <2>1. Len(q) \in Nat /\ DOMAIN q = 1..Len(q) OBVIOUS
  <2>2. s \in [1..Len(q) -> S] BY <1>5, <1>6, <2>1
  <2> HIDE DEF s
  <2> QED BY <2>1, <2>2
<1>8. OnePerBlock(s) BY <1>4, <1>6 DEF OnePerBlock
<1>9. ToSet(s) = (ToSet(q) \ {q[k]}) \cup {Joined(q[k], p)}
  <2>1. \A n \in DOMAIN q \ {k} : q[n] # q[k] BY <1>1, <1>2
  <2>2. ToSet(s) = {q[n] : n \in DOMAIN q \ {k}} \cup {Joined(q[k], p)} BY <1>1, <1>4 DEF ToSet
  <2>3. ToSet(q) \ {q[k]} = {q[n] : n \in DOMAIN q \ {k}} BY <1>1, <2>1 DEF ToSet
  <2> QED BY <2>2, <2>3
<1>10. q[k] \in ToSet(q) BY <1>1 DEF ToSet
<1> QED BY <1>1, <1>7, <1>8, <1>9, <1>10

LEMMA MergeMissFacts ==
  ASSUME NEW e \in Packets, NEW p \in Packets, e.address = p.address, p.type # "PREFETCH"
  PROVE  /\ MergeMiss(e, p) \in Packets
         /\ MergeMiss(e, p).address = p.address
         /\ MergeMiss(e, p).returned = e.returned
<1>1. CASE e.type = "PREFETCH"
  <2>1. MergeMiss(e, p) = [p EXCEPT !.returned = e.returned] BY <1>1 DEF MergeMiss
  <2> QED BY <2>1 DEF Packets
<1>2. CASE e.type # "PREFETCH"
  <2>1. MergeMiss(e, p) = Joined(e, p) BY <1>2 DEF MergeMiss, Joined
  <2> QED BY <1>2, <2>1, JoinedType
<1> QED BY <1>1, <1>2

\* A demand that fills this level or the one above takes over what a prefetch serves.
LEMMA MergeMissServed ==
  ASSUME NEW e \in Packets, NEW p \in Packets, e.address = p.address, p.type # "PREFETCH",
         kind # "L1D" => p.fill_level = Up
  PROVE  Served(MergeMiss(e, p)) = Served(e) \cup Served(p)
<1>1. CASE e.type = "PREFETCH"
  <2>1. MergeMiss(e, p) = [p EXCEPT !.returned = e.returned] BY <1>1 DEF MergeMiss
  <2>2. Served(MergeMiss(e, p)) = Served(p) BY <2>1 DEF Packets, Served
  <2>3. e.instruction = p.instruction BY DEF Packets
  <2>4. Served(e) \subseteq Served(p)
    <3>1. CASE kind = "L1D" BY <1>1, <3>1 DEF Served
    <3>2. CASE kind # "L1D" BY <2>3, <3>2 DEF Served
    <3> QED BY <3>1, <3>2
  <2> QED BY <2>2, <2>4
<1>2. CASE e.type # "PREFETCH"
  <2>1. MergeMiss(e, p) = Joined(e, p) BY <1>2 DEF MergeMiss, Joined
  <2> QED BY <1>2, <2>1, JoinedServed
<1> QED BY <1>1, <1>2
-----------------------------------------------------------------------------
(* Types *)

LEMMA KindKept == ASSUME [Next]_vars PROVE kind' = kind /\ Reads' = Reads
<1>1. kind' = kind
  BY DEF Next, vars, AddRq, AddWq, AddPq, InvalidateEntry, HandleFill, HandleWriteback,
         HandleRead, HandlePrefetch, ReturnData
<1> QED BY <1>1 DEF Reads

LEMMA NewRead ==
  ASSUME NEW u, NEW a, MayAsk(u, a)
  PROVE  Packet(a, "LOAD", IF kind = "L1D" THEN Here ELSE Up, u = "icache",
                IF kind = "L1D" THEN {u} ELSE {}) \in Reads
<1>1. a \in Blocks /\ (u = "icache" <=> a \in CodeBlocks)
  BY BlocksAssumption DEF MayAsk, Blocks
<1>2. kind = "L1D" => u \in Loads BY DEF MayAsk, Uppers
<1> QED BY <1>1, <1>2 DEF Packet, Reads, Packets, Levels

LEMMA NewWrite ==
  ASSUME NEW a \in DataBlocks
  PROVE  /\ Packet(a, "RFO", Here, FALSE, {}) \in Writes
         /\ Packet(a, "WRITEBACK", Here, FALSE, {}) \in Writes
BY BlocksAssumption DEF Packet, Writes, Packets, Levels, Blocks

LEMMA NewPrefetch ==
  ASSUME NEW a \in DataBlocks, NEW level \in Levels
  PROVE  Packet(a, "PREFETCH", level, FALSE, {}) \in Prefetches
BY BlocksAssumption DEF Packet, Prefetches, Packets, Blocks

LEMMA ReadsJoin ==
  ASSUME NEW p \in Reads, NEW e \in Reads
  PROVE  Joined(e, p) \in Reads /\ Joined(e, p).address = e.address
<1>1. e \in Packets /\ p \in Packets /\ e.type = "LOAD" BY DEF Reads
<1>2. Least(e.fill_level, p.fill_level) = e.fill_level BY DEF Reads, Least
<1> QED BY <1>1, <1>2, JoinedType DEF Reads

LEMMA PrefetchesJoin ==
  ASSUME NEW p \in Prefetches, NEW e \in Prefetches
  PROVE  Joined(e, p) \in Prefetches /\ Joined(e, p).address = e.address
<1>1. e \in Packets /\ p \in Packets /\ e.type = "PREFETCH" /\ p.type = "PREFETCH"
  BY DEF Prefetches
<1> QED BY <1>1, JoinedType DEF Prefetches

LEMMA RqKeeps == ASSUME TypeInv, [Next]_vars PROVE RQ' \in Seq(Reads) /\ OnePerBlock(RQ')
<1>1. RQ \in Seq(Reads) /\ OnePerBlock(RQ) BY DEF TypeInv
<1>2. ASSUME NEW u, NEW a, AddRq(u, a) PROVE RQ' \in Seq(Reads) /\ OnePerBlock(RQ')
  <2> DEFINE p == Packet(a, "LOAD", IF kind = "L1D" THEN Here ELSE Up, u = "icache",
                         IF kind = "L1D" THEN {u} ELSE {})
  <2>1. p \in Reads /\ p.address = a BY <1>2, NewRead DEF AddRq, Packet
  <2>2. \/ RQ' = RQ
        \/ InQueue(RQ, a) /\ RQ' = Merged(RQ, p)
        \/ ~InQueue(RQ, a) /\ RQ' = Append(RQ, p)
    BY <1>2 DEF AddRq
  <2> HIDE DEF p
  <2>3. CASE InQueue(RQ, a) /\ RQ' = Merged(RQ, p)
    <3>1. Reads \subseteq Packets BY DEF Reads
    <3>2. InQueue(RQ, p.address) BY <2>1, <2>3
    <3> QED BY <1>1, <2>1, <2>3, <3>1, <3>2, ReadsJoin, MergedFacts
  <2>4. CASE ~InQueue(RQ, a) /\ RQ' = Append(RQ, p)
    <3>1. ~InQueue(RQ, p.address) BY <2>1, <2>4
    <3> QED BY <1>1, <2>1, <2>4, <3>1, AppendSet, AppendOnePerBlock
  <2> QED BY <1>1, <2>2, <2>3, <2>4
<1>3. CASE HandleRead
  <2>1. RQ # << >> /\ RQ' = Tail(RQ) BY <1>3 DEF HandleRead
  <2> QED BY <1>1, <2>1, TailFacts, TailOnePerBlock
<1>4. CASE UNCHANGED RQ BY <1>1, <1>4
<1> QED
  BY <1>2, <1>3, <1>4 DEF Next, vars, AddWq, AddPq, InvalidateEntry, HandleFill,
     HandleWriteback, HandlePrefetch, ReturnData

LEMMA PqKeeps == ASSUME TypeInv, [Next]_vars PROVE PQ' \in Seq(Prefetches) /\ OnePerBlock(PQ')
<1>1. PQ \in Seq(Prefetches) /\ OnePerBlock(PQ) BY DEF TypeInv
<1>2. ASSUME NEW a, NEW level \in Levels, AddPq(a, level)
      PROVE  PQ' \in Seq(Prefetches) /\ OnePerBlock(PQ')
  <2> DEFINE p == Packet(a, "PREFETCH", level, FALSE, {})
  <2>1. p \in Prefetches /\ p.address = a BY <1>2, NewPrefetch DEF AddPq, Packet
  <2>2. \/ PQ' = PQ
        \/ InQueue(PQ, a) /\ PQ' = Merged(PQ, p)
        \/ ~InQueue(PQ, a) /\ PQ' = Append(PQ, p)
    BY <1>2 DEF AddPq
  <2> HIDE DEF p
  <2>3. CASE InQueue(PQ, a) /\ PQ' = Merged(PQ, p)
    <3>1. Prefetches \subseteq Packets BY DEF Prefetches
    <3>2. InQueue(PQ, p.address) BY <2>1, <2>3
    <3> QED BY <1>1, <2>1, <2>3, <3>1, <3>2, PrefetchesJoin, MergedFacts
  <2>4. CASE ~InQueue(PQ, a) /\ PQ' = Append(PQ, p)
    <3>1. ~InQueue(PQ, p.address) BY <2>1, <2>4
    <3> QED BY <1>1, <2>1, <2>4, <3>1, AppendSet, AppendOnePerBlock
  <2> QED BY <1>1, <2>2, <2>3, <2>4
<1>3. CASE HandlePrefetch
  <2>1. PQ # << >> /\ PQ' = Tail(PQ) BY <1>3 DEF HandlePrefetch
  <2> QED BY <1>1, <2>1, TailFacts, TailOnePerBlock
<1>4. CASE UNCHANGED PQ BY <1>1, <1>4
<1> QED
  BY <1>2, <1>3, <1>4 DEF Next, vars, AddRq, AddWq, InvalidateEntry, HandleFill,
     HandleWriteback, HandleRead, ReturnData, Levels

LEMMA WqKeeps == ASSUME TypeInv, [Next]_vars PROVE WQ' \in Seq(Writes)
<1>1. WQ \in Seq(Writes) BY DEF TypeInv
<1>2. ASSUME NEW a, AddWq(a) PROVE WQ' \in Seq(Writes)
  <2>1. PICK p \in Writes : WQ' = WQ \/ WQ' = Append(WQ, p) BY <1>2, NewWrite DEF AddWq
  <2> QED BY <1>1, <2>1, AppendSet
<1>3. CASE HandleWriteback
  <2>1. WQ # << >> /\ WQ' = Tail(WQ) BY <1>3 DEF HandleWriteback
  <2> QED BY <1>1, <2>1, TailFacts
<1>4. CASE UNCHANGED WQ BY <1>1, <1>4
<1> QED
  BY <1>2, <1>3, <1>4 DEF Next, vars, AddRq, AddPq, InvalidateEntry, HandleFill,
     HandleRead, HandlePrefetch, ReturnData

LEMMA AddMshrFacts ==
  ASSUME MshrsOK(MSHR), NEW p \in Packets, AddMshr(p)
  PROVE  /\ MshrsOK(MSHR') /\ DOMAIN MSHR' = DOMAIN MSHR \cup {p.address}
         /\ MSHR'[p.address] = p
         /\ \A a \in DOMAIN MSHR \ {p.address} : MSHR'[a] = MSHR[a]
<1>1. p.address \in Blocks BY DEF Packets
<1>2. /\ MSHR' = [a \in DOMAIN MSHR \cup {p.address} |-> IF a = p.address THEN p ELSE MSHR[a]]
  BY DEF AddMshr
<1>3. /\ DOMAIN MSHR' = DOMAIN MSHR \cup {p.address} /\ MSHR'[p.address] = p
      /\ \A a \in DOMAIN MSHR \ {p.address} : MSHR'[a] = MSHR[a]
  BY <1>2
<1>4. \A a \in DOMAIN MSHR' : MSHR'[a] \in Packets /\ MSHR'[a].address = a BY <1>3 DEF MshrsOK
<1>5. MSHR' \in [DOMAIN MSHR' -> Packets]
  <2>1. MSHR' = [a \in DOMAIN MSHR' |-> MSHR'[a]] BY <1>2
  <2> QED BY <1>4, <2>1
<1> QED BY <1>1, <1>3, <1>4, <1>5 DEF MshrsOK

\* What a miss does to the MSHRs: one is replaced by the packet that it is merged into,
\* or a new one is there, which the STLB has answered already.
LEMMA MissFacts ==
  ASSUME MshrsOK(MSHR), NEW p \in Packets, p.type # "PREFETCH", Miss(p)
  PROVE  \/ /\ p.address \in DOMAIN MSHR
            /\ AddMshr(MergeMiss(MSHR[p.address], p)) /\ below' = below
            /\ MergeMiss(MSHR[p.address], p) \in Packets
            /\ MergeMiss(MSHR[p.address], p).address = p.address
            /\ MergeMiss(MSHR[p.address], p).returned = MSHR[p.address].returned
         \/ /\ p.address \notin DOMAIN MSHR
            /\ \E m \in Packets :
                 /\ AddMshr(m) /\ m.address = p.address /\ Served(m) = Served(p)
                 /\ below' = IF m.returned THEN below ELSE below \cup {p.address}
<1>1. CASE p.address \in DOMAIN MSHR
  <2> DEFINE e == MSHR[p.address]
  <2>1. e \in Packets /\ e.address = p.address BY <1>1 DEF MshrsOK
  <2>2. AddMshr(MergeMiss(e, p)) /\ below' = below BY <1>1 DEF Miss, InFlight
  <2> QED BY <1>1, <2>1, <2>2, MergeMissFacts
<1>2. CASE p.address \notin DOMAIN MSHR
  <2> DEFINE m == [p EXCEPT !.returned = (kind = "STLB")]
  <2>1. AddMshr(m) /\ below' = IF kind = "STLB" THEN below ELSE below \cup {p.address}
    BY <1>2 DEF Miss, InFlight
  <2>2. m \in Packets /\ m.address = p.address /\ (m.returned <=> kind = "STLB")
    BY DEF Packets
  <2>3. Served(m) = Served(p) BY DEF Served, Packets
  <2> QED BY <1>2, <2>1, <2>2, <2>3
<1> QED BY <1>1, <1>2

\* Likewise for a prefetch that misses: it lowers the level that the MSHR fills, takes a
\* new one, or has been for a level below.
LEMMA PrefetchMissFacts ==
  ASSUME MshrsOK(MSHR), NEW p \in Prefetches, PrefetchMiss(p)
  PROVE  \/ /\ p.address \in DOMAIN MSHR
            /\ AddMshr(Joined(MSHR[p.address], p)) /\ below' = below
         \/ /\ p.address \notin DOMAIN MSHR
            /\ AddMshr(p) /\ below' = below \cup {p.address}
         \/ p.fill_level = Below /\ MSHR' = MSHR /\ below' = below
<1>1. CASE p.address \in DOMAIN MSHR
  <2> DEFINE a == p.address  e == MSHR[a]
  <2>1. e \in Packets /\ e.address = a /\ MSHR \in [DOMAIN MSHR -> Packets]
    BY <1>1 DEF MshrsOK
  <2>2. p.loads = {} BY DEF Prefetches, Packets
  <2>3. /\ MSHR' = [MSHR EXCEPT ![a].fill_level = Least(@, p.fill_level)] /\ below' = below
    BY <1>1 DEF PrefetchMiss, InFlight
  <2>4. e.loads \cup p.loads = e.loads BY <2>2
  <2>5. [e EXCEPT !.fill_level = Least(@, p.fill_level)] = Joined(e, p)
    BY <2>1, <2>4 DEF Joined, Packets
  <2>6. MSHR' = [MSHR EXCEPT ![a] = Joined(e, p)] BY <2>3, <2>5
  <2>7. e \in Packets /\ p \in Packets /\ p.type = "PREFETCH" BY <2>1 DEF Prefetches
  <2>8. Joined(e, p).address = a BY <2>1, <2>7, JoinedType
  <2>9. DOMAIN MSHR \cup {a} = DOMAIN MSHR BY <1>1
  <2>10. MSHR' = [b \in DOMAIN MSHR \cup {a} |-> IF b = a THEN Joined(e, p) ELSE MSHR[b]]
    BY <2>1, <2>6, <2>9
  <2>11. AddMshr(Joined(e, p)) BY <2>8, <2>10 DEF AddMshr
  <2> QED BY <1>1, <2>3, <2>11
<1>2. CASE p.address \notin DOMAIN MSHR BY <1>2 DEF PrefetchMiss, InFlight
<1> QED BY <1>1, <1>2

\* A miss that takes an MSHR sends one request; one that is merged sends none.
LEMMA MissKeeps ==
  ASSUME MshrsOK(MSHR), MissesMatchLower, NEW p \in Packets, p.type # "PREFETCH", Miss(p)
  PROVE  MshrsOK(MSHR') /\ MissesMatchLower'
<1>1. PICK m \in Packets :
        /\ AddMshr(m) /\ m.address = p.address
        /\ IF p.address \in DOMAIN MSHR
           THEN m.returned = MSHR[p.address].returned /\ below' = below
           ELSE below' = IF m.returned THEN below ELSE below \cup {p.address}
  BY MissFacts
<1>2. /\ MshrsOK(MSHR') /\ DOMAIN MSHR' = DOMAIN MSHR \cup {p.address} /\ MSHR'[p.address] = m
      /\ \A a \in DOMAIN MSHR \ {p.address} : MSHR'[a] = MSHR[a]
  BY <1>1, AddMshrFacts
<1>3. CASE p.address \in DOMAIN MSHR BY <1>1, <1>2, <1>3 DEF MissesMatchLower
<1>4. CASE p.address \notin DOMAIN MSHR BY <1>1, <1>2, <1>4 DEF MissesMatchLower
<1> QED BY <1>2, <1>3, <1>4

LEMMA MshrKeeps ==
  ASSUME TypeInv, MissesMatchLower, [Next]_vars PROVE MshrsOK(MSHR') /\ MissesMatchLower'
<1>1. MshrsOK(MSHR) BY DEF TypeInv
<1>2. CASE HandleFill
  <2>1. PICK a \in DOMAIN MSHR :
          /\ MSHR[a].returned /\ below' = below
          /\ MSHR' = [b \in DOMAIN MSHR \ {a} |-> MSHR[b]]
    BY <1>2 DEF HandleFill
  <2> QED BY <1>1, <2>1 DEF MshrsOK, MissesMatchLower
<1>3. CASE HandleWriteback
  <2> DEFINE p == Head(WQ)
  <2>1. p \in Writes BY <1>3, TailFacts DEF TypeInv, HandleWriteback
  <2>2. p \in Packets /\ p.type # "PREFETCH" BY <2>1 DEF Writes
  <2>3. Miss(p) \/ UNCHANGED <<MSHR, below>> BY <1>3 DEF HandleWriteback, WritebackFill
  <2>4. CASE Miss(p) BY <1>1, <2>2, <2>4, MissKeeps
  <2> QED BY <1>1, <2>3, <2>4 DEF MissesMatchLower
<1>4. CASE HandleRead
  <2> DEFINE p == Head(RQ)
  <2>1. p \in Reads BY <1>4, TailFacts DEF TypeInv, HandleRead
  <2>2. p \in Packets /\ p.type # "PREFETCH" BY <2>1 DEF Reads
  <2>3. Miss(p) \/ UNCHANGED <<MSHR, below>> BY <1>4 DEF HandleRead
  <2>4. CASE Miss(p) BY <1>1, <2>2, <2>4, MissKeeps
  <2> QED BY <1>1, <2>3, <2>4 DEF MissesMatchLower
<1>5. CASE HandlePrefetch
  <2> DEFINE p == Head(PQ)
  <2>1. p \in Prefetches BY <1>5, TailFacts DEF TypeInv, HandlePrefetch
  <2>2. p \in Packets /\ p.type = "PREFETCH" /\ ~p.returned BY <2>1 DEF Prefetches
  <2>3. PrefetchMiss(p) \/ UNCHANGED <<MSHR, below>> BY <1>5 DEF HandlePrefetch
  <2>4. CASE p.address \in DOMAIN MSHR /\ AddMshr(Joined(MSHR[p.address], p)) /\ below' = below
    <3> DEFINE e == MSHR[p.address]  m == Joined(e, p)
    <3>1. e \in Packets /\ e.address = p.address BY <1>1, <2>4 DEF MshrsOK
    <3>2. m \in Packets /\ m.address = p.address /\ m.returned = e.returned
      BY <2>2, <3>1, JoinedType
    <3> HIDE DEF m
    <3>3. /\ MshrsOK(MSHR') /\ DOMAIN MSHR' = DOMAIN MSHR \cup {p.address} /\ MSHR'[p.address] = m
          /\ \A a \in DOMAIN MSHR \ {p.address} : MSHR'[a] = MSHR[a]
      BY <1>1, <2>4, <3>2, AddMshrFacts DEF m
    <3> QED BY <2>4, <3>2, <3>3 DEF MissesMatchLower
  <2>5. CASE p.address \notin DOMAIN MSHR /\ AddMshr(p) /\ below' = below \cup {p.address}
    <3>1. /\ MshrsOK(MSHR') /\ DOMAIN MSHR' = DOMAIN MSHR \cup {p.address} /\ MSHR'[p.address] = p
          /\ \A a \in DOMAIN MSHR \ {p.address} : MSHR'[a] = MSHR[a]
      BY <1>1, <2>2, <2>5, AddMshrFacts
    <3> QED BY <2>2, <2>5, <3>1 DEF MissesMatchLower
  <2>6. CASE UNCHANGED <<MSHR, below>> BY <1>1, <2>6 DEF MissesMatchLower
  <2> QED BY <1>1, <2>1, <2>3, <2>4, <2>5, <2>6, PrefetchMissFacts
<1>6. CASE ReturnData
  <2>1. PICK a \in below \cap DOMAIN MSHR :
          MSHR' = [MSHR EXCEPT ![a].returned = TRUE] /\ below' = below \ {a}
    BY <1>6 DEF ReturnData
  <2> DEFINE m == [MSHR[a] EXCEPT !.returned = TRUE]
  <2>2. m \in Packets /\ m.address = a /\ m.returned
    <3>1. MSHR[a] \in Packets /\ MSHR[a].address = a BY <1>1 DEF MshrsOK
    <3> QED BY <3>1 DEF Packets
  <2>3. MSHR \in [DOMAIN MSHR -> Packets] BY <1>1 DEF MshrsOK
  <2>4. MSHR' = [MSHR EXCEPT ![a] = m] BY <2>1
  <2> HIDE DEF m
  <2>5. DOMAIN MSHR' = DOMAIN MSHR /\ MSHR'[a] = m /\ \A b \in DOMAIN MSHR \ {a} : MSHR'[b] = MSHR[b]
    BY <2>3, <2>4
  <2>6. MSHR' \in [DOMAIN MSHR' -> Packets] BY <2>2, <2>3, <2>4, <2>5
  <2>7. MshrsOK(MSHR') BY <1>1, <2>2, <2>5, <2>6 DEF MshrsOK
  <2>8. MissesMatchLower' BY <2>1, <2>2, <2>5 DEF MissesMatchLower
  <2> QED BY <2>7, <2>8
<1>7. CASE UNCHANGED <<MSHR, below>> BY <1>1, <1>7 DEF MissesMatchLower
<1> QED
  BY <1>2, <1>3, <1>4, <1>5, <1>6, <1>7 DEF Next, vars, AddRq, AddWq, AddPq, InvalidateEntry

Contents == [address : Blocks \cup {None}, valid : BOOLEAN, dirty : BOOLEAN]

LEMMA FillCacheType ==
  ASSUME block \in [Ways -> Contents], NEW way \in Ways, NEW a \in Blocks,
         NEW dirty \in BOOLEAN, FillCache(way, a, dirty)
  PROVE  block' \in [Ways -> Contents]
BY DEF FillCache, Contents

LEMMA BlockKeeps == ASSUME TypeInv, [Next]_vars PROVE block' \in [Ways -> Contents]
<1>1. block \in [Ways -> Contents] BY DEF TypeInv, Contents
<1>2. CASE HandleFill
  <2>1. PICK a \in DOMAIN MSHR :
          \/ \E way \in Ways : FillCache(way, a, kind = "L1D" /\ MSHR[a].type = "RFO")
          \/ UNCHANGED block
    BY <1>2 DEF HandleFill
  <2>2. a \in Blocks BY DEF TypeInv, MshrsOK
  <2>3. (kind = "L1D" /\ MSHR[a].type = "RFO") \in BOOLEAN OBVIOUS
  <2> QED BY <1>1, <2>1, <2>2, <2>3, FillCacheType
<1>3. CASE HandleWriteback
  <2> DEFINE p == Head(WQ)
  <2>1. p \in Writes BY <1>3, TailFacts DEF TypeInv, HandleWriteback
  <2>2. p.address \in Blocks BY <2>1 DEF Writes, Packets
  <2>3. CASE block' = [block EXCEPT ![HitWay(p.address)].dirty = TRUE]
    BY <1>1, <2>3 DEF Contents
  <2>4. CASE \E way \in Ways : FillCache(way, p.address, TRUE) BY <1>1, <2>2, <2>4, FillCacheType
  <2>5. CASE UNCHANGED block BY <1>1, <2>5
  <2> QED BY <1>3, <2>3, <2>4, <2>5 DEF HandleWriteback, WritebackFill
<1>4. ASSUME NEW a, InvalidateEntry(a) PROVE block' \in [Ways -> Contents]
  <2>1. block' = [block EXCEPT ![HitWay(a)].valid = FALSE] BY <1>4 DEF InvalidateEntry
  <2> QED BY <1>1, <2>1 DEF Contents
<1>5. CASE UNCHANGED block BY <1>1, <1>5
<1> QED
  BY <1>2, <1>3, <1>4, <1>5 DEF Next, vars, AddRq, AddWq, AddPq, HandleRead, HandlePrefetch,
     ReturnData

LEMMA TypeKeeps ==
  ASSUME TypeInv, MissesMatchLower, [Next]_vars PROVE TypeInv' /\ MissesMatchLower'
<1>1. kind' = kind /\ Reads' = Reads BY KindKept
<1>2. OnePerBlock(RQ)' /\ OnePerBlock(PQ)' BY RqKeeps, PqKeeps DEF OnePerBlock
<1>3. MshrsOK(MSHR)' /\ MissesMatchLower' BY MshrKeeps DEF MshrsOK
<1>4. RQ' \in Seq(Reads') BY <1>1, RqKeeps
<1> QED BY <1>1, <1>2, <1>3, <1>4, PqKeeps, WqKeeps, BlockKeeps DEF TypeInv, Contents
-----------------------------------------------------------------------------
(* What is written stays: in the WQ, or in a dirty way *)

IsDirty(a) == \E w \in Ways : block[w].dirty /\ block[w].address = a

\* A fill that throws out the last dirty copy of a block sends its write below.
LEMMA FillKeepsDirty ==
  ASSUME block \in [Ways -> Contents], NEW way \in Ways, NEW a, NEW dirty \in BOOLEAN,
         FillCache(way, a, dirty)
  PROVE  /\ \A b \in unsaved' : b \in unsaved /\ (IsDirty(b) => IsDirty(b)')
         /\ dirty => IsDirty(a)'
<1>1. /\ block'[way] = [address |-> a, valid |-> TRUE, dirty |-> dirty]
      /\ \A w \in Ways \ {way} : block'[w] = block[w]
  BY DEF FillCache
<1>2. dirty => IsDirty(a)' BY <1>1 DEF IsDirty
<1>3. ASSUME NEW b \in unsaved', IsDirty(b) PROVE IsDirty(b)'
  <2>1. PICK w \in Ways : block[w].dirty /\ block[w].address = b BY <1>3 DEF IsDirty
  <2>2. w # way BY <1>3, <2>1 DEF FillCache
  <2> QED BY <1>1, <2>1, <2>2 DEF IsDirty
<1>4. unsaved' \subseteq unsaved BY DEF FillCache
<1> QED BY <1>2, <1>3, <1>4

LEMMA DirtyKeeps ==
  ASSUME TypeInv, WrittenBlocksStayDirty, [Next]_vars PROVE WrittenBlocksStayDirty'
<1>1. kind' = kind BY KindKept
<1>2. block \in [Ways -> Contents] /\ WQ \in Seq(Writes) BY DEF TypeInv, Contents
<1>3. SUFFICES ASSUME kind # "L1D", NEW b \in unsaved' PROVE InQueue(WQ, b)' \/ IsDirty(b)'
  BY <1>1 DEF WrittenBlocksStayDirty, IsDirty
<1>4. \A a \in unsaved : InQueue(WQ, a) \/ IsDirty(a) BY <1>3 DEF WrittenBlocksStayDirty, IsDirty
<1>5. ASSUME NEW a, AddWq(a) PROVE InQueue(WQ, b)' \/ IsDirty(b)'
  <2>1. unsaved' = unsaved \cup {a} /\ block' = block BY <1>5 DEF AddWq
  <2>2. IsDirty(b) => IsDirty(b)' BY <2>1 DEF IsDirty
  <2>3. PICK p \in Writes : (InQueue(WQ, a) /\ WQ' = WQ) \/ (WQ' = Append(WQ, p) /\ p.address = a)
    BY <1>5, NewWrite DEF AddWq, Packet
  <2>4. CASE InQueue(WQ, a) /\ WQ' = WQ BY <1>4, <2>1, <2>2, <2>4 DEF InQueue
  <2>5. CASE WQ' = Append(WQ, p) /\ p.address = a
    <3>1. DOMAIN WQ' = DOMAIN WQ \cup {Len(WQ) + 1} /\ WQ'[Len(WQ) + 1] = p
          /\ \A n \in DOMAIN WQ : WQ'[n] = WQ[n]
      BY <1>2, <2>5
    <3> QED BY <1>4, <2>1, <2>2, <2>5, <3>1 DEF InQueue
  <2> QED BY <2>3, <2>4, <2>5
<1>6. ASSUME NEW a, InvalidateEntry(a) PROVE InQueue(WQ, b)' \/ IsDirty(b)'
  <2>1. block' = [block EXCEPT ![HitWay(a)].valid = FALSE] /\ WQ' = WQ /\ unsaved' = unsaved
    BY <1>6 DEF InvalidateEntry
  <2>2. \A w \in Ways : block'[w].dirty = block[w].dirty /\ block'[w].address = block[w].address
    BY <1>2, <2>1 DEF Contents
  <2> QED BY <1>4, <2>1, <2>2 DEF InQueue, IsDirty
<1>7. CASE HandleFill
  <2>1. WQ' = WQ BY <1>7 DEF HandleFill
  <2>2. PICK a \in DOMAIN MSHR :
          \/ \E way \in Ways : FillCache(way, a, kind = "L1D" /\ MSHR[a].type = "RFO")
          \/ UNCHANGED <<block, unsaved>>
    BY <1>7 DEF HandleFill
  <2>3. (kind = "L1D" /\ MSHR[a].type = "RFO") \in BOOLEAN OBVIOUS
  <2>4. b \in unsaved /\ (IsDirty(b) => IsDirty(b)')
    BY <1>2, <2>2, <2>3, FillKeepsDirty DEF IsDirty
  <2> QED BY <1>4, <2>1, <2>4 DEF InQueue
<1>8. CASE HandleWriteback
  <2>0. PICK h : h = Head(WQ).address OBVIOUS
  <2>1. \A a : InQueue(WQ, a) => InQueue(WQ, a)' \/ a = h
    <3>1. WQ # << >> /\ WQ' = Tail(WQ) BY <1>8 DEF HandleWriteback
    <3>2. \A a : InQueue(WQ, a) => InQueue(Tail(WQ), a) \/ a = h
      BY <1>2, <2>0, <3>1, TailFacts
    <3> QED BY <3>1, <3>2 DEF InQueue
  <2>2. CASE Hits(h) # {}
    <3>1. block' = [block EXCEPT ![HitWay(h)].dirty = TRUE] /\ unsaved' = unsaved
      BY <1>8, <2>0, <2>2 DEF HandleWriteback
    <3>2. PICK way \in Ways : way = HitWay(h) /\ block[way].address = h
      BY <2>2, HitWayHits DEF Hits
    <3>3. /\ \A w \in Ways : block'[w].address = block[w].address
          /\ \A w \in Ways : block[w].dirty => block'[w].dirty
          /\ block'[way].dirty
      BY <1>2, <3>1, <3>2 DEF Contents
    <3>4. IsDirty(h)' BY <3>2, <3>3 DEF IsDirty
    <3>5. IsDirty(b) => IsDirty(b)' BY <3>3 DEF IsDirty
    <3> QED BY <1>4, <2>1, <3>1, <3>4, <3>5
  <2>3. CASE Hits(h) = {}
    <3>1. PICK way \in Ways : FillCache(way, h, TRUE)
      BY <1>3, <1>8, <2>0, <2>3 DEF HandleWriteback, WritebackFill
    <3>2. b \in unsaved /\ (IsDirty(b) => IsDirty(b)') /\ IsDirty(h)'
      BY <1>2, <3>1, FillKeepsDirty
    <3> QED BY <1>4, <2>1, <3>2
  <2> QED BY <2>2, <2>3
<1>9. CASE UNCHANGED <<block, WQ, unsaved>> BY <1>4, <1>9 DEF InQueue, IsDirty
<1> QED
  BY <1>5, <1>6, <1>7, <1>8, <1>9 DEF Next, vars, AddRq, AddPq, HandleRead, HandlePrefetch,
     ReturnData
-----------------------------------------------------------------------------
(* The levels above wait for no more than the RQ has room for *)

AskedBy(u) == {w \in waiting : w[1] = u}
RoomInv == /\ waiting \subseteq Uppers \X Blocks /\ IsFiniteSet(waiting)
           /\ kind # "L1D" => \A u \in Uppers : Cardinality(AskedBy(u)) <= UPPER_MSHR_SIZE

\* Each entry of the RQ below two upper levels is one that they wait for; so the RQ is
\* never full when one of them, which has room for a miss, asks for another block.
LEMMA RqHasRoom ==
  ASSUME TypeInv, RoomInv, kind # "L1D",
         \A n \in DOMAIN RQ : Served(RQ[n]) \subseteq waiting,
         NEW u \in Uppers, Cardinality(AskedBy(u)) < UPPER_MSHR_SIZE
  PROVE  Len(RQ) < RQ_SIZE
<1> DEFINE who(p) == IF kind = "LLC" THEN "L2C" ELSE IF p.instruction THEN "icache" ELSE "dcache"
           f == [n \in DOMAIN RQ |-> <<who(RQ[n]), RQ[n].address>>]
<1>1. Len(RQ) \in Nat /\ DOMAIN RQ = 1..Len(RQ) /\ \A n \in DOMAIN RQ : RQ[n] \in Reads
  BY DEF TypeInv
<1>2. \A n \in DOMAIN RQ : f[n] \in waiting
  <2>1. \A n \in DOMAIN RQ : RQ[n].fill_level = Up BY <1>1 DEF Reads
  <2> QED BY <2>1 DEF Served
<1>3. \A m, n \in DOMAIN RQ : f[m] = f[n] => m = n BY DEF TypeInv, OnePerBlock
<1>4. f \in Injection(1..Len(RQ), waiting)
  <2>1. f \in [1..Len(RQ) -> waiting] BY <1>1, <1>2
  <2> HIDE DEF f
  <2> QED BY <1>1, <1>3, <2>1 DEF Injection, IsInjective
<1>5. Len(RQ) <= Cardinality(waiting)
  <2>1. Cardinality(1..Len(RQ)) = Len(RQ)
    <3>1. Cardinality(1..Len(RQ)) = IF 1 > Len(RQ) THEN 0 ELSE Len(RQ) - 1 + 1
      BY <1>1, FS_Interval
    <3> QED BY <1>1, <3>1
  <2>2. IsFiniteSet(waiting) BY DEF RoomInv
  <2> HIDE DEF f
  <2> QED BY <1>4, <2>1, <2>2, FS_Injection
<1>6. Cardinality(waiting) < 2 * UPPER_MSHR_SIZE
  <2>1. PICK v \in Uppers : \A w \in waiting : w[1] \in {u, v}
    <3>1. \A w \in waiting : w[1] \in Uppers BY DEF RoomInv
    <3>2. Uppers = {"L2C"} \/ Uppers = {"icache", "dcache"} BY DEF Uppers
    <3> QED BY <3>1, <3>2
  <2>2. waiting = AskedBy(u) \cup AskedBy(v) BY <2>1 DEF AskedBy
  <2>3. IsFiniteSet(AskedBy(u)) /\ IsFiniteSet(AskedBy(v)) BY FS_Subset DEF RoomInv, AskedBy
  <2>4. Cardinality(waiting) <= Cardinality(AskedBy(u)) + Cardinality(AskedBy(v))
    <3>1. /\ Cardinality(AskedBy(u) \cup AskedBy(v))
               = Cardinality(AskedBy(u)) + Cardinality(AskedBy(v))
                   - Cardinality(AskedBy(u) \cap AskedBy(v))
          /\ IsFiniteSet(AskedBy(u) \cap AskedBy(v))
      BY <2>3, FS_Union, FS_Intersection
    <3>2. Cardinality(AskedBy(u) \cap AskedBy(v)) \in Nat BY <3>1, FS_CardinalityType
    <3>3. Cardinality(AskedBy(u)) \in Nat /\ Cardinality(AskedBy(v)) \in Nat
      BY <2>3, FS_CardinalityType
    <3> QED BY <2>2, <3>1, <3>2, <3>3
  <2>5. Cardinality(AskedBy(u)) \in Nat /\ Cardinality(AskedBy(v)) \in Nat
        /\ Cardinality(waiting) \in Nat
    BY <2>3, FS_CardinalityType DEF RoomInv
  <2>6. Cardinality(AskedBy(v)) <= UPPER_MSHR_SIZE /\ UPPER_MSHR_SIZE \in Nat
    BY SizeAssumption DEF RoomInv
  <2> QED BY <2>4, <2>5, <2>6
<1>7. Cardinality(waiting) \in Nat BY FS_CardinalityType DEF RoomInv
<1> QED BY <1>1, <1>5, <1>6, <1>7, RoomAssumption, SizeAssumption

\* An upper level that may ask for a block can take its answer.
LEMMA AskKeepsRoom ==
  ASSUME RoomInv, kind' = kind, NEW u, NEW a, MayAsk(u, a), waiting' = waiting \cup {<<u, a>>}
  PROVE  RoomInv'
<1>1. u \in Uppers /\ a \in Blocks BY DEF MayAsk, Blocks
<1>2. Uppers' = Uppers BY DEF Uppers
<1>3. IsFiniteSet(waiting') BY FS_AddElement DEF RoomInv
<1>4. ASSUME kind # "L1D", NEW v \in Uppers PROVE Cardinality(AskedBy(v)') <= UPPER_MSHR_SIZE
  <2>1. IsFiniteSet(AskedBy(v)) /\ Cardinality(AskedBy(v)) \in Nat
    BY FS_Subset, FS_CardinalityType DEF RoomInv, AskedBy
  <2>2. CASE v # u
    <3>1. AskedBy(v)' = AskedBy(v) BY <2>2 DEF AskedBy
    <3> QED BY <1>4, <3>1 DEF RoomInv
  <2>3. CASE v = u
    <3>1. AskedBy(v)' = AskedBy(v) \cup {<<u, a>>} BY <2>3 DEF AskedBy
    <3>2. <<u, a>> \notin AskedBy(v) /\ Cardinality(AskedBy(v)) < UPPER_MSHR_SIZE
      BY <1>4, <2>3 DEF MayAsk, AskedBy
    <3>3. Cardinality(AskedBy(v)') = Cardinality(AskedBy(v)) + 1
      BY <2>1, <3>1, <3>2, FS_AddElement
    <3> QED BY <2>1, <3>2, <3>3, SizeAssumption
  <2> QED BY <2>2, <2>3
<1> QED BY <1>1, <1>2, <1>3, <1>4 DEF RoomInv

LEMMA AnswerKeepsRoom ==
  ASSUME RoomInv, kind' = kind, waiting' \subseteq waiting PROVE RoomInv'
<1>1. Uppers' = Uppers BY DEF Uppers
<1>2. IsFiniteSet(waiting') BY FS_Subset DEF RoomInv
<1>3. ASSUME kind # "L1D", NEW v \in Uppers PROVE Cardinality(AskedBy(v)') <= UPPER_MSHR_SIZE
  <2>1. AskedBy(v)' \subseteq AskedBy(v) /\ IsFiniteSet(AskedBy(v)) BY FS_Subset DEF RoomInv, AskedBy
  <2>2. Cardinality(AskedBy(v)') <= Cardinality(AskedBy(v)) BY <2>1, FS_Subset
  <2>3. Cardinality(AskedBy(v)') \in Nat /\ Cardinality(AskedBy(v)) \in Nat
    BY <2>1, FS_Subset, FS_CardinalityType
  <2>4. Cardinality(AskedBy(v)) <= UPPER_MSHR_SIZE BY <1>3 DEF RoomInv
  <2> QED BY <2>2, <2>3, <2>4, SizeAssumption
<1> QED BY <1>1, <1>2, <1>3 DEF RoomInv
-----------------------------------------------------------------------------
(* Who waits is held once *)

ServedBy(R) == UNION {Served(h[2]) : h \in R}
HeldOnce(H, W) ==
  /\ \A w \in W : \E h \in H : w \in Served(h[2]) /\ \A g \in H : w \in Served(g[2]) => g = h
  /\ \A h \in H : Served(h[2]) \subseteq W
HolderInv == HeldOnce(Held, waiting)

\* The entry x takes over from those of R, and takes the new ones N; or those of R are
\* answered and go.
TakesOver(R, x, N) == /\ Held' = (Held \ R) \cup {x} /\ waiting' = waiting \cup N
                      /\ N \cap waiting = {} /\ Served(x[2]) = ServedBy(R) \cup N
GoAnswered(R) == Held' = Held \ R /\ waiting' = waiting \ ServedBy(R)

LEMMA HeldOnceKept ==
  ASSUME NEW H, NEW W, HeldOnce(H, W), Held' = H, waiting' = W, kind' = kind
  PROVE  HolderInv'
<1>1. \A p : Served(p)' = Served(p) BY DEF Served
<1> QED BY <1>1 DEF HolderInv, HeldOnce

LEMMA TakeOverKeeps ==
  ASSUME HolderInv, kind' = kind, NEW R \in SUBSET Held, NEW x, NEW N, TakesOver(R, x, N)
  PROVE  HolderInv'
<1> PICK H, W : H = (Held \ R) \cup {x} /\ W = waiting \cup N OBVIOUS
<1>1. \A w \in waiting : \E h \in Held : w \in Served(h[2])
                           /\ \A g \in Held : w \in Served(g[2]) => g = h
  BY DEF HolderInv, HeldOnce
<1>2. \A h \in Held : Served(h[2]) \subseteq waiting BY DEF HolderInv, HeldOnce
<1>3. \A h \in H : Served(h[2]) \subseteq W BY <1>2 DEF TakesOver, ServedBy
<1>4. ASSUME NEW w \in W
      PROVE  \E h \in H : w \in Served(h[2]) /\ \A g \in H : w \in Served(g[2]) => g = h
  <2>1. CASE w \in Served(x[2])
    <3>1. ASSUME NEW g \in H, w \in Served(g[2]) PROVE g = x
      <4>1. CASE w \in N BY <1>2, <3>1, <4>1 DEF TakesOver
      <4>2. CASE w \notin N
        <5>1. PICK r \in R : w \in Served(r[2]) BY <2>1, <4>2 DEF TakesOver, ServedBy
        <5>2. w \in waiting BY <1>2, <5>1
        <5> QED BY <1>1, <3>1, <5>1, <5>2
      <4> QED BY <4>1, <4>2
    <3> QED BY <2>1, <3>1
  <2>2. CASE w \notin Served(x[2])
    <3>1. w \in waiting /\ \A r \in R : w \notin Served(r[2]) BY <2>2 DEF TakesOver, ServedBy
    <3>2. PICK h \in Held : w \in Served(h[2]) /\ \A g \in Held : w \in Served(g[2]) => g = h
      BY <1>1, <3>1
    <3>3. h \in H BY <3>1, <3>2
    <3> QED BY <2>2, <3>2, <3>3
  <2> QED BY <2>1, <2>2
<1>5. HeldOnce(H, W) BY <1>3, <1>4 DEF HeldOnce
<1>6. Held' = H /\ waiting' = W BY DEF TakesOver
<1> QED BY <1>5, <1>6, HeldOnceKept

LEMMA AnswerKeeps ==
  ASSUME HolderInv, kind' = kind, NEW R \in SUBSET Held, GoAnswered(R)
  PROVE  HolderInv'
<1> PICK H, W : H = Held \ R /\ W = waiting \ ServedBy(R) OBVIOUS
<1>1. \A w \in waiting : \E h \in Held : w \in Served(h[2])
                           /\ \A g \in Held : w \in Served(g[2]) => g = h
  BY DEF HolderInv, HeldOnce
<1>2. \A h \in Held : Served(h[2]) \subseteq waiting BY DEF HolderInv, HeldOnce
<1>3. ASSUME NEW h \in H, NEW w \in Served(h[2]) PROVE w \in W
  <2>1. \A r \in R : w \notin Served(r[2]) BY <1>1, <1>2, <1>3
  <2> QED BY <1>2, <2>1 DEF ServedBy
<1>4. \A w \in W : \E h \in H : w \in Served(h[2]) /\ \A g \in H : w \in Served(g[2]) => g = h
  BY <1>1 DEF ServedBy
<1>5. HeldOnce(H, W) BY <1>3, <1>4 DEF HeldOnce
<1>6. Held' = H /\ waiting' = W BY DEF GoAnswered
<1> QED BY <1>5, <1>6, HeldOnceKept

\* The places of what is held.
Mshrs == {MSHR[a] : a \in DOMAIN MSHR}
At(q, S) == {q} \X S
InPlaces(A, B, C) == At("RQ", A) \cup At("PQ", B) \cup At("MSHR", C)

LEMMA HeldInPlaces == Held = InPlaces(ToSet(RQ), ToSet(PQ), Mshrs)
BY DEF Held, InPlaces, At, Mshrs

LEMMA ServedByFacts ==
  /\ ServedBy({}) = {}
  /\ \A q, p : ServedBy(At(q, {p})) = Served(p)
  /\ \A R, D : ServedBy(R \cup D) = ServedBy(R) \cup ServedBy(D)
<1>1. ASSUME NEW w, NEW R PROVE w \in ServedBy(R) <=> \E h \in R : w \in Served(h[2])
  BY DEF ServedBy
<1>2. ServedBy({}) = {} BY DEF ServedBy
<1>3. ASSUME NEW q, NEW p PROVE ServedBy(At(q, {p})) = Served(p)
  <2>1. ASSUME NEW h \in At(q, {p}) PROVE h[2] = p BY DEF At
  <2>2. <<q, p>> \in At(q, {p}) /\ <<q, p>>[2] = p BY DEF At
  <2>3. ASSUME NEW w \in ServedBy(At(q, {p})) PROVE w \in Served(p)
    <3>1. PICK h \in At(q, {p}) : w \in Served(h[2]) BY <1>1, <2>3
    <3> QED BY <2>1, <3>1
  <2>4. ASSUME NEW w \in Served(p) PROVE w \in ServedBy(At(q, {p})) BY <1>1, <2>2, <2>4
  <2> QED BY <2>3, <2>4
<1>4. ASSUME NEW R, NEW D PROVE ServedBy(R \cup D) = ServedBy(R) \cup ServedBy(D)
  BY DEF ServedBy
<1> QED BY <1>2, <1>3, <1>4

\* A miss takes the place of an MSHR and serves both, or has one of its own.
LEMMA MissTakes ==
  ASSUME MshrsOK(MSHR), NEW p \in Packets, p.type # "PREFETCH", Miss(p),
         kind # "L1D" => p.fill_level = Up
  PROVE  \E D \in SUBSET Mshrs, m \in Packets :
           /\ Mshrs' = (Mshrs \ D) \cup {m}
           /\ Served(m) = ServedBy(At("MSHR", D)) \cup Served(p)
<1>1. CASE p.address \in DOMAIN MSHR
  <2> DEFINE e == MSHR[p.address]  m == MergeMiss(e, p)
  <2>1. e \in Packets /\ e.address = p.address BY <1>1 DEF MshrsOK
  <2>2. m \in Packets /\ m.address = p.address BY <2>1, MergeMissFacts
  <2>3. AddMshr(m) BY <1>1, MissFacts
  <2>4. Served(m) = Served(e) \cup Served(p) BY <2>1, MergeMissServed
  <2> HIDE DEF m
  <2>5. /\ DOMAIN MSHR' = DOMAIN MSHR /\ MSHR'[p.address] = m
        /\ \A a \in DOMAIN MSHR \ {p.address} : MSHR'[a] = MSHR[a]
    <3>1. /\ DOMAIN MSHR' = DOMAIN MSHR \cup {m.address} /\ MSHR'[m.address] = m
          /\ \A a \in DOMAIN MSHR \ {m.address} : MSHR'[a] = MSHR[a]
      BY <2>2, <2>3, AddMshrFacts
    <3>2. m.address = p.address BY <2>2
    <3> QED BY <1>1, <3>1, <3>2
  <2>6. \A a \in DOMAIN MSHR \ {p.address} : MSHR[a] # e BY <1>1, <2>1 DEF MshrsOK
  <2>7. Mshrs' = (Mshrs \ {e}) \cup {m} BY <1>1, <2>5, <2>6 DEF Mshrs
  <2>8. Served(m) = ServedBy(At("MSHR", {e})) \cup Served(p) BY <2>4, ServedByFacts
  <2>9. {e} \in SUBSET Mshrs BY <1>1 DEF Mshrs
  <2> QED BY <2>2, <2>7, <2>8, <2>9
<1>2. CASE p.address \notin DOMAIN MSHR
  <2>1. PICK m \in Packets : AddMshr(m) /\ m.address = p.address /\ Served(m) = Served(p)
    BY <1>2, MissFacts
  <2>2. /\ DOMAIN MSHR' = DOMAIN MSHR \cup {p.address} /\ MSHR'[p.address] = m
        /\ \A a \in DOMAIN MSHR \ {p.address} : MSHR'[a] = MSHR[a]
    BY <2>1, AddMshrFacts
  <2>3. Mshrs' = (Mshrs \ {}) \cup {m} BY <1>2, <2>2 DEF Mshrs
  <2>4. At("MSHR", {}) = {} BY DEF At
  <2>5. Served(m) = ServedBy(At("MSHR", {})) \cup Served(p) BY <2>1, <2>4, ServedByFacts
  <2> QED BY <2>3, <2>5
<1> QED BY <1>1, <1>2

LEMMA PrefetchMissTakes ==
  ASSUME MshrsOK(MSHR), NEW p \in Prefetches, PrefetchMiss(p)
  PROVE  \/ Mshrs' = Mshrs /\ Served(p) = {}
         \/ \E D \in SUBSET Mshrs, m \in Packets :
              /\ Mshrs' = (Mshrs \ D) \cup {m}
              /\ Served(m) = ServedBy(At("MSHR", D)) \cup Served(p)
<1>1. p \in Packets /\ p.type = "PREFETCH" BY DEF Prefetches
<1>2. CASE p.address \in DOMAIN MSHR /\ AddMshr(Joined(MSHR[p.address], p))
  <2> DEFINE e == MSHR[p.address]  m == Joined(e, p)
  <2>1. e \in Packets /\ e.address = p.address BY <1>2 DEF MshrsOK
  <2>2. m \in Packets /\ m.address = p.address BY <1>1, <2>1, JoinedType
  <2>3. Served(m) = Served(e) \cup Served(p) BY <1>1, <2>1, JoinedServed
  <2>4. AddMshr(m) BY <1>2
  <2> HIDE DEF m
  <2>5. /\ DOMAIN MSHR' = DOMAIN MSHR /\ MSHR'[p.address] = m
        /\ \A a \in DOMAIN MSHR \ {p.address} : MSHR'[a] = MSHR[a]
    BY <1>2, <2>2, <2>4, AddMshrFacts
  <2>6. \A a \in DOMAIN MSHR \ {p.address} : MSHR[a] # e BY <1>2, <2>1 DEF MshrsOK
  <2>7. Mshrs' = (Mshrs \ {e}) \cup {m} BY <1>2, <2>5, <2>6 DEF Mshrs
  <2>8. Served(m) = ServedBy(At("MSHR", {e})) \cup Served(p) BY <2>3, ServedByFacts
  <2>9. {e} \in SUBSET Mshrs BY <1>2 DEF Mshrs
  <2> QED BY <2>2, <2>7, <2>8, <2>9
<1>3. CASE p.address \notin DOMAIN MSHR /\ AddMshr(p)
  <2>1. /\ DOMAIN MSHR' = DOMAIN MSHR \cup {p.address} /\ MSHR'[p.address] = p
        /\ \A a \in DOMAIN MSHR \ {p.address} : MSHR'[a] = MSHR[a]
    BY <1>1, <1>3, AddMshrFacts
  <2>2. Mshrs' = (Mshrs \ {}) \cup {p} BY <1>3, <2>1 DEF Mshrs
  <2>3. At("MSHR", {}) = {} BY DEF At
  <2>4. Served(p) = ServedBy(At("MSHR", {})) \cup Served(p) BY <2>3, ServedByFacts
  <2> QED BY <1>1, <2>2, <2>4
<1>4. CASE p.fill_level = Below /\ MSHR' = MSHR
  <2>1. Mshrs' = Mshrs BY <1>4 DEF Mshrs
  <2>2. Below # Up BY DEF Below, Up
  <2>3. Served(p) = {} BY <1>1, <1>4, <2>2 DEF Served
  <2> QED BY <2>1, <2>3
<1> QED BY <1>2, <1>3, <1>4, PrefetchMissFacts

LEMMA ReadIsAwaited ==
  ASSUME NEW u, NEW a, MayAsk(u, a), NEW p,
         p = Packet(a, "LOAD", IF kind = "L1D" THEN Here ELSE Up, u = "icache",
                    IF kind = "L1D" THEN {u} ELSE {})
  PROVE  Served(p) = {<<u, a>>} /\ <<u, a>> \notin waiting
<1>1. u \in Uppers BY DEF MayAsk
<1>2. CASE kind = "L1D"
  <2>1. Served(p) = {<<l, a>> : l \in {u}} BY <1>2 DEF Served, Packet
  <2>2. \A w \in waiting : w[1] # u BY <1>2 DEF MayAsk
  <2> QED BY <2>1, <2>2
<1>3. CASE kind = "LLC"
  <2>1. u = "L2C" BY <1>1, <1>3 DEF Uppers
  <2> QED BY <1>3, <2>1 DEF Served, Packet, MayAsk
<1>4. CASE kind \notin {"L1D", "LLC"}
  <2>1. u = "icache" \/ u = "dcache" BY <1>1, <1>4 DEF Uppers
  <2> QED BY <1>4, <2>1 DEF Served, Packet, MayAsk
<1> QED BY <1>2, <1>3, <1>4

LEMMA AddRqKeeps ==
  ASSUME TypeInv, RoomInv, HolderInv, NEW u, NEW a, AddRq(u, a)
  PROVE  HolderInv' /\ RoomInv'
<1> DEFINE p == Packet(a, "LOAD", IF kind = "L1D" THEN Here ELSE Up, u = "icache",
                       IF kind = "L1D" THEN {u} ELSE {})
<1>1. kind' = kind /\ PQ' = PQ /\ MSHR' = MSHR /\ MayAsk(u, a) BY DEF AddRq
<1>2. p \in Reads /\ p.address = a BY <1>1, NewRead DEF Packet
<1>3. Served(p) = {<<u, a>>} /\ <<u, a>> \notin waiting BY <1>1, ReadIsAwaited
<1>4. RQ \in Seq(Reads) /\ OnePerBlock(RQ) /\ Reads \subseteq Packets BY DEF TypeInv, Reads
<1>5. ToSet(PQ') = ToSet(PQ) /\ Mshrs' = Mshrs BY <1>1 DEF Mshrs
<1>6. Held' = InPlaces(ToSet(RQ'), ToSet(PQ), Mshrs) BY <1>5, HeldInPlaces DEF Held, InPlaces, At, Mshrs
<1>7. CASE UNCHANGED <<RQ, waiting>>
  <2>1. Held' = Held BY <1>6, <1>7, HeldInPlaces
  <2> QED BY <1>1, <1>7, <2>1, HeldOnceKept, AnswerKeepsRoom DEF HolderInv
<1>8. CASE waiting' = waiting \cup {<<u, a>>} /\ InQueue(RQ, a) /\ RQ' = Merged(RQ, p)
  <2> HIDE DEF p
  <2>1. InQueue(RQ, p.address) BY <1>2, <1>8
  <2>2. PICK e \in ToSet(RQ) : /\ e.address = p.address
                               /\ ToSet(RQ') = (ToSet(RQ) \ {e}) \cup {Joined(e, p)}
    BY <1>2, <1>4, <1>8, <2>1, ReadsJoin, MergedFacts
  <2>3. e \in Reads BY <1>4 DEF ToSet
  <2>4. Served(Joined(e, p)) = Served(e) \cup {<<u, a>>}
    BY <1>2, <1>3, <1>4, <2>2, <2>3, JoinedServed DEF Reads
  <2> DEFINE R == At("RQ", {e})  x == <<"RQ", Joined(e, p)>>
  <2>5. Held' = (Held \ R) \cup {x}
    BY <1>6, <2>2, HeldInPlaces DEF InPlaces, At
  <2>6. ServedBy(R) = Served(e) BY ServedByFacts
  <2>7. R \subseteq Held BY <2>2 DEF Held, At
  <2>8. Served(x[2]) = ServedBy(R) \cup {<<u, a>>} BY <2>4, <2>6
  <2>9. TakesOver(R, x, {<<u, a>>}) BY <1>3, <1>8, <2>5, <2>8 DEF TakesOver
  <2> HIDE DEF R, x
  <2>10. HolderInv' BY <1>1, <2>7, <2>9, TakeOverKeeps
  <2> QED BY <1>1, <1>8, <2>10, AskKeepsRoom
<1>9. CASE waiting' = waiting \cup {<<u, a>>} /\ RQ' = Append(RQ, p)
  <2> DEFINE x == <<"RQ", p>>
  <2> HIDE DEF p
  <2>1. ToSet(RQ') = ToSet(RQ) \cup {p} BY <1>2, <1>4, <1>9, AppendSet
  <2>2. Held' = (Held \ {}) \cup {x} BY <1>6, <2>1, HeldInPlaces DEF InPlaces, At
  <2>3. Served(x[2]) = ServedBy({}) \cup {<<u, a>>} BY <1>3, ServedByFacts
  <2>4. TakesOver({}, x, {<<u, a>>}) BY <1>3, <1>9, <2>2, <2>3 DEF TakesOver
  <2> HIDE DEF x
  <2>5. HolderInv' BY <1>1, <2>4, TakeOverKeeps
  <2> QED BY <1>1, <1>9, <2>5, AskKeepsRoom
<1>10. InQueue(RQ, a) \/ Room(RQ, RQ_SIZE)
  <2>1. CASE kind = "L1D" BY <2>1 DEF AddRq
  <2>2. CASE kind # "L1D"
    <3>1. \A n \in DOMAIN RQ : <<"RQ", RQ[n]>> \in Held BY DEF Held, ToSet
    <3>2. \A n \in DOMAIN RQ : Served(RQ[n]) \subseteq waiting
      BY <3>1 DEF HolderInv, HeldOnce
    <3>3. u \in Uppers /\ Cardinality(AskedBy(u)) < UPPER_MSHR_SIZE
      BY <1>1, <2>2 DEF MayAsk, AskedBy
    <3> QED BY <2>2, <3>2, <3>3, RqHasRoom DEF Room
  <2> QED BY <2>1, <2>2
<1>11. \/ UNCHANGED <<RQ, waiting>>
       \/ /\ waiting' = waiting \cup {<<u, a>>}
          /\ \/ InQueue(RQ, a) /\ RQ' = Merged(RQ, p)
             \/ RQ' = Append(RQ, p)
  BY <1>10 DEF AddRq
<1> QED BY <1>7, <1>8, <1>9, <1>11

LEMMA PrefetchIsAwaited ==
  ASSUME NEW a, NEW level, AddPq(a, level), NEW p, p = Packet(a, "PREFETCH", level, FALSE, {})
  PROVE  \/ Served(p) = {}
         \/ \E u : Served(p) = {<<u, a>>} /\ <<u, a>> \notin waiting /\ MayAsk(u, a)
<1>1. CASE kind = "L1D" \/ level # Up BY <1>1 DEF Served, Packet
<1>2. CASE kind # "L1D" /\ level = Up
  <2> DEFINE u == IF kind = "LLC" THEN "L2C" ELSE "dcache"
  <2>1. MayAsk(u, a) BY <1>2 DEF AddPq
  <2>2. Served(p) = {<<u, a>>} BY <1>2 DEF Served, Packet
  <2>3. <<u, a>> \notin waiting BY <1>2, <2>1 DEF MayAsk
  <2> QED BY <2>1, <2>2, <2>3
<1> QED BY <1>1, <1>2

LEMMA AddPqKeeps ==
  ASSUME TypeInv, RoomInv, HolderInv, NEW a, NEW level \in Levels, AddPq(a, level)
  PROVE  HolderInv' /\ RoomInv'
<1> DEFINE p == Packet(a, "PREFETCH", level, FALSE, {})
<1>1. kind' = kind /\ RQ' = RQ /\ MSHR' = MSHR /\ a \in DataBlocks BY DEF AddPq
<1>2. p \in Prefetches /\ p.address = a BY <1>1, NewPrefetch DEF Packet
<1>3. PQ \in Seq(Prefetches) /\ OnePerBlock(PQ) /\ Prefetches \subseteq Packets
  BY DEF TypeInv, Prefetches
<1>4. ToSet(RQ') = ToSet(RQ) /\ Mshrs' = Mshrs BY <1>1 DEF Mshrs
<1>5. Held' = InPlaces(ToSet(RQ), ToSet(PQ'), Mshrs)
  BY <1>4, HeldInPlaces DEF Held, InPlaces, At, Mshrs
<1> PICK N : N = Served(p) OBVIOUS
<1>6. N \cap waiting = {} BY PrefetchIsAwaited
<1>7. ASSUME waiting' = waiting \cup N PROVE RoomInv'
  <2>1. CASE N = {} BY <1>1, <1>7, <2>1, AnswerKeepsRoom
  <2>2. CASE \E u : N = {<<u, a>>} /\ MayAsk(u, a) BY <1>1, <1>7, <2>2, AskKeepsRoom
  <2> QED BY <2>1, <2>2, PrefetchIsAwaited
<1>8. CASE UNCHANGED <<PQ, waiting>>
  <2>1. Held' = Held BY <1>5, <1>8, HeldInPlaces
  <2> QED BY <1>1, <1>8, <2>1, HeldOnceKept, AnswerKeepsRoom DEF HolderInv
<1>9. CASE waiting' = waiting \cup N /\ InQueue(PQ, a) /\ PQ' = Merged(PQ, p)
  <2>0. N = Served(p) OBVIOUS
  <2> HIDE DEF p
  <2>1. InQueue(PQ, p.address) BY <1>2, <1>9
  <2>2. PICK e \in ToSet(PQ) : /\ e.address = p.address
                               /\ ToSet(PQ') = (ToSet(PQ) \ {e}) \cup {Joined(e, p)}
    BY <1>2, <1>3, <1>9, <2>1, PrefetchesJoin, MergedFacts
  <2>3. e \in Prefetches BY <1>3 DEF ToSet
  <2>4. Served(Joined(e, p)) = Served(e) \cup N
    BY <1>2, <1>3, <2>0, <2>2, <2>3, JoinedServed DEF Prefetches
  <2> DEFINE R == At("PQ", {e})  x == <<"PQ", Joined(e, p)>>
  <2>5. Held' = (Held \ R) \cup {x} BY <1>5, <2>2, HeldInPlaces DEF InPlaces, At
  <2>6. ServedBy(R) = Served(e) BY ServedByFacts
  <2>7. R \subseteq Held BY <2>2 DEF Held, At
  <2>8. Served(x[2]) = ServedBy(R) \cup N BY <2>4, <2>6
  <2>9. TakesOver(R, x, N) BY <1>6, <1>9, <2>5, <2>8 DEF TakesOver
  <2> HIDE DEF R, x
  <2>10. HolderInv' BY <1>1, <2>7, <2>9, TakeOverKeeps
  <2> QED BY <1>7, <1>9, <2>10
<1>10. CASE waiting' = waiting \cup N /\ PQ' = Append(PQ, p)
  <2> DEFINE x == <<"PQ", p>>
  <2>0. N = Served(p) OBVIOUS
  <2> HIDE DEF p
  <2>1. ToSet(PQ') = ToSet(PQ) \cup {p} BY <1>2, <1>3, <1>10, AppendSet
  <2>2. Held' = (Held \ {}) \cup {x} BY <1>5, <2>1, HeldInPlaces DEF InPlaces, At
  <2>3. Served(x[2]) = ServedBy({}) \cup N BY <2>0, ServedByFacts
  <2>4. TakesOver({}, x, N) BY <1>6, <1>10, <2>2, <2>3 DEF TakesOver
  <2> HIDE DEF x
  <2>5. HolderInv' BY <1>1, <2>4, TakeOverKeeps
  <2> QED BY <1>7, <1>10, <2>5
<1>11. \/ UNCHANGED <<PQ, waiting>>
       \/ /\ waiting' = waiting \cup N
          /\ \/ InQueue(PQ, a) /\ PQ' = Merged(PQ, p)
             \/ PQ' = Append(PQ, p)
  BY DEF AddPq
<1> QED BY <1>8, <1>9, <1>10, <1>11

LEMMA HandleFillKeeps ==
  ASSUME TypeInv, RoomInv, HolderInv, HandleFill PROVE HolderInv' /\ RoomInv'
<1>1. PICK a \in DOMAIN MSHR : /\ waiting' = waiting \ Served(MSHR[a])
                               /\ MSHR' = [b \in DOMAIN MSHR \ {a} |-> MSHR[b]]
  BY DEF HandleFill, Answer
<1>2. kind' = kind /\ RQ' = RQ /\ PQ' = PQ BY DEF HandleFill
<1>3. PICK e : e = MSHR[a] OBVIOUS
<1>4. \A b \in DOMAIN MSHR : MSHR[b].address = b BY DEF TypeInv, MshrsOK
<1>5. Mshrs' = Mshrs \ {e} BY <1>1, <1>3, <1>4 DEF Mshrs
<1> DEFINE R == At("MSHR", {e})
<1>6. Held' = Held \ R
  <2>1. Held' = InPlaces(ToSet(RQ), ToSet(PQ), Mshrs') BY <1>2 DEF Held, InPlaces, At, Mshrs
  <2> QED BY <1>5, <2>1, HeldInPlaces DEF InPlaces, At
<1>7. R \subseteq Held BY <1>1, <1>3 DEF Held, At
<1>8. ServedBy(R) = Served(e) BY ServedByFacts
<1>9. GoAnswered(R) BY <1>1, <1>3, <1>6, <1>8 DEF GoAnswered
<1> HIDE DEF R
<1>10. HolderInv' BY <1>2, <1>7, <1>9, AnswerKeeps
<1>11. waiting' \subseteq waiting BY <1>1
<1> QED BY <1>2, <1>10, <1>11, AnswerKeepsRoom

LEMMA HandleWritebackKeeps ==
  ASSUME TypeInv, RoomInv, HolderInv, HandleWriteback PROVE HolderInv' /\ RoomInv'
<1> PICK p : p = Head(WQ) OBVIOUS
<1>1. kind' = kind /\ RQ' = RQ /\ PQ' = PQ /\ waiting' = waiting BY DEF HandleWriteback
<1>2. p \in Writes BY TailFacts DEF HandleWriteback, TypeInv
<1>3. p \in Packets /\ p.type # "PREFETCH" /\ p.loads = {} BY <1>2 DEF Writes
<1>4. RoomInv' BY <1>1, AnswerKeepsRoom
<1>5. CASE UNCHANGED MSHR
  <2>1. Held' = Held BY <1>1, <1>5 DEF Held
  <2> QED BY <1>1, <1>4, <2>1, HeldOnceKept DEF HolderInv
<1>6. CASE kind = "L1D" /\ Miss(p)
  <2>1. MshrsOK(MSHR) BY DEF TypeInv
  <2>2. Served(p) = {} BY <1>3, <1>6 DEF Served
  <2>3. PICK D \in SUBSET Mshrs, m \in Packets :
          Mshrs' = (Mshrs \ D) \cup {m} /\ Served(m) = ServedBy(At("MSHR", D)) \cup Served(p)
    BY <1>3, <1>6, <2>1, MissTakes
  <2> DEFINE R == At("MSHR", D)  x == <<"MSHR", m>>
  <2>4. Held' = InPlaces(ToSet(RQ), ToSet(PQ), Mshrs') BY <1>1 DEF Held, InPlaces, At, Mshrs
  <2>5. Held' = (Held \ R) \cup {x} BY <2>3, <2>4, HeldInPlaces DEF InPlaces, At
  <2>6. R \subseteq Held BY HeldInPlaces DEF InPlaces, At
  <2>7. Served(x[2]) = ServedBy(R) \cup {} BY <2>2, <2>3
  <2>8. waiting' = waiting \cup {} BY <1>1
  <2>9. TakesOver(R, x, {}) BY <2>5, <2>7, <2>8 DEF TakesOver
  <2> HIDE DEF R, x
  <2> QED BY <1>1, <1>4, <2>6, <2>9, TakeOverKeeps
<1> QED BY <1>5, <1>6 DEF HandleWriteback, WritebackFill

LEMMA HandleReadKeeps ==
  ASSUME TypeInv, RoomInv, HolderInv, HandleRead PROVE HolderInv' /\ RoomInv'
<1> PICK p : p = Head(RQ) OBVIOUS
<1>1. kind' = kind /\ PQ' = PQ /\ RQ # << >> /\ RQ' = Tail(RQ) BY DEF HandleRead
<1>2. RQ \in Seq(Reads) /\ OnePerBlock(RQ) /\ MshrsOK(MSHR) BY DEF TypeInv
<1>3. p \in Reads /\ p \in ToSet(RQ) BY <1>1, <1>2, TailFacts
<1>4. p \in Packets /\ p.type # "PREFETCH" /\ (kind # "L1D" => p.fill_level = Up)
  BY <1>3 DEF Reads
<1>5. ToSet(RQ') = ToSet(RQ) \ {p} BY <1>1, <1>2, TailOnePerBlock
<1>6. Held' = InPlaces(ToSet(RQ) \ {p}, ToSet(PQ), Mshrs')
  BY <1>1, <1>5 DEF Held, InPlaces, At, Mshrs
<1>7. At("RQ", {p}) \subseteq Held BY <1>3 DEF Held, At
<1>8. CASE Answer(p) /\ UNCHANGED MSHR
  <2> DEFINE R == At("RQ", {p})
  <2>1. Mshrs' = Mshrs BY <1>8 DEF Mshrs
  <2>2. Held' = Held \ R BY <1>6, <2>1, HeldInPlaces DEF InPlaces, At
  <2>3. ServedBy(R) = Served(p) BY ServedByFacts
  <2>4. GoAnswered(R) BY <1>8, <2>2, <2>3 DEF GoAnswered, Answer
  <2> HIDE DEF R
  <2>5. HolderInv' BY <1>1, <1>7, <2>4, AnswerKeeps DEF R
  <2>6. waiting' \subseteq waiting BY <1>8 DEF Answer
  <2> QED BY <1>1, <2>5, <2>6, AnswerKeepsRoom
<1>9. CASE Miss(p) /\ UNCHANGED waiting
  <2>1. PICK D \in SUBSET Mshrs, m \in Packets :
          Mshrs' = (Mshrs \ D) \cup {m} /\ Served(m) = ServedBy(At("MSHR", D)) \cup Served(p)
    BY <1>2, <1>4, <1>9, MissTakes
  <2> DEFINE R == At("RQ", {p}) \cup At("MSHR", D)  x == <<"MSHR", m>>
  <2>2. Held' = (Held \ R) \cup {x} BY <1>6, <2>1, HeldInPlaces DEF InPlaces, At
  <2>3. R \subseteq Held BY <1>7, HeldInPlaces DEF InPlaces, At
  <2>4. ServedBy(R) = Served(p) \cup ServedBy(At("MSHR", D)) BY ServedByFacts
  <2>5. Served(x[2]) = ServedBy(R) \cup {} BY <2>1, <2>4
  <2>6. waiting' = waiting \cup {} BY <1>9
  <2>7. TakesOver(R, x, {}) BY <2>2, <2>5, <2>6 DEF TakesOver
  <2> HIDE DEF R, x
  <2>8. HolderInv' BY <1>1, <2>3, <2>7, TakeOverKeeps
  <2> QED BY <1>1, <1>9, <2>8, AnswerKeepsRoom
<1> QED BY <1>8, <1>9 DEF HandleRead

LEMMA HandlePrefetchKeeps ==
  ASSUME TypeInv, RoomInv, HolderInv, HandlePrefetch PROVE HolderInv' /\ RoomInv'
<1> PICK p : p = Head(PQ) OBVIOUS
<1>1. kind' = kind /\ RQ' = RQ /\ PQ # << >> /\ PQ' = Tail(PQ) BY DEF HandlePrefetch
<1>2. PQ \in Seq(Prefetches) /\ OnePerBlock(PQ) /\ MshrsOK(MSHR) BY DEF TypeInv
<1>3. p \in Prefetches /\ p \in ToSet(PQ) BY <1>1, <1>2, TailFacts
<1>4. ToSet(PQ') = ToSet(PQ) \ {p} BY <1>1, <1>2, TailOnePerBlock
<1>5. Held' = InPlaces(ToSet(RQ), ToSet(PQ) \ {p}, Mshrs')
  BY <1>1, <1>4 DEF Held, InPlaces, At, Mshrs
<1>6. At("PQ", {p}) \subseteq Held BY <1>3 DEF Held, At
<1>7. CASE Mshrs' = Mshrs /\ waiting' = waiting \ Served(p)
  <2> DEFINE R == At("PQ", {p})
  <2>1. Held' = Held \ R BY <1>5, <1>7, HeldInPlaces DEF InPlaces, At
  <2>2. ServedBy(R) = Served(p) BY ServedByFacts
  <2>3. GoAnswered(R) BY <1>7, <2>1, <2>2 DEF GoAnswered
  <2> HIDE DEF R
  <2>4. HolderInv' BY <1>1, <1>6, <2>3, AnswerKeeps DEF R
  <2>5. waiting' \subseteq waiting BY <1>7
  <2> QED BY <1>1, <2>4, <2>5, AnswerKeepsRoom
<1>8. CASE UNCHANGED waiting /\ \E D \in SUBSET Mshrs, m \in Packets :
        Mshrs' = (Mshrs \ D) \cup {m} /\ Served(m) = ServedBy(At("MSHR", D)) \cup Served(p)
  <2>1. PICK D \in SUBSET Mshrs, m \in Packets :
          Mshrs' = (Mshrs \ D) \cup {m} /\ Served(m) = ServedBy(At("MSHR", D)) \cup Served(p)
    BY <1>8
  <2> DEFINE R == At("PQ", {p}) \cup At("MSHR", D)  x == <<"MSHR", m>>
  <2>2. Held' = (Held \ R) \cup {x} BY <1>5, <2>1, HeldInPlaces DEF InPlaces, At
  <2>3. R \subseteq Held BY <1>6, HeldInPlaces DEF InPlaces, At
  <2>4. ServedBy(R) = Served(p) \cup ServedBy(At("MSHR", D)) BY ServedByFacts
  <2>5. Served(x[2]) = ServedBy(R) \cup {} BY <2>1, <2>4
  <2>6. waiting' = waiting \cup {} BY <1>8
  <2>7. TakesOver(R, x, {}) BY <2>2, <2>5, <2>6 DEF TakesOver
  <2> HIDE DEF R, x
  <2>8. HolderInv' BY <1>1, <2>3, <2>7, TakeOverKeeps
  <2> QED BY <1>1, <1>8, <2>8, AnswerKeepsRoom
<1>9. CASE Answer(p) /\ UNCHANGED MSHR
  <2>1. Mshrs' = Mshrs BY <1>9 DEF Mshrs
  <2> QED BY <1>7, <1>9, <2>1 DEF Answer
<1>10. CASE PrefetchMiss(p) /\ UNCHANGED waiting
  <2>1. CASE Mshrs' = Mshrs /\ Served(p) = {}
    <3>1. waiting' = waiting \ Served(p) BY <1>10, <2>1
    <3> QED BY <1>7, <2>1, <3>1
  <2>2. CASE \E D \in SUBSET Mshrs, m \in Packets :
          Mshrs' = (Mshrs \ D) \cup {m} /\ Served(m) = ServedBy(At("MSHR", D)) \cup Served(p)
    BY <1>8, <1>10, <2>2
  <2> QED BY <1>2, <1>3, <1>10, <2>1, <2>2, PrefetchMissTakes
<1> QED BY <1>9, <1>10 DEF HandlePrefetch

LEMMA ReturnDataKeeps ==
  ASSUME TypeInv, RoomInv, HolderInv, ReturnData PROVE HolderInv' /\ RoomInv'
<1>1. PICK a \in DOMAIN MSHR : MSHR' = [MSHR EXCEPT ![a].returned = TRUE] BY DEF ReturnData
<1>2. kind' = kind /\ RQ' = RQ /\ PQ' = PQ /\ waiting' = waiting BY DEF ReturnData
<1>3. PICK e, m : e = MSHR[a] /\ m = [e EXCEPT !.returned = TRUE] OBVIOUS
<1>4. MSHR \in [DOMAIN MSHR -> Packets] /\ \A b \in DOMAIN MSHR : MSHR[b].address = b
  BY DEF TypeInv, MshrsOK
<1>5. e \in Packets BY <1>1, <1>3, <1>4
<1>6. Served(m) = Served(e) BY <1>3, <1>5 DEF Served, Packets
<1>7. /\ DOMAIN MSHR' = DOMAIN MSHR /\ MSHR'[a] = m
      /\ \A b \in DOMAIN MSHR \ {a} : MSHR'[b] = MSHR[b] /\ MSHR[b] # e
  BY <1>1, <1>3, <1>4
<1>8. Mshrs' = (Mshrs \ {e}) \cup {m} BY <1>1, <1>3, <1>7 DEF Mshrs
<1> DEFINE R == At("MSHR", {e})  x == <<"MSHR", m>>
<1>9. Held' = InPlaces(ToSet(RQ), ToSet(PQ), Mshrs') BY <1>2 DEF Held, InPlaces, At, Mshrs
<1>10. Held' = (Held \ R) \cup {x} BY <1>8, <1>9, HeldInPlaces DEF InPlaces, At
<1>11. R \subseteq Held BY <1>1, <1>3 DEF Held, At
<1>12. ServedBy(R) = Served(e) BY ServedByFacts
<1>13. Served(x[2]) = ServedBy(R) \cup {} BY <1>6, <1>12
<1>14. waiting' = waiting \cup {} BY <1>2
<1>15. TakesOver(R, x, {}) BY <1>10, <1>13, <1>14 DEF TakesOver
<1> HIDE DEF R, x
<1>16. HolderInv' BY <1>2, <1>11, <1>15, TakeOverKeeps
<1> QED BY <1>2, <1>16, AnswerKeepsRoom
-----------------------------------------------------------------------------
(* The theorems *)

IInv == TypeInv /\ MissesMatchLower /\ RoomInv /\ HolderInv /\ WrittenBlocksStayDirty

LEMMA Initially == Init => IInv
<1> SUFFICES ASSUME Init PROVE IInv OBVIOUS
<1>1. TypeInv /\ MissesMatchLower
  <2>1. RQ = << >> /\ PQ = << >> /\ WQ = << >> /\ DOMAIN MSHR = {} /\ kind \in Kinds BY DEF Init
  <2>2. MshrsOK(MSHR) BY <2>1 DEF Init, MshrsOK
  <2>3. OnePerBlock(RQ) /\ OnePerBlock(PQ) BY <2>1 DEF OnePerBlock
  <2>4. RQ \in Seq(Reads) /\ PQ \in Seq(Prefetches) /\ WQ \in Seq(Writes) BY <2>1
  <2>5. block \in [Ways -> Contents] BY DEF Init, EmptyBlock, Contents
  <2>6. MissesMatchLower BY <2>1 DEF Init, MissesMatchLower
  <2> QED BY <2>1, <2>2, <2>3, <2>4, <2>5, <2>6 DEF TypeInv, Contents
<1>2. RoomInv
  <2>1. waiting = {} BY DEF Init
  <2>2. IsFiniteSet(waiting) BY <2>1, FS_EmptySet
  <2>3. \A u : Cardinality(AskedBy(u)) = 0 BY <2>1, FS_EmptySet DEF AskedBy
  <2> QED BY <2>1, <2>2, <2>3, SizeAssumption DEF RoomInv
<1>3. HolderInv
  <2>1. waiting = {} /\ Held = {} BY DEF Init, Held, ToSet
  <2> QED BY <2>1 DEF HolderInv, HeldOnce
<1>4. WrittenBlocksStayDirty BY DEF Init, WrittenBlocksStayDirty
<1> QED BY <1>1, <1>2, <1>3, <1>4 DEF IInv

LEMMA HoldersKeep ==
  ASSUME TypeInv, RoomInv, HolderInv, [Next]_vars PROVE HolderInv' /\ RoomInv'
<1>1. CASE UNCHANGED <<kind, RQ, PQ, MSHR, waiting>>
  <2>1. Held' = Held BY <1>1 DEF Held
  <2> QED BY <1>1, <2>1, HeldOnceKept, AnswerKeepsRoom DEF HolderInv
<1> QED
  BY <1>1, AddRqKeeps, AddPqKeeps, HandleFillKeeps, HandleWritebackKeeps, HandleReadKeeps,
     HandlePrefetchKeeps, ReturnDataKeeps
  DEF Next, vars, AddWq, InvalidateEntry, Levels

\* For every kind of cache and any sizes: queues and MSHRs hold what they may, for each
\* block one entry, which knows whom it answers.
THEOREM Invariance == Spec => []IInv
<1>1. IInv /\ [Next]_vars => IInv' BY TypeKeeps, HoldersKeep, DirtyKeeps DEF IInv
<1> QED BY <1>1, Initially, PTL DEF Spec

LEMMA HeldOnceCounts == HolderInv => WaitersAreHeldOnce
<1> SUFFICES ASSUME HolderInv PROVE WaitersAreHeldOnce OBVIOUS
<1>1. ASSUME NEW w \in waiting PROVE Cardinality({h \in Held : w \in Served(h[2])}) = 1
  <2>1. PICK h \in Held : w \in Served(h[2]) /\ \A g \in Held : w \in Served(g[2]) => g = h
    BY DEF HolderInv, HeldOnce
  <2>2. {g \in Held : w \in Served(g[2])} = {h} BY <2>1
  <2> QED BY <2>2, FS_Singleton
<1> QED BY <1>1 DEF HolderInv, HeldOnce, WaitersAreHeldOnce

\* Whoever waits for a block is in exactly one entry, and each entry that is not answered
\* is one that the lower level answers: merging, taking over a prefetch and changing
\* fill_level lose nobody (add_rq, handle_read, handle_prefetch, return_data).
THEOREM WaitersAreAlwaysServed == Spec => []WaitersAreServed
<1>1. IInv => WaitersAreServed BY HeldOnceCounts DEF IInv, WaitersAreServed
<1> QED BY <1>1, Invariance, PTL

\* No write-back to the L2C or the LLC is lost, whatever is filled, invalidated or in
\* flight (handle_writeback, fill_cache, invalidate_entry).
THEOREM WritesAreNeverLost == Spec => []WrittenBlocksStayDirty
<1>1. IInv => WrittenBlocksStayDirty BY DEF IInv
<1> QED BY <1>1, Invariance, PTL
=============================================================================
