----------------------------- MODULE BasicCache -----------------------------
(***************************************************************************)
(* One CACHE of the older simulator (ChampSim基础要求/src/cache.cc), with  *)
(* the levels around it as its environment.  kind says which one:          *)
(*                                                                         *)
(*   "L1D"   asked by the core, by load; stores come through its WQ        *)
(*   "L2C"   asked by the L1I ("icache") and the L1D ("dcache")            *)
(*   "STLB"  as the L2C, of the ITLB and the DTLB; the last level          *)
(*   "LLC"   asked by the L2C, which is both of its upper levels           *)
(*                                                                         *)
(* Queues are first in, first out; an entry is handled when its time has   *)
(* come, so that an action may come at any time.  A handler that finds no  *)
(* MSHR, or no room below, changes nothing, and tries again.               *)
(***************************************************************************)
EXTENDS Integers, Sequences, FiniteSets, SequencesExt

CONSTANTS Kinds,                 \* the kinds of cache to consider
          Loads,                 \* slots of the load queue (above the L1D)
          CodeBlocks, DataBlocks,
          None,
          NUM_WAY, RQ_SIZE, WQ_SIZE, PQ_SIZE, MSHR_SIZE,
          UPPER_MSHR_SIZE,       \* misses of one upper level at a time
          MaxAsks                \* bound: calls from above

\* The L1s together, or the TLBs, have no more misses than the RQ below them has
\* room (inc/cache.h:18-78): a request that finds it full is forgotten.
ASSUME RoomAssumption == 2 * UPPER_MSHR_SIZE <= RQ_SIZE
ASSUME SizeAssumption == /\ NUM_WAY \in Nat \ {0}
                         /\ {RQ_SIZE, WQ_SIZE, PQ_SIZE, UPPER_MSHR_SIZE, MaxAsks} \subseteq Nat
                         /\ MSHR_SIZE \in Nat \ {0}
                         /\ Kinds \subseteq {"L1D", "L2C", "STLB", "LLC"}

\* The code of a program and its data are in blocks of their own: an entry that merges
\* a read of the L1I and one of the L1D has one instruction flag, and answers only one
\* of them (cache.cc:1158).
ASSUME BlocksAssumption == CodeBlocks \cap DataBlocks = {}

Blocks == CodeBlocks \cup DataBlocks
Ways   == 1..NUM_WAY

\* fill_level, as it compares with the level of this cache.
Up    == 1
Here  == 2
Below == 3
Least(a, b) == IF a < b THEN a ELSE b

VARIABLES kind, block, RQ, WQ, PQ, MSHR,
          below,      \* reads that the lower level has not answered
          waiting,    \* <<who, block>> that was asked for and not answered
          unsaved,    \* blocks with a write that has not gone to the lower level
          asks
vars == <<kind, block, RQ, WQ, PQ, MSHR, below, waiting, unsaved, asks>>

Packet(a, type, level, instruction, loads) ==
  [address |-> a, type |-> type, fill_level |-> level, instruction |-> instruction,
   loads |-> loads, returned |-> FALSE]
EmptyBlock == [address |-> None, valid |-> FALSE, dirty |-> FALSE]

Init == /\ kind \in Kinds
        /\ block = [w \in Ways |-> EmptyBlock]
        /\ RQ = <<>> /\ WQ = <<>> /\ PQ = <<>> /\ MSHR = [a \in {} |-> None]
        /\ below = {} /\ waiting = {} /\ unsaved = {} /\ asks = 0
-----------------------------------------------------------------------------
\* check_queue, check_mshr, and whether get_occupancy is less than get_size.
InQueue(q, a) == \E n \in DOMAIN q : q[n].address = a
InFlight(a) == a \in DOMAIN MSHR
Room(q, size) == Len(q) < size
\* check_hit: the first way that holds the block.
Hits(a) == {w \in Ways : block[w].valid /\ block[w].address = a}
HitWay(a) == CHOOSE w \in Hits(a) : \A v \in Hits(a) : w <= v

\* Whom an answer for p goes to: PROCESSED for the core, which knows the loads
\* that were merged; above, return_data of one upper level, and only if the
\* packet has its level to fill.
Served(p) ==
  IF kind = "L1D" THEN IF p.type = "PREFETCH" THEN {} ELSE {<<l, p.address>> : l \in p.loads}
  ELSE IF p.fill_level = Up
       THEN {<<IF kind = "LLC" THEN "L2C" ELSE IF p.instruction THEN "icache" ELSE "dcache",
               p.address>>}
       ELSE {}
Answer(p) == waiting' = waiting \ Served(p)

\* (mutant) what is written back is not marked.
FillClean(way, a, dirty) ==
  /\ block' = [block EXCEPT ![way] = [address |-> a, valid |-> TRUE, dirty |-> FALSE]]
  /\ unsaved' = IF block[way].dirty THEN unsaved \ {block[way].address} ELSE unsaved
\* fill_cache; what was dirty in the way goes to the lower level.
FillCache(way, a, dirty) ==
  /\ block' = [block EXCEPT ![way] = [address |-> a, valid |-> TRUE, dirty |-> dirty]]
  /\ unsaved' = IF block[way].dirty THEN unsaved \ {block[way].address} ELSE unsaved

\* (mutants) the demand that comes late is not taken over; or is, and starts anew.
LateMiss(entry, p) == [entry EXCEPT !.fill_level = Least(@, p.fill_level)]
NewMiss(entry, p) ==
  IF entry.type = "PREFETCH" THEN p
  ELSE [entry EXCEPT !.loads = @ \cup p.loads, !.fill_level = Least(@, p.fill_level)]
\* An entry that was asked for by a prefetch becomes the demand that comes late,
\* but stays as far as it was; else the demand is only remembered with it.
MergeMiss(entry, p) ==
  IF entry.type = "PREFETCH" THEN [p EXCEPT !.returned = entry.returned]
  ELSE [entry EXCEPT !.loads = @ \cup p.loads, !.fill_level = Least(@, p.fill_level)]
AddMshr(p) == MSHR' = [a \in DOMAIN MSHR \cup {p.address} |-> IF a = p.address THEN p ELSE MSHR[a]]

\* A miss of p: merged with one that is in flight, or sent to the lower level.  The
\* STLB has none: it emulates the walk of the page table and answers itself.
Miss(p) ==
  \/ /\ InFlight(p.address)
     /\ AddMshr(MergeMiss(MSHR[p.address], p)) /\ UNCHANGED below
  \/ /\ ~InFlight(p.address) /\ Cardinality(DOMAIN MSHR) < MSHR_SIZE
     /\ AddMshr([p EXCEPT !.returned = (kind = "STLB")])
     /\ below' = IF kind = "STLB" THEN below ELSE below \cup {p.address}
-----------------------------------------------------------------------------
(* What the upper levels call: add_rq, add_wq, add_pq, prefetch_line, invalidate_entry *)

Call == asks < MaxAsks /\ asks' = asks + 1

\* An upper level merges in its own MSHRs and asks once for a block at a time.
Uppers == CASE kind = "L1D" -> Loads [] kind = "LLC" -> {"L2C"} [] OTHER -> {"icache", "dcache"}
MayAsk(u, a) ==
  /\ u \in Uppers /\ a \in (IF u = "icache" THEN CodeBlocks ELSE DataBlocks)
  /\ IF kind = "L1D" THEN \A w \in waiting : w[1] # u
     ELSE <<u, a>> \notin waiting /\ Cardinality({w \in waiting : w[1] = u}) < UPPER_MSHR_SIZE

\* A write that waits in the WQ answers a read; above all of the L1D, only a read of
\* the same word (PACKET_QUEUE::check_queue).
Forwarded(a) == IF ~InQueue(WQ, a) THEN {FALSE} ELSE IF kind = "L1D" THEN BOOLEAN ELSE {TRUE}

\* (mutant) the entry in the queue keeps its fill_level.
MergedAsItIs(q, p) == [n \in DOMAIN q |-> IF q[n].address # p.address THEN q[n]
                         ELSE [q[n] EXCEPT !.loads = @ \cup p.loads]]
\* A read of the RQ for the same block takes p along (a load, by its slot).
Merged(q, p) == [n \in DOMAIN q |-> IF q[n].address # p.address THEN q[n]
                   ELSE [q[n] EXCEPT !.loads = @ \cup p.loads,
                                     !.fill_level = Least(@, p.fill_level)]]

\* add_rq.  The core keeps what a full RQ refuses; a cache above does not look.
AddRq(u, a) ==
  LET p == Packet(a, "LOAD", IF kind = "L1D" THEN Here ELSE Up, u = "icache",
                  IF kind = "L1D" THEN {u} ELSE {})
  IN /\ Call /\ MayAsk(u, a)
     /\ kind = "L1D" => InQueue(RQ, a) \/ Room(RQ, RQ_SIZE)
     /\ \E forwarded \in Forwarded(a) :
          IF forwarded THEN UNCHANGED <<RQ, waiting>>
          ELSE /\ waiting' = waiting \cup {<<u, a>>}
               /\ RQ' = IF InQueue(RQ, a) THEN Merged(RQ, p)
                        ELSE IF Room(RQ, RQ_SIZE) THEN Append(RQ, p) ELSE RQ
     /\ UNCHANGED <<kind, block, WQ, PQ, MSHR, below, unsaved>>

\* add_wq, when there is room: a store of the core, or a write-back.
AddWq(a) ==
  /\ Call /\ kind # "STLB" /\ a \in DataBlocks /\ Room(WQ, WQ_SIZE)
  /\ unsaved' = unsaved \cup {a}
  /\ LET p == Packet(a, IF kind = "L1D" THEN "RFO" ELSE "WRITEBACK", Here, FALSE, {})
     IN \/ InQueue(WQ, a) /\ UNCHANGED WQ
        \/ (InQueue(WQ, a) => kind = "L1D") /\ WQ' = Append(WQ, p)
  /\ UNCHANGED <<kind, block, RQ, PQ, MSHR, below, waiting>>

\* add_pq, when there is room: a prefetch of this cache's own prefetcher, or one
\* from above, which waits for it if it is to fill the upper level.
AddPq(a, level) ==
  /\ Call /\ kind # "STLB" /\ a \in DataBlocks /\ Room(PQ, PQ_SIZE)
  /\ level = Up => kind # "L1D" /\ MayAsk(IF kind = "LLC" THEN "L2C" ELSE "dcache", a)
  /\ level = Below => kind # "LLC"
  /\ LET p == Packet(a, "PREFETCH", level, FALSE, {})
     IN \E forwarded \in Forwarded(a) :
          IF forwarded THEN UNCHANGED <<PQ, waiting>>
          ELSE /\ PQ' = IF InQueue(PQ, a) THEN Merged(PQ, p) ELSE Append(PQ, p)
               /\ waiting' = waiting \cup Served(p)
  /\ UNCHANGED <<kind, block, RQ, WQ, MSHR, below, unsaved>>

\* invalidate_entry, when the page is given away; it leaves the dirty bit.
InvalidateEntry(a) ==
  /\ Call /\ Hits(a) # {}
  /\ block' = [block EXCEPT ![HitWay(a)].valid = FALSE]
  /\ UNCHANGED <<kind, RQ, WQ, PQ, MSHR, below, waiting, unsaved>>
-----------------------------------------------------------------------------
(* operate *)

\* handle_fill of the entry that is ready (update_fill_cycle).  The replacement
\* policy of the LLC may bypass it.
HandleFill ==
  \E a \in DOMAIN MSHR :
    LET entry == MSHR[a] IN
    /\ entry.returned
    /\ \/ \E way \in Ways : FillCache(way, a, kind = "L1D" /\ entry.type = "RFO")
       \/ kind = "LLC" /\ UNCHANGED <<block, unsaved>>
    /\ Answer(entry)
    /\ MSHR' = [b \in DOMAIN MSHR \ {a} |-> MSHR[b]]
    /\ UNCHANGED <<kind, RQ, WQ, PQ, below, asks>>

\* The L2C and the LLC take a write-back that misses in at once, whatever is in
\* flight for the block.
WritebackFill(p) == /\ \E way \in Ways : FillCache(way, p.address, TRUE)
                    /\ UNCHANGED <<MSHR, below>>

HandleWriteback ==
  /\ WQ # <<>> /\ WQ' = Tail(WQ)
  /\ LET p == Head(WQ) IN
     \/ /\ Hits(p.address) # {}
        /\ block' = [block EXCEPT ![HitWay(p.address)].dirty = TRUE]
        /\ UNCHANGED <<MSHR, below, unsaved>>
     \/ /\ Hits(p.address) = {} /\ kind = "L1D"
        /\ Miss(p) /\ UNCHANGED <<block, unsaved>>
     \/ Hits(p.address) = {} /\ kind # "L1D" /\ WritebackFill(p)
  /\ UNCHANGED <<kind, RQ, PQ, waiting, asks>>

HandleRead ==
  /\ RQ # <<>> /\ RQ' = Tail(RQ)
  /\ LET p == Head(RQ) IN
     \/ Hits(p.address) # {} /\ Answer(p) /\ UNCHANGED <<MSHR, below>>
     \/ Hits(p.address) = {} /\ Miss(p) /\ UNCHANGED waiting
  /\ UNCHANGED <<kind, block, WQ, PQ, unsaved, asks>>

\* A prefetch for a level below takes no MSHR and is not answered; one that meets
\* a miss in flight only lowers the level that this fills.
PrefetchMiss(p) ==
  \/ /\ InFlight(p.address)
     /\ MSHR' = [MSHR EXCEPT ![p.address].fill_level = Least(@, p.fill_level)]
     /\ UNCHANGED below
  \/ /\ ~InFlight(p.address) /\ Cardinality(DOMAIN MSHR) < MSHR_SIZE
     /\ IF p.fill_level = Below THEN UNCHANGED <<MSHR, below>>
        ELSE AddMshr(p) /\ below' = below \cup {p.address}

HandlePrefetch ==
  /\ PQ # <<>> /\ PQ' = Tail(PQ)
  /\ LET p == Head(PQ) IN
     \/ Hits(p.address) # {} /\ Answer(p) /\ UNCHANGED <<MSHR, below>>
     \/ Hits(p.address) = {} /\ PrefetchMiss(p) /\ UNCHANGED waiting
  /\ UNCHANGED <<kind, block, RQ, WQ, unsaved, asks>>

\* return_data, called by the lower level.
ReturnData ==
  \E a \in below \cap DOMAIN MSHR :
    /\ MSHR' = [MSHR EXCEPT ![a].returned = TRUE] /\ below' = below \ {a}
    /\ UNCHANGED <<kind, block, RQ, WQ, PQ, waiting, unsaved, asks>>

Next == \/ \E u \in Loads \cup {"L2C", "icache", "dcache"}, a \in Blocks : AddRq(u, a)
        \/ \E a \in Blocks : AddWq(a) \/ InvalidateEntry(a)
        \/ \E a \in Blocks, level \in {Up, Here, Below} : AddPq(a, level)
        \/ HandleFill \/ HandleWriteback \/ HandleRead \/ HandlePrefetch \/ ReturnData

Spec     == Init /\ [][Next]_vars
\* operate() calls the handlers in every cycle and the lower level answers; no
\* step undoes another, so it is enough that something is done while it can be.
FairSpec == Spec /\ WF_vars(Next)
-----------------------------------------------------------------------------
\* The entries that answer somebody, each with the place it is in.
Held == {"RQ"} \X ToSet(RQ) \cup {"PQ"} \X ToSet(PQ) \cup {"MSHR"} \X {MSHR[a] : a \in DOMAIN MSHR}

\* Every upper level that waits for a block is remembered in one entry of the RQ,
\* the PQ or the MSHRs, and every entry that will call return_data of an upper
\* level calls one that waits (the assert in return_data, cache.cc:1458): levels
\* merge, replace prefetches and change fill_level without losing or doubling it.
WaitersAreHeldOnce ==
  /\ \A w \in waiting : Cardinality({h \in Held : w \in Served(h[2])}) = 1
  /\ \A h \in Held : Served(h[2]) \subseteq waiting

\* What the lower level still owes is exactly what an MSHR waits for, so that
\* return_data finds its entry and no entry waits for ever (cache.cc:1453).
MissesMatchLower == below = {a \in DOMAIN MSHR : ~MSHR[a].returned}

\* Both: the queues, the MSHRs and the levels around agree on who waits for what.
WaitersAreServed == WaitersAreHeldOnce /\ MissesMatchLower

\* A block that was written back to this cache is dirty here, or its write is still
\* in the WQ, until it has gone to the lower level: neither a fill, nor an
\* invalidation, nor a second copy of the block loses it.
WrittenBlocksStayDirty ==
  kind # "L1D" => \A a \in unsaved : \/ InQueue(WQ, a)
                                     \/ \E w \in Ways : block[w].dirty /\ block[w].address = a

\* Every read and every prefetch is answered: no request is left in a queue, an
\* MSHR or an upper level that nothing calls again (print_deadlock, main.cc:249).
EverythingIsAnswered == <>[](waiting = {} /\ RQ = <<>> /\ WQ = <<>> /\ PQ = <<>> /\ MSHR = <<>>)
=============================================================================
