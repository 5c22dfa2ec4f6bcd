------------------------------- MODULE Cache -------------------------------
(***************************************************************************)
(* One cache level (src/cache.cc) whose addresses are physical already     *)
(* (lower_translate = nullptr: L2C, LLC, or an L1D whose requests come     *)
(* translated).  CACHE::operate runs once per cycle and goes through the   *)
(* stages that pc names, in the order of the source:                       *)
(*                                                                         *)
(*   idle     between two cycles; the levels above and below run           *)
(*   collide  check_collision of every upper channel                       *)
(*   finish   lower_level->returned: finish_packet                         *)
(*   fill     the ready prefix of MSHR: handle_fill                        *)
(*   write    the ready prefix of inflight_writes: handle_fill             *)
(*   start    heads of WQ, RQ, PQ and internal_PQ enter inflight_tag_check *)
(*   check    its ready prefix: try_hit, handle_write, handle_miss         *)
(*   cycle    calls of prefetch_line, then ++current_cycle                 *)
(*                                                                         *)
(* An event_cycle becomes `left', the cycles until it is due; Never is     *)
(* numeric_limits<uint64_t>::max(), an MSHR whose answer is outstanding.   *)
(* Addresses are compared by block only, except in the write queue of an   *)
(* L1D (see Channel).  Data, statistics and prefetch metadata are left out.*)
(***************************************************************************)
EXTENDS Channel

CONSTANTS NumUppers,          \* size of upper_levels
          None,               \* no block, nothing wanted
          NUM_WAY, SetOf,     \* SetOf: get_set_index of a block
          MSHR_SIZE, RQ_SIZE, WQ_SIZE, PQ_SIZE,
          HIT_LATENCY, FILL_LATENCY, MAX_TAG, MAX_FILL,
          prefetch_as_load,
          MayBypass,          \* the replacement policy may return NUM_WAY
          LOWER_SIZE,         \* capacity of each queue of the channel below
          MaxInFlight         \* bound: packets in this cache when another one comes

Uppers == 1..NumUppers
Ways   == 1..NUM_WAY
Sets   == {SetOf[b] : b \in Blocks}
Never  == -1

ASSUME CacheAssumption ==
  /\ {NumUppers, NUM_WAY, MSHR_SIZE, RQ_SIZE, WQ_SIZE, PQ_SIZE} \subseteq Nat \ {0}
  /\ {MAX_TAG, MAX_FILL, LOWER_SIZE} \subseteq Nat \ {0}
  /\ HIT_LATENCY \in Nat \ {0} /\ FILL_LATENCY \in Nat /\ MaxInFlight \in Nat
  /\ prefetch_as_load \in BOOLEAN /\ MayBypass \in BOOLEAN
  /\ None \notin Blocks \cup [upper : Uppers, block : Blocks]

VARIABLES
  pc, bw,                  \* the stage, and the bandwidth it has left
  warmup,
  RQ, WQ, PQ,              \* upper level -> queue
  inflight_tag_check, MSHR, inflight_writes, internal_PQ,
  block,                   \* set -> way -> BLOCK
  asked,                   \* lower_level: requests it has to answer, by queue
  lower_WQ,                \* lower_level->WQ: blocks written back
  returned,                \* lower_level->returned: blocks answered
  waiting,                 \* environment: load -> who waits for it, and for which block
  unwritten                \* history: blocks written to this cache, not yet below

queues == <<RQ, WQ, PQ>>
tags   == <<inflight_tag_check, internal_PQ>>
misses == <<MSHR, inflight_writes>>
lower  == <<asked, lower_WQ, returned>>
vars   == <<pc, bw, warmup, queues, tags, misses, block, lower, waiting, unwritten>>
-----------------------------------------------------------------------------
tag_lookup_type ==
  [block : Blocks, type : access_type, prefetch_from_this : BOOLEAN, skip_fill : BOOLEAN,
   left : Nat, instr_depend_on_me : SUBSET Loads, to_return : SUBSET Uppers]

mshr_type == [block : Blocks, type : access_type, left : Nat \cup {Never},
              instr_depend_on_me : SUBSET Loads, to_return : SUBSET Uppers]

BLOCK == [valid : BOOLEAN, dirty : BOOLEAN, block : Blocks \cup {None}]
Invalid == [valid |-> FALSE, dirty |-> FALSE, block |-> None]

ToMshr(pkt, l) ==
  [block |-> pkt.block, type |-> pkt.type, left |-> l,
   instr_depend_on_me |-> pkt.instr_depend_on_me, to_return |-> pkt.to_return]

Hit_latency  == IF warmup THEN 0 ELSE HIT_LATENCY
Fill_latency == IF warmup THEN 0 ELSE FILL_LATENCY

Due(q) == q # <<>> /\ q[1].left = 0

\* A response reaches the upper levels in ret; it serves the loads in deps that
\* an upper level among them is waiting for.
Served(ret, deps) == {l \in deps : waiting[l] # None /\ waiting[l].upper \in ret}
Respond(ret, deps) ==
  waiting' = [l \in Loads |-> IF l \in Served(ret, deps) THEN None ELSE waiting[l]]

\* The stage ends; the next one has bandwidth n.
GoTo(stage, n) == pc' = stage /\ bw' = n

Writes(q) == {i \in DOMAIN q : q[i].type = "WRITE"}
InFlight == Len(inflight_tag_check) + Len(MSHR) + Len(inflight_writes) + Len(internal_PQ)
            + FoldFunction(LAMBDA q, n : Len(q) + n, 0, RQ)
            + FoldFunction(LAMBDA q, n : Len(q) + n, 0, WQ)
            + FoldFunction(LAMBDA q, n : Len(q) + n, 0, PQ)
Room == InFlight < MaxInFlight

Init ==
  /\ pc = "idle" /\ bw = 0 /\ warmup \in BOOLEAN
  /\ RQ = [u \in Uppers |-> <<>>] /\ WQ = RQ /\ PQ = RQ
  /\ inflight_tag_check = <<>> /\ MSHR = <<>> /\ inflight_writes = <<>> /\ internal_PQ = <<>>
  /\ block = [s \in Sets |-> [w \in Ways |-> Invalid]]
  /\ asked = {} /\ lower_WQ = <<>> /\ returned = <<>>
  /\ waiting = [l \in Loads |-> None] /\ unwritten = {}
-----------------------------------------------------------------------------
(* idle: the levels above and below run *)

Wanted == [upper : Uppers, block : Blocks]
Issue(u, l, a) ==
  waiting[l] = None /\ waiting' = [waiting EXCEPT ![l] = [upper |-> u, block |-> BlockOf[a]]]

AddRq(u, l, a) ==
  /\ pc = "idle" /\ Room /\ HasRoom(RQ[u], RQ_SIZE) /\ Issue(u, l, a)
  /\ RQ' = [RQ EXCEPT ![u] = AddQueue(@, NewRequest(a, "LOAD", TRUE, {l}))]
  /\ UNCHANGED <<pc, bw, warmup, WQ, PQ, tags, misses, block, lower, unwritten>>

\* A prefetch that fills the level above wants a response, like a load.
AddPq(u, l, a) ==
  /\ pc = "idle" /\ Room /\ HasRoom(PQ[u], PQ_SIZE) /\ Issue(u, l, a)
  /\ PQ' = [PQ EXCEPT ![u] = AddQueue(@, NewRequest(a, "PREFETCH", TRUE, {l}))]
  /\ UNCHANGED <<pc, bw, warmup, RQ, WQ, tags, misses, block, lower, unwritten>>

AddPqNoResponse(u, a) ==
  /\ pc = "idle" /\ Room /\ HasRoom(PQ[u], PQ_SIZE)
  /\ PQ' = [PQ EXCEPT ![u] = AddQueue(@, NewRequest(a, "PREFETCH", FALSE, {}))]
  /\ UNCHANGED <<pc, bw, warmup, RQ, WQ, tags, misses, block, lower, waiting, unwritten>>

AddWq(u, a) ==
  /\ pc = "idle" /\ Room /\ HasRoom(WQ[u], WQ_SIZE)
  /\ WQ' = [WQ EXCEPT ![u] = AddQueue(@, NewRequest(a, "WRITE", FALSE, {}))]
  /\ unwritten' = unwritten \cup {BlockOf[a]}
  /\ UNCHANGED <<pc, bw, warmup, RQ, PQ, tags, misses, block, lower, waiting>>

\* The level below answers in any order.
LowerAnswers(r) ==
  /\ pc = "idle" /\ r \in asked
  /\ asked' = asked \ {r} /\ returned' = Append(returned, r.block)
  /\ UNCHANGED <<pc, bw, warmup, queues, tags, misses, block, lower_WQ, waiting, unwritten>>

LowerTakesWrite ==
  /\ pc = "idle" /\ lower_WQ # <<>> /\ lower_WQ' = Tail(lower_WQ)
  /\ UNCHANGED <<pc, bw, warmup, queues, tags, misses, block, asked, returned, waiting, unwritten>>

EndWarmup ==
  /\ pc = "idle" /\ warmup /\ warmup' = FALSE
  /\ UNCHANGED <<pc, bw, queues, tags, misses, block, lower, waiting, unwritten>>

StartCycle ==
  /\ pc = "idle" /\ GoTo("collide", 0)
  /\ UNCHANGED <<warmup, queues, tags, misses, block, lower, waiting, unwritten>>
-----------------------------------------------------------------------------
(* check_collision of every upper channel, WQ before RQ before PQ *)

Behind(u) == \A v \in 1..(u - 1) : Unchecked(WQ[v]) \cup Unchecked(RQ[v]) \cup Unchecked(PQ[v]) = {}

CheckWq(u, j) ==
  /\ pc = "collide" /\ Behind(u) /\ First(Unchecked(WQ[u]), j)
  /\ LET same == SameWrite(WQ[u], j - 1, WQ[u][j])
     IN WQ' = [WQ EXCEPT ![u] = IF same = {} THEN Checked(@, j)
                                ELSE Merge(@, CHOOSE i \in same : First(same, i), j)]
  /\ UNCHANGED <<pc, bw, warmup, RQ, PQ, tags, misses, block, lower, waiting, unwritten>>

\* A read or a prefetch of a block that is being written is answered from WQ,
\* otherwise it is merged into an earlier one of its queue.
CheckedReads(u, q, j) ==
  LET forward == SameWrite(WQ[u], Len(WQ[u]), q[j])
      same    == SameRead(q, j - 1, q[j])
  IN IF forward # {} THEN RemoveAt(q, j)
     ELSE IF same # {} THEN Merge(q, CHOOSE i \in same : First(same, i), j)
     ELSE Checked(q, j)
\* (mutant) forwarded without an answer
AnswerNone(u, packet) == UNCHANGED waiting
AnswerForwarded(u, packet) ==
  IF SameWrite(WQ[u], Len(WQ[u]), packet) # {} /\ packet.response_requested
  THEN Respond({u}, packet.instr_depend_on_me) ELSE UNCHANGED waiting

CheckRq(u, j) ==
  /\ pc = "collide" /\ Behind(u) /\ Unchecked(WQ[u]) = {} /\ First(Unchecked(RQ[u]), j)
  /\ AnswerForwarded(u, RQ[u][j])
  /\ RQ' = [RQ EXCEPT ![u] = CheckedReads(u, @, j)]
  /\ UNCHANGED <<pc, bw, warmup, WQ, PQ, tags, misses, block, lower, unwritten>>

CheckPq(u, j) ==
  /\ pc = "collide" /\ Behind(u) /\ Unchecked(WQ[u]) \cup Unchecked(RQ[u]) = {}
  /\ First(Unchecked(PQ[u]), j)
  /\ AnswerForwarded(u, PQ[u][j])
  /\ PQ' = [PQ EXCEPT ![u] = CheckedReads(u, @, j)]
  /\ UNCHANGED <<pc, bw, warmup, RQ, WQ, tags, misses, block, lower, unwritten>>

EndCollide ==
  /\ pc = "collide" /\ Behind(NumUppers + 1) /\ GoTo("finish", 0)
  /\ UNCHANGED <<warmup, queues, tags, misses, block, lower, waiting, unwritten>>
-----------------------------------------------------------------------------
(* finish_packet *)

Outstanding(q) == {i \in DOMAIN q : q[i].left = Never}
\* (mutant) a miss whose answer has come is taken for finished
EntryOutstanding(q, b) == {i \in Outstanding(q) : q[i].block = b}
EntryOf(q, b) == {i \in DOMAIN q : q[i].block = b}

Swapped(q, i, j, e) == [q EXCEPT ![i] = q[j], ![j] = e]

\* The entry goes behind those answered before and in front of the outstanding ones.
FinishPacket(i, j) ==
  /\ pc = "finish" /\ returned # <<>>
  /\ First(EntryOf(MSHR, returned[1]), i) /\ First(Outstanding(MSHR), j)
  /\ MSHR' = Swapped(MSHR, i, j, [MSHR[i] EXCEPT !.left = Fill_latency])
  /\ returned' = Tail(returned)
  /\ UNCHANGED <<pc, bw, warmup, queues, tags, inflight_writes, block, asked, lower_WQ,
                 waiting, unwritten>>

EndFinish ==
  /\ pc = "finish" /\ returned = <<>> /\ GoTo("fill", MAX_FILL)
  /\ UNCHANGED <<warmup, queues, tags, misses, block, lower, waiting, unwritten>>
-----------------------------------------------------------------------------
(* handle_fill: the same for a miss that was answered and for a write *)

InSet(e) == block[SetOf[e.block]]

\* The first invalid way, or what the replacement policy says.
Victims(e) ==
  LET free == {w \in Ways : ~InSet(e)[w].valid}
  IN IF free # {} THEN {w \in free : First(free, w)} ELSE Ways
Bypassed(e) == MayBypass /\ e.type # "WRITE" /\ \A w \in Ways : InSet(e)[w].valid

Filled(e) == [valid |-> TRUE, dirty |-> e.type = "WRITE", block |-> e.block]

MustWriteBack(e, w) == InSet(e)[w].valid /\ InSet(e)[w].dirty

\* (mutant) the victim is replaced although the queue below is full
ReplaceAnyway(e, w) ==
  /\ IF MustWriteBack(e, w) /\ HasRoom(lower_WQ, LOWER_SIZE)
     THEN lower_WQ' = Append(lower_WQ, InSet(e)[w].block) /\ unwritten' = unwritten \ {InSet(e)[w].block}
     ELSE UNCHANGED <<lower_WQ, unwritten>>
  /\ block' = [block EXCEPT ![SetOf[e.block]][w] = Filled(e)]
Replace(e, w) ==
  /\ IF MustWriteBack(e, w)
     THEN /\ HasRoom(lower_WQ, LOWER_SIZE)
          /\ lower_WQ' = Append(lower_WQ, InSet(e)[w].block)
          /\ unwritten' = unwritten \ {InSet(e)[w].block}
     ELSE UNCHANGED <<lower_WQ, unwritten>>
  /\ block' = [block EXCEPT ![SetOf[e.block]][w] = Filled(e)]

Install(e) == \/ \E w \in Victims(e) : Replace(e, w)
              \/ Bypassed(e) /\ UNCHANGED <<block, lower_WQ, unwritten>>

\* The write-back of the victim does not fit below: the fills stop here.
Refused(e) == \E w \in Victims(e) : MustWriteBack(e, w) /\ ~HasRoom(lower_WQ, LOWER_SIZE)

FillMshr ==
  /\ pc = "fill" /\ bw > 0 /\ Due(MSHR)
  /\ Install(MSHR[1]) /\ Respond(MSHR[1].to_return, MSHR[1].instr_depend_on_me)
  /\ MSHR' = Tail(MSHR) /\ bw' = bw - 1
  /\ UNCHANGED <<pc, warmup, queues, tags, inflight_writes, asked, returned>>

EndFill ==
  /\ pc = "fill"
  /\ (bw > 0 /\ Due(MSHR)) => Refused(MSHR[1])
  /\ GoTo("write", bw)
  /\ UNCHANGED <<warmup, queues, tags, misses, block, lower, waiting, unwritten>>

FillWrite ==
  /\ pc = "write" /\ bw > 0 /\ Due(inflight_writes)
  /\ Install(inflight_writes[1])
  /\ Respond(inflight_writes[1].to_return, inflight_writes[1].instr_depend_on_me)
  /\ inflight_writes' = Tail(inflight_writes) /\ bw' = bw - 1
  /\ UNCHANGED <<pc, warmup, queues, tags, MSHR, asked, returned>>

\* (mutant) the pipeline is a cycle shorter
ShortTagBandwidth ==
  LET room == MAX_TAG * (HIT_LATENCY - 1) - Len(inflight_tag_check)
  IN IF room < 0 THEN 0 ELSE IF room < MAX_TAG THEN room ELSE MAX_TAG
\* Tag checks that may start in this cycle.
TagBandwidth ==
  LET room == MAX_TAG * HIT_LATENCY - Len(inflight_tag_check)
  IN IF room < 0 THEN 0 ELSE IF room < MAX_TAG THEN room ELSE MAX_TAG

EndWrite ==
  /\ pc = "write"
  /\ (bw > 0 /\ Due(inflight_writes)) => Refused(inflight_writes[1])
  /\ GoTo("start", TagBandwidth)
  /\ UNCHANGED <<warmup, queues, tags, misses, block, lower, waiting, unwritten>>
-----------------------------------------------------------------------------
(* initiate_tag_check: upper levels in order, WQ before RQ before PQ, then internal_PQ *)

ToTagCheck(r, u) ==
  [block |-> BlockOf[r.address], type |-> r.type, prefetch_from_this |-> FALSE,
   skip_fill |-> FALSE, left |-> Hit_latency, instr_depend_on_me |-> r.instr_depend_on_me,
   to_return |-> IF r.response_requested THEN {u} ELSE {}]

Empty(u) == WQ[u] = <<>> /\ RQ[u] = <<>> /\ PQ[u] = <<>>
Turn(u)  == pc = "start" /\ bw > 0 /\ \A v \in 1..(u - 1) : Empty(v)
Start(r, u) == /\ inflight_tag_check' = Append(inflight_tag_check, ToTagCheck(r, u))
               /\ bw' = bw - 1

StartWq(u) ==
  /\ Turn(u) /\ WQ[u] # <<>>
  /\ Start(WQ[u][1], u) /\ WQ' = [WQ EXCEPT ![u] = Tail(@)]
  /\ UNCHANGED <<pc, warmup, RQ, PQ, internal_PQ, misses, block, lower, waiting, unwritten>>

StartRq(u) ==
  /\ Turn(u) /\ WQ[u] = <<>> /\ RQ[u] # <<>>
  /\ Start(RQ[u][1], u) /\ RQ' = [RQ EXCEPT ![u] = Tail(@)]
  /\ UNCHANGED <<pc, warmup, WQ, PQ, internal_PQ, misses, block, lower, waiting, unwritten>>

StartPq(u) ==
  /\ Turn(u) /\ WQ[u] = <<>> /\ RQ[u] = <<>> /\ PQ[u] # <<>>
  /\ Start(PQ[u][1], u) /\ PQ' = [PQ EXCEPT ![u] = Tail(@)]
  /\ UNCHANGED <<pc, warmup, RQ, WQ, internal_PQ, misses, block, lower, waiting, unwritten>>

StartInternal ==
  /\ Turn(NumUppers + 1) /\ internal_PQ # <<>>
  /\ inflight_tag_check' = Append(inflight_tag_check, [internal_PQ[1] EXCEPT !.left = Hit_latency])
  /\ internal_PQ' = Tail(internal_PQ) /\ bw' = bw - 1
  /\ UNCHANGED <<pc, warmup, queues, misses, block, lower, waiting, unwritten>>

EndStart ==
  /\ pc = "start"
  /\ bw > 0 => \A u \in Uppers : Empty(u) /\ internal_PQ = <<>>
  /\ GoTo("check", MAX_TAG)
  /\ UNCHANGED <<warmup, queues, tags, misses, block, lower, waiting, unwritten>>
-----------------------------------------------------------------------------
(* tag checks, in order, until one has to wait *)

Pkt == inflight_tag_check[1]
Checking == pc = "check" /\ bw > 0 /\ Due(inflight_tag_check)
CheckDone == inflight_tag_check' = Tail(inflight_tag_check) /\ bw' = bw - 1

HitWays(e) == {w \in Ways : InSet(e)[w].block = e.block}

TryHit ==
  /\ Checking /\ \E w \in HitWays(Pkt) :
       /\ First(HitWays(Pkt), w)
       /\ block' = [block EXCEPT ![SetOf[Pkt.block]][w].dirty = @ \/ Pkt.type = "WRITE"]
  /\ Respond(Pkt.to_return, Pkt.instr_depend_on_me) /\ CheckDone
  /\ UNCHANGED <<pc, warmup, queues, internal_PQ, misses, lower, unwritten>>

\* A write-back from above needs no data from below.
HandleWrite ==
  /\ Checking /\ HitWays(Pkt) = {} /\ Pkt.type = "WRITE" /\ ~match_offset_bits
  /\ inflight_writes' = Append(inflight_writes, ToMshr(Pkt, Fill_latency)) /\ CheckDone
  /\ UNCHANGED <<pc, warmup, queues, internal_PQ, MSHR, block, lower, waiting, unwritten>>

Miss == Checking /\ HitWays(Pkt) = {} /\ ~(Pkt.type = "WRITE" /\ ~match_offset_bits)

\* mshr_type::merge
Merged(old, pkt) ==
  [old EXCEPT !.type = IF pkt.type = "PREFETCH" THEN @ ELSE pkt.type,
              !.instr_depend_on_me = @ \cup pkt.instr_depend_on_me,
              !.to_return = @ \cup pkt.to_return]

MergeMiss ==
  /\ Miss /\ \E i \in EntryOf(MSHR, Pkt.block) :
       MSHR' = [MSHR EXCEPT ![i] = Merged(@, Pkt)]
  /\ CheckDone
  /\ UNCHANGED <<pc, warmup, queues, internal_PQ, inflight_writes, block, lower, waiting, unwritten>>

\* add_pq for prefetches unless prefetch_as_load, add_rq for the rest.
Below(pkt) == [block |-> pkt.block,
               queue |-> IF prefetch_as_load \/ pkt.type # "PREFETCH" THEN "rq" ELSE "pq"]
LowerHasRoom(r) == Cardinality({a \in asked : a.queue = r.queue}) < LOWER_SIZE

MshrFull == Len(MSHR) = MSHR_SIZE

SendMiss ==
  /\ Miss /\ EntryOf(MSHR, Pkt.block) = {} /\ ~MshrFull /\ LowerHasRoom(Below(Pkt))
  /\ IF ~Pkt.prefetch_from_this \/ ~Pkt.skip_fill
     THEN asked' = asked \cup {Below(Pkt)} /\ MSHR' = Append(MSHR, ToMshr(Pkt, Never))
     ELSE UNCHANGED <<asked, MSHR>>
  /\ CheckDone
  /\ UNCHANGED <<pc, warmup, queues, internal_PQ, inflight_writes, block, lower_WQ, returned,
                 waiting, unwritten>>

MissRefused == Miss /\ EntryOf(MSHR, Pkt.block) = {} /\ (MshrFull \/ ~LowerHasRoom(Below(Pkt)))

EndCheck ==
  /\ pc = "check" /\ (Checking => MissRefused) /\ GoTo("cycle", 0)
  /\ UNCHANGED <<warmup, queues, tags, misses, block, lower, waiting, unwritten>>
-----------------------------------------------------------------------------
(* prefetch_line, called by the prefetcher, and the end of the cycle *)

PrefetchLine(b, skip) ==
  /\ pc = "cycle" /\ Room /\ HasRoom(internal_PQ, PQ_SIZE)
  /\ internal_PQ' = Append(internal_PQ,
       [block |-> b, type |-> "PREFETCH", prefetch_from_this |-> TRUE, skip_fill |-> skip,
        left |-> 0, instr_depend_on_me |-> {}, to_return |-> {}])
  /\ UNCHANGED <<pc, bw, warmup, queues, inflight_tag_check, misses, block, lower, waiting, unwritten>>

Sooner(q) == [i \in DOMAIN q |-> [q[i] EXCEPT !.left = IF @ > 0 THEN @ - 1 ELSE @]]
Tick ==
  /\ pc = "cycle" /\ GoTo("idle", 0)
  /\ inflight_tag_check' = Sooner(inflight_tag_check)
  /\ MSHR' = Sooner(MSHR) /\ inflight_writes' = Sooner(inflight_writes)
  /\ UNCHANGED <<warmup, queues, internal_PQ, block, lower, waiting, unwritten>>
-----------------------------------------------------------------------------
Arrive == \E u \in Uppers, a \in Addresses :
            \/ AddWq(u, a) \/ AddPqNoResponse(u, a)
            \/ \E l \in Loads : AddRq(u, l, a) \/ AddPq(u, l, a)
Prefetch == \E b \in Blocks, skip \in BOOLEAN : PrefetchLine(b, skip)
LowerLevel == LowerTakesWrite \/ \E r \in asked : LowerAnswers(r)

\* The positions a queue has.
At(q) == DOMAIN q
Operate ==
  \/ StartCycle \/ EndCollide \/ EndFinish \/ EndFill \/ EndWrite \/ EndStart \/ EndCheck \/ Tick
  \/ \E u \in Uppers : \/ \E j \in At(WQ[u]) : CheckWq(u, j)
                       \/ \E j \in At(RQ[u]) : CheckRq(u, j)
                       \/ \E j \in At(PQ[u]) : CheckPq(u, j)
                       \/ StartWq(u) \/ StartRq(u) \/ StartPq(u)
  \/ \E i, j \in At(MSHR) : FinishPacket(i, j)
  \/ FillMshr \/ FillWrite \/ StartInternal
  \/ TryHit \/ HandleWrite \/ MergeMiss \/ SendMiss

Next == Arrive \/ LowerLevel \/ EndWarmup \/ Prefetch \/ Operate
Spec == Init /\ [][Next]_vars
-----------------------------------------------------------------------------
(* Properties *)

TypeOK ==
  /\ pc \in {"idle", "collide", "finish", "fill", "write", "start", "check", "cycle"}
  /\ bw \in 0..(MAX_TAG + MAX_FILL) /\ warmup \in BOOLEAN
  /\ \A u \in Uppers : {RQ[u], WQ[u], PQ[u]} \subseteq Seq(Request)
  /\ inflight_tag_check \in Seq(tag_lookup_type) /\ internal_PQ \in Seq(tag_lookup_type)
  /\ MSHR \in Seq(mshr_type) /\ inflight_writes \in Seq(mshr_type)
  /\ block \in [Sets -> [Ways -> BLOCK]]
  /\ asked \subseteq [block : Blocks, queue : {"rq", "pq"}]
  /\ lower_WQ \in Seq(Blocks) /\ returned \in Seq(Blocks)
  /\ waiting \in [Loads -> Wanted \cup {None}] /\ unwritten \subseteq Blocks

\* check_collision leaves one request per block (per offset for the writes of
\* an L1D) among those it has seen: the later one is merged into the earlier.
QueuesMerged ==
  \A u \in Uppers :
    /\ \A i, j \in DOMAIN WQ[u] \ Unchecked(WQ[u]) :
         i < j => WriteKey(WQ[u][i].address) # WriteKey(WQ[u][j].address)
    /\ \A q \in {RQ[u], PQ[u]} : \A i, j \in DOMAIN q \ Unchecked(q) :
         i < j => BlockOf[q[i].address] # BlockOf[q[j].address]

\* operate() only looks at the front of its pipelines (get_span_p): nothing
\* that is due may stand behind something that is not.
Ordered(q) == \A i, j \in DOMAIN q : i < j /\ q[j].left # Never => q[i].left \in 0..q[j].left
DueInFront == Ordered(MSHR) /\ Ordered(inflight_writes) /\ Ordered(inflight_tag_check)

\* finish_packet asserts that the block of an answer has an MSHR.  Each block has
\* at most one, the level below owes an answer for the outstanding ones and for
\* nothing else, once, and there are never more than MSHR_SIZE.
BlocksOf(S) == {e.block : e \in S}
MissesMatchLower ==
  /\ Len(MSHR) <= MSHR_SIZE
  /\ \A i, j \in DOMAIN MSHR : i # j => MSHR[i].block # MSHR[j].block
  /\ {MSHR[i].block : i \in Outstanding(MSHR)} = BlocksOf(asked) \cup ToSet(returned)
  /\ Cardinality(Outstanding(MSHR)) = Cardinality(asked) + Len(returned)

\* A tag check that has to wait keeps its place: the pipeline holds at most
\* MAX_TAG of them per cycle of HIT_LATENCY (test 414-tag-check-bound).
TagsBounded == Len(inflight_tag_check) <= MAX_TAG * HIT_LATENCY

\* Where load l, wanted by w, is remembered: queued by its upper level, or in a
\* pipeline whose entry will return to that level.
Queued(q, l, w) == {i \in DOMAIN q : /\ l \in q[i].instr_depend_on_me
                                     /\ q[i].response_requested
                                     /\ BlockOf[q[i].address] = w.block}
Piped(q, l, w) == {i \in DOMAIN q : /\ l \in q[i].instr_depend_on_me
                                    /\ w.upper \in q[i].to_return
                                    /\ q[i].block = w.block}
Places(l, w) == Cardinality(Queued(RQ[w.upper], l, w)) + Cardinality(Queued(PQ[w.upper], l, w))
                + Cardinality(Piped(inflight_tag_check, l, w)) + Cardinality(Piped(MSHR, l, w))
                + Cardinality(Piped(inflight_writes, l, w))

\* Merging and forwarding never lose a load and never copy it: one that is waited
\* for is in one place, which is for its block and returns to its upper level.
LoadsHeldOnce == \A l \in Loads : waiting[l] # None => Places(l, waiting[l]) = 1

\* All this together: the queues, the pipelines and the MSHRs never disagree about what
\* is on its way, for whom, and what the level below owes.
PipelinesAgree ==
  TypeOK /\ QueuesMerged /\ DueInFront /\ MissesMatchLower /\ TagsBounded /\ LoadsHeldOnce

\* The cache implements LoadPort: whatever is asked for is remembered until it is
\* answered, and what has been answered is forgotten, so it is answered once.
HeldFor(l) == {w \in Wanted : Places(l, w) > 0}
Held == [l \in Loads |-> IF waiting[l] \in HeldFor(l) THEN waiting[l]
                         ELSE IF HeldFor(l) = {} THEN None
                         ELSE CHOOSE w \in HeldFor(l) : TRUE]
Port == INSTANCE LoadPort WITH Requests <- Wanted, Nothing <- None, held <- Held
ImplementsLoadPort == Port!Spec

\* "Blocks that have been written are marked dirty" (test 407-writeback-dirty):
\* until a written block goes back to the level below, a queue, a pipeline or a
\* dirty way still knows that it was written.
WrittenBlocksStayDirty ==
  \A b \in unwritten :
    \/ \E u \in Uppers : \E i \in DOMAIN WQ[u] : BlockOf[WQ[u][i].address] = b
    \/ \E q \in {inflight_tag_check, MSHR, inflight_writes} :
         \E i \in Writes(q) : q[i].block = b
    \/ \E s \in Sets, w \in Ways : block[s][w] = [valid |-> TRUE, dirty |-> TRUE, block |-> b]

\* operate() is called again and again (champsim::do_phase), and so is the level
\* below, which answers what it was asked and takes what it is given.
FairSpec == /\ Spec /\ WF_vars(Operate) /\ SF_vars(LowerTakesWrite)
            /\ \A b \in Blocks, q \in {"rq", "pq"} : SF_vars(LowerAnswers([block |-> b, queue |-> q]))

\* No deadlock between the MSHRs, the tag pipeline, the fills and the write-backs:
\* once the levels above stop sending, every load is answered.
LoadsAnswered == (<>[][~Arrive]_vars) => \A l \in Loads : []<>(waiting[l] = None)
=============================================================================
