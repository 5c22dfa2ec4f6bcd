------------------------------- MODULE OptGen -------------------------------
(***************************************************************************)
(* What hawkeye and glider do to the sampled sets of a cache: OPTgen       *)
(* (inc/optgen.h) replays Belady's policy on the accesses of each set and  *)
(* tells which reuses it would have served, the sampler remembers when and *)
(* by which PC a block was last used, and the predictor learns from the    *)
(* answers.                                                                *)
(*                                                                         *)
(* set_timer counts the accesses of a set modulo TIMER_SIZE,               *)
(* liveness_intervals is a ring of the last OPTGEN_SIZE of them.  The      *)
(* tables of the sampler belong to no set: a block is found in the table   *)
(* (block % 2800) / 8, as SAMPLER_SETS expands, under the tag              *)
(* CRC(page) % 256.  Blocks of one set, and of several, share tables and   *)
(* may share a tag in one; so a block counts as its place here, a table    *)
(* and a tag, and any set may access any place.                            *)
(***************************************************************************)
EXTENDS Predictors

CONSTANTS Sets,                      \* the sampled sets
          Tables, Tags,              \* SAMPLER_SETS tables of the sampler
          OPTGEN_SIZE, TIMER_SIZE,   \* TIMER_SIZE is a multiple of OPTGEN_SIZE
          SAMPLER_HIST,
          cache_size,                \* of OPTgen: LLC_WAYS - 2
          Traffic(_)                 \* bound: by the trace so far, the sets that may come
                                     \*   next and the PCs that may access them

Places == Tables \X Tags

ASSUME OptGenAssumption ==
  /\ {OPTGEN_SIZE, SAMPLER_HIST, cache_size} \subseteq Nat \ {0}
  /\ TIMER_SIZE \in {k * OPTGEN_SIZE : k \in 2..8}

VARIABLES policy,                          \* "hawkeye" or "glider", or another one
          set_timer,                       \* of each set, like the next two
          liveness_intervals, num_cache,   \* OPTgen
          sampler,                         \* cache_history_sampler: table -> tag -> HISTORY
          predictor,                       \* predictor_demand
          trace                            \* history: the sets and places, as they were used
optgen == <<set_timer, liveness_intervals, num_cache, sampler, predictor, trace>>

Known(table) == DOMAIN sampler[table]

OptGenInit == /\ set_timer = [s \in Sets |-> 0] /\ num_cache = [s \in Sets |-> 0]
              /\ liveness_intervals = [s \in Sets |-> [t \in 0..OPTGEN_SIZE - 1 |-> 0]]
              /\ sampler = [table \in Tables |-> << >>] /\ trace = << >>
              /\ predictor = FirstPredictor
-----------------------------------------------------------------------------
\* The slots from endVal round to val, val excluded.
Slots(endVal, val) ==
  {(endVal + k) % OPTGEN_SIZE : k \in 0..((val - endVal) % OPTGEN_SIZE) - 1}
\* A full slot still has room for one more (mutant).
RoomForOneMore(s, endVal, val) == \A t \in Slots(endVal, val) : liveness_intervals[s][t] <= cache_size
is_cache(s, endVal, val) == \A t \in Slots(endVal, val) : liveness_intervals[s][t] < cache_size

\* Every entry ages, those behind the one that is used too (mutant).
AllAged(table, limit) == [tag \in Known(table) |-> [sampler[table][tag] EXCEPT !.lru = @ + 1]]
\* update_cache_history
Aged(table, limit) == [tag \in Known(table) |-> IF sampler[table][tag].lru < limit
                                                 THEN [sampler[table][tag] EXCEPT !.lru = @ + 1]
                                                 ELSE sampler[table][tag]]
Entry(s, tag, pc, aged) ==
  [t \in {tag} \cup DOMAIN aged |->
     IF t = tag THEN [previousVal |-> set_timer[s], PCval |-> pc, lru |-> 0] ELSE aged[t]]

\* set_access: the slot of this access starts empty.
Live(s, slots) == [liveness_intervals EXCEPT ![s] =
                     [t \in DOMAIN @ |-> IF t = set_timer[s] % OPTGEN_SIZE THEN 0
                                         ELSE @[t] + IF t \in slots THEN 1 ELSE 0]]

\* The number of accesses of set s since time previousVal, as long as it is below TIMER_SIZE.
Age(s, previousVal) == LET current_time == IF set_timer[s] < previousVal
                                           THEN set_timer[s] + TIMER_SIZE ELSE set_timer[s]
                       IN  current_time - previousVal
isWrap(s, previousVal) == Age(s, previousVal) > OPTGEN_SIZE

\* The entry of the place is taken for the last use of this block by this set,
\* whichever set and block have left it.
Reused(s, table, tag, pc, pred) ==
  LET entry  == sampler[table][tag]
      from   == entry.previousVal % OPTGEN_SIZE
      to     == set_timer[s] % OPTGEN_SIZE
      cached == ~isWrap(s, entry.previousVal) /\ is_cache(s, from, to)
  IN  /\ liveness_intervals' = Live(s, IF cached THEN Slots(from, to) ELSE {})
      /\ num_cache' = [num_cache EXCEPT ![s] = @ + IF cached THEN 1 ELSE 0]
      /\ predictor' = Asked(policy, IF cached THEN increase(policy, pred, entry.PCval)
                                    ELSE decrease(policy, pred, entry.PCval), pc)
      /\ sampler' = [sampler EXCEPT ![table] = Entry(s, tag, pc, Aged(table, entry.lru))]

\* A full table forgets the tag of the highest rank.
Oldest(table) == {tag \in Known(table) : sampler[table][tag].lru = SAMPLER_HIST - 1}
FirstUse(s, table, tag, pc, pred) ==
  LET aged == Aged(table, SAMPLER_HIST - 1)
      kept == IF Cardinality(Known(table)) = SAMPLER_HIST THEN Known(table) \ Oldest(table)
                                                          ELSE Known(table)
  IN  /\ sampler' = [sampler EXCEPT ![table] = Entry(s, tag, pc, [t \in kept |-> aged[t]])]
      /\ liveness_intervals' = Live(s, {})
      /\ predictor' = Asked(policy, pred, pc) /\ UNCHANGED num_cache

\* The part of update_replacement_state for a SAMPLED_SET, of a block at a place; pred is
\* the predictor as find_victim has left it.
Sample(s, place, pc, pred) ==
  /\ <<s, pc>> \in Traffic(trace) /\ trace' = Append(trace, [set |-> s, place |-> place])
  /\ IF place[2] \in Known(place[1]) THEN Reused(s, place[1], place[2], pc, pred)
                                     ELSE FirstUse(s, place[1], place[2], pc, pred)
  /\ set_timer' = [set_timer EXCEPT ![s] = (@ + 1) % TIMER_SIZE]

\* An access of a sampled set whose lines are not looked at: before it, find_victim may have
\* trained down the PC of any line.
SampledAccess(s, place, pc) ==
  \/ Sample(s, place, pc, predictor)
  \/ \E q \in PCs : <<s, q>> \in Traffic(trace) /\ Sample(s, place, pc, decrease(policy, predictor, q))
-----------------------------------------------------------------------------
(* Properties.  They read the trace and not what the code keeps of it.      *)

\* The sampler is a stack of the last SAMPLER_HIST tags used in each table, by whichever
\* sets, and lru the place in it: so a full table has an entry to forget, as glider.cc:229
\* says ("能够找到lru是SAMPLER_HIST - 1的替换者").
SamplerIsAnLruStack ==
  \A table \in Tables, tag \in Tags :
    LET uses  == {k \in DOMAIN trace : trace[k].place = <<table, tag>>}
        since == {t \in Tags : \E k \in DOMAIN trace : /\ trace[k].place = <<table, t>>
                                                       /\ \A u \in uses : u < k}
    IN  /\ tag \in Known(table) <=> uses # {} /\ Cardinality(since) < SAMPLER_HIST
        /\ tag \in Known(table) => sampler[table][tag].lru = Cardinality(since)

Uses(s)      == {k \in DOMAIN trace : trace[k].set = s}
Time(s, k)   == Cardinality({j \in Uses(s) : j < k})
Between(i, j) == {trace[k].place : k \in i + 1..j - 1}
Beside(place, i, j) == {p \in Between(i, j) : p[1] = place[1]}

\* The uses of a place that the sampler still knows from the use before, as intervals of the
\* time of the set.  No two begin together.
Reuses(s) ==
  LET known == {r \in Uses(s) \X Uses(s) :
                  LET place == trace[r[1]].place
                  IN  /\ r[1] < r[2] /\ trace[r[2]].place = place
                      /\ place \notin Between(r[1], r[2])
                      /\ Cardinality(Beside(place, r[1], r[2])) < SAMPLER_HIST}
  IN  {[from |-> Time(s, r[1]), to |-> Time(s, r[2])] : r \in known}
Distance(r) == r.to - r.from
\* What is kept is most when another interval begins.
Fits(kept)     == \A r \in kept : Cardinality({q \in kept : q.from <= r.from /\ r.from < q.to}) <= cache_size
Belady(reuses) == Max({Cardinality(kept) : kept \in {k \in SUBSET reuses : Fits(k)}})

\* What the sampler tells set s is about s: no other set has used its places, and no reuse
\* lapped its timer.
Undisturbed(s) == /\ \A i \in Uses(s), j \in DOMAIN trace \ Uses(s) : trace[i].place # trace[j].place
                  /\ \A r \in Reuses(s) : Distance(r) < TIMER_SIZE

\* optgen.h:39 calls OPTgen an efficient form of Belady's policy.  It is, of the reuses
\* less than OPTGEN_SIZE accesses apart: the hits it counts are as many as any choice of
\* what to keep can have in cache_size lines, while other sets age and evict entries of
\* the same tables.  A reuse exactly OPTGEN_SIZE apart is a hit whether there is room or not,
\* and takes none (optgen.h:46, 60), which Belady's policy could not do.
OptgenIsOptimal ==
  \A s \in Sets : Undisturbed(s) =>
    LET near == {r \in Reuses(s) : Distance(r) < OPTGEN_SIZE}
        edge == {r \in Reuses(s) : Distance(r) = OPTGEN_SIZE}
    IN  num_cache[s] = Cardinality(edge) + Belady(near)
=============================================================================
