---------------------------- MODULE Replacement ----------------------------
(***************************************************************************)
(* The replacement policies of the advanced part (replacement/) on one set *)
(* of a cache.  CACHE::try_hit calls update_replacement_state for a        *)
(* hit; CACHE::handle_fill takes the first invalid way, or find_victim     *)
(* when there is none, and then calls update_replacement_state.            *)
(*                                                                         *)
(* "base" and "red" are policies of the basic part's interface: baseline   *)
(* LRU, and SRRIP behind a filter that may bypass a line.  The basic       *)
(* cache leaves invalid ways to the policy: base looks for one first, red  *)
(* takes the first way at MAX_RRPV, invalid or not.                        *)
(*                                                                         *)
(* rank is what the policy keeps of a way: the cycle of its last use (lru, *)
(* s4lru), its place in the order of use (base), or its re-reference       *)
(* prediction (rrpv_values, rrpv, rrip).  What depends on the other sets   *)
(* is open: the duel of drrip, the SHCT of ship, the filter of red, and    *)
(* the predictor of hawkeye and glider unless the set is sampled.  Then it *)
(* is Home of OptGen, and trains the predictor with the other sampled sets.*)
(***************************************************************************)
EXTENDS OptGen

CONSTANTS Blocks, None,
          Home, PlaceOf,           \* the set, if it is sampled, and the places of its blocks
          Policies,
          NUM_WAY,
          maxRRPV,                 \* srrip, drrip, ship
          MAXRRIP, MIDRRIP,        \* hawkeye, glider
          NUM_SEGMENTS,            \* s4lru
          MaxCycle                 \* bound: current_cycle

Ways        == 1..NUM_WAY
Types       == {"LOAD", "WRITE"}   \* the policies tell no more apart
Predictions == {"Low", "Medium", "High"}

ASSUME PolicyAssumption ==
  /\ Policies \subseteq {"lru", "base", "s4lru", "srrip", "drrip", "ship", "red", "hawkeye", "glider"}
  /\ {NUM_WAY, maxRRPV, MAXRRIP, MIDRRIP, NUM_SEGMENTS} \subseteq Nat \ {0} /\ MIDRRIP < MAXRRIP
  /\ maxRRPV > 1
  /\ MaxCycle \in Nat /\ None \notin Blocks
  /\ Home \in Sets /\ PlaceOf \in [Blocks -> Places]

VARIABLES sampled,
          leader,                  \* drrip: the part of the set in the duel
          line,                    \* way -> block
          rank, segment,
          signature,               \* sample_signature
          current_cycle,
          seen,                    \* history, lru: block -> cycle of its last use
          later,                   \* history: <<v, w>>: v was used after w
          class                    \* history: the last prediction of a way, or whether
                                   \*   it was used again
fixed   == <<policy, sampled, leader>>
history == <<seen, later, class>>
here    == <<fixed, line, rank, segment, signature, current_cycle, history>>
vars    == <<here, optgen>>

Valid == {w \in Ways : line[w] # None}

\* initialize_replacement
FirstRank(w) == CASE policy \in {"srrip", "ship", "red"} -> maxRRPV
                  [] policy \in {"hawkeye", "glider"}     -> MAXRRIP
                  [] policy = "base"                      -> w - 1
                  [] OTHER                                -> 0

Init == /\ policy \in Policies
        /\ sampled \in IF policy \in {"hawkeye", "glider"} THEN BOOLEAN ELSE {FALSE}
        /\ leader \in IF policy = "drrip" THEN {"none", "BIP", "SRRIP", "other"} ELSE {"none"}
        /\ line = [w \in Ways |-> None] /\ rank = [w \in Ways |-> FirstRank(w)]
        /\ segment = [w \in Ways |-> 0] /\ signature = [w \in Ways |-> 0]
        /\ current_cycle = 0
        /\ seen = [b \in Blocks |-> 0] /\ later = {} /\ class = [w \in Ways |-> "New"]
        /\ OptGenInit
-----------------------------------------------------------------------------
(* find_victim *)

At(r)   == {w \in Ways : rank[w] = r}
Top     == Max({rank[w] : w \in Ways})
Bottom  == Min({rank[w] : w \in Ways})
\* s4lru looks up the segment by the cycle of a way, and finds the first with that cycle.
Demoted == {w \in Ways : segment[Min(At(rank[w]))] = 0}

MostRecent  == Min(At(Top))           \* the line used last (mutant)
LruVictim   == Min(At(Bottom))
BaseVictim  == Min(At(NUM_WAY - 1))
RrpvVictim  == Min(At(Top))
RripVictim  ==
  CASE At(MAXRRIP) # {} -> Min(At(MAXRRIP))
    [] At(MAXRRIP) = {} /\ policy = "glider" /\ At(MIDRRIP) # {} -> Min(At(MIDRRIP))
    [] OTHER -> Max(At(Top))

find_victim == CASE policy = "lru"                 -> LruVictim
                 [] policy = "base"                -> BaseVictim
                 [] policy = "s4lru"               -> Min(Demoted)
                 [] policy \in {"hawkeye", "glider"} -> RripVictim
                 [] OTHER                          -> RrpvVictim

\* srrip, ship and red age all lines until one is at maxRRPV.  The loop of drrip reads the
\* victim's value again once it has raised it: the ways after it stay as they are.
DrripAging == [w \in Ways |-> IF w <= RrpvVictim THEN rank[w] + maxRRPV - Top ELSE rank[w]]
RrpvAging  == [w \in Ways |-> rank[w] + maxRRPV - Top]
Searched   == CASE policy \in {"srrip", "ship", "red"} -> RrpvAging
                [] policy = "drrip"                    -> DrripAging
                [] OTHER                               -> rank

\* hawkeye, glider: when only lines of high priority are left, the PC of the victim is
\* trained down.
Punished ==
  IF sampled /\ At(MAXRRIP) = {} /\ (policy = "glider" => At(MIDRRIP) = {})
  THEN decrease(policy, predictor, signature[find_victim]) ELSE predictor
-----------------------------------------------------------------------------
(* update_replacement_state: the rank it may give the way, old being the one it has *)

\* The policies that do not count a write-back as a use of the line it finds.
Ignored(type, hit) == hit /\ type = "WRITE" /\ policy \in {"lru", "base", "ship", "red"}
CycleOf(type, hit, old) == IF Ignored(type, hit) THEN old ELSE current_cycle

\* lru_update
Promoted(w, type, hit, old) ==
  IF Ignored(type, hit) THEN old
  ELSE [v \in Ways |-> CASE v = w -> 0
                         [] v # w /\ old[v] < old[w] -> old[v] + 1
                         [] OTHER -> old[v]]

SrripOf(type, hit, old) == {IF hit THEN 0 ELSE maxRRPV - 1}
ShipOf(type, hit, old) ==
  CASE Ignored(type, hit)                    -> {old}
    [] hit /\ type # "WRITE"                 -> {0}
    [] ~hit /\ type = "WRITE"                -> {maxRRPV - 1}
    [] ~hit /\ type # "WRITE"                -> {maxRRPV - 1, maxRRPV}
RedOf(type, hit, old) == {IF type = "WRITE" THEN old ELSE IF hit THEN 0 ELSE maxRRPV - 1}
DrripOf(type, hit, old) ==
  CASE type = "WRITE"                        -> {maxRRPV - 1}
    [] type # "WRITE" /\ hit                 -> {0}
    [] type # "WRITE" /\ ~hit                ->
         CASE leader \in {"none", "BIP"} -> {maxRRPV - 1, maxRRPV}
           [] leader = "SRRIP"           -> {maxRRPV - 1}
           [] leader = "other"           -> {old}

\* hawkeye, glider: a line of high priority starts at 0.  When it is new it ages the
\* others of its kind, unless one of them is at the limit.
NoLimit == MAXRRIP                    \* lines of high priority may age to it (mutant)
Limit   == IF policy = "hawkeye" THEN MAXRRIP - 1 ELSE MIDRRIP - 1
Friendly(w, hit, old) ==
  LET mine == [old EXCEPT ![w] = 0]
      age  == ~hit /\ \A v \in Ways : mine[v] # Limit
  IN  [v \in Ways |-> IF v # w /\ age /\ mine[v] < Limit THEN mine[v] + 1 ELSE mine[v]]
RripOf(w, hit, prediction, old) ==
  CASE prediction = "Low"    -> [old EXCEPT ![w] = MAXRRIP]
    [] prediction = "Medium" -> [old EXCEPT ![w] = MIDRRIP]
    [] prediction = "High"   -> Friendly(w, hit, old)

NewRanks(w, type, hit, prediction, old) ==
  CASE policy \in {"lru", "s4lru"}     -> {[old EXCEPT ![w] = CycleOf(type, hit, @)]}
    [] policy = "base"                 -> {Promoted(w, type, hit, old)}
    [] policy = "red"                  -> {[old EXCEPT ![w] = r] : r \in RedOf(type, hit, old[w])}
    [] policy = "srrip"                -> {[old EXCEPT ![w] = r] : r \in SrripOf(type, hit, old[w])}
    [] policy = "ship"                 -> {[old EXCEPT ![w] = r] : r \in ShipOf(type, hit, old[w])}
    [] policy = "drrip"                -> {[old EXCEPT ![w] = r] : r \in DrripOf(type, hit, old[w])}
    [] policy \in {"hawkeye", "glider"} -> {RripOf(w, hit, prediction, old)}

\* The predictor is asked after the training of this access.
Answers(pc) == CASE sampled                        -> {get_prediction(policy, predictor', pc)}
                 [] ~sampled /\ policy = "hawkeye" -> {"Low", "High"}
                 [] ~sampled /\ policy = "glider"  -> Predictions
                 [] OTHER                          -> {"High"}

\* The history, except of lines that are not used by this access.
Record(w, b, type, hit, prediction) ==
  IF Ignored(type, hit) THEN UNCHANGED history
  ELSE /\ seen' = IF policy \in {"lru", "base"} THEN [seen EXCEPT ![b] = current_cycle] ELSE seen
       /\ later' = {pair \in later : pair[1] # w /\ pair[2] # w} \cup {<<w, v>> : v \in Ways \ {w}}
       /\ class' = [class EXCEPT ![w] = CASE policy \in {"hawkeye", "glider"} -> prediction
                                          [] policy \notin {"hawkeye", "glider"} /\ hit -> "Reused"
                                          [] OTHER -> "New"]

\* old and pred: rank and predictor as find_victim has left them.
update_replacement_state(w, b, pc, type, hit, old, pred) ==
  /\ IF sampled THEN Sample(Home, PlaceOf[b], pc, pred) ELSE UNCHANGED optgen
  /\ \E prediction \in Answers(pc) :
        /\ rank' \in NewRanks(w, type, hit, prediction, old)
        /\ Record(w, b, type, hit, prediction)
  /\ segment' = IF policy # "s4lru" THEN segment
                ELSE [segment EXCEPT ![w] = IF hit THEN Min({@ + 1, NUM_SEGMENTS - 1}) ELSE 0]
  /\ signature' = IF sampled THEN [signature EXCEPT ![w] = pc] ELSE signature
-----------------------------------------------------------------------------
(* The cache *)

Hit(w, type, pc) ==
  /\ w \in Valid
  /\ update_replacement_state(w, line[w], pc, type, TRUE, rank, predictor)
  /\ UNCHANGED <<fixed, line, current_cycle>>

FillInvalid(b, type, pc) ==
  LET w == Min(Ways \ Valid)
  IN  /\ Valid # Ways /\ policy # "red" /\ \A v \in Valid : line[v] # b
      /\ line' = [line EXCEPT ![w] = b]
      /\ update_replacement_state(w, b, pc, type, FALSE, rank, predictor)
      /\ UNCHANGED <<fixed, current_cycle>>

\* s4lru.cc:34 and base_replacement.cc:67 assert that there is one.
HasVictim == /\ policy = "s4lru" => Demoted # {}
             /\ policy = "base" => At(NUM_WAY - 1) # {}
Replace(b, type, pc) ==
  /\ Valid = Ways \/ policy = "red"
  /\ HasVictim /\ \A v \in Ways : line[v] # b
  /\ LET w == find_victim
     IN  /\ line' = [line EXCEPT ![w] = b]
         /\ update_replacement_state(w, b, pc, type, FALSE, Searched, Punished)
  /\ UNCHANGED <<fixed, current_cycle>>

\* Only lru and s4lru look at the clock, and the history of lru and base.
Tick == /\ policy \in {"lru", "base", "s4lru"} /\ current_cycle < MaxCycle
        /\ current_cycle' = current_cycle + 1
        /\ UNCHANGED <<fixed, line, rank, segment, signature, history, optgen>>

\* An access of another sampled set: the tables of the sampler and the predictor change.
Elsewhere(s, place, pc) == sampled /\ SampledAccess(s, place, pc) /\ UNCHANGED here

Next == \/ \E type \in Types, pc \in PCs :
             \/ \E w \in Ways : Hit(w, type, pc)
             \/ \E b \in Blocks : FillInvalid(b, type, pc)
             \/ \E b \in Blocks : Replace(b, type, pc)
        \/ \E s \in Sets \ {Home}, place \in Places, pc \in PCs : Elsewhere(s, place, pc)
        \/ Tick

Spec == Init /\ [][Next]_vars
-----------------------------------------------------------------------------
(* Properties *)

\* lru.cc:20 "Find the way whose last use cycle is most distant", and base_replacement.cc,
\* which keeps the order of use instead: whatever ties and write-backs do, no block that
\* was thrown out has been used after one that stayed, and base always has a victim.
LruKeepsTheMostRecent ==
  /\ policy \in {"lru", "base"} =>
       \A b \in Blocks \ {line[w] : w \in Ways}, w \in Valid : seen[b] <= seen[line[w]]
  /\ policy = "base" => \A w \in Valid : rank[w] < NUM_WAY /\ \A v \in Valid : rank[v] = rank[w] => v = w

\* srrip, ship and red are scan resistant: a line that was never used again leaves before
\* every line that was used again after it had come, however the set is aged.
ReusedLinesStay ==
  policy \in {"srrip", "ship", "red"} =>
    \A v, w \in Valid : class[v] = "Reused" /\ class[w] = "New" /\ <<v, w>> \in later => rank[v] < rank[w]

\* hawkeye and glider: the averse lines, and only they, are at MAXRRIP (and those of
\* medium priority, and only they, at MIDRRIP), however the others are aged; and of two
\* lines of high priority the one used last is never the older one.
RripOrdersLines ==
  policy \in {"hawkeye", "glider"} =>
    /\ \A w \in Valid : /\ rank[w] = MAXRRIP <=> class[w] = "Low"
                        /\ policy = "glider" => (rank[w] = MIDRRIP <=> class[w] = "Medium")
    /\ \A v, w \in Valid :
          class[v] = "High" /\ class[w] = "High" /\ <<v, w>> \in later => rank[v] <= rank[w]

\* s4lru.cc:34 asserts "确保总能找到一个victim", that there always is a victim; take it of
\* sets whose ways were used in different cycles, where each has its own segment.
S4lruFindsAVictim ==
  Valid = Ways /\ (\A v, w \in Ways : rank[v] = rank[w] => v = w) => HasVictim
=============================================================================
