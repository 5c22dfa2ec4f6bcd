------------------------- MODULE Replacement_proofs -------------------------
(***************************************************************************)
(* Proofs about the replacement policies, for any number of ways, blocks,  *)
(* PCs and priorities.  What a policy keeps of the order of use is the     *)
(* rank of a way; the invariant says, for each kind of policy, what the    *)
(* rank knows of that order.                                               *)
(***************************************************************************)
EXTENDS Replacement, WellFoundedInduction, NaturalsInduction, TLAPS

CycleRanked == {"lru", "s4lru"}
Rrpv        == {"srrip", "ship", "red"}
Rrip        == {"hawkeye", "glider"}

\* The highest rank of a policy.
RankLimit == CASE policy \in CycleRanked -> current_cycle
               [] policy = "base"        -> NUM_WAY - 1
               [] policy \in Rrip        -> MAXRRIP
               [] OTHER                  -> maxRRPV

TypeInv ==
  /\ policy \in Policies
  /\ sampled \in BOOLEAN /\ (sampled => policy \in Rrip)
  /\ leader \in {"none", "BIP", "SRRIP", "other"}
  /\ line \in [Ways -> Blocks \cup {None}]
  /\ rank \in [Ways -> Nat] /\ \A w \in Ways : rank[w] <= RankLimit
  /\ current_cycle \in Nat
  /\ seen \in [Blocks -> Nat] /\ \A b \in Blocks : seen[b] <= current_cycle
  /\ class \in [Ways -> Predictions \cup {"New", "Reused"}]

OneWayEach == \A v, w \in Valid : line[v] = line[w] => v = w

\* lru: the rank of a line is the cycle of its last use.
ClockInv == policy = "lru" => \A w \in Valid : rank[w] = seen[line[w]]

\* base: the ranks are the places in a stack, the lines used last on top.
StackInv == policy = "base" =>
  /\ \A v, w \in Ways : rank[v] = rank[w] => v = w
  /\ \A v, w \in Valid : rank[v] < rank[w] => seen[line[w]] <= seen[line[v]]

\* lru, base: no block outside was used after a line that stays.
OutsideInv == policy \in {"lru", "base"} =>
  \A b \in Blocks \ {line[w] : w \in Ways}, w \in Valid : seen[b] <= seen[line[w]]

\* srrip, ship, red: a line comes in below the lines that were used again.
RrpvInv == policy \in Rrpv =>
  /\ \A w \in Ways \ Valid : rank[w] = maxRRPV
  /\ \A w \in Valid : class[w] = "New" => rank[w] > 0

\* hawkeye, glider: lines of high priority age up to the limit, and no further.
PriorityInv == policy \in Rrip =>
  \A w \in Valid : class[w] \in Predictions /\ (class[w] = "High" => rank[w] <= Limit)

IInv == /\ TypeInv /\ OneWayEach
        /\ ClockInv /\ StackInv /\ OutsideInv
        /\ RrpvInv /\ ReusedLinesStay
        /\ PriorityInv /\ RripOrdersLines
-----------------------------------------------------------------------------
(* Least and greatest elements *)

LEMMA LeastIn ==
  ASSUME NEW R, IsWellFoundedOn(R, Nat), \A x, y \in Nat : <<y, x>> \in R <=> y < x,
         NEW S \in SUBSET Nat, S # {}
  PROVE  \E x \in S : \A m \in S : x <= m
<1>1. PICK x \in S : \A m \in S : ~ (<<m, x>> \in R) BY WFMin
<1>2. ASSUME NEW m \in S PROVE x <= m
  <2>1. x \in Nat /\ m \in Nat OBVIOUS
  <2>2. ~(m < x) BY <1>1, <2>1
  <2> QED BY <2>1, <2>2
<1> QED BY <1>2

LEMMA LeastOf == ASSUME NEW S \in SUBSET Nat, S # {} PROVE Min(S) \in S /\ \A m \in S : Min(S) <= m
<1>1. IsWellFoundedOn(OpToRel(<, Nat), Nat) BY NatLessThanWellFounded
<1>2. \A x, y \in Nat : <<y, x>> \in OpToRel(<, Nat) <=> y < x BY DEF OpToRel
<1>3. \E x \in S : \A m \in S : x <= m BY <1>1, <1>2, LeastIn
<1> QED BY <1>3 DEF Min

LEMMA GreatestOf ==
  ASSUME NEW n \in Nat, NEW S \in SUBSET (0..n), S # {}
  PROVE  Max(S) \in S /\ \A m \in S : m <= Max(S)
<1> DEFINE gaps == {n - m : m \in S}
<1>1. \A m \in S : m \in Nat /\ n - m \in Nat OBVIOUS
<1>2. gaps \in SUBSET Nat /\ gaps # {} BY <1>1
<1>3. Min(gaps) \in gaps /\ \A m \in gaps : Min(gaps) <= m BY <1>2, LeastOf
<1>4. PICK x \in S : Min(gaps) = n - x BY <1>3
<1>5. \A m \in S : x >= m
  <2> TAKE m \in S
  <2>1. n - x <= n - m BY <1>3, <1>4
  <2> QED BY <1>1, <2>1
<1>6. Max(S) \in S /\ \A m \in S : Max(S) >= m BY <1>5 DEF Max
<1> QED BY <1>1, <1>6

LEMMA Constants ==
  /\ NUM_WAY \in Nat \ {0} /\ Ways # {} /\ Ways \subseteq Nat \ {0} /\ Ways \subseteq 0..NUM_WAY
  /\ maxRRPV \in Nat /\ maxRRPV > 1 /\ MIDRRIP \in Nat \ {0} /\ MAXRRIP \in Nat /\ MIDRRIP < MAXRRIP
  /\ Policies \subseteq {"lru", "base", "s4lru", "srrip", "drrip", "ship", "red", "hawkeye", "glider"}
  /\ None \notin Blocks
<1>1. NUM_WAY \in Nat \ {0} BY PolicyAssumption
<1>2. Ways = 1..NUM_WAY BY DEF Ways
<1>3. Ways # {} /\ Ways \subseteq Nat \ {0} /\ Ways \subseteq 0..NUM_WAY BY <1>1, <1>2
<1> QED BY <1>1, <1>3, PolicyAssumption

LEMMA WayOf == ASSUME NEW S \in SUBSET Ways, S # {} PROVE Min(S) \in S /\ Max(S) \in S
<1>1. NUM_WAY \in Nat /\ S \in SUBSET Nat /\ S \in SUBSET (0..NUM_WAY) BY Constants
<1> QED BY <1>1, LeastOf, GreatestOf

LEMMA LimitType == TypeInv => RankLimit \in Nat
BY Constants DEF TypeInv, RankLimit

LEMMA TopAndBottom ==
  ASSUME TypeInv
  PROVE  /\ Top \in Nat /\ Bottom \in Nat
         /\ At(Top) # {} /\ At(Bottom) # {}
         /\ \A w \in Ways : Bottom <= rank[w] /\ rank[w] <= Top
         /\ Top <= RankLimit
<1> DEFINE S == {rank[w] : w \in Ways}
<1>1. RankLimit \in Nat BY LimitType
<1>2. S \in SUBSET Nat /\ S \in SUBSET (0..RankLimit) /\ S # {}
  <2>1. \A w \in Ways : rank[w] \in Nat /\ rank[w] <= RankLimit BY DEF TypeInv
  <2>2. \E w : w \in Ways BY Constants
  <2> QED BY <1>1, <2>1, <2>2
<1>3. Min(S) \in S /\ \A m \in S : Min(S) <= m BY <1>2, LeastOf
<1>4. Max(S) \in S /\ \A m \in S : m <= Max(S) BY <1>1, <1>2, GreatestOf
<1>5. Top = Max(S) /\ Bottom = Min(S) BY DEF Top, Bottom
<1>6. \A w \in Ways : rank[w] \in S OBVIOUS
<1>7. ASSUME NEW r \in S PROVE At(r) # {}
  <2> SUFFICES ASSUME NEW w \in Ways PROVE At(rank[w]) # {} OBVIOUS
  <2>1. w \in At(rank[w]) BY DEF At
  <2> QED BY <2>1
<1>8. Top \in S /\ Bottom \in S BY <1>3, <1>4, <1>5
<1>9. At(Top) # {} /\ At(Bottom) # {} BY <1>7, <1>8
<1> HIDE DEF S
<1>10. Top \in Nat /\ Bottom \in Nat /\ Top <= RankLimit BY <1>1, <1>2, <1>8
<1>11. ASSUME NEW w \in Ways PROVE Bottom <= rank[w] /\ rank[w] <= Top
  BY <1>3, <1>4, <1>5, <1>6
<1> QED BY <1>9, <1>10, <1>11
-----------------------------------------------------------------------------
(* The steps: an access uses a way, which a line may be new to *)

LEMMA VictimIsAWay == ASSUME TypeInv, HasVictim PROVE find_victim \in Ways
<1>1. At(Top) \in SUBSET Ways /\ At(Top) # {} /\ At(Bottom) \in SUBSET Ways /\ At(Bottom) # {}
  BY TopAndBottom DEF At
<1>2. Min(At(Top)) \in Ways /\ Max(At(Top)) \in Ways /\ Min(At(Bottom)) \in Ways BY <1>1, WayOf
<1>3. \A r : At(r) # {} => Min(At(r)) \in Ways
  <2> TAKE r
  <2>1. At(r) \in SUBSET Ways BY DEF At
  <2> QED BY <2>1, WayOf
<1>4. Demoted # {} => Min(Demoted) \in Ways
  <2>1. Demoted \in SUBSET Ways BY DEF Demoted
  <2> QED BY <2>1, WayOf
<1>5. CASE policy = "base"
  <2>1. find_victim = Min(At(NUM_WAY - 1)) /\ At(NUM_WAY - 1) # {}
    BY <1>5 DEF find_victim, BaseVictim, HasVictim
  <2> QED BY <2>1, <1>3
<1>6. CASE policy = "s4lru"
  <2>1. find_victim = Min(Demoted) /\ Demoted # {} BY <1>6 DEF find_victim, HasVictim
  <2> QED BY <2>1, <1>4
<1>7. CASE policy = "lru" BY <1>2, <1>7 DEF find_victim, LruVictim
<1>8. CASE policy \in Rrip
  <2>1. find_victim = RripVictim BY <1>8 DEF find_victim, Rrip
  <2> QED BY <1>2, <1>3, <2>1 DEF RripVictim
<1>9. CASE policy \notin Rrip \cup {"base", "s4lru", "lru"}
  <2>1. find_victim = Min(At(Top)) BY <1>9 DEF find_victim, Rrip, RrpvVictim
  <2> QED BY <2>1, <1>2
<1> QED BY <1>5, <1>6, <1>7, <1>8, <1>9

\* Way w is used for block b; old are the ranks as find_victim has left them.
Access(w, b, type, hit, prediction, old) ==
  /\ w \in Ways /\ b \in Blocks /\ type \in Types /\ hit \in BOOLEAN /\ prediction \in Predictions
  /\ hit => w \in Valid /\ line[w] = b
  /\ ~hit => \A v \in Valid : line[v] # b
  /\ hit \/ Valid # Ways => old = rank
  /\ ~hit /\ w \in Valid => /\ Valid = Ways \/ policy = "red"
                            /\ HasVictim /\ w = find_victim /\ old = Searched
  /\ line' = [line EXCEPT ![w] = b]
  /\ rank' \in NewRanks(w, type, hit, prediction, old)
  /\ Record(w, b, type, hit, prediction)
  /\ UNCHANGED <<fixed, current_cycle>>

LEMMA AnswersArePredictions == ASSUME NEW pc, policy \in Rrip \/ ~sampled PROVE Answers(pc) \subseteq Predictions
BY DEF Answers, Rrip, get_prediction, Priority, Predictions

LEMMA UpdateFacts ==
  ASSUME TypeInv, NEW w, NEW b, NEW pc, NEW type, NEW hit, NEW old, NEW pred,
         update_replacement_state(w, b, pc, type, hit, old, pred)
  PROVE  \E prediction \in Predictions : /\ rank' \in NewRanks(w, type, hit, prediction, old)
                                         /\ Record(w, b, type, hit, prediction)
<1>1. PICK prediction \in Answers(pc) : /\ rank' \in NewRanks(w, type, hit, prediction, old)
                                        /\ Record(w, b, type, hit, prediction)
  BY DEF update_replacement_state
<1>2. prediction \in Predictions BY AnswersArePredictions DEF TypeInv
<1> QED BY <1>1, <1>2

\* red ages no line while a way is invalid: that way is at maxRRPV already.
LEMMA NoAging == ASSUME TypeInv, RrpvInv, policy = "red", Valid # Ways PROVE Searched = rank
<1>1. PICK w \in Ways : w \notin Valid BY DEF Valid
<1>2. rank[w] = maxRRPV BY <1>1 DEF RrpvInv, Rrpv
<1>3. RankLimit = maxRRPV BY DEF RankLimit, CycleRanked, Rrip
<1>4. Top \in Nat /\ rank[w] <= Top /\ Top <= RankLimit BY TopAndBottom
<1>5. Top = maxRRPV BY <1>2, <1>3, <1>4, Constants
<1>6. Searched = [v \in Ways |-> rank[v] + maxRRPV - Top] BY DEF Searched, RrpvAging
<1>7. \A v \in Ways : rank[v] + maxRRPV - Top = rank[v] BY <1>5, Constants DEF TypeInv
<1> QED BY <1>6, <1>7 DEF TypeInv

LEMMA NextIsAccess ==
  ASSUME TypeInv, RrpvInv, Next
  PROVE  \/ Tick \/ UNCHANGED here
         \/ \E old : \E w \in Ways, b \in Blocks, type \in Types, hit \in BOOLEAN, prediction \in Predictions :
              Access(w, b, type, hit, prediction, old)
<1>1. ASSUME NEW type \in Types, NEW pc \in PCs, NEW w \in Ways, Hit(w, type, pc)
      PROVE  \E prediction \in Predictions : Access(w, line[w], type, TRUE, prediction, rank)
             /\ line[w] \in Blocks
  <2>1. w \in Valid /\ line[w] \in Blocks BY <1>1 DEF Hit, Valid, TypeInv
  <2>2. update_replacement_state(w, line[w], pc, type, TRUE, rank, predictor) BY <1>1 DEF Hit
  <2>3. PICK prediction \in Predictions : /\ rank' \in NewRanks(w, type, TRUE, prediction, rank)
                                          /\ Record(w, line[w], type, TRUE, prediction)
    BY <2>2, UpdateFacts
  <2>4. UNCHANGED <<fixed, line, current_cycle>> BY <1>1 DEF Hit
  <2>5. line' = [line EXCEPT ![w] = line[w]] BY <2>4 DEF TypeInv
  <2>6. Access(w, line[w], type, TRUE, prediction, rank) BY <2>1, <2>3, <2>4, <2>5 DEF Access
  <2> QED BY <2>1, <2>6
<1>2. ASSUME NEW type \in Types, NEW pc \in PCs, NEW b \in Blocks, FillInvalid(b, type, pc)
      PROVE  \E w \in Ways, prediction \in Predictions : Access(w, b, type, FALSE, prediction, rank)
  <2> DEFINE w == Min(Ways \ Valid)
  <2>1. Ways \ Valid # {} BY <1>2 DEF FillInvalid, Valid
  <2>2. w \in Ways /\ w \notin Valid BY <2>1, WayOf
  <2>3. update_replacement_state(w, b, pc, type, FALSE, rank, predictor) BY <1>2 DEF FillInvalid
  <2>4. /\ \A v \in Valid : line[v] # b
        /\ line' = [line EXCEPT ![w] = b]
        /\ UNCHANGED <<fixed, current_cycle>>
    BY <1>2 DEF FillInvalid
  <2> HIDE DEF w
  <2>5. PICK prediction \in Predictions : /\ rank' \in NewRanks(w, type, FALSE, prediction, rank)
                                          /\ Record(w, b, type, FALSE, prediction)
    BY <2>3, UpdateFacts
  <2>6. Access(w, b, type, FALSE, prediction, rank) BY <2>2, <2>4, <2>5 DEF Access
  <2> QED BY <2>2, <2>6
<1>3. ASSUME NEW type \in Types, NEW pc \in PCs, NEW b \in Blocks, Replace(b, type, pc)
      PROVE  \E w \in Ways, prediction \in Predictions : Access(w, b, type, FALSE, prediction, Searched)
  <2> DEFINE w == find_victim
  <2>1. w \in Ways BY <1>3, VictimIsAWay DEF Replace
  <2>2. update_replacement_state(w, b, pc, type, FALSE, Searched, Punished) BY <1>3 DEF Replace
  <2>3. /\ Valid = Ways \/ policy = "red"
        /\ HasVictim /\ \A v \in Valid : line[v] # b
        /\ line' = [line EXCEPT ![w] = b]
        /\ UNCHANGED <<fixed, current_cycle>>
    BY <1>3 DEF Replace, Valid
  <2>4. w = find_victim /\ (Valid # Ways => Searched = rank) BY <2>3, NoAging
  <2> HIDE DEF w
  <2>5. PICK prediction \in Predictions : /\ rank' \in NewRanks(w, type, FALSE, prediction, Searched)
                                          /\ Record(w, b, type, FALSE, prediction)
    BY <2>2, UpdateFacts
  <2>6. Access(w, b, type, FALSE, prediction, Searched) BY <2>1, <2>3, <2>4, <2>5 DEF Access
  <2> QED BY <2>1, <2>6
<1>4. CASE Tick \/ UNCHANGED here BY <1>4
<1>5. CASE ~(Tick \/ UNCHANGED here)
  <2>1. PICK type \in Types, pc \in PCs : \/ \E w \in Ways : Hit(w, type, pc)
                                          \/ \E b \in Blocks : FillInvalid(b, type, pc)
                                          \/ \E b \in Blocks : Replace(b, type, pc)
    BY <1>5 DEF Next, Elsewhere
  <2>2. CASE \E w \in Ways : Hit(w, type, pc)
    <3>1. PICK w \in Ways : Hit(w, type, pc) BY <2>2
    <3>2. PICK prediction \in Predictions : Access(w, line[w], type, TRUE, prediction, rank)
                                            /\ line[w] \in Blocks
      BY <1>1, <3>1
    <3> QED BY <3>2
  <2>3. CASE \E b \in Blocks : FillInvalid(b, type, pc)
    <3>1. PICK b \in Blocks : FillInvalid(b, type, pc) BY <2>3
    <3>2. PICK w \in Ways, prediction \in Predictions : Access(w, b, type, FALSE, prediction, rank)
      BY <1>2, <3>1
    <3> QED BY <3>2
  <2>4. CASE \E b \in Blocks : Replace(b, type, pc)
    <3>1. PICK b \in Blocks : Replace(b, type, pc) BY <2>4
    <3>2. PICK w \in Ways, prediction \in Predictions : Access(w, b, type, FALSE, prediction, Searched)
      BY <1>3, <3>1
    <3> QED BY <3>2
  <2> QED BY <2>1, <2>2, <2>3, <2>4
<1> QED BY <1>4, <1>5

LEMMA LineFacts ==
  ASSUME TypeInv, NEW w, NEW b, NEW type, NEW hit, NEW prediction, NEW old,
         Access(w, b, type, hit, prediction, old)
  PROVE  /\ w \in Ways /\ b \in Blocks
         /\ line' \in [Ways -> Blocks \cup {None}] /\ line'[w] = b
         /\ \A v \in Ways \ {w} : line'[v] = line[v]
         /\ Valid' = Valid \cup {w} /\ Valid' \subseteq Ways
         /\ policy' = policy /\ sampled' = sampled /\ leader' = leader /\ current_cycle' = current_cycle
<1>1. line' = [line EXCEPT ![w] = b] /\ w \in Ways /\ b \in Blocks BY DEF Access
<1>2. line'[w] = b /\ \A v \in Ways \ {w} : line'[v] = line[v] BY <1>1 DEF TypeInv
<1>3. Valid' = Valid \cup {w} BY <1>1, <1>2, Constants DEF Valid
<1>4. line' \in [Ways -> Blocks \cup {None}] BY <1>1 DEF TypeInv
<1>5. Valid' \subseteq Ways BY DEF Valid
<1> QED BY <1>1, <1>2, <1>3, <1>4, <1>5 DEF Access, fixed

LEMMA OneWayKept ==
  ASSUME TypeInv, OneWayEach, NEW w, NEW b, NEW type, NEW hit, NEW prediction, NEW old,
         Access(w, b, type, hit, prediction, old)
  PROVE  OneWayEach' /\ \A v \in Valid \ {w} : line[v] # b
<1>1. \A v \in Valid \ {w} : line[v] # b BY DEF Access, OneWayEach
<1>2. OneWayEach' BY <1>1, LineFacts DEF OneWayEach, Valid
<1> QED BY <1>1, <1>2

\* What find_victim does to the ranks: lines are aged alike, and the victim becomes
\* the first to leave.
LEMMA OldFacts ==
  ASSUME TypeInv, NEW w, NEW b, NEW type, NEW hit, NEW prediction, NEW old,
         Access(w, b, type, hit, prediction, old)
  PROVE  /\ old \in [Ways -> Nat] /\ \A v \in Ways : old[v] <= RankLimit
         /\ policy \notin Rrpv \cup {"drrip"} => old = rank
         /\ policy \in Rrpv =>
              /\ \E d \in Nat : \A v \in Ways : old[v] = rank[v] + d
              /\ ~hit /\ w \in Valid => old[w] = maxRRPV
<1>1. CASE hit \/ w \notin Valid
  <2>1. old = rank BY <1>1 DEF Access
  <2>2. \A v \in Ways : rank[v] = rank[v] + 0 BY DEF TypeInv
  <2> QED BY <1>1, <2>1, <2>2 DEF TypeInv
<1>2. CASE ~hit /\ w \in Valid
  <2>1. old = Searched /\ w = find_victim BY <1>2 DEF Access
  <2>2. /\ Top \in Nat /\ At(Top) # {} /\ Top <= RankLimit
        /\ \A v \in Ways : rank[v] \in Nat /\ rank[v] <= Top
    BY TopAndBottom DEF TypeInv
  <2>3. CASE policy \in Rrpv
    <3>1. old = [v \in Ways |-> rank[v] + maxRRPV - Top] BY <2>1, <2>3 DEF Searched, RrpvAging, Rrpv
    <3>2. RankLimit = maxRRPV BY <2>3 DEF RankLimit, Rrpv, CycleRanked, Rrip
    <3>3. maxRRPV - Top \in Nat BY <2>2, <3>2, Constants
    <3>4. \A v \in Ways : old[v] = rank[v] + (maxRRPV - Top) BY <2>2, <3>1, <3>3, Constants
    <3>5. w = Min(At(Top)) BY <2>1, <2>3 DEF find_victim, RrpvVictim, Rrpv
    <3>6. At(Top) \in SUBSET Ways BY DEF At
    <3>7. w \in At(Top) BY <2>2, <3>5, <3>6, WayOf
    <3>8. rank[w] = Top /\ w \in Ways BY <3>7 DEF At
    <3>9. old[w] = maxRRPV BY <2>2, <3>2, <3>4, <3>8, Constants
    <3>10. old \in [Ways -> Nat] /\ \A v \in Ways : old[v] <= RankLimit
      BY <2>2, <3>1, <3>2, <3>3, <3>4, Constants
    <3> QED BY <3>3, <3>4, <3>9, <3>10, <2>3 DEF Rrpv
  <2>4. CASE policy = "drrip"
    <3>1. old = DrripAging BY <2>1, <2>4 DEF Searched
    <3>2. RankLimit = maxRRPV BY <2>4 DEF RankLimit, CycleRanked, Rrip
    <3>3. \A v \in Ways : rank[v] + maxRRPV - Top \in Nat /\ rank[v] + maxRRPV - Top <= maxRRPV
      BY <2>2, <3>2, Constants
    <3>4. DrripAging \in [Ways -> Nat] /\ \A v \in Ways : DrripAging[v] <= maxRRPV
      BY <2>2, <3>2, <3>3, Constants DEF DrripAging
    <3> QED BY <2>4, <3>1, <3>2, <3>4 DEF Rrpv
  <2>5. CASE policy \notin Rrpv \cup {"drrip"}
    <3>1. old = rank BY <2>1, <2>5 DEF Searched, Rrpv
    <3> QED BY <2>5, <3>1 DEF TypeInv
  <2> QED BY <2>3, <2>4, <2>5
<1> QED BY <1>1, <1>2 DEF Access
-----------------------------------------------------------------------------
(* An access keeps the invariant *)

\* The rank the way gets, for the policies that touch no other.
OneRank(w, type, hit, old) ==
  CASE policy \in CycleRanked -> {CycleOf(type, hit, old[w])}
    [] policy = "srrip"       -> SrripOf(type, hit, old[w])
    [] policy = "ship"        -> ShipOf(type, hit, old[w])
    [] policy = "red"         -> RedOf(type, hit, old[w])
    [] policy = "drrip"       -> DrripOf(type, hit, old[w])

LEMMA OneRankFacts ==
  ASSUME TypeInv, policy \notin Rrip \cup {"base"},
         NEW w, NEW b, NEW type, NEW hit, NEW prediction, NEW old,
         Access(w, b, type, hit, prediction, old)
  PROVE  /\ rank'[w] \in OneRank(w, type, hit, old) /\ \A v \in Ways \ {w} : rank'[v] = old[v]
         /\ DOMAIN rank' = Ways
<1>1. w \in Ways /\ old \in [Ways -> Nat] BY OldFacts DEF Access
<1>2. rank' \in NewRanks(w, type, hit, prediction, old) BY DEF Access
<1>3. policy \in {"lru", "s4lru", "srrip", "ship", "red", "drrip"} BY Constants DEF TypeInv, Rrip
<1>4. CASE policy \in CycleRanked
  <2>1. rank' = [old EXCEPT ![w] = CycleOf(type, hit, @)] BY <1>2, <1>4 DEF NewRanks, CycleRanked
  <2>2. OneRank(w, type, hit, old) = {CycleOf(type, hit, old[w])} BY <1>4 DEF OneRank, CycleRanked
  <2> QED BY <1>1, <2>1, <2>2
<1>5. CASE policy = "srrip"
  <2>1. PICK r \in SrripOf(type, hit, old[w]) : rank' = [old EXCEPT ![w] = r]
    BY <1>2, <1>5 DEF NewRanks
  <2>2. OneRank(w, type, hit, old) = SrripOf(type, hit, old[w]) BY <1>5 DEF OneRank, CycleRanked
  <2> QED BY <1>1, <2>1, <2>2
<1>6. CASE policy = "ship"
  <2>1. PICK r \in ShipOf(type, hit, old[w]) : rank' = [old EXCEPT ![w] = r]
    BY <1>2, <1>6 DEF NewRanks
  <2>2. OneRank(w, type, hit, old) = ShipOf(type, hit, old[w]) BY <1>6 DEF OneRank, CycleRanked
  <2> QED BY <1>1, <2>1, <2>2
<1>7. CASE policy = "red"
  <2>1. PICK r \in RedOf(type, hit, old[w]) : rank' = [old EXCEPT ![w] = r]
    BY <1>2, <1>7 DEF NewRanks
  <2>2. OneRank(w, type, hit, old) = RedOf(type, hit, old[w]) BY <1>7 DEF OneRank, CycleRanked
  <2> QED BY <1>1, <2>1, <2>2
<1>8. CASE policy = "drrip"
  <2>1. PICK r \in DrripOf(type, hit, old[w]) : rank' = [old EXCEPT ![w] = r]
    BY <1>2, <1>8 DEF NewRanks
  <2>2. OneRank(w, type, hit, old) = DrripOf(type, hit, old[w]) BY <1>8 DEF OneRank, CycleRanked
  <2> QED BY <1>1, <2>1, <2>2
<1> QED BY <1>3, <1>4, <1>5, <1>6, <1>7, <1>8 DEF CycleRanked

LEMMA OneRankType ==
  ASSUME TypeInv, policy \notin Rrip \cup {"base"},
         NEW w, NEW b, NEW type, NEW hit, NEW prediction, NEW old,
         Access(w, b, type, hit, prediction, old)
  PROVE  rank' \in [Ways -> Nat] /\ \A v \in Ways : rank'[v] <= RankLimit
<1>1. w \in Ways /\ old \in [Ways -> Nat] /\ (\A v \in Ways : old[v] <= RankLimit)
      /\ hit \in BOOLEAN
  BY OldFacts DEF Access
<1>2. old[w] \in Nat /\ old[w] <= RankLimit BY <1>1
<1>3. ASSUME NEW r \in OneRank(w, type, hit, old) PROVE r \in Nat /\ r <= RankLimit
  <2>1. policy \in {"lru", "s4lru", "srrip", "ship", "red", "drrip"} BY Constants DEF TypeInv, Rrip
  <2>2. CASE policy \in CycleRanked
    <3>1. RankLimit = current_cycle /\ current_cycle \in Nat BY <2>2 DEF RankLimit, TypeInv
    <3>2. r = CycleOf(type, hit, old[w]) BY <1>3, <2>2 DEF OneRank, CycleRanked
    <3> QED BY <1>2, <3>1, <3>2 DEF CycleOf
  <2>3. CASE policy \notin CycleRanked
    <3>1. RankLimit = maxRRPV BY <2>1, <2>3 DEF RankLimit, Rrip, CycleRanked
    <3>2. maxRRPV - 1 \in Nat /\ maxRRPV \in Nat /\ maxRRPV - 1 <= maxRRPV /\ 0 <= maxRRPV BY Constants
    <3>3. CASE policy = "srrip" BY <1>3, <3>1, <3>2, <3>3 DEF OneRank, CycleRanked, SrripOf
    <3>4. CASE policy = "ship"
      <4>1. r \in {old[w], 0, maxRRPV - 1, maxRRPV}
        BY <1>1, <1>3, <3>4 DEF OneRank, CycleRanked, ShipOf, Ignored
      <4> QED BY <1>2, <3>1, <3>2, <4>1
    <3>5. CASE policy = "red"
      <4>1. r \in {old[w], 0, maxRRPV - 1} BY <1>3, <3>5 DEF OneRank, CycleRanked, RedOf
      <4> QED BY <1>2, <3>1, <3>2, <4>1
    <3>6. CASE policy = "drrip"
      <4>1. r \in {old[w], 0, maxRRPV - 1, maxRRPV}
        BY <1>1, <1>3, <3>6 DEF OneRank, CycleRanked, DrripOf, TypeInv
      <4> QED BY <1>2, <3>1, <3>2, <4>1
    <3> QED BY <2>1, <2>3, <3>3, <3>4, <3>5, <3>6 DEF CycleRanked
  <2> QED BY <2>2, <2>3
<1>4. /\ rank'[w] \in OneRank(w, type, hit, old) /\ \A v \in Ways \ {w} : rank'[v] = old[v]
      /\ DOMAIN rank' = Ways
  BY OneRankFacts
<1>5. ASSUME NEW v \in Ways PROVE rank'[v] \in Nat /\ rank'[v] <= RankLimit
  <2>1. CASE v = w BY <1>3, <1>4, <2>1
  <2>2. CASE v # w BY <1>1, <1>4, <2>2
  <2> QED BY <2>1, <2>2
<1>6. rank' = [v \in Ways |-> rank'[v]]
  <2>1. rank' \in NewRanks(w, type, hit, prediction, old) BY DEF Access
  <2>2. policy \in {"lru", "s4lru", "srrip", "ship", "red", "drrip"} BY Constants DEF TypeInv, Rrip
  <2>3. \E r : rank' = [old EXCEPT ![w] = r] BY <2>1, <2>2 DEF NewRanks
  <2> QED BY <1>1, <2>3
<1> QED BY <1>5, <1>6

\* base: the line used moves to the top, those above it one down.
LEMMA PromotedFacts ==
  ASSUME TypeInv, policy = "base",
         NEW w, NEW b, NEW type, NEW hit, NEW prediction, NEW old,
         Access(w, b, type, hit, prediction, old)
  PROVE  /\ Ignored(type, hit) => rank' = rank
         /\ ~Ignored(type, hit) =>
              rank' = [v \in Ways |-> CASE v = w -> 0
                                        [] v # w /\ rank[v] < rank[w] -> rank[v] + 1
                                        [] OTHER -> rank[v]]
<1>1. old = rank BY OldFacts DEF Rrpv
<1>2. rank' \in NewRanks(w, type, hit, prediction, rank) BY <1>1 DEF Access
<1>3. rank' = Promoted(w, type, hit, rank) BY <1>2 DEF NewRanks
<1> QED BY <1>3 DEF Promoted

LEMMA PromotedRanks ==
  ASSUME TypeInv, policy = "base",
         NEW w, NEW b, NEW type, NEW hit, NEW prediction, NEW old,
         Access(w, b, type, hit, prediction, old), ~Ignored(type, hit)
  PROVE  /\ rank' \in [Ways -> Nat] /\ rank'[w] = 0
         /\ \A v \in Ways \ {w} : rank'[v] = IF rank[v] < rank[w] THEN rank[v] + 1 ELSE rank[v]
<1>1. w \in Ways /\ rank \in [Ways -> Nat] BY DEF Access, TypeInv
<1>2. rank' = [v \in Ways |-> CASE v = w -> 0
                                [] v # w /\ rank[v] < rank[w] -> rank[v] + 1
                                [] OTHER -> rank[v]]
  BY PromotedFacts
<1>3. rank'[w] = 0 BY <1>1, <1>2
<1>4. ASSUME NEW v \in Ways \ {w} PROVE rank'[v] = IF rank[v] < rank[w] THEN rank[v] + 1 ELSE rank[v]
  BY <1>2
<1>5. \A v \in Ways : rank'[v] \in Nat BY <1>1, <1>3, <1>4
<1> QED BY <1>2, <1>3, <1>4, <1>5

\* hawkeye and glider.
LEMMA RripFacts ==
  ASSUME TypeInv, policy \in Rrip,
         NEW w, NEW b, NEW type, NEW hit, NEW prediction, NEW old,
         Access(w, b, type, hit, prediction, old)
  PROVE  /\ rank' \in [Ways -> Nat]
         /\ prediction = "Low" => rank'[w] = MAXRRIP
         /\ prediction = "Medium" => rank'[w] = MIDRRIP
         /\ prediction = "High" => rank'[w] = 0
         /\ \/ \A v \in Ways \ {w} : rank'[v] = rank[v]
            \/ /\ \A v \in Ways \ {w} : rank[v] # Limit
               /\ \A v \in Ways \ {w} : rank'[v] = IF rank[v] < Limit THEN rank[v] + 1 ELSE rank[v]
<1>1. old = rank BY OldFacts DEF Rrpv, Rrip
<1>2. w \in Ways /\ rank \in [Ways -> Nat] /\ prediction \in Predictions BY DEF Access, TypeInv
<1>3. rank' = RripOf(w, hit, prediction, rank) BY <1>1 DEF Access, NewRanks, Rrip
<1>4. CASE prediction = "Low"
  <2>1. rank' = [rank EXCEPT ![w] = MAXRRIP] BY <1>3, <1>4 DEF RripOf
  <2> QED BY <1>2, <1>4, <2>1, Constants
<1>5. CASE prediction = "Medium"
  <2>1. rank' = [rank EXCEPT ![w] = MIDRRIP] BY <1>3, <1>5 DEF RripOf
  <2> QED BY <1>2, <1>5, <2>1, Constants
<1>6. CASE prediction = "High"
  <2> DEFINE mine == [rank EXCEPT ![w] = 0]
             age  == ~hit /\ \A v \in Ways : mine[v] # Limit
  <2>1. rank' = [v \in Ways |-> IF v # w /\ age /\ mine[v] < Limit THEN mine[v] + 1 ELSE mine[v]]
    BY <1>3, <1>6 DEF RripOf, Friendly
  <2>2. mine[w] = 0 /\ \A v \in Ways \ {w} : mine[v] = rank[v] BY <1>2
  <2>3. rank'[w] = 0 BY <1>2, <2>1, <2>2
  <2>4. CASE age
    <3>1. \A v \in Ways \ {w} : rank[v] # Limit BY <2>2, <2>4
    <3>2. \A v \in Ways \ {w} : rank'[v] = IF rank[v] < Limit THEN rank[v] + 1 ELSE rank[v]
      BY <2>1, <2>2, <2>4
    <3>3. rank' \in [Ways -> Nat] BY <1>2, <2>1, <2>3, <3>2
    <3> QED BY <1>6, <2>3, <3>1, <3>2, <3>3
  <2>5. CASE ~age
    <3>1. \A v \in Ways \ {w} : rank'[v] = rank[v] BY <2>1, <2>2, <2>5
    <3>2. rank' \in [Ways -> Nat] BY <1>2, <2>1, <2>3, <3>1
    <3> QED BY <1>6, <2>3, <3>1, <3>2
  <2> QED BY <2>4, <2>5
<1> QED BY <1>2, <1>4, <1>5, <1>6 DEF Predictions

\* The line used, and the history.
LEMMA RecordFacts ==
  ASSUME TypeInv, NEW w, NEW b, NEW type, NEW hit, NEW prediction, NEW old,
         Access(w, b, type, hit, prediction, old)
  PROVE  /\ Ignored(type, hit) => hit /\ seen' = seen /\ later' = later /\ class' = class
         /\ ~Ignored(type, hit) =>
              /\ policy \in {"lru", "base"} =>
                   seen'[b] = current_cycle /\ \A c \in Blocks \ {b} : seen'[c] = seen[c]
              /\ \A u, v \in Ways : <<u, v>> \in later' => v # w /\ (u = w \/ <<u, v>> \in later)
              /\ \A v \in Ways \ {w} : class'[v] = class[v]
              /\ policy \in Rrip => class'[w] = prediction
              /\ policy \notin Rrip => class'[w] = IF hit THEN "Reused" ELSE "New"
         /\ seen' \in [Blocks -> Nat] /\ \A c \in Blocks : seen'[c] <= current_cycle
         /\ class' \in [Ways -> Predictions \cup {"New", "Reused"}]
<1>1. w \in Ways /\ b \in Blocks /\ prediction \in Predictions /\ hit \in BOOLEAN BY DEF Access
<1>2. CASE Ignored(type, hit) BY <1>2 DEF Access, Record, history, Ignored, TypeInv
<1>3. CASE ~Ignored(type, hit)
  <2>1. /\ seen' = IF policy \in {"lru", "base"} THEN [seen EXCEPT ![b] = current_cycle] ELSE seen
        /\ later' = {pair \in later : pair[1] # w /\ pair[2] # w} \cup {<<w, v>> : v \in Ways \ {w}}
        /\ class' = [class EXCEPT ![w] = CASE policy \in {"hawkeye", "glider"} -> prediction
                                           [] policy \notin {"hawkeye", "glider"} /\ hit -> "Reused"
                                           [] OTHER -> "New"]
    BY <1>3 DEF Access, Record
  <2>2. class'[w] = IF policy \in Rrip THEN prediction ELSE IF hit THEN "Reused" ELSE "New"
    BY <1>1, <2>1 DEF TypeInv, Rrip
  <2>3. \A v \in Ways \ {w} : class'[v] = class[v] BY <2>1 DEF TypeInv
  <2>4. class' \in [Ways -> Predictions \cup {"New", "Reused"}]
    <3>1. \E x : class' = [class EXCEPT ![w] = x] BY <2>1
    <3> QED BY <1>1, <2>2, <2>3, <3>1 DEF TypeInv
  <2>5. \A u, v \in Ways : <<u, v>> \in later' => v # w /\ (u = w \/ <<u, v>> \in later)
    BY <2>1
  <2>6. seen' \in [Blocks -> Nat] /\ \A c \in Blocks : seen'[c] <= current_cycle
    BY <1>1, <2>1 DEF TypeInv
  <2>7. policy \in {"lru", "base"} =>
          seen'[b] = current_cycle /\ \A c \in Blocks \ {b} : seen'[c] = seen[c]
    BY <1>1, <2>1 DEF TypeInv
  <2> QED BY <1>3, <2>2, <2>3, <2>4, <2>5, <2>6, <2>7
<1> QED BY <1>2, <1>3

LEMMA TypeKept ==
  ASSUME TypeInv, NEW w, NEW b, NEW type, NEW hit, NEW prediction, NEW old,
         Access(w, b, type, hit, prediction, old)
  PROVE  TypeInv'
<1>1. RankLimit' = RankLimit BY LineFacts DEF RankLimit
<1>2. rank' \in [Ways -> Nat] /\ \A v \in Ways : rank'[v] <= RankLimit
  <2>1. CASE policy \notin Rrip \cup {"base"} BY <2>1, OneRankType
  <2>2. CASE policy = "base"
    <3>1. RankLimit = NUM_WAY - 1 BY <2>2 DEF RankLimit, CycleRanked, Rrip
    <3>2. CASE Ignored(type, hit) BY <2>2, <3>2, PromotedFacts DEF TypeInv
    <3>3. CASE ~Ignored(type, hit)
      <4>1. /\ rank' \in [Ways -> Nat] /\ rank'[w] = 0
            /\ \A v \in Ways \ {w} : rank'[v] = IF rank[v] < rank[w] THEN rank[v] + 1 ELSE rank[v]
        BY <2>2, <3>3, PromotedRanks
      <4>2. w \in Ways /\ RankLimit \in Nat /\ \A v \in Ways : rank[v] \in Nat /\ rank[v] <= RankLimit
        BY LimitType DEF Access, TypeInv
      <4> QED BY <4>1, <4>2
    <3> QED BY <3>2, <3>3
  <2>3. CASE policy \in Rrip
    <3>1. RankLimit = MAXRRIP /\ Limit < MAXRRIP /\ Limit \in Nat
      BY <2>3, Constants DEF RankLimit, CycleRanked, Limit, Rrip
    <3>2. w \in Ways /\ prediction \in Predictions /\ \A v \in Ways : rank[v] \in Nat /\ rank[v] <= MAXRRIP
      BY <3>1 DEF Access, TypeInv
    <3>3. rank'[w] <= MAXRRIP BY <2>3, <3>2, RripFacts, Constants DEF Predictions
    <3>4. \A v \in Ways \ {w} : rank'[v] <= MAXRRIP
      <4>1. CASE \A v \in Ways \ {w} : rank'[v] = rank[v] BY <3>2, <4>1
      <4>2. CASE \A v \in Ways \ {w} : rank'[v] = IF rank[v] < Limit THEN rank[v] + 1 ELSE rank[v]
        BY <3>1, <3>2, <4>2, Constants
      <4> QED BY <2>3, <4>1, <4>2, RripFacts
    <3> QED BY <2>3, <3>1, <3>2, <3>3, <3>4, RripFacts
  <2> QED BY <2>1, <2>2, <2>3
<1> QED BY <1>1, <1>2, LineFacts, RecordFacts DEF TypeInv
-----------------------------------------------------------------------------
(* lru and base *)

LEMMA ClockKept ==
  ASSUME TypeInv, OneWayEach, ClockInv,
         NEW w, NEW b, NEW type, NEW hit, NEW prediction, NEW old,
         Access(w, b, type, hit, prediction, old)
  PROVE  ClockInv'
<1> SUFFICES ASSUME policy = "lru" PROVE \A v \in Valid' : rank'[v] = seen'[line'[v]]
  BY LineFacts DEF ClockInv
<1>1. old = rank BY OldFacts DEF Rrpv
<1>2. rank'[w] \in {CycleOf(type, hit, rank[w])} /\ \A v \in Ways \ {w} : rank'[v] = rank[v]
  <2>1. OneRank(w, type, hit, rank) = {CycleOf(type, hit, rank[w])} BY DEF OneRank, CycleRanked
  <2> QED BY <1>1, <2>1, OneRankFacts DEF Rrip
<1>3. CASE Ignored(type, hit)
  <2>1. w \in Valid /\ line[w] = b /\ seen' = seen BY <1>3, RecordFacts DEF Access
  <2>2. rank'[w] = rank[w] BY <1>2, <1>3 DEF CycleOf
  <2> QED BY <1>2, <2>1, <2>2, LineFacts DEF ClockInv
<1>4. CASE ~Ignored(type, hit)
  <2>1. rank'[w] = current_cycle BY <1>2, <1>4 DEF CycleOf
  <2>2. seen'[b] = current_cycle /\ \A c \in Blocks \ {b} : seen'[c] = seen[c] BY <1>4, RecordFacts
  <2>3. ASSUME NEW v \in Valid \ {w} PROVE rank'[v] = seen'[line'[v]]
    <3>1. v \in Ways /\ line[v] \in Blocks /\ line[v] # b BY OneWayKept DEF Valid, TypeInv
    <3> QED BY <1>2, <2>2, <2>3, <3>1, LineFacts DEF ClockInv
  <2> QED BY <2>1, <2>2, <2>3, LineFacts
<1> QED BY <1>3, <1>4

\* Two lines keep their order when another one moves to the top.
LEMMA OrderPromoted ==
  ASSUME NEW a \in Nat, NEW c \in Nat, NEW top \in Nat, a # c, a # top, c # top
  PROVE  LET up(r) == IF r < top THEN r + 1 ELSE r
         IN  up(a) # up(c) /\ up(a) # 0 /\ (up(a) < up(c) => a < c)
OBVIOUS

LEMMA StackKept ==
  ASSUME TypeInv, OneWayEach, StackInv,
         NEW w, NEW b, NEW type, NEW hit, NEW prediction, NEW old,
         Access(w, b, type, hit, prediction, old)
  PROVE  StackInv'
<1> SUFFICES ASSUME policy = "base"
             PROVE  /\ \A u, v \in Ways : rank'[u] = rank'[v] => u = v
                    /\ \A u, v \in Valid' : rank'[u] < rank'[v] => seen'[line'[v]] <= seen'[line'[u]]
  BY LineFacts DEF StackInv
<1>1. w \in Ways /\ rank \in [Ways -> Nat] /\ \A u, v \in Ways : rank[u] = rank[v] => u = v
  BY DEF Access, TypeInv, StackInv
<1>2. CASE Ignored(type, hit)
  <2>1. rank' = rank /\ seen' = seen /\ w \in Valid /\ line[w] = b
    <3>1. hit /\ seen' = seen BY <1>2, RecordFacts
    <3>2. rank' = rank BY <1>2, PromotedFacts
    <3> QED BY <3>1, <3>2 DEF Access
  <2>2. Valid' = Valid /\ \A v \in Valid : line'[v] = line[v] BY <2>1, LineFacts DEF Valid
  <2> QED BY <2>1, <2>2 DEF StackInv
<1>3. CASE ~Ignored(type, hit)
  <2>1. /\ rank'[w] = 0
        /\ \A v \in Ways \ {w} : rank'[v] = IF rank[v] < rank[w] THEN rank[v] + 1 ELSE rank[v]
    BY <1>3, PromotedRanks
  <2>2. seen'[b] = current_cycle /\ \A c \in Blocks \ {b} : seen'[c] = seen[c] BY <1>3, RecordFacts
  <2>3. ASSUME NEW u \in Ways \ {w}, NEW v \in Ways \ {w}, u # v
        PROVE  rank'[u] # rank'[v] /\ rank'[u] # 0 /\ (rank'[u] < rank'[v] => rank[u] < rank[v])
    <3>1. rank[u] \in Nat /\ rank[v] \in Nat /\ rank[w] \in Nat BY <1>1
    <3>2. rank[u] # rank[v] /\ rank[u] # rank[w] /\ rank[v] # rank[w] BY <1>1, <2>3
    <3> QED BY <2>1, <3>1, <3>2
  <2>4. ASSUME NEW u \in Ways \ {w} PROVE rank'[u] \in Nat /\ rank'[u] # 0
    <3>1. rank[u] \in Nat /\ rank[w] \in Nat /\ rank[u] # rank[w] BY <1>1
    <3> QED BY <2>1, <3>1
  <2>5. ASSUME NEW u \in Ways, NEW v \in Ways, rank'[u] = rank'[v] PROVE u = v
    BY <2>1, <2>3, <2>4, <2>5
  <2>6. ASSUME NEW v \in Valid \ {w}
        PROVE  v \in Ways /\ line[v] \in Blocks /\ line'[v] = line[v] /\ seen'[line'[v]] = seen[line[v]]
    <3>1. v \in Ways /\ line[v] \in Blocks /\ line[v] # b BY OneWayKept DEF Valid, TypeInv
    <3> QED BY <2>2, <3>1, LineFacts
  <2>7. ASSUME NEW u \in Valid', NEW v \in Valid', rank'[u] < rank'[v]
        PROVE  seen'[line'[v]] <= seen'[line'[u]]
    <3>1. u \in Valid \cup {w} /\ v \in Valid \cup {w} /\ line'[w] = b BY LineFacts
    <3>2. v # w BY <2>1, <2>4, <2>7, <3>1, <2>6
    <3>3. CASE u = w
      <4>1. seen'[line'[u]] = current_cycle BY <2>2, <3>1, <3>3
      <4>2. line[v] \in Blocks /\ seen'[line'[v]] = seen[line[v]] BY <2>6, <3>1, <3>2
      <4> QED BY <4>1, <4>2 DEF TypeInv
    <3>4. CASE u # w
      <4>1. u # v BY <2>4, <2>6, <2>7, <3>1, <3>2
      <4>2. rank[u] < rank[v] BY <2>3, <2>6, <2>7, <3>1, <3>2, <3>4, <4>1
      <4> QED BY <2>6, <3>1, <3>2, <3>4, <4>2 DEF StackInv
    <3> QED BY <3>3, <3>4
  <2> QED BY <2>5, <2>7
<1> QED BY <1>2, <1>3

\* The victim is a line used no later than any other.
LEMMA VictimIsOldest ==
  ASSUME TypeInv, ClockInv, StackInv, policy \in {"lru", "base"}, Valid = Ways, HasVictim
  PROVE  \A v \in Ways : seen[line[find_victim]] <= seen[line[v]]
<1>1. CASE policy = "lru"
  <2>1. find_victim = Min(At(Bottom)) BY <1>1 DEF find_victim, LruVictim
  <2>2. At(Bottom) \in SUBSET Ways /\ At(Bottom) # {} BY TopAndBottom DEF At
  <2>3. find_victim \in At(Bottom) BY <2>1, <2>2, WayOf
  <2>4. find_victim \in Ways /\ rank[find_victim] = Bottom BY <2>3 DEF At
  <2>5. \A v \in Ways : rank[find_victim] <= rank[v] BY <2>4, TopAndBottom
  <2> QED BY <1>1, <2>4, <2>5 DEF ClockInv
<1>2. CASE policy = "base"
  <2>1. find_victim = Min(At(NUM_WAY - 1)) /\ At(NUM_WAY - 1) # {}
    BY <1>2 DEF find_victim, BaseVictim, HasVictim
  <2>2. At(NUM_WAY - 1) \in SUBSET Ways BY DEF At
  <2>3. find_victim \in At(NUM_WAY - 1) BY <2>1, <2>2, WayOf
  <2>4. find_victim \in Ways /\ rank[find_victim] = NUM_WAY - 1 BY <2>3 DEF At
  <2>5. RankLimit = NUM_WAY - 1 BY <1>2 DEF RankLimit, CycleRanked, Rrip
  <2>6. ASSUME NEW v \in Ways PROVE seen[line[find_victim]] <= seen[line[v]]
    <3>1. rank[v] \in Nat /\ rank[v] <= NUM_WAY - 1 /\ NUM_WAY \in Nat BY <2>5, Constants DEF TypeInv
    <3>2. CASE v = find_victim
      <4>1. seen[line[v]] \in Nat BY DEF TypeInv, Valid
      <4> QED BY <3>2, <4>1
    <3>3. CASE v # find_victim
      <4>1. rank[v] # rank[find_victim] BY <1>2, <2>4, <3>3 DEF StackInv
      <4>2. rank[v] < rank[find_victim] BY <2>4, <3>1, <4>1
      <4> QED BY <1>2, <2>4, <4>2 DEF StackInv
    <3> QED BY <3>2, <3>3
  <2> QED BY <2>6
<1> QED BY <1>1, <1>2

LEMMA OutsideKept ==
  ASSUME TypeInv, OneWayEach, ClockInv, StackInv, OutsideInv,
         NEW w, NEW b, NEW type, NEW hit, NEW prediction, NEW old,
         Access(w, b, type, hit, prediction, old)
  PROVE  OutsideInv'
<1> SUFFICES ASSUME policy \in {"lru", "base"}, NEW c \in Blocks, \A v \in Ways : line'[v] # c,
                    NEW v \in Valid'
             PROVE  seen'[c] <= seen'[line'[v]]
  BY LineFacts DEF OutsideInv
<1>1. /\ w \in Ways /\ b \in Blocks /\ line'[w] = b /\ v \in Valid \cup {w} /\ c # b
      /\ \A u \in Ways \ {w} : line'[u] = line[u]
  BY LineFacts
<1>2. seen'[c] = seen[c] /\ seen[c] \in Nat /\ seen[c] <= current_cycle BY <1>1, RecordFacts DEF TypeInv
<1>3. CASE v = w /\ ~Ignored(type, hit)
  <2>1. seen'[line'[v]] = current_cycle BY <1>1, <1>3, RecordFacts
  <2> QED BY <1>2, <2>1
<1>4. CASE v # w \/ Ignored(type, hit)
  <2>1. v \in Valid /\ v \in Ways /\ line'[v] = line[v] /\ line[v] \in Blocks
    <3>1. CASE v = w
      <4>1. hit BY <1>4, <3>1, RecordFacts
      <4>2. w \in Valid /\ line[w] = b BY <4>1 DEF Access
      <4> QED BY <1>1, <3>1, <4>2
    <3>2. CASE v # w BY <1>1, <3>2 DEF Valid, TypeInv
    <3> QED BY <3>1, <3>2
  <2>2. seen'[line'[v]] = seen[line[v]]
    <3>1. CASE Ignored(type, hit) BY <2>1, <3>1, RecordFacts
    <3>2. CASE ~Ignored(type, hit)
      <4>1. line[v] # b BY <1>4, <2>1, <3>2, OneWayKept
      <4> QED BY <2>1, <3>2, <4>1, RecordFacts
    <3> QED BY <3>1, <3>2
  <2>3. CASE \A u \in Ways : line[u] # c BY <1>2, <2>1, <2>2, <2>3 DEF OutsideInv
  <2>4. CASE \E u \in Ways : line[u] = c
    <3>1. line[w] = c BY <1>1, <2>4
    <3>2. w \in Valid /\ ~hit BY <1>1, <3>1, Constants DEF Valid, Access
    <3>3. Valid = Ways /\ HasVictim /\ w = find_victim BY <3>2 DEF Access
    <3>4. seen[line[w]] <= seen[line[v]] BY <2>1, <3>3, VictimIsOldest
    <3> QED BY <1>2, <2>2, <3>1, <3>4
  <2> QED BY <2>3, <2>4
<1> QED BY <1>3, <1>4
-----------------------------------------------------------------------------
(* srrip, ship and red *)

LEMMA RrpvRanks ==
  ASSUME TypeInv, policy \in Rrpv,
         NEW w, NEW b, NEW type, NEW hit, NEW prediction, NEW old,
         Access(w, b, type, hit, prediction, old)
  PROVE  /\ Ignored(type, hit) => rank'[w] = old[w]
         /\ hit /\ ~Ignored(type, hit) => rank'[w] = 0
         /\ ~hit => rank'[w] = old[w] \/ rank'[w] = maxRRPV \/ rank'[w] = maxRRPV - 1
<1>1. rank'[w] \in OneRank(w, type, hit, old) BY OneRankFacts DEF Rrpv, Rrip
<1>2. hit \in BOOLEAN /\ type \in Types BY DEF Access
<1>3. CASE policy = "srrip"
  <2>1. rank'[w] = IF hit THEN 0 ELSE maxRRPV - 1 BY <1>1, <1>3 DEF OneRank, CycleRanked, SrripOf
  <2>2. ~Ignored(type, hit) BY <1>3 DEF Ignored
  <2> QED BY <1>2, <2>1, <2>2
<1>4. CASE policy = "ship"
  <2>1. rank'[w] \in ShipOf(type, hit, old[w]) BY <1>1, <1>4 DEF OneRank, CycleRanked
  <2>2. Ignored(type, hit) <=> hit /\ type = "WRITE" BY <1>4 DEF Ignored
  <2> QED BY <1>2, <2>1, <2>2 DEF ShipOf
<1>5. CASE policy = "red"
  <2>1. rank'[w] = IF type = "WRITE" THEN old[w] ELSE IF hit THEN 0 ELSE maxRRPV - 1
    BY <1>1, <1>5 DEF OneRank, CycleRanked, RedOf
  <2>2. Ignored(type, hit) <=> hit /\ type = "WRITE" BY <1>5 DEF Ignored
  <2> QED BY <1>2, <2>1, <2>2
<1> QED BY <1>3, <1>4, <1>5 DEF Rrpv

\* A line comes in at a rank above 0, the rank of a line that is used again.
LEMMA NewLineRank ==
  ASSUME TypeInv, RrpvInv, policy \in Rrpv,
         NEW w, NEW b, NEW type, NEW hit, NEW prediction, NEW old,
         Access(w, b, type, hit, prediction, old), ~hit
  PROVE  rank'[w] > 0
<1>1. old[w] = maxRRPV
  <2>1. CASE w \in Valid BY <2>1, OldFacts
  <2>2. CASE w \notin Valid BY <2>2 DEF Access, RrpvInv
  <2> QED BY <2>1, <2>2
<1>2. rank'[w] = maxRRPV \/ rank'[w] = maxRRPV - 1 BY <1>1, RrpvRanks
<1> QED BY <1>2, Constants

LEMMA RrpvKept ==
  ASSUME TypeInv, RrpvInv, NEW w, NEW b, NEW type, NEW hit, NEW prediction, NEW old,
         Access(w, b, type, hit, prediction, old)
  PROVE  RrpvInv'
<1> SUFFICES ASSUME policy \in Rrpv
             PROVE  /\ \A v \in Ways \ Valid' : rank'[v] = maxRRPV
                    /\ \A v \in Valid' : class'[v] = "New" => rank'[v] > 0
  BY LineFacts DEF RrpvInv
<1>1. /\ w \in Ways /\ hit \in BOOLEAN /\ Valid' = Valid \cup {w} /\ Valid \subseteq Ways
      /\ rank \in [Ways -> Nat]
  BY LineFacts DEF Access, Valid, TypeInv
<1>2. \A v \in Ways \ {w} : rank'[v] = old[v] BY OneRankFacts DEF Rrpv, Rrip
<1>3. ASSUME NEW v \in Ways \ Valid' PROVE rank'[v] = maxRRPV
  <2>1. old = rank BY <1>1 DEF Access
  <2> QED BY <1>1, <1>2, <2>1 DEF RrpvInv
<1>4. ASSUME NEW v \in Valid \ {w}, class'[v] = "New" PROVE rank'[v] > 0
  <2>1. class[v] = "New" BY <1>1, <1>4, RecordFacts
  <2>2. PICK d \in Nat : \A u \in Ways : old[u] = rank[u] + d BY OldFacts
  <2>3. rank[v] \in Nat /\ rank[v] > 0 BY <1>1, <2>1 DEF RrpvInv
  <2>4. rank'[v] = rank[v] + d BY <1>1, <1>2, <2>2
  <2> QED BY <2>3, <2>4
<1>5. ASSUME class'[w] = "New" PROVE rank'[w] > 0
  <2>1. CASE ~hit BY <2>1, NewLineRank
  <2>2. CASE hit
    <3>1. Ignored(type, hit)
      <4>1. policy \notin Rrip BY DEF Rrpv, Rrip
      <4> QED BY <1>5, <2>2, <4>1, RecordFacts
    <3>2. class[w] = "New" BY <1>5, <3>1, RecordFacts
    <3>3. rank'[w] = rank[w] /\ w \in Valid BY <2>2, <3>1, RrpvRanks DEF Access
    <3> QED BY <3>2, <3>3 DEF RrpvInv
  <2> QED BY <1>1, <2>1, <2>2
<1> QED BY <1>1, <1>3, <1>4, <1>5

LEMMA ReusedStayKept ==
  ASSUME TypeInv, RrpvInv, ReusedLinesStay,
         NEW w, NEW b, NEW type, NEW hit, NEW prediction, NEW old,
         Access(w, b, type, hit, prediction, old)
  PROVE  ReusedLinesStay'
<1> SUFFICES ASSUME policy \in Rrpv, NEW u \in Valid', NEW v \in Valid',
                    class'[u] = "Reused", class'[v] = "New", <<u, v>> \in later'
             PROVE  rank'[u] < rank'[v]
  BY LineFacts DEF ReusedLinesStay, Rrpv
<1>1. /\ w \in Ways /\ hit \in BOOLEAN /\ Valid' = Valid \cup {w} /\ Valid \subseteq Ways
      /\ rank \in [Ways -> Nat] /\ u \in Ways /\ v \in Ways /\ policy \notin Rrip
  BY LineFacts DEF Access, Valid, TypeInv, Rrpv, Rrip
<1>2. \A x \in Ways \ {w} : rank'[x] = old[x] BY OneRankFacts DEF Rrpv, Rrip
<1>3. CASE Ignored(type, hit)
  <2>1. /\ hit /\ w \in Valid /\ old = rank /\ rank'[w] = rank[w]
        /\ class' = class /\ later' = later
    <3>1. hit /\ class' = class /\ later' = later BY <1>3, RecordFacts
    <3>2. w \in Valid /\ old = rank BY <3>1 DEF Access
    <3>3. rank'[w] = rank[w] BY <1>3, <3>2, RrpvRanks
    <3> QED BY <3>1, <3>2, <3>3
  <2>2. u \in Valid /\ v \in Valid /\ rank'[u] = rank[u] /\ rank'[v] = rank[v] BY <1>1, <1>2, <2>1
  <2> QED BY <2>1, <2>2 DEF ReusedLinesStay, Rrpv
<1>4. CASE ~Ignored(type, hit)
  <2>1. v # w /\ (u = w \/ <<u, v>> \in later) BY <1>1, <1>4, RecordFacts
  <2>2. rank'[v] > 0 /\ rank'[v] \in Nat
    <3>1. rank'[v] \in Nat BY <1>1, OneRankType DEF Rrpv, Rrip
    <3>2. RrpvInv' BY RrpvKept
    <3>3. policy' = policy BY LineFacts
    <3> QED BY <3>1, <3>2, <3>3 DEF RrpvInv
  <2>3. CASE u = w
    <3>1. hit BY <1>1, <1>4, <2>3, RecordFacts
    <3>2. rank'[u] = 0 BY <1>4, <2>3, <3>1, RrpvRanks
    <3> QED BY <2>2, <3>2
  <2>4. CASE u # w
    <3>1. class[u] = "Reused" /\ class[v] = "New" /\ <<u, v>> \in later /\ u \in Valid /\ v \in Valid
      BY <1>1, <1>4, <2>1, <2>4, RecordFacts
    <3>2. rank[u] < rank[v] BY <3>1 DEF ReusedLinesStay, Rrpv
    <3>3. PICK d \in Nat : \A x \in Ways : old[x] = rank[x] + d BY OldFacts
    <3>4. rank'[u] = rank[u] + d /\ rank'[v] = rank[v] + d BY <1>1, <1>2, <2>1, <2>4, <3>3
    <3>5. rank[u] \in Nat /\ rank[v] \in Nat BY <1>1
    <3> QED BY <3>2, <3>4, <3>5
  <2> QED BY <2>3, <2>4
<1> QED BY <1>3, <1>4
-----------------------------------------------------------------------------
(* hawkeye and glider *)

LEMMA PrioritiesKept ==
  ASSUME TypeInv, PriorityInv, RripOrdersLines,
         NEW w, NEW b, NEW type, NEW hit, NEW prediction, NEW old,
         Access(w, b, type, hit, prediction, old)
  PROVE  PriorityInv' /\ RripOrdersLines'
<1>1. CASE policy \notin Rrip BY <1>1, LineFacts DEF PriorityInv, RripOrdersLines, Rrip
<1>2. CASE policy \in Rrip
  <2>1. /\ policy' = policy /\ w \in Ways /\ prediction \in Predictions
        /\ Valid' = Valid \cup {w} /\ Valid \subseteq Ways
        /\ rank \in [Ways -> Nat]
    BY LineFacts DEF Access, Valid, TypeInv
  <2>2. /\ Limit \in Nat /\ Limit < MAXRRIP /\ MAXRRIP \in Nat /\ MIDRRIP \in Nat /\ MIDRRIP < MAXRRIP
        /\ policy = "glider" => Limit < MIDRRIP
        /\ MIDRRIP # 0 /\ Limit' = Limit
    BY <1>2, <2>1, Constants DEF Limit, Rrip
  <2>3. /\ class'[w] = prediction /\ \A v \in Ways \ {w} : class'[v] = class[v]
        /\ \A u, v \in Ways : <<u, v>> \in later' => v # w /\ (u = w \/ <<u, v>> \in later)
    <3>1. ~Ignored(type, hit) BY <1>2 DEF Ignored, Rrip
    <3> QED BY <1>2, <3>1, RecordFacts
  <2>4. /\ rank' \in [Ways -> Nat]
        /\ prediction = "Low" => rank'[w] = MAXRRIP
        /\ prediction = "Medium" => rank'[w] = MIDRRIP
        /\ prediction = "High" => rank'[w] = 0
        /\ \/ \A v \in Ways \ {w} : rank'[v] = rank[v]
           \/ /\ \A v \in Ways \ {w} : rank[v] # Limit
              /\ \A v \in Ways \ {w} : rank'[v] = IF rank[v] < Limit THEN rank[v] + 1 ELSE rank[v]
    BY <1>2, RripFacts
  <2>5. ASSUME NEW v \in Valid \ {w}
        PROVE  /\ v \in Ways /\ rank[v] \in Nat /\ class[v] \in Predictions
               /\ class[v] = "High" => rank[v] <= Limit
               /\ rank[v] = MAXRRIP <=> class[v] = "Low"
               /\ policy = "glider" => (rank[v] = MIDRRIP <=> class[v] = "Medium")
    BY <1>2, <2>1 DEF PriorityInv, RripOrdersLines, Rrip
  \* Aging leaves every line on its side of the limit, and keeps the order below it.
  <2>6. ASSUME NEW v \in Valid \ {w}
        PROVE  /\ rank[v] <= Limit <=> rank'[v] <= Limit
               /\ rank[v] > Limit => rank'[v] = rank[v]
    BY <2>1, <2>2, <2>4, <2>5
  <2>7. ASSUME NEW u \in Valid \ {w}, NEW v \in Valid \ {w},
               rank[u] <= Limit, rank[v] <= Limit, rank[u] <= rank[v]
        PROVE  rank'[u] <= rank'[v]
    <3>1. u \in Ways /\ v \in Ways /\ rank[u] \in Nat /\ rank[v] \in Nat BY <2>5
    <3> QED BY <2>2, <2>4, <2>7, <3>1
  <2>8. ASSUME NEW v \in Valid'
        PROVE  /\ class'[v] \in Predictions /\ (class'[v] = "High" => rank'[v] <= Limit)
               /\ rank'[v] = MAXRRIP <=> class'[v] = "Low"
               /\ policy = "glider" => (rank'[v] = MIDRRIP <=> class'[v] = "Medium")
    <3>1. CASE v = w
      <4>1. prediction = "Low" \/ prediction = "Medium" \/ prediction = "High" BY <2>1 DEF Predictions
      <4> QED BY <2>1, <2>2, <2>3, <2>4, <3>1, <4>1
    <3>2. CASE v # w
      <4>1. v \in Valid \ {w} /\ class'[v] = class[v] BY <2>1, <2>3, <3>2
      <4>2. rank'[v] \in Nat BY <2>4, <2>5, <4>1
      <4> QED BY <2>2, <2>5, <2>6, <4>1, <4>2
    <3> QED BY <3>1, <3>2
  <2>9. ASSUME NEW u \in Valid', NEW v \in Valid',
               class'[u] = "High", class'[v] = "High", <<u, v>> \in later'
        PROVE  rank'[u] <= rank'[v]
    <3>1. u \in Ways /\ v \in Ways /\ rank'[v] \in Nat BY <2>1, <2>4
    <3>2. v # w /\ (u = w \/ <<u, v>> \in later) BY <2>3, <2>9, <3>1
    <3>3. CASE u = w BY <2>3, <2>4, <2>9, <3>1, <3>3
    <3>4. CASE u # w
      <4>1. u \in Valid \ {w} /\ v \in Valid \ {w} /\ class[u] = "High" /\ class[v] = "High"
            /\ <<u, v>> \in later
        BY <2>1, <2>3, <2>9, <3>1, <3>2, <3>4
      <4>2. rank[u] <= rank[v] BY <1>2, <4>1 DEF RripOrdersLines, Rrip
      <4> QED BY <2>5, <2>7, <4>1, <4>2
    <3> QED BY <3>2, <3>3, <3>4
  <2>10. PriorityInv' BY <2>1, <2>2, <2>8 DEF PriorityInv
  <2>11. RripOrdersLines' BY <1>2, <2>1, <2>8, <2>9 DEF RripOrdersLines, Rrip
  <2> QED BY <2>10, <2>11
<1> QED BY <1>1, <1>2
-----------------------------------------------------------------------------
LEMMA Initially == Init => IInv
<1> SUFFICES ASSUME Init PROVE IInv OBVIOUS
<1>1. /\ policy \in Policies /\ sampled \in BOOLEAN /\ (sampled => policy \in Rrip)
      /\ leader \in {"none", "BIP", "SRRIP", "other"}
      /\ current_cycle = 0 /\ seen = [b \in Blocks |-> 0]
      /\ class = [w \in Ways |-> "New"]
  BY DEF Init, Rrip
<1>2. line = [w \in Ways |-> None] /\ Valid = {} BY DEF Init, Valid
<1>3. rank = [w \in Ways |-> FirstRank(w)] BY DEF Init
<1>4. ASSUME NEW w \in Ways PROVE rank[w] = FirstRank(w) /\ FirstRank(w) \in Nat /\ FirstRank(w) <= RankLimit
  <2>1. rank[w] = FirstRank(w) BY <1>3
  <2>2. CASE policy \in Rrpv
    <3>1. FirstRank(w) = maxRRPV BY <2>2 DEF FirstRank, Rrpv
    <3>2. RankLimit = maxRRPV BY <2>2 DEF RankLimit, CycleRanked, Rrip, Rrpv
    <3> QED BY <2>1, <3>1, <3>2, Constants
  <2>3. CASE policy \in Rrip
    <3>1. FirstRank(w) = MAXRRIP BY <2>3 DEF FirstRank, Rrip
    <3>2. RankLimit = MAXRRIP BY <2>3 DEF RankLimit, CycleRanked, Rrip
    <3> QED BY <2>1, <3>1, <3>2, Constants
  <2>4. CASE policy = "base"
    <3>1. FirstRank(w) = w - 1 BY <2>4 DEF FirstRank
    <3>2. RankLimit = NUM_WAY - 1 BY <2>4 DEF RankLimit, CycleRanked, Rrip
    <3>3. w \in 1..NUM_WAY BY DEF Ways
    <3> QED BY <2>1, <3>1, <3>2, <3>3, Constants
  <2>5. CASE policy \notin Rrpv \cup Rrip \cup {"base"}
    <3>1. FirstRank(w) = 0 BY <2>5 DEF FirstRank, Rrpv, Rrip
    <3>2. RankLimit \in Nat BY <1>1, Constants DEF RankLimit
    <3> QED BY <2>1, <3>1, <3>2
  <2> QED BY <2>2, <2>3, <2>4, <2>5
<1>5. TypeInv
  <2>1. rank \in [Ways -> Nat] /\ \A w \in Ways : rank[w] <= RankLimit BY <1>3, <1>4
  <2> QED BY <1>1, <1>2, <2>1 DEF TypeInv
<1>6. StackInv
  <2> SUFFICES ASSUME policy = "base", NEW v \in Ways, NEW w \in Ways, rank[v] = rank[w] PROVE v = w
    BY <1>2 DEF StackInv
  <2>1. v - 1 = w - 1 BY <1>4 DEF FirstRank
  <2>2. v \in Nat /\ w \in Nat BY Constants
  <2> QED BY <2>1, <2>2
<1>7. RrpvInv
  <2> SUFFICES ASSUME policy \in Rrpv, NEW w \in Ways PROVE rank[w] = maxRRPV BY <1>2 DEF RrpvInv
  <2> QED BY <1>4 DEF FirstRank, Rrpv
<1> QED BY <1>2, <1>5, <1>6, <1>7 DEF IInv, OneWayEach, ClockInv, OutsideInv, ReusedLinesStay, PriorityInv, RripOrdersLines

LEMMA TickKeeps == ASSUME IInv, Tick PROVE IInv'
<1>1. /\ policy' = policy /\ sampled' = sampled /\ leader' = leader /\ line' = line /\ rank' = rank
      /\ seen' = seen /\ later' = later /\ class' = class
      /\ current_cycle' = current_cycle + 1 /\ policy \in {"lru", "base", "s4lru"}
  BY DEF Tick, fixed, history
<1>2. Valid' = Valid /\ Limit' = Limit BY <1>1 DEF Valid, Limit
<1>3. TypeInv'
  <2>1. current_cycle \in Nat /\ RankLimit \in Nat BY LimitType DEF IInv, TypeInv
  <2>2. RankLimit' \in Nat /\ RankLimit <= RankLimit'
    <3>1. CASE policy \in CycleRanked
      <4>1. RankLimit = current_cycle /\ RankLimit' = current_cycle' BY <1>1, <3>1 DEF RankLimit, CycleRanked, Rrip
      <4> QED BY <1>1, <2>1, <4>1
    <3>2. CASE policy \notin CycleRanked
      <4>1. RankLimit' = RankLimit BY <1>1, <3>2 DEF RankLimit
      <4> QED BY <2>1, <4>1
    <3> QED BY <3>1, <3>2
  <2>3. \A w \in Ways : rank[w] \in Nat /\ rank[w] <= RankLimit BY DEF IInv, TypeInv
  <2>4. \A w \in Ways : rank[w] <= RankLimit' BY <2>1, <2>2, <2>3
  <2>5. \A b \in Blocks : seen[b] \in Nat /\ seen[b] <= current_cycle BY DEF IInv, TypeInv
  <2>6. \A b \in Blocks : seen[b] <= current_cycle + 1 BY <2>1, <2>5
  <2> QED BY <1>1, <2>1, <2>4, <2>6 DEF IInv, TypeInv
<1> QED BY <1>1, <1>2, <1>3 DEF IInv, OneWayEach, ClockInv, StackInv, OutsideInv, RrpvInv, ReusedLinesStay,
                             PriorityInv, RripOrdersLines

LEMMA StutterKeeps == ASSUME IInv, UNCHANGED here PROVE IInv'
<1>1. /\ policy' = policy /\ sampled' = sampled /\ leader' = leader /\ line' = line /\ rank' = rank
      /\ seen' = seen /\ later' = later /\ class' = class /\ current_cycle' = current_cycle
  BY DEF here, fixed, history
<1>2. Valid' = Valid /\ Limit' = Limit /\ RankLimit' = RankLimit BY <1>1 DEF Valid, Limit, RankLimit
<1> QED BY <1>1, <1>2 DEF IInv, TypeInv, OneWayEach, ClockInv, StackInv, OutsideInv, RrpvInv,
                          ReusedLinesStay, PriorityInv, RripOrdersLines

LEMMA Inductive == IInv /\ [Next]_vars => IInv'
<1> SUFFICES ASSUME IInv, [Next]_vars PROVE IInv' OBVIOUS
<1>1. CASE UNCHANGED vars BY <1>1, StutterKeeps DEF vars
<1>2. CASE Next
  <2>1. CASE Tick \/ UNCHANGED here BY <2>1, TickKeeps, StutterKeeps
  <2>2. CASE ~(Tick \/ UNCHANGED here)
    <3>0. PICK old : \E w \in Ways, b \in Blocks, type \in Types, hit \in BOOLEAN, prediction \in Predictions :
                       Access(w, b, type, hit, prediction, old)
      BY <1>2, <2>2, NextIsAccess DEF IInv
    <3>1. PICK w \in Ways, b \in Blocks, type \in Types, hit \in BOOLEAN, prediction \in Predictions :
            Access(w, b, type, hit, prediction, old)
      BY <3>0
    <3>2. TypeInv' /\ OneWayEach' BY <3>1, TypeKept, OneWayKept DEF IInv
    <3>3. ClockInv' /\ StackInv' BY <3>1, ClockKept, StackKept DEF IInv
    <3>4. OutsideInv' BY <3>1, OutsideKept DEF IInv
    <3>5. RrpvInv' /\ ReusedLinesStay' BY <3>1, RrpvKept, ReusedStayKept DEF IInv
    <3>6. PriorityInv' /\ RripOrdersLines' BY <3>1, PrioritiesKept DEF IInv
    <3> QED BY <3>2, <3>3, <3>4, <3>5, <3>6 DEF IInv
  <2> QED BY <2>1, <2>2
<1> QED BY <1>1, <1>2

\* Every state the policies reach satisfies the inductive invariant.
THEOREM Invariance == Spec => []IInv
BY Initially, Inductive, PTL DEF Spec

\* lru and base never throw out a line that was used after one that stays, and the
\* stack of base never holds two lines at one place.
THEOREM MostRecentLinesAreAlwaysKept == Spec => []LruKeepsTheMostRecent
<1>1. IInv => LruKeepsTheMostRecent
  <2> SUFFICES ASSUME IInv PROVE LruKeepsTheMostRecent OBVIOUS
  <2>1. policy = "base" => \A w \in Valid : rank[w] < NUM_WAY /\ \A v \in Valid : rank[v] = rank[w] => v = w
    <3> SUFFICES ASSUME policy = "base", NEW w \in Valid
                 PROVE  rank[w] < NUM_WAY /\ \A v \in Valid : rank[v] = rank[w] => v = w
      OBVIOUS
    <3>1. RankLimit = NUM_WAY - 1 BY DEF RankLimit, CycleRanked, Rrip
    <3>2. w \in Ways /\ rank[w] \in Nat /\ rank[w] <= NUM_WAY - 1 BY <3>1 DEF IInv, TypeInv, Valid
    <3> QED BY <3>2, Constants DEF IInv, StackInv, Valid
  <2> QED BY <2>1 DEF IInv, OutsideInv, LruKeepsTheMostRecent
<1> QED BY <1>1, Invariance, PTL

\* srrip, ship and red throw out the lines of a scan before the lines that were used again.
THEOREM ReusedLinesAlwaysStay == Spec => []ReusedLinesStay
<1>1. IInv => ReusedLinesStay BY DEF IInv
<1> QED BY <1>1, Invariance, PTL

\* hawkeye and glider keep the lines of each priority in their places, whatever they age.
THEOREM LinesAreAlwaysOrdered == Spec => []RripOrdersLines
<1>1. IInv => RripOrdersLines BY DEF IInv
<1> QED BY <1>1, Invariance, PTL
=============================================================================
