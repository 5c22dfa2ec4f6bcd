----------------------------- MODULE Predictors -----------------------------
(***************************************************************************)
(* The predictors of hawkeye (inc/hawkeye_predictor.h: a counter for each  *)
(* PC) and of glider (inc/glider_predictor.h: for each PC a vector of      *)
(* weights, summed up over the PCs of the last k_sparse predictions).      *)
(* A PC is its CRC signature.  A PC that PC_Map does not hold counts as    *)
(* the middle value, as in the code.                                       *)
(***************************************************************************)
EXTENDS Integers, Sequences, FiniteSets, FiniteSetsExt, Functions

CONSTANTS PCMAP_SIZE, MAX_PCMAP,
          k_sparse, GLIDER_THRESHOLD_HIGH, GLIDER_THRESHOLD_LOW,
          regularization_threshold,
          levels, dynamic_thresholds   \* select_dynamic_threshold: the bounds of the sum,
                                       \*   ascending, and the threshold below each

PCs == 0..PCMAP_SIZE - 1

ASSUME PredictorAssumption ==
  /\ {PCMAP_SIZE, MAX_PCMAP, k_sparse} \subseteq Nat \ {0}
  /\ GLIDER_THRESHOLD_LOW <= GLIDER_THRESHOLD_HIGH /\ regularization_threshold \in Nat
  /\ Len(dynamic_thresholds) = Len(levels) + 1

Middle == (MAX_PCMAP + 1) \div 2
FirstPredictor == [PC_Map  |-> [pc \in PCs |-> Middle],
                   pchr    |-> [i \in 1..k_sparse |-> 0],
                   weights |-> [pc \in PCs |-> [q \in PCs |-> 0]]]

Total(f) == FoldFunction(LAMBDA x, y : x + y, 0, f)
-----------------------------------------------------------------------------
(* hawkeye *)

Count(p, pc, by) == [p EXCEPT !.PC_Map[pc] = Max({0, Min({@ + by, MAX_PCMAP})})]
-----------------------------------------------------------------------------
(* glider *)

calculate_weights(weights, pchr) == Total([i \in DOMAIN pchr |-> weights[pchr[i]]])

select_dynamic_threshold(p) ==
  LET sum == Total([pc \in PCs |-> Total(p.weights[pc])])
  IN  dynamic_thresholds[1 + Cardinality({i \in DOMAIN levels : levels[i] <= sum})]

Regularised(w) == CASE w > regularization_threshold    -> w - 1
                    [] w < -regularization_threshold   -> w + 1
                    [] OTHER                           -> w
Far(sum, threshold) == sum >= threshold \/ -sum >= threshold
update_weights(p, pc, by) ==
  IF Far(calculate_weights(p.weights[pc], p.pchr), select_dynamic_threshold(p)) THEN p
  ELSE [p EXCEPT !.weights[pc] =
          [q \in PCs |-> Regularised(@[q] + by * Cardinality({i \in DOMAIN p.pchr : p.pchr[i] = q}))]]

\* A prediction enters its PC in the history before it sums up.
Push(p, pc) == [p EXCEPT !.pchr = Append(Tail(@), pc)]
Priority(p, pc) == LET sum == calculate_weights(p.weights[pc], p.pchr)
                   IN  CASE sum >= GLIDER_THRESHOLD_HIGH -> "High"
                         [] sum < GLIDER_THRESHOLD_LOW   -> "Low"
                         [] OTHER                        -> "Medium"
-----------------------------------------------------------------------------
(* Either of them *)

Trained(policy, p, pc, by) == IF policy = "hawkeye" THEN Count(p, pc, by) ELSE update_weights(p, pc, by)
increase(policy, p, pc) == Trained(policy, p, pc, 1)
decrease(policy, p, pc) == Trained(policy, p, pc, -1)

\* get_prediction: what it does to the predictor, and what it answers then.
Asked(policy, p, pc) == IF policy = "hawkeye" THEN p ELSE Push(p, pc)
get_prediction(policy, p, pc) ==
  CASE policy = "hawkeye" -> IF p.PC_Map[pc] < Middle THEN "Low" ELSE "High"
    [] policy = "glider"  -> Priority(p, pc)
=============================================================================
