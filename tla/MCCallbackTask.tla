---------------------------- MODULE MCCallbackTask ----------------------------
(* Constants for model-checking CallbackTask. *)
EXTENDS DeliveryRefinement, TLC

CONSTANTS w1, w2, c1, c2, c3

OneWorker == {w1}
TwoWorkers == {w1, w2}
OneCallback == {c1}
TwoCallbacks == {c1, c2}
ThreeCallbacks == {c1, c2, c3}

(* Nothing that is checked with it tells callbacks or workers apart. *)
Symmetry == Permutations(Callback) \cup Permutations(Worker)

=============================================================================
