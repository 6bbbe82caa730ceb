----------------------------- MODULE MCBitmonTask -----------------------------
(* Instances of BitmonTask. *)
EXTENDS BitmonTask, TLC

CONSTANTS s1, s2, a1

OneSub == {s1}
TwoSubs == {s1, s2}

(* All subscriptions are for one address (SubscriptionManager is checked   *)
(* with several), which a block involves or does not.                      *)
OneAddress == {a1}
SameAddress == [s \in Sub |-> a1]
WithOrWithout == {{}, {a1}}
Always == {{a1}}

Symmetry == Permutations(Sub)

=============================================================================
