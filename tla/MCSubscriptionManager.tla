------------------------ MODULE MCSubscriptionManager ------------------------
(* Instances of SubscriptionManager. *)
EXTENDS SubscriptionManager, TLC

CONSTANTS s1, s2, s3, a1, a2

Three == {s1, s2, s3}
TwoAddresses == {a1, a2}

(* Two subscriptions share an address. *)
Shared == (s1 :> a1) @@ (s2 :> a1) @@ (s3 :> a2)

Symmetry == Permutations({s1, s2})

=============================================================================
