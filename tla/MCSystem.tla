------------------------------- MODULE MCSystem -------------------------------
(* Instances of System. *)
EXTENDS System

CONSTANTS s1, a1

OneSub == {s1}
OneAddress == {a1}
SameAddress == [s \in Sub |-> a1]
Always == {{a1}}

=============================================================================
