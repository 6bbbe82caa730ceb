------------------------------- MODULE MCRestApi -------------------------------
(* Instances of RestApi. *)
EXTENDS RestApi, TLC

CONSTANTS k1, k2

TwoKeys == {k1, k2}
TestAddresses == <<k1, k2, k2>>

(* By one column, by the other, by both, or all rows; and a filter with an *)
(* argument the parser does not know.                                      *)
SomeFilters ==
  {<< >>, "address" :> k1, "state" :> "active", "state" :> "expired",
   ("address" :> k1) @@ ("state" :> "canceled"),
   "subscription" :> k1, "acknowledged" :> FALSE,
   ("subscription" :> k1) @@ ("acknowledged" :> TRUE)}

=============================================================================
