------------------------ MODULE MCTransactionCallbacks ------------------------
(* Instances of TransactionCallbacks. *)
EXTENDS TransactionCallbacks, Functions, SequencesExt, TLC

CONSTANTS a1, a2, s1, s2, t1, t2, t3

TwoAddresses == {a1, a2}
TwoSubs == {s1, s2}

Out(a, v) == [addr |-> a, value |-> v]
ThreeFundings ==
  (t1 :> <<Out(a1, 1), Out(a1, 1)>>)
    @@ (t2 :> <<Out(a2, 2), Out(NonStandard, 1)>>)
    @@ (t3 :> <<Out(a1, 0), Out(a2, 1)>>)

(* At most two outputs are spent, none of them twice, and at most two made *)
(* of value 0 to 2; a coinbase has no inputs that count, others give out   *)
(* no more than they take.                                                 *)
OutPoints == UNION {{[hash |-> t, n |-> n] : n \in DOMAIN Funding[t]} : t \in DOMAIN Funding}
SomeInputs == {vin \in BoundedSeq(OutPoints, 2) : IsInjective(vin)}
SomeOutputs == BoundedSeq([addr : Addr \cup {NonStandard}, value : 0..2], 2)

Total(txouts) == FoldFunction(+, 0, [i \in DOMAIN txouts |-> txouts[i].value])

SmallTransactions ==
  {[coinbase |-> TRUE, vin |-> << >>, vout |-> out] : out \in SomeOutputs}
    \cup {t \in [coinbase : {FALSE}, vin : SomeInputs, vout : SomeOutputs] :
            Total(t.vout) <= Total(Spent(t)) /\ t.vin # << >>}

=============================================================================
