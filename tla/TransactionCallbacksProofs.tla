---------------------- MODULE TransactionCallbacksProofs ----------------------
(***************************************************************************)
(* Proofs about TransactionCallbacks, for transactions of any size. What a *)
(* dictionary holds is computed by recursion over a list of outputs; the   *)
(* second section shows by induction over the list that an address is in it*)
(* when it is among the outputs, with the sum of what they pay to it.      *)
(* The last section is about the cache.                                    *)
(***************************************************************************)
EXTENDS TransactionCallbacks, Functions, SequenceTheorems, WellFoundedInduction, TLAPS

-----------------------------------------------------------------------------
(* Least elements, and recursion *)

(* A set of natural numbers that is not empty has a least element. *)
LEMMA LeastElement ==
  ASSUME NEW T \in SUBSET Nat, T # {}
  PROVE  \E x \in T : \A y \in T : x <= y
<1> DEFINE R == OpToRel(<, Nat)
<1>1. IsWellFoundedOn(R, Nat)
  BY NatLessThanWellFounded
<1>2. R = {ss \in Nat \X Nat : ss[1] < ss[2]}
  BY DEF OpToRel
<1> HIDE DEF R
<1>3. \A x, y \in Nat : <<y, x>> \in R <=> y < x
  BY <1>2
<1>4. PICK x \in T : \A y \in T : ~(<<y, x>> \in R)
  BY <1>1, WFMin
<1>5. \A y \in T : y \in Nat /\ x \in Nat /\ ~(y < x)
  BY <1>3, <1>4
<1>6. \A y \in T : x <= y
  BY <1>5
<1> QED BY <1>4, <1>6

(* That a function on 0..L is defined by recursion from values in S, which *)
(* it always is.                                                           *)
HasRecursive(S, L, base, next) ==
  \E f \in [0..L -> S] : f[0] = base /\ \A n \in 1..L : f[n] = next[<<n, f[n - 1]>>]

LEMMA RecursionExists ==
  ASSUME NEW S, NEW L \in Nat, NEW base \in S, NEW next \in [(1..L) \X S -> S]
  PROVE  HasRecursive(S, L, base, next)
<1> DEFINE Upto(m, f) == /\ f \in [0..m -> S]
                         /\ f[0] = base
                         /\ \A n \in 1..m : f[n] = next[<<n, f[n - 1]>>]
           Missing == {m \in 0..L : ~ \E f : Upto(m, f)}
<1>1. Missing = {}
  <2>1. SUFFICES ASSUME Missing # {}
                 PROVE  FALSE
    OBVIOUS
  <2>2. PICK m \in Missing : \A k \in Missing : m <= k
    <3>1. Missing \in SUBSET Nat
      OBVIOUS
    <3> HIDE DEF Missing
    <3> QED BY <2>1, <3>1, LeastElement
  <2>3. m \in Nat /\ m <= L /\ ~ \E f : Upto(m, f)
    OBVIOUS
  <2>4. CASE m = 0
    <3>1. Upto(0, [n \in 0..0 |-> base])
      OBVIOUS
    <3> QED BY <2>3, <2>4, <3>1
  <2>5. CASE m > 0
    <3>1. m - 1 \in 0..L /\ ~(m <= m - 1)
      BY <2>3, <2>5
    <3>2. m - 1 \notin Missing
      BY <2>2, <3>1
    <3>3. PICK f : Upto(m - 1, f)
      BY <3>1, <3>2
    <3> DEFINE last == next[<<m, f[m - 1]>>]
               g == [n \in 0..m |-> IF n = m THEN last ELSE f[n]]
    <3>4. f[m - 1] \in S /\ m \in 1..L
      BY <2>3, <2>5, <3>3
    <3>5. last \in S
      BY <3>4
    <3>6. \A n \in 0..m : n # m => n \in 0..(m - 1)
      BY <2>3
    <3> HIDE DEF last
    <3>7. g \in [0..m -> S]
      BY <3>3, <3>5, <3>6
    <3>8. /\ 0 \in 0..m /\ 0 # m
          /\ \A n \in 1..m : n - 1 \in 0..m /\ n - 1 # m /\ n \in 0..m
      BY <2>3, <2>5
    <3>9. g[0] = base
      BY <3>3, <3>8
    <3>10. \A n \in 1..m : g[n - 1] = f[n - 1]
      BY <3>8
    <3>11. \A n \in 1..m : n # m => n \in 1..(m - 1)
      BY <2>3
    <3>12. \A n \in 1..m : g[n] = next[<<n, g[n - 1]>>]
      <4>1. ASSUME NEW n \in 1..m, n # m
            PROVE  g[n] = next[<<n, g[n - 1]>>]
        BY <3>3, <3>8, <3>10, <3>11, <4>1
      <4>2. g[m] = next[<<m, g[m - 1]>>]
        <5>1. m \in 1..m /\ m \in 0..m
          BY <2>3, <2>5
        <5> QED BY <3>10, <5>1 DEF last
      <4> QED BY <4>1, <4>2
    <3>13. Upto(m, g)
      BY <3>7, <3>9, <3>12
    <3> QED BY <2>3, <3>13
  <2> QED BY <2>3, <2>4, <2>5
<1>2. L \in 0..L
  OBVIOUS
<1>3. PICK f : Upto(L, f)
  BY <1>1, <1>2
<1> QED BY <1>3 DEF HasRecursive

-----------------------------------------------------------------------------
(* Dictionaries and sums *)

(* Dictionaries from addresses to amounts. *)
Dict == UNION {[D -> Nat] : D \in SUBSET Addr}

(* What an output adds to a dictionary. *)
IsAdded(more, dict, out) ==
  /\ DOMAIN more = DOMAIN dict \cup ({out.addr} \ {NonStandard})
  /\ \A a \in DOMAIN more :
       more[a] = (IF a \in DOMAIN dict THEN dict[a] ELSE 0)
                   + (IF a = out.addr THEN out.value ELSE 0)

(* Adding an output makes a dictionary of a dictionary. *)
LEMMA AddedIsDict ==
  ASSUME NEW dict \in Dict, NEW out \in TxOut
  PROVE  Added(dict, out) \in Dict /\ IsAdded(Added(dict, out), dict, out)
<1>1. PICK D \in SUBSET Addr : dict \in [D -> Nat]
  BY DEF Dict
<1>2. out.addr \in Addr \cup {NonStandard} /\ out.value \in Nat
  BY DEF TxOut
<1>3. CASE out.addr = NonStandard
  <2>1. Added(dict, out) = dict
    BY <1>3 DEF Added
  <2>2. \A a \in D : a # out.addr /\ dict[a] \in Nat
    BY <1>1, <1>3, TransactionAssumption DEF TransactionAssumption
  <2>3. \A a \in D : dict[a] = (IF a \in DOMAIN dict THEN dict[a] ELSE 0)
                                  + (IF a = out.addr THEN out.value ELSE 0)
    BY <1>1, <2>2
  <2> QED BY <1>1, <1>3, <2>1, <2>3 DEF IsAdded
<1>4. CASE out.addr # NonStandard
  <2> DEFINE E == D \cup {out.addr}
             v(a) == (IF a \in D THEN dict[a] ELSE 0) + (IF a = out.addr THEN out.value ELSE 0)
  <2>1. E \in SUBSET Addr
    BY <1>2, <1>4
  <2>2. \A a \in E : v(a) \in Nat
    BY <1>1, <1>2
  <2>3. Added(dict, out) = [a \in E |-> v(a)]
    BY <1>1, <1>4 DEF Added
  <2> HIDE DEF v
  <2>4. Added(dict, out) \in [E -> Nat] /\ \A a \in E : Added(dict, out)[a] = v(a)
    BY <2>2, <2>3
  <2>5. Added(dict, out) \in Dict
    BY <2>1, <2>4 DEF Dict
  <2>6. DOMAIN Added(dict, out) = DOMAIN dict \cup ({out.addr} \ {NonStandard})
    BY <1>1, <1>4, <2>4
  <2> QED BY <1>1, <2>4, <2>5, <2>6 DEF v, IsAdded
<1> QED BY <1>3, <1>4

(* The recursion of Dicts. *)
LEMMA DictsRecursion ==
  ASSUME NEW txouts \in Seq(TxOut)
  PROVE  /\ Dicts(txouts) \in [0..Len(txouts) -> Dict]
         /\ Dicts(txouts)[0] = Empty
         /\ \A n \in 1..Len(txouts) :
              Dicts(txouts)[n] = Added(Dicts(txouts)[n - 1], txouts[n])
<1> DEFINE L == Len(txouts)
           Rec(f) == [n \in 0..L |-> IF n = 0 THEN Empty ELSE Added(f[n - 1], txouts[n])]
           next == [p \in (1..L) \X Dict |-> Added(p[2], txouts[p[1]])]
<1>1. L \in Nat /\ \A n \in 1..L : txouts[n] \in TxOut
  BY LenProperties, ElementOfSeq
<1>2. Empty \in Dict /\ DOMAIN Empty = {}
  <2>1. Empty \in [{} -> Nat]
    BY DEF Empty
  <2> QED BY <2>1 DEF Dict
<1>3. next \in [(1..L) \X Dict -> Dict]
  <2>1. \A p \in (1..L) \X Dict : Added(p[2], txouts[p[1]]) \in Dict
    BY <1>1, AddedIsDict
  <2> QED BY <2>1
<1>4. \A n \in 1..L, d \in Dict : next[<<n, d>>] = Added(d, txouts[n])
  OBVIOUS
<1> HIDE DEF next, L
<1>5. PICK f \in [0..L -> Dict] :
        f[0] = Empty /\ \A n \in 1..L : f[n] = next[<<n, f[n - 1]>>]
  <2>1. L \in Nat
    BY <1>1
  <2>2. Empty \in Dict
    BY <1>2
  <2>3. HasRecursive(Dict, L, Empty, next)
    BY <1>3, <2>1, <2>2, RecursionExists
  <2> QED BY <2>3 DEF HasRecursive
<1>6. \A n \in 0..L : n # 0 => n \in 1..L /\ n - 1 \in 0..L
  BY <1>1
<1>7. \A n \in 0..L : f[n] = IF n = 0 THEN Empty ELSE Added(f[n - 1], txouts[n])
  BY <1>4, <1>5, <1>6
<1>8. f = Rec(f)
  BY <1>5, <1>7
<1>9. Dicts(txouts) = CHOOSE g : g = Rec(g)
  BY DEF Dicts, L
<1>10. Dicts(txouts) = Rec(Dicts(txouts))
  BY <1>8, <1>9
<1> DEFINE D == Dicts(txouts)
           Odd == {n \in 0..L : D[n] \notin Dict}
<1> HIDE DEF D
<1>11. \A n \in 0..L : D[n] = IF n = 0 THEN Empty ELSE Added(D[n - 1], txouts[n])
  BY <1>10 DEF D
<1>12. Odd = {}
  <2>1. SUFFICES ASSUME Odd # {}
                 PROVE  FALSE
    OBVIOUS
  <2>2. PICK m \in Odd : \A k \in Odd : m <= k
    <3>1. Odd \in SUBSET Nat
      BY <1>1
    <3> HIDE DEF Odd
    <3> QED BY <2>1, <3>1, LeastElement
  <2>3. m \in 0..L /\ D[m] \notin Dict /\ m # 0
    BY <1>2, <1>11
  <2>4. m - 1 \in 0..L /\ ~(m <= m - 1) /\ m \in 1..L
    BY <1>1, <2>3
  <2>5. D[m - 1] \in Dict
    BY <2>2, <2>4
  <2>6. D[m] = Added(D[m - 1], txouts[m])
    BY <1>11, <2>3
  <2>7. D[m] \in Dict
    BY <1>1, <2>4, <2>5, <2>6, AddedIsDict
  <2> QED BY <2>3, <2>7
<1>13. D = [n \in 0..L |-> D[n]]
  BY <1>10 DEF D
<1>14. D \in [0..L -> Dict]
  BY <1>12, <1>13
<1>15. 0 \in 0..L /\ \A n \in 1..L : n \in 0..L /\ n # 0
  BY <1>1
<1> QED BY <1>11, <1>14, <1>15 DEF D, L


(* The recursion of Sums. *)
LEMMA SumsRecursion ==
  ASSUME NEW txouts \in Seq(TxOut), NEW a
  PROVE  /\ Sums(txouts, a) \in [0..Len(txouts) -> Nat]
         /\ Sums(txouts, a)[0] = 0
         /\ \A n \in 1..Len(txouts) :
              Sums(txouts, a)[n] = Sums(txouts, a)[n - 1]
                                     + (IF txouts[n].addr = a THEN txouts[n].value ELSE 0)
<1> DEFINE L == Len(txouts)
           v(n) == IF txouts[n].addr = a THEN txouts[n].value ELSE 0
           Rec(f) == [n \in 0..L |-> IF n = 0 THEN 0 ELSE f[n - 1] + v(n)]
           next == [p \in (1..L) \X Nat |-> p[2] + v(p[1])]
<1>1. L \in Nat /\ \A n \in 1..L : txouts[n] \in TxOut
  BY LenProperties, ElementOfSeq
<1>2. \A n \in 1..L : v(n) \in Nat
  BY <1>1 DEF TxOut
<1>3. Sums(txouts, a) = CHOOSE g : g = Rec(g)
  BY DEF Sums, L
<1> HIDE DEF v
<1>4. next \in [(1..L) \X Nat -> Nat] /\ \A n \in 1..L, d \in Nat : next[<<n, d>>] = d + v(n)
  BY <1>2
<1> HIDE DEF next, L
<1>5. PICK f \in [0..L -> Nat] :
        f[0] = 0 /\ \A n \in 1..L : f[n] = next[<<n, f[n - 1]>>]
  <2>1. L \in Nat
    BY <1>1
  <2>2. 0 \in Nat /\ next \in [(1..L) \X Nat -> Nat]
    BY <1>4
  <2>3. HasRecursive(Nat, L, 0, next)
    BY <2>1, <2>2, RecursionExists
  <2> QED BY <2>3 DEF HasRecursive
<1>6. \A n \in 0..L : n # 0 => n \in 1..L /\ n - 1 \in 0..L
  BY <1>1
<1>7. \A n \in 0..L : f[n] = IF n = 0 THEN 0 ELSE f[n - 1] + v(n)
  BY <1>4, <1>5, <1>6
<1>8. f = Rec(f)
  BY <1>5, <1>7
<1>9. Sums(txouts, a) = Rec(Sums(txouts, a))
  BY <1>3, <1>8
<1> DEFINE D == Sums(txouts, a)
           Odd == {n \in 0..L : D[n] \notin Nat}
<1> HIDE DEF D
<1>10. \A n \in 0..L : D[n] = IF n = 0 THEN 0 ELSE D[n - 1] + v(n)
  BY <1>9 DEF D
<1>11. Odd = {}
  <2>1. SUFFICES ASSUME Odd # {}
                 PROVE  FALSE
    OBVIOUS
  <2>2. PICK m \in Odd : \A k \in Odd : m <= k
    <3>1. Odd \in SUBSET Nat
      BY <1>1
    <3> HIDE DEF Odd
    <3> QED BY <2>1, <3>1, LeastElement
  <2>3. m \in 0..L /\ D[m] \notin Nat /\ m # 0
    BY <1>10
  <2>4. m - 1 \in 0..L /\ ~(m <= m - 1) /\ m \in 1..L
    BY <1>1, <2>3
  <2>5. D[m - 1] \in Nat
    BY <2>2, <2>4
  <2>6. D[m] = D[m - 1] + v(m)
    BY <1>10, <2>3
  <2>7. D[m] \in Nat
    BY <1>2, <2>4, <2>5, <2>6
  <2> QED BY <2>3, <2>7
<1>12. D = [n \in 0..L |-> D[n]]
  BY <1>9 DEF D
<1>13. D \in [0..L -> Nat]
  BY <1>11, <1>12
<1>14. 0 \in 0..L /\ \A n \in 1..L : n \in 0..L /\ n # 0
  BY <1>1
<1> QED BY <1>10, <1>13, <1>14 DEF D, L, v

(* After n outputs the dictionary has the addresses among them, each with  *)
(* what the outputs pay to it; other addresses are paid nothing.           *)
LEMMA DictsAreSums ==
  ASSUME NEW txouts \in Seq(TxOut), NEW n \in 0..Len(txouts)
  PROVE  /\ DOMAIN Dicts(txouts)[n] = {txouts[i].addr : i \in 1..n} \ {NonStandard}
         /\ \A a \in DOMAIN Dicts(txouts)[n] : Dicts(txouts)[n][a] = Sums(txouts, a)[n]
         /\ \A a \in Addr \ DOMAIN Dicts(txouts)[n] : Sums(txouts, a)[n] = 0
<1> DEFINE L == Len(txouts)
           D == Dicts(txouts)
           V(a) == Sums(txouts, a)
           pay(m, a) == IF txouts[m].addr = a THEN txouts[m].value ELSE 0
           Fits(m) == /\ DOMAIN D[m] = {txouts[i].addr : i \in 1..m} \ {NonStandard}
                      /\ \A a \in DOMAIN D[m] : D[m][a] = V(a)[m]
                      /\ \A a \in Addr \ DOMAIN D[m] : V(a)[m] = 0
           Odd == {m \in 0..L : ~Fits(m)}
<1>1. L \in Nat /\ \A m \in 1..L : txouts[m] \in TxOut
  BY LenProperties, ElementOfSeq
<1>2. /\ D \in [0..L -> Dict] /\ D[0] = Empty
      /\ \A m \in 1..L : D[m] = Added(D[m - 1], txouts[m])
  BY DictsRecursion
<1>3. \A a : /\ V(a) \in [0..L -> Nat] /\ V(a)[0] = 0
             /\ \A m \in 1..L : V(a)[m] = V(a)[m - 1] + pay(m, a)
  BY SumsRecursion
<1> HIDE DEF L, D, V
<1>4. Fits(0)
  <2>1. DOMAIN D[0] = {} /\ 1..0 = {}
    BY <1>2 DEF Empty
  <2> QED BY <1>3, <2>1
<1>5. ASSUME NEW m \in 1..L, Fits(m - 1)
      PROVE  Fits(m)
  <2>1. m - 1 \in 0..L /\ m \in 0..L /\ 1..m = 1..(m - 1) \cup {m}
    BY <1>1
  <2>2. D[m - 1] \in Dict /\ txouts[m] \in TxOut
    BY <1>1, <1>2, <2>1
  <2>3. /\ DOMAIN D[m] = DOMAIN D[m - 1] \cup ({txouts[m].addr} \ {NonStandard})
        /\ \A a \in DOMAIN D[m] :
             D[m][a] = (IF a \in DOMAIN D[m - 1] THEN D[m - 1][a] ELSE 0)
                         + (IF a = txouts[m].addr THEN txouts[m].value ELSE 0)
    <3>1. IsAdded(D[m], D[m - 1], txouts[m])
      BY <1>2, <2>2, AddedIsDict
    <3> QED BY <3>1 DEF IsAdded
  <2>4. DOMAIN D[m] = {txouts[i].addr : i \in 1..m} \ {NonStandard}
    BY <1>5, <2>1, <2>3
  <2>5. DOMAIN D[m - 1] \subseteq Addr /\ DOMAIN D[m] \subseteq Addr
    BY <2>2, <2>3 DEF Dict, TxOut
  <2>6. \A a : V(a)[m] = V(a)[m - 1] + pay(m, a)
    BY <1>3
  <2>7. \A a \in Addr : V(a)[m - 1] = IF a \in DOMAIN D[m - 1] THEN D[m - 1][a] ELSE 0
    BY <1>5
  <2>8. \A a \in DOMAIN D[m] : D[m][a] = V(a)[m]
    BY <2>3, <2>5, <2>6, <2>7
  <2>9. ASSUME NEW a \in Addr \ DOMAIN D[m]
        PROVE  V(a)[m] = 0
    <3>1. a \notin DOMAIN D[m - 1] /\ txouts[m].addr # a
      BY <2>3, TransactionAssumption DEF TransactionAssumption
    <3> QED BY <2>6, <2>7, <3>1
  <2> QED BY <2>4, <2>8, <2>9
<1> HIDE DEF Fits
<1>6. Odd = {}
  <2>1. SUFFICES ASSUME Odd # {}
                 PROVE  FALSE
    OBVIOUS
  <2>2. PICK m \in Odd : \A k \in Odd : m <= k
    <3>1. Odd \in SUBSET Nat
      BY <1>1
    <3> HIDE DEF Odd
    <3> QED BY <2>1, <3>1, LeastElement
  <2>3. m \in 0..L /\ ~Fits(m) /\ m # 0
    BY <1>4
  <2>4. m - 1 \in 0..L /\ ~(m <= m - 1) /\ m \in 1..L
    BY <1>1, <2>3
  <2>5. Fits(m - 1)
    BY <2>2, <2>4
  <2> QED BY <1>5, <2>3, <2>4, <2>5
<1>7. Fits(n)
  BY <1>6 DEF L
<1> QED BY <1>7 DEF Fits, D, V

-----------------------------------------------------------------------------
(* Looking up the inputs *)

(* The inputs of a transaction that count, and the outputs they spend. *)
InputsOf(t) == IF t.coinbase THEN << >> ELSE t.vin
TakenBy(t) == [i \in 1..Len(InputsOf(t)) |-> Output(InputsOf(t)[i])]

(* They are outputs, one for each input. *)
LEMMA TakenOutputs ==
  ASSUME NEW t \in Transactions
  PROVE  /\ TakenBy(t) \in Seq(TxOut) /\ Len(TakenBy(t)) = Len(InputsOf(t))
         /\ Len(InputsOf(t)) \in Nat
         /\ t.vout \in Seq(TxOut)
         /\ ~t.coinbase => TakenBy(t) = Spent(t)
         /\ t.coinbase => Len(TakenBy(t)) = 0
<1> DEFINE ins == InputsOf(t)
<1>1. t \in Transaction /\ t.coinbase \in BOOLEAN /\ t.vin \in Seq(OutPoint) /\ t.vout \in Seq(TxOut)
  BY TransactionAssumption DEF TransactionAssumption, Transaction
<1>2. ins \in Seq(OutPoint)
  BY <1>1, EmptySeq DEF InputsOf
<1>3. Len(ins) \in Nat /\ DOMAIN ins = 1..Len(ins) /\ \A i \in 1..Len(ins) : ins[i] \in OutPoint
  BY <1>2, LenProperties, ElementOfSeq
<1>4. ASSUME NEW i \in 1..Len(ins)
      PROVE  Output(ins[i]) \in TxOut
  <2>1. ~t.coinbase /\ ins = t.vin
    <3>1. CASE t.coinbase
      <4>1. ins = << >>
        BY <3>1 DEF InputsOf
      <4>2. Len(ins) = 0
        BY <4>1
      <4> QED BY <4>2
    <3>2. CASE ~t.coinbase
      BY <3>2 DEF InputsOf
    <3> QED BY <3>1, <3>2
  <2>2. ins[i].n \in DOMAIN Funding[ins[i].hash]
    BY <1>3, <2>1, TransactionAssumption DEF TransactionAssumption
  <2>3. ins[i].hash \in DOMAIN Funding
    BY <1>3 DEF OutPoint
  <2>4. Funding[ins[i].hash] \in Seq(TxOut)
    BY <2>3, TransactionAssumption DEF TransactionAssumption
  <2> DEFINE outs == Funding[ins[i].hash]
  <2>5. outs \in Seq(TxOut) /\ ins[i].n \in DOMAIN outs
    BY <2>2, <2>4
  <2> HIDE DEF outs
  <2>6. outs[ins[i].n] \in TxOut
    BY <2>5, LenProperties, ElementOfSeq
  <2> QED BY <2>6 DEF Output, outs
<1>5. TakenBy(t) = [i \in 1..Len(ins) |-> Output(ins[i])]
  BY DEF TakenBy
<1>6. ~t.coinbase => TakenBy(t) = Spent(t)
  BY <1>3, <1>5 DEF Spent, InputsOf
<1>7. t.coinbase => Len(ins) = 0
  BY DEF InputsOf
<1> HIDE DEF ins
<1>8. TakenBy(t) \in Seq(TxOut) /\ Len(TakenBy(t)) = Len(ins)
  BY <1>3, <1>4, <1>5
<1> QED BY <1>1, <1>3, <1>6, <1>7, <1>8 DEF ins

(* The dictionary tin holds what the inputs looked up so far spend; the    *)
(* callbacks are made when all were, from both dictionaries.               *)
TransactionShape ==
  /\ tx \in Transactions \cup {NoTx}
  /\ tx = NoTx => looked = 0 /\ tin = Empty /\ ~made
  /\ tx # NoTx => looked \in 0..Len(InputsOf(tx)) /\ tin = Dicts(TakenBy(tx))[looked]

CallbacksShape ==
  /\ ~made => callbacks = {}
  /\ made => tx # NoTx /\ looked = Len(InputsOf(tx))
             /\ callbacks = IF IsMonitored(tin, tout) THEN Receipts \cup Payments ELSE {}

SubscriptionsShape == DOMAIN subsByAddr \subseteq Addr /\ Disjoint(subsByAddr)

CallbacksInvariant == TransactionShape /\ CallbacksShape /\ SubscriptionsShape

(* Before the first look-up the dictionary is empty. *)
LEMMA TransactionStarts ==
  ASSUME NEW t \in Transactions
  PROVE  0 \in 0..Len(InputsOf(t)) /\ Dicts(TakenBy(t))[0] = Empty
<1>1. TakenBy(t) \in Seq(TxOut) /\ Len(InputsOf(t)) \in Nat
  BY TakenOutputs
<1>2. Dicts(TakenBy(t))[0] = Empty
  BY <1>1, DictsRecursion
<1> QED BY <1>1, <1>2

(* An input that is looked up. *)
LEMMA LookUpKeeps ==
  ASSUME CallbacksInvariant, LookUp
  PROVE  CallbacksInvariant'
<1>1. /\ tx # NoTx /\ looked < Len(Inputs)
      /\ tin' = Added(tin, Output(Inputs[looked + 1])) /\ looked' = looked + 1
      /\ UNCHANGED <<tx, subsByAddr, made, callbacks>>
  BY DEF LookUp, Unlooked, Prevout
<1>2. Inputs = InputsOf(tx) /\ tx \in Transactions
  BY <1>1 DEF Inputs, InputsOf, CallbacksInvariant, TransactionShape
<1> DEFINE taken == TakenBy(tx)
<1>3. looked \in 0..Len(InputsOf(tx)) /\ tin = Dicts(taken)[looked]
  BY <1>1 DEF CallbacksInvariant, TransactionShape
<1>4. /\ taken \in Seq(TxOut) /\ Len(taken) = Len(InputsOf(tx)) /\ Len(taken) \in Nat
  BY <1>2, TakenOutputs
<1>5. looked + 1 \in 1..Len(taken) /\ (looked + 1) - 1 = looked
  BY <1>1, <1>2, <1>3, <1>4
<1>6. taken[looked + 1] = Output(Inputs[looked + 1])
  BY <1>2, <1>4, <1>5 DEF TakenBy
<1> HIDE DEF taken
<1>7. Dicts(taken)[looked + 1] = Added(Dicts(taken)[looked], taken[looked + 1])
  BY <1>4, <1>5, DictsRecursion
<1>8. tin' = Dicts(taken)[looked']
  BY <1>1, <1>3, <1>6, <1>7
<1>9. looked' \in 0..Len(InputsOf(tx))
  BY <1>1, <1>4, <1>5
<1>10. TransactionShape'
  BY <1>1, <1>2, <1>8, <1>9 DEF TransactionShape, CallbacksInvariant, taken
<1>11. ~made
  <2>1. looked # Len(InputsOf(tx))
    BY <1>1, <1>2, <1>3, <1>4
  <2> QED BY <2>1 DEF CallbacksInvariant, CallbacksShape
<1>12. CallbacksShape'
  BY <1>1, <1>11 DEF CallbacksInvariant, CallbacksShape
<1>13. SubscriptionsShape'
  BY <1>1 DEF CallbacksInvariant, SubscriptionsShape, Disjoint
<1> QED BY <1>10, <1>12, <1>13 DEF CallbacksInvariant

(* The callbacks are made. *)
LEMMA MakeCallbacksKeeps ==
  ASSUME CallbacksInvariant, MakeCallbacks
  PROVE  CallbacksInvariant'
<1>1. /\ tx # NoTx /\ ~(looked < Len(Inputs)) /\ made'
      /\ callbacks' = IF IsMonitored(tin, tout) THEN Receipts \cup Payments ELSE {}
      /\ UNCHANGED <<tx, looked, tin, subsByAddr>>
  BY DEF MakeCallbacks, Unlooked
<1>2. TransactionShape' /\ SubscriptionsShape'
  BY <1>1 DEF CallbacksInvariant, TransactionShape, SubscriptionsShape, Disjoint
<1>3. looked = Len(InputsOf(tx))
  <2>1. Inputs = InputsOf(tx) /\ tx \in Transactions
    BY <1>1 DEF Inputs, InputsOf, CallbacksInvariant, TransactionShape
  <2>2. Len(InputsOf(tx)) \in Nat
    BY <2>1, TakenOutputs
  <2>3. looked \in 0..Len(InputsOf(tx))
    BY <1>1 DEF CallbacksInvariant, TransactionShape
  <2> QED BY <1>1, <2>1, <2>2, <2>3
<1>4. /\ IsMonitored(tin, tout)' <=> IsMonitored(tin, tout)
      /\ Receipts' = Receipts /\ Payments' = Payments
  BY <1>1 DEF IsMonitored, Monitored, Receipts, Payments, PureSpenders, SpentBy, tout
<1>5. CallbacksShape'
  BY <1>1, <1>3, <1>4 DEF CallbacksShape
<1> QED BY <1>2, <1>5 DEF CallbacksInvariant

(* Every step keeps the invariant. *)
LEMMA CallbacksInvariantKept ==
  ASSUME CallbacksInvariant, [Next]_vars
  PROVE  CallbacksInvariant'
<1>1. CASE NextTransaction
  <2>1. /\ tx = NoTx /\ tx' \in Transactions
        /\ UNCHANGED <<looked, tin, subsByAddr, made, callbacks>>
    BY <1>1 DEF NextTransaction
  <2>2. looked = 0 /\ tin = Empty /\ ~made
    BY <2>1 DEF CallbacksInvariant, TransactionShape
  <2>3. 0 \in 0..Len(InputsOf(tx')) /\ Dicts(TakenBy(tx'))[0] = Empty
    BY <2>1, TransactionStarts
  <2>4. tx' # NoTx
    BY <2>1, TransactionAssumption DEF TransactionAssumption
  <2>5. TransactionShape'
    BY <2>1, <2>2, <2>3, <2>4 DEF TransactionShape
  <2>6. CallbacksShape' /\ SubscriptionsShape'
    BY <2>1, <2>2 DEF CallbacksInvariant, CallbacksShape, SubscriptionsShape, Disjoint
  <2> QED BY <2>5, <2>6 DEF CallbacksInvariant
<1>2. CASE Forget
  <2>1. TransactionShape'
    BY <1>2 DEF Forget, TransactionShape
  <2>2. CallbacksShape' /\ SubscriptionsShape'
    BY <1>2 DEF Forget, CallbacksInvariant, CallbacksShape, SubscriptionsShape, Disjoint
  <2> QED BY <2>1, <2>2 DEF CallbacksInvariant
<1>3. CASE UNCHANGED <<tx, looked, tin, subsByAddr, made, callbacks>>
  <2>1. TransactionShape' /\ SubscriptionsShape'
    BY <1>3 DEF CallbacksInvariant, TransactionShape, SubscriptionsShape, Disjoint
  <2>2. /\ IsMonitored(tin, tout)' <=> IsMonitored(tin, tout)
        /\ Receipts' = Receipts /\ Payments' = Payments
    BY <1>3 DEF IsMonitored, Monitored, Receipts, Payments, PureSpenders, SpentBy, tout
  <2>3. CallbacksShape'
    BY <1>3, <2>2 DEF CallbacksInvariant, CallbacksShape
  <2> QED BY <2>1, <2>3 DEF CallbacksInvariant
<1> QED BY <1>1, <1>2, <1>3, LookUpKeeps, MakeCallbacksKeeps
        DEF Next, NodeFails, Done, AskNode, vars

(* The invariant of the dictionaries and the callbacks. *)
THEOREM CallbacksInvariantHolds == Spec => []CallbacksInvariant
<1>1. Init => CallbacksInvariant
  <2> SUFFICES ASSUME Init
               PROVE  CallbacksInvariant
    OBVIOUS
  <2>1. TransactionShape
    BY DEF Init, TransactionShape
  <2>2. CallbacksShape
    BY DEF Init, CallbacksShape
  <2>3. SubscriptionsShape
    BY DEF Init, SubscriptionsShape
  <2> QED BY <2>1, <2>2, <2>3 DEF CallbacksInvariant
<1>2. CallbacksInvariant /\ [Next]_vars => CallbacksInvariant'
  BY CallbacksInvariantKept
<1> QED BY <1>1, <1>2, PTL DEF Spec

-----------------------------------------------------------------------------
(* Who is called back, and with what *)

(* When the callbacks are made, the dictionaries hold the amounts, and so  *)
(* the difference of what they hold is the change.                         *)
LEMMA DictionariesComplete ==
  ASSUME CallbacksInvariant, made
  PROVE  /\ DOMAIN tin \subseteq Addr /\ DOMAIN tout \subseteq Addr
         /\ DOMAIN tout = AddressesIn(tx.vout)
         /\ \A a \in DOMAIN tin : tin[a] \in Nat
         /\ \A a \in DOMAIN tout : tout[a] \in Nat
         /\ \A a \in Addr : SpentBy(a) \in Nat
         /\ \A a \in Addr :
              Change(a) = (IF a \in DOMAIN tout THEN tout[a] ELSE 0) - SpentBy(a)
<1> DEFINE taken == TakenBy(tx)
           paid == tx.vout
<1>1. /\ tx \in Transactions /\ looked = Len(InputsOf(tx))
      /\ tin = Dicts(taken)[looked]
  BY DEF CallbacksInvariant, CallbacksShape, TransactionShape
<1>2. /\ taken \in Seq(TxOut) /\ looked = Len(taken) /\ paid \in Seq(TxOut)
      /\ ~tx.coinbase => taken = Spent(tx)
      /\ tx.coinbase => Len(taken) = 0
  BY <1>1, TakenOutputs
<1>3. tout = Dicts(paid)[Len(paid)]
  BY DEF tout
<1>4. DOMAIN paid = 1..Len(paid)
  BY <1>2, LenProperties
<1> HIDE DEF taken, paid
<1>5. Len(taken) \in 0..Len(taken) /\ Len(paid) \in 0..Len(paid)
  BY <1>2, LenProperties
<1>6. /\ tin \in Dict /\ tout \in Dict
  BY <1>1, <1>2, <1>3, <1>5, DictsRecursion
<1>7. /\ \A a \in DOMAIN tin : tin[a] = SumOver(taken, a)
      /\ \A a \in Addr \ DOMAIN tin : SumOver(taken, a) = 0
  BY <1>1, <1>2, <1>5, DictsAreSums DEF SumOver
<1>8. /\ DOMAIN tout = {paid[i].addr : i \in 1..Len(paid)} \ {NonStandard}
      /\ \A a \in DOMAIN tout : tout[a] = SumOver(paid, a)
      /\ \A a \in Addr \ DOMAIN tout : SumOver(paid, a) = 0
  BY <1>2, <1>3, <1>5, DictsAreSums DEF SumOver
<1>9. DOMAIN tin \subseteq Addr /\ DOMAIN tout \subseteq Addr
  BY <1>6 DEF Dict
<1>10. /\ \A a \in DOMAIN tin : tin[a] \in Nat
       /\ \A a \in DOMAIN tout : tout[a] \in Nat
  BY <1>6 DEF Dict
<1>11. DOMAIN tout = AddressesIn(tx.vout)
  BY <1>4, <1>8 DEF AddressesIn, paid
<1>12. \A a \in Addr : SpentBy(a) \in Nat /\ SpentBy(a) = SumOver(taken, a)
  BY <1>7, <1>10 DEF SpentBy
<1>13. \A a \in Addr : SumOver(paid, a) = IF a \in DOMAIN tout THEN tout[a] ELSE 0
  BY <1>8
<1>14. \A a \in Addr : (IF tx.coinbase THEN 0 ELSE SumOver(Spent(tx), a)) = SumOver(taken, a)
  <2>1. CASE tx.coinbase
    <3>1. \A a : SumOver(taken, a) = 0
      <4>1. \A a : Sums(taken, a)[0] = 0
        BY <1>2, SumsRecursion
      <4> QED BY <1>2, <2>1, <4>1 DEF SumOver
    <3> QED BY <2>1, <3>1
  <2>2. CASE ~tx.coinbase
    BY <1>2, <2>2
  <2> QED BY <2>1, <2>2
<1>15. \A a \in Addr :
         Change(a) = (IF a \in DOMAIN tout THEN tout[a] ELSE 0) - SpentBy(a)
  BY <1>12, <1>13, <1>14 DEF Change, paid
<1> QED BY <1>9, <1>10, <1>11, <1>12, <1>15

(* Why there is a callback: a subscription's address receives and its      *)
(* balance changes, or it spends and receives nothing.                     *)
Receives(c, a) == a \in DOMAIN tout /\ c = <<c[1], tout[a]>> /\ Change(a) # 0
PurelySpends(c, a) == a \in DOMAIN tin \ DOMAIN tout /\ c = <<c[1], -tin[a]>>

(* A callback is one of the two kinds. *)
LEMMA CallbackHasReason ==
  ASSUME CallbacksInvariant, NEW c \in callbacks
  PROVE  /\ made
         /\ \E a \in Monitored :
              c[1] \in subsByAddr[a] /\ (Receives(c, a) \/ PurelySpends(c, a))
<1>1. made /\ c \in Receipts \cup Payments
  BY DEF CallbacksInvariant, CallbacksShape
<1>2. CASE c \in Receipts
  <2>1. PICK a \in DOMAIN tout \cap Monitored :
          tout[a] - SpentBy(a) # 0 /\ c \in {<<s, tout[a]>> : s \in subsByAddr[a]}
    BY <1>2 DEF Receipts
  <2>2. PICK s \in subsByAddr[a] : c = <<s, tout[a]>>
    BY <2>1
  <2>3. a \in Addr /\ a \in DOMAIN tout
    BY <2>1 DEF Monitored, CallbacksInvariant, SubscriptionsShape
  <2>4. Change(a) = tout[a] - SpentBy(a)
    BY <1>1, <2>3, DictionariesComplete
  <2>5. c[1] = s /\ Receives(c, a)
    BY <2>1, <2>2, <2>3, <2>4 DEF Receives
  <2> QED BY <1>1, <2>1, <2>2, <2>5
<1>3. CASE c \in Payments
  <2>1. PICK a \in PureSpenders \cap Monitored : c \in {<<s, -tin[a]>> : s \in subsByAddr[a]}
    BY <1>3 DEF Payments
  <2>2. PICK s \in subsByAddr[a] : c = <<s, -tin[a]>>
    BY <2>1
  <2>3. c[1] = s /\ PurelySpends(c, a)
    BY <2>1, <2>2 DEF PureSpenders, PurelySpends
  <2> QED BY <1>1, <2>1, <2>2, <2>3
<1> QED BY <1>1, <1>2, <1>3

(* A subscription is for one address. *)
LEMMA SubscribedOnce ==
  ASSUME CallbacksInvariant, NEW a \in Monitored, NEW b \in Monitored, NEW s,
         s \in subsByAddr[a], s \in subsByAddr[b]
  PROVE  a = b
BY DEF CallbacksInvariant, SubscriptionsShape, Disjoint, Monitored

(* A transaction calls a subscription back at most once. *)
THEOREM CalledBackOnce == Spec => []OncePerSubscription
<1>1. CallbacksInvariant => OncePerSubscription
  <2> SUFFICES ASSUME CallbacksInvariant, NEW c \in callbacks, NEW d \in callbacks, c[1] = d[1]
               PROVE  c = d
    BY DEF OncePerSubscription
  <2>1. PICK a \in Monitored :
          c[1] \in subsByAddr[a] /\ (Receives(c, a) \/ PurelySpends(c, a))
    BY CallbackHasReason
  <2>2. PICK b \in Monitored :
          d[1] \in subsByAddr[b] /\ (Receives(d, b) \/ PurelySpends(d, b))
    BY CallbackHasReason
  <2>3. a = b
    BY <2>1, <2>2, SubscribedOnce
  <2> QED BY <2>1, <2>2, <2>3 DEF Receives, PurelySpends
<1> QED BY <1>1, CallbacksInvariantHolds, PTL

(* A payment from an address that receives nothing back is reported with   *)
(* the sum of all inputs it is made of.                                    *)
THEOREM PaymentsInFull == Spec => []SpentInFull
<1>1. CallbacksInvariant => SpentInFull
  <2> SUFFICES ASSUME CallbacksInvariant, NEW c \in callbacks, NEW a \in Monitored,
                      c[1] \in subsByAddr[a], a \notin AddressesIn(tx.vout)
               PROVE  c[2] = Change(a)
    BY DEF SpentInFull
  <2>1. made
    BY CallbackHasReason
  <2>2. PICK b \in Monitored :
          c[1] \in subsByAddr[b] /\ (Receives(c, b) \/ PurelySpends(c, b))
    BY CallbackHasReason
  <2>3. a = b
    BY <2>2, SubscribedOnce
  <2>4. a \in Addr /\ a \notin DOMAIN tout
    BY <2>1, DictionariesComplete DEF Monitored, CallbacksInvariant, SubscriptionsShape
  <2>5. a \in DOMAIN tin /\ c = <<c[1], -tin[a]>>
    BY <2>2, <2>3, <2>4 DEF Receives, PurelySpends
  <2>6. Change(a) = 0 - SpentBy(a) /\ SpentBy(a) = tin[a] /\ tin[a] \in Nat
    BY <2>1, <2>4, <2>5, DictionariesComplete DEF SpentBy
  <2>7. c[2] = -tin[a]
    BY <2>5
  <2> QED BY <2>6, <2>7
<1> QED BY <1>1, CallbacksInvariantHolds, PTL

(* Exactly the subscriptions for addresses whose balance changes are       *)
(* called back, and those for addresses that spend nothing but zeros.      *)
THEOREM ChangesNotified == Spec => []ChangesAreNotified
<1>1. CallbacksInvariant => ChangesAreNotified
  <2> DEFINE notified == {c[1] : c \in callbacks}
             zeroSpender == {a \in DOMAIN tin : tin[a] = 0}
  <2> SUFFICES ASSUME CallbacksInvariant, made, NEW a \in Monitored
               PROVE  /\ Change(a) # 0 => subsByAddr[a] \subseteq notified
                      /\ Change(a) = 0 /\ a \notin zeroSpender =>
                           subsByAddr[a] \cap notified = {}
    BY DEF ChangesAreNotified
  <2>1. a \in Addr
    BY DEF Monitored, CallbacksInvariant, SubscriptionsShape
  <2>2. /\ Change(a) = (IF a \in DOMAIN tout THEN tout[a] ELSE 0) - SpentBy(a)
        /\ SpentBy(a) \in Nat
    BY <2>1, DictionariesComplete
  <2>3. ASSUME Change(a) # 0, NEW s \in subsByAddr[a]
        PROVE  \E c \in callbacks : c[1] = s
    <3>1. CASE a \in DOMAIN tout
      <4>1. IsMonitored(tin, tout)
        BY <3>1 DEF IsMonitored
      <4>2. tout[a] - SpentBy(a) # 0
        BY <2>2, <2>3, <3>1
      <4>3. <<s, tout[a]>> \in Receipts
        BY <3>1, <4>2 DEF Receipts
      <4>4. <<s, tout[a]>> \in callbacks
        BY <4>1, <4>3 DEF CallbacksInvariant, CallbacksShape
      <4> QED BY <4>4
    <3>2. CASE a \notin DOMAIN tout
      <4>1. a \in DOMAIN tin
        BY <2>2, <2>3, <3>2 DEF SpentBy
      <4>2. IsMonitored(tin, tout)
        BY <4>1 DEF IsMonitored
      <4>3. <<s, -tin[a]>> \in Payments
        BY <3>2, <4>1 DEF Payments, PureSpenders
      <4>4. <<s, -tin[a]>> \in callbacks
        BY <4>2, <4>3 DEF CallbacksInvariant, CallbacksShape
      <4> QED BY <4>4
    <3> QED BY <3>1, <3>2
  <2>4. ASSUME Change(a) = 0, a \notin zeroSpender, NEW c \in callbacks, c[1] \in subsByAddr[a]
        PROVE  FALSE
    <3>1. PICK b \in Monitored :
            c[1] \in subsByAddr[b] /\ (Receives(c, b) \/ PurelySpends(c, b))
      BY CallbackHasReason
    <3>2. a = b
      BY <2>4, <3>1, SubscribedOnce
    <3>3. a \in DOMAIN tin /\ a \notin DOMAIN tout
      BY <2>4, <3>1, <3>2 DEF Receives, PurelySpends
    <3>4. tin[a] # 0 /\ SpentBy(a) = tin[a]
      BY <2>4, <3>3 DEF SpentBy
    <3> QED BY <2>2, <2>4, <3>3, <3>4
  <2> QED BY <2>3, <2>4
<1> QED BY <1>1, CallbacksInvariantHolds, PTL

-----------------------------------------------------------------------------
(* The cache *)

(* Taking the element at k out of a sequence and appending it: the ones    *)
(* behind it move up.                                                      *)
LEMMA MovedToEndShifts ==
  ASSUME NEW S, NEW q \in Seq(S), IsInjective(q), NEW k \in 1..Len(q),
         NEW r, r = Cache!MovedToEnd(q, q[k])
  PROVE  /\ r \in Seq(S) /\ Len(r) = Len(q) /\ IsInjective(r)
         /\ \A j \in 1..Len(q) : r[j] = IF j < k THEN q[j] ELSE IF j < Len(q) THEN q[j + 1] ELSE q[k]
<1> DEFINE n == Len(q)
           front == SubSeq(q, 1, k - 1)
           back == SubSeq(q, k + 1, n)
           both == front \o back
<1>1. n \in Nat /\ DOMAIN q = 1..n /\ \A j \in 1..n : q[j] \in S
  BY LenProperties, ElementOfSeq
<1>2. \A j \in 1..n : q[j] = q[k] => j = k
  BY <1>1 DEF IsInjective
<1>3. Cache!RemoveFirst(q, q[k]) = both
  <2> DEFINE I == {i \in 1..Len(q) : q[i] = q[k]}
  <2>1. I = {k}
    BY <1>2
  <2>2. (CHOOSE x \in I : \A y \in I : x =< y) = k
    BY <1>1, <2>1
  <2>3. Cache!SelectInSeq(q, LAMBDA v : v = q[k]) = IF I # {} THEN Cache!Min(I) ELSE 0
    BY DEF Cache!SelectInSeq
  <2>4. Cache!Min(I) = k
    BY <2>2 DEF Cache!Min
  <2>5. Cache!SelectInSeq(q, LAMBDA v : v = q[k]) = k
    BY <2>1, <2>3, <2>4
  <2> QED BY <2>5 DEF Cache!RemoveFirst, Cache!RemoveAt
<1>4. r = Append(both, q[k])
  BY <1>3 DEF Cache!MovedToEnd
<1>5. /\ front \in Seq(S) /\ Len(front) = k - 1
      /\ \A j \in 1..(k - 1) : front[j] = q[j]
  BY <1>1, SubSeqProperties
<1>6. /\ back \in Seq(S) /\ Len(back) = n - k
      /\ \A j \in 1..(n - k) : back[j] = q[k + j]
  <2>1. k \in 1..n /\ k + 1 \in Int /\ n \in Int
    BY <1>1
  <2>2. \A i \in (k + 1)..n : q[i] \in S
    BY <1>1, <2>1
  <2>3. /\ back \in Seq(S) /\ Len(back) = IF k + 1 <= n THEN n - (k + 1) + 1 ELSE 0
        /\ \A i \in 1..(n - (k + 1) + 1) : back[i] = q[(k + 1) + i - 1]
    BY <2>1, <2>2, SubSeqProperties
  <2> HIDE DEF back, n
  <2>4. Len(back) = n - k
    BY <1>1, <2>1, <2>3
  <2>5. ASSUME NEW j \in 1..(n - k)
        PROVE  back[j] = q[k + j]
    <3>1. j \in 1..(n - (k + 1) + 1) /\ (k + 1) + j - 1 = k + j
      BY <1>1, <2>1
    <3> QED BY <2>3, <3>1
  <2> QED BY <2>3, <2>4, <2>5
<1> HIDE DEF front, back, n
<1>7. /\ both \in Seq(S) /\ Len(both) = n - 1
      /\ \A j \in 1..(n - 1) : both[j] = IF j < k THEN q[j] ELSE q[j + 1]
  <2>1. /\ both \in Seq(S) /\ Len(both) = Len(front) + Len(back)
        /\ \A j \in 1..(Len(front) + Len(back)) :
             both[j] = IF j <= Len(front) THEN front[j] ELSE back[j - Len(front)]
    BY <1>5, <1>6, ConcatProperties
  <2>2. k \in 1..n /\ Len(front) + Len(back) = n - 1
    BY <1>1, <1>5, <1>6 DEF n
  <2> HIDE DEF both
  <2>3. ASSUME NEW j \in 1..(n - 1)
        PROVE  both[j] = IF j < k THEN q[j] ELSE q[j + 1]
    <3>1. CASE j < k
      <4>1. j <= Len(front) /\ j \in 1..(k - 1) /\ j \in 1..(Len(front) + Len(back))
        BY <1>1, <1>5, <2>2, <3>1
      <4> QED BY <1>5, <2>1, <3>1, <4>1
    <3>2. CASE ~(j < k)
      <4>1. /\ ~(j <= Len(front)) /\ j \in 1..(Len(front) + Len(back))
            /\ j - Len(front) \in 1..(n - k) /\ k + (j - Len(front)) = j + 1
        BY <1>1, <1>5, <2>2, <3>2
      <4>2. back[j - Len(front)] = q[j + 1]
        BY <1>6, <4>1
      <4> QED BY <2>1, <3>2, <4>1, <4>2
    <3> QED BY <3>1, <3>2
  <2> QED BY <2>1, <2>2, <2>3
<1> HIDE DEF both
<1>8. k \in 1..n /\ q[k] \in S
  BY <1>1 DEF n
<1>9. /\ r \in Seq(S) /\ Len(r) = (n - 1) + 1
      /\ \A j \in 1..(n - 1) : r[j] = both[j]
      /\ r[(n - 1) + 1] = q[k]
  BY <1>4, <1>7, <1>8, AppendProperties
<1>10. (n - 1) + 1 = n
  BY <1>1
<1>11. ASSUME NEW j \in 1..n
       PROVE  r[j] = IF j < k THEN q[j] ELSE IF j < n THEN q[j + 1] ELSE q[k]
  <2>1. CASE j = n
    BY <1>1, <1>8, <1>9, <1>10, <2>1
  <2>2. CASE j # n
    <3>1. j \in 1..(n - 1) /\ j < n
      BY <1>1, <2>2
    <3> QED BY <1>7, <1>9, <3>1
  <2> QED BY <2>1, <2>2
<1> DEFINE from(j) == IF j < k THEN j ELSE IF j < n THEN j + 1 ELSE k
<1>12. \A i \in 1..n : from(i) \in 1..n
  BY <1>1, <1>8
<1>13. \A i, j \in 1..n : from(i) = from(j) => i = j
  BY <1>1, <1>8
<1>14. \A j \in 1..n : r[j] = q[from(j)]
  BY <1>11
<1>15. \A i, j \in 1..n : q[i] = q[j] => i = j
  BY <1>1 DEF IsInjective, n
<1>16. DOMAIN r = 1..n
  BY <1>9, <1>10, LenProperties
<1> HIDE DEF from
<1>17. IsInjective(r)
  BY <1>12, <1>13, <1>14, <1>15, <1>16 DEF IsInjective
<1> QED BY <1>9, <1>10, <1>11, <1>17 DEF n

(* The cached transactions are the last of those that were looked up, as   *)
(* many as there is room for, and the one that is asked for is not among   *)
(* them.                                                                   *)
CacheShape ==
  /\ cache \in Seq(DOMAIN Funding) /\ recent \in Seq(DOMAIN Funding)
  /\ IsInjective(recent)
  /\ Len(cache) = IF Len(recent) < MaxSize THEN Len(recent) ELSE MaxSize
  /\ \A j \in 1..Len(cache) : cache[j] = recent[Len(recent) - Len(cache) + j]
  /\ fetching \in DOMAIN Funding \cup {NoTx}
  /\ fetching # NoTx => fetching \notin Range(cache)

(* The numbers that CacheShape relates. *)
LEMMA CacheLengths ==
  ASSUME CacheShape
  PROVE  /\ Len(recent) \in Nat /\ Len(cache) \in Nat /\ MaxSize \in Nat \ {0}
         /\ Len(cache) <= Len(recent) /\ Len(cache) <= MaxSize
         /\ Len(cache) < MaxSize => Len(recent) = Len(cache)
         /\ DOMAIN cache = 1..Len(cache) /\ DOMAIN recent = 1..Len(recent)
         /\ \A j \in 1..Len(cache) : Len(recent) - Len(cache) + j \in 1..Len(recent)
         /\ NoTx \notin DOMAIN Funding
<1>1. MaxSize \in Nat \ {0} /\ NoTx \notin DOMAIN Funding
  BY TransactionAssumption DEF TransactionAssumption, Cache!CacheAssumption
<1>2. /\ Len(recent) \in Nat /\ DOMAIN recent = 1..Len(recent)
      /\ Len(cache) \in Nat /\ DOMAIN cache = 1..Len(cache)
  BY LenProperties DEF CacheShape
<1>3. Len(cache) = IF Len(recent) < MaxSize THEN Len(recent) ELSE MaxSize
  BY DEF CacheShape
<1> DEFINE n == Len(recent)
           m == Len(cache)
<1>4. n \in Nat /\ m \in Nat /\ m = IF n < MaxSize THEN n ELSE MaxSize
  BY <1>2, <1>3
<1> HIDE DEF n, m
<1>5. m <= n /\ m <= MaxSize /\ (m < MaxSize => n = m)
  BY <1>1, <1>4
<1>6. \A j \in 1..m : n - m + j \in 1..n
  BY <1>4, <1>5
<1> QED BY <1>1, <1>2, <1>5, <1>6 DEF n, m

(* None is cached twice. *)
LEMMA CacheInjective ==
  ASSUME CacheShape
  PROVE  IsInjective(cache)
<1> DEFINE n == Len(recent)
           m == Len(cache)
<1>1. /\ n \in Nat /\ m \in Nat /\ DOMAIN cache = 1..m /\ DOMAIN recent = 1..n
      /\ \A j \in 1..m : n - m + j \in 1..n
  BY CacheLengths
<1>2. \A j \in 1..m : cache[j] = recent[n - m + j]
  BY DEF CacheShape
<1>3. \A i, j \in 1..n : recent[i] = recent[j] => i = j
  BY <1>1 DEF CacheShape, IsInjective
<1> HIDE DEF n, m
<1>4. ASSUME NEW i \in 1..m, NEW j \in 1..m, cache[i] = cache[j]
      PROVE  i = j
  <2>1. n - m + i = n - m + j
    BY <1>1, <1>2, <1>3, <1>4
  <2> QED BY <1>1, <2>1
<1> QED BY <1>1, <1>4 DEF IsInjective

(* What is not in a sequence need not be taken out. *)
LEMMA MovedToEndNew ==
  ASSUME NEW S, NEW q \in Seq(S), NEW e, e \notin Range(q)
  PROVE  Cache!MovedToEnd(q, e) = Append(q, e)
<1>1. \A i \in 1..Len(q) : q[i] # e
  BY LenProperties DEF Range
<1> QED BY <1>1 DEF Cache!MovedToEnd, Cache!RemoveFirst

(* A hit makes the transaction the newest in the cache and of those looked *)
(* up.                                                                     *)
LEMMA HitKeeps ==
  ASSUME CacheShape, NEW t, Cache!Hit(t)
  PROVE  CacheShape'
<1> DEFINE n == Len(recent)
           m == Len(cache)
<1>1. /\ n \in Nat /\ m \in Nat /\ m <= n
      /\ DOMAIN cache = 1..m /\ DOMAIN recent = 1..n
      /\ \A j \in 1..m : n - m + j \in 1..n
  BY CacheLengths
<1>2. /\ cache \in Seq(DOMAIN Funding) /\ recent \in Seq(DOMAIN Funding)
      /\ IsInjective(recent) /\ IsInjective(cache)
      /\ \A j \in 1..m : cache[j] = recent[n - m + j]
      /\ m = IF n < MaxSize THEN n ELSE MaxSize
  BY CacheInjective DEF CacheShape
<1>3. /\ fetching = NoTx /\ fetching' = NoTx
      /\ cache' = Cache!MovedToEnd(cache, t)
      /\ recent' = Cache!MovedToEnd(recent, t)
  BY DEF Cache!Hit, Cache!MovedToEnd
<1>4. PICK i \in 1..m : cache[i] = t
  BY DEF Cache!Hit, Cache!Contains
<1>5. PICK k \in 1..n : k = n - m + i /\ recent[k] = t
  BY <1>1, <1>2, <1>4
<1> HIDE DEF n, m
<1>6. /\ cache' \in Seq(DOMAIN Funding) /\ Len(cache') = m
      /\ \A j \in 1..m : cache'[j] = IF j < i THEN cache[j] ELSE IF j < m THEN cache[j + 1] ELSE cache[i]
  <2>1. cache \in Seq(DOMAIN Funding) /\ IsInjective(cache)
    BY <1>2
  <2>2. i \in 1..Len(cache) /\ cache' = Cache!MovedToEnd(cache, cache[i])
    BY <1>3, <1>4 DEF m
  <2> QED BY <2>1, <2>2, MovedToEndShifts DEF m
<1>7. /\ recent' \in Seq(DOMAIN Funding) /\ Len(recent') = n /\ IsInjective(recent')
      /\ \A j \in 1..n : recent'[j] = IF j < k THEN recent[j] ELSE IF j < n THEN recent[j + 1] ELSE recent[k]
  BY <1>2, <1>3, <1>5, MovedToEndShifts DEF n
<1>8. ASSUME NEW j \in 1..m
      PROVE  cache'[j] = recent'[n - m + j]
  <2>1. n - m + j \in 1..n /\ (n - m + j < k <=> j < i) /\ (n - m + j < n <=> j < m)
    BY <1>1, <1>5
  <2>2. recent'[n - m + j] = IF j < i THEN recent[n - m + j]
                             ELSE IF j < m THEN recent[(n - m + j) + 1] ELSE recent[k]
    BY <1>7, <2>1
  <2>3. CASE j < i
    BY <1>2, <1>6, <2>2, <2>3
  <2>4. CASE ~(j < i) /\ j < m
    <3>1. j + 1 \in 1..m /\ (n - m + j) + 1 = n - m + (j + 1)
      BY <1>1, <2>4
    <3> QED BY <1>2, <1>6, <2>2, <2>4, <3>1
  <2>5. CASE ~(j < i) /\ ~(j < m)
    BY <1>4, <1>5, <1>6, <2>2, <2>5
  <2> QED BY <2>3, <2>4, <2>5
<1>9. NoTx \notin DOMAIN Funding
  BY CacheLengths
<1> QED BY <1>2, <1>3, <1>6, <1>7, <1>8, <1>9 DEF CacheShape

(* An answer of the node does too, and evicts the oldest when the cache is *)
(* full: that one was looked up MaxSize others ago.                        *)
LEMMA LoadKeeps ==
  ASSUME CacheShape, Cache!Load
  PROVE  CacheShape'
<1> DEFINE n == Len(recent)
           m == Len(cache)
           t == fetching
           more == Append(cache, t)
<1>1. /\ n \in Nat /\ m \in Nat /\ m <= n /\ MaxSize \in Nat \ {0} /\ m <= MaxSize
      /\ m < MaxSize => n = m
      /\ DOMAIN cache = 1..m /\ DOMAIN recent = 1..n
      /\ \A j \in 1..m : n - m + j \in 1..n
  BY CacheLengths
<1>2. /\ cache \in Seq(DOMAIN Funding) /\ recent \in Seq(DOMAIN Funding)
      /\ IsInjective(recent)
      /\ \A j \in 1..m : cache[j] = recent[n - m + j]
      /\ t \in DOMAIN Funding /\ t \notin Range(cache)
  BY DEF CacheShape, Cache!Load
<1>3. /\ fetching' = NoTx
      /\ cache' = IF Len(more) > MaxSize THEN Tail(more) ELSE more
      /\ recent' = Cache!MovedToEnd(recent, t)
  BY DEF Cache!Load, Cache!MovedToEnd, Cache!Evicted
<1> HIDE DEF n, m, t
<1>4. /\ more \in Seq(DOMAIN Funding) /\ more # << >> /\ Len(more) = m + 1
      /\ \A j \in 1..m : more[j] = cache[j]
      /\ more[m + 1] = t
  BY <1>2, AppendProperties DEF m
<1> HIDE DEF more
<1>5. /\ Tail(more) \in Seq(DOMAIN Funding) /\ Len(Tail(more)) = m
      /\ \A j \in 1..m : Tail(more)[j] = more[j + 1]
  <2>1. /\ Tail(more) \in Seq(DOMAIN Funding) /\ Len(Tail(more)) = Len(more) - 1
        /\ \A j \in 1..Len(Tail(more)) : Tail(more)[j] = more[j + 1]
    BY <1>4, HeadTailProperties
  <2>2. (m + 1) - 1 = m
    BY <1>1
  <2> QED BY <1>4, <2>1, <2>2
<1>6. \A j \in 1..m : cache[j] # t
  BY <1>1, <1>2 DEF Range
<1>7. ASSUME t \notin Range(recent)
      PROVE  /\ recent' \in Seq(DOMAIN Funding) /\ Len(recent') = n + 1 /\ IsInjective(recent')
             /\ \A j \in 1..n : recent'[j] = recent[j]
             /\ recent'[n + 1] = t
  <2>1. recent' = Append(recent, t)
    BY <1>2, <1>3, <1>7, MovedToEndNew
  <2>2. IsInjective(Append(recent, t))
    <3> DEFINE later == Append(recent, t)
    <3>1. /\ DOMAIN recent = 1..Len(recent) /\ Len(recent) \in Nat
          /\ DOMAIN later = 1..(Len(recent) + 1)
          /\ \A i \in DOMAIN recent : later[i] = recent[i]
          /\ later[Len(recent) + 1] = t
      BY <1>2, AppendProperties, LenProperties
    <3> HIDE DEF later
    <3>2. \A i \in DOMAIN later : (i \in DOMAIN recent /\ later[i] = recent[i])
                                 \/ (i = Len(recent) + 1 /\ later[i] = t)
      BY <3>1
    <3>3. IsInjective(later)
      BY <1>2, <1>7, <3>2 DEF IsInjective, Range
    <3> QED BY <3>3 DEF later
  <2> QED BY <1>2, <2>1, <2>2, AppendProperties DEF n
<1>8. CASE m < MaxSize
  <2>1. n = m /\ n < MaxSize /\ ~(m + 1 > MaxSize)
    BY <1>1, <1>8
  <2>2. \A j \in 1..n : recent[j] # t
    BY <1>1, <1>2, <1>6, <2>1
  <2>3. t \notin Range(recent)
    BY <1>1, <2>2 DEF Range
  <2>4. cache' = more
    BY <1>3, <1>4, <2>1
  <2>5. Len(cache') = n + 1 /\ Len(recent') = n + 1
    BY <1>4, <1>7, <2>1, <2>3, <2>4
  <2>6. \A j \in 1..(n + 1) : j \in 1..n \/ j = n + 1
    BY <1>1
  <2>7. \A j \in 1..n : cache'[j] = recent'[j]
    <3>1. \A j \in 1..n : n - m + j = j
      BY <1>1, <2>1
    <3> QED BY <1>2, <1>4, <1>7, <2>1, <2>3, <2>4, <3>1
  <2>8. \A j \in 1..(n + 1) : cache'[j] = recent'[j]
    BY <1>4, <1>7, <2>1, <2>3, <2>4, <2>6, <2>7
  <2>9. \A j \in 1..(n + 1) : (n + 1) - (n + 1) + j = j
    BY <1>1
  <2>10. \A j \in 1..Len(cache') : cache'[j] = recent'[Len(recent') - Len(cache') + j]
    BY <2>5, <2>8, <2>9
  <2>11. n + 1 = IF n + 1 < MaxSize THEN n + 1 ELSE MaxSize
    BY <1>1, <2>1
  <2>12. NoTx \notin DOMAIN Funding
    BY CacheLengths
  <2> QED BY <1>3, <1>4, <1>7, <2>3, <2>4, <2>5, <2>10, <2>11, <2>12 DEF CacheShape
<1>9. CASE ~(m < MaxSize)
  <2>1. m = MaxSize /\ m + 1 > MaxSize /\ ~(n < MaxSize) /\ ~(n + 1 < MaxSize)
    BY <1>1, <1>9
  <2>2. /\ cache' = Tail(more) /\ Len(cache') = m
        /\ cache' \in Seq(DOMAIN Funding)
    BY <1>3, <1>4, <1>5, <2>1
  <2>3. \A j \in 1..m : cache'[j] = IF j < m THEN cache[j + 1] ELSE t
    <3>1. \A j \in 1..m : (j < m => j + 1 \in 1..m) /\ (~(j < m) => j + 1 = m + 1)
      BY <1>1
    <3> QED BY <1>4, <1>5, <2>2, <3>1
  <2>4. \A j \in 1..m : j < m => cache[j + 1] = recent[(n - m + j) + 1]
    <3>1. \A j \in 1..m : j < m => j + 1 \in 1..m /\ n - m + (j + 1) = (n - m + j) + 1
      BY <1>1
    <3> QED BY <1>2, <3>1
  <2>5. NoTx \notin DOMAIN Funding
    BY CacheLengths
  <2>6. CASE t \notin Range(recent)
    <3>1. ASSUME NEW j \in 1..m
          PROVE  cache'[j] = recent'[(n + 1) - m + j]
      <4>1. /\ (n + 1) - m + j = (n - m + j) + 1
            /\ j < m => (n - m + j) + 1 \in 1..n
            /\ ~(j < m) => (n - m + j) + 1 = n + 1
        BY <1>1
      <4>2. CASE j < m
        BY <1>7, <2>3, <2>4, <2>6, <4>1, <4>2
      <4>3. CASE ~(j < m)
        BY <1>7, <2>3, <2>6, <4>1, <4>3
      <4> QED BY <4>2, <4>3
    <3> QED BY <1>3, <1>7, <2>1, <2>2, <2>5, <2>6, <3>1 DEF CacheShape
  <2>7. CASE t \in Range(recent)
    <3>1. PICK k \in 1..n : recent[k] = t
      BY <1>1, <2>7 DEF Range
    <3>2. /\ recent' \in Seq(DOMAIN Funding) /\ Len(recent') = n /\ IsInjective(recent')
          /\ \A j \in 1..n : recent'[j] = IF j < k THEN recent[j]
                                          ELSE IF j < n THEN recent[j + 1] ELSE recent[k]
      BY <1>2, <1>3, <3>1, MovedToEndShifts DEF n
    <3>3. k <= n - m
      <4>1. SUFFICES ASSUME ~(k <= n - m)
                     PROVE  FALSE
        OBVIOUS
      <4>2. k - (n - m) \in 1..m /\ n - m + (k - (n - m)) = k
        BY <1>1, <3>1, <4>1
      <4>3. cache[k - (n - m)] = t
        BY <1>2, <3>1, <4>2
      <4> QED BY <1>6, <4>2, <4>3
    <3>4. ASSUME NEW j \in 1..m
          PROVE  cache'[j] = recent'[n - m + j]
      <4>1. /\ n - m + j \in 1..n /\ ~(n - m + j < k)
            /\ n - m + j < n <=> j < m
        BY <1>1, <3>1, <3>3
      <4>2. recent'[n - m + j] = IF j < m THEN recent[(n - m + j) + 1] ELSE t
        BY <3>1, <3>2, <4>1
      <4> QED BY <2>3, <2>4, <4>2
    <3> QED BY <1>3, <2>1, <2>2, <2>5, <3>2, <3>4 DEF CacheShape
  <2> QED BY <2>6, <2>7
<1> QED BY <1>8, <1>9

(* An input names a known transaction. *)
LEMMA PrevoutKnown ==
  ASSUME CallbacksInvariant, Unlooked
  PROVE  Prevout.hash \in DOMAIN Funding
<1>1. tx \in Transactions /\ looked < Len(Inputs) /\ Inputs = InputsOf(tx)
  BY DEF CallbacksInvariant, TransactionShape, Unlooked, Inputs, InputsOf
<1>2. looked \in 0..Len(InputsOf(tx)) /\ Len(InputsOf(tx)) \in Nat
  BY <1>1, TakenOutputs DEF CallbacksInvariant, TransactionShape, Unlooked
<1>3. looked + 1 \in 1..Len(InputsOf(tx))
  BY <1>1, <1>2
<1>4. ~tx.coinbase /\ InputsOf(tx) = tx.vin
  BY <1>3 DEF InputsOf
<1>5. tx.vin \in Seq(OutPoint)
  BY <1>1, TransactionAssumption DEF TransactionAssumption, Transaction
<1>6. tx.vin[looked + 1] \in OutPoint
  BY <1>3, <1>4, <1>5, LenProperties, ElementOfSeq
<1> QED BY <1>1, <1>4, <1>6 DEF Prevout, OutPoint

(* Every step keeps the cache in shape: a request is made only for what is *)
(* not cached, and meanwhile the cache does not change.                    *)
LEMMA CacheShapeKept ==
  ASSUME CallbacksInvariant, CacheShape, [Next]_vars
  PROVE  CacheShape'
<1>1. UNCHANGED cacheVars => CacheShape'
  BY DEF cacheVars, CacheShape, Range, IsInjective
<1>2. CASE LookUp
  <2>1. Cache!Hit(Prevout.hash) \/ Cache!Load
    BY <1>2 DEF LookUp, Cache!Found
  <2> QED BY <2>1, HitKeeps, LoadKeeps
<1>3. CASE AskNode
  <2>1. /\ Prevout.hash \in DOMAIN Funding
        /\ ~Cache!Contains(cache, Prevout.hash)
        /\ fetching' = Prevout.hash /\ UNCHANGED <<cache, recent>>
    BY <1>3, PrevoutKnown DEF AskNode, Cache!Miss
  <2>2. Prevout.hash \notin Range(cache)
    <3>1. DOMAIN cache = 1..Len(cache)
      BY CacheLengths
    <3> QED BY <2>1, <3>1 DEF Range, Cache!Contains
  <2> QED BY <2>1, <2>2 DEF CacheShape, Range, IsInjective
<1>4. CASE NodeFails
  <2>1. fetching' = NoTx /\ UNCHANGED <<cache, recent>>
    BY <1>4 DEF NodeFails, Cache!LoadFails
  <2> QED BY <2>1 DEF CacheShape, Range, IsInjective
<1>5. CASE NextTransaction
  BY <1>1, <1>5 DEF NextTransaction
<1>6. CASE MakeCallbacks
  BY <1>1, <1>6 DEF MakeCallbacks
<1>7. CASE Done
  BY <1>1, <1>7 DEF Done
<1>8. CASE UNCHANGED vars
  BY <1>1, <1>8 DEF vars
<1> QED BY <1>2, <1>3, <1>4, <1>5, <1>6, <1>7, <1>8 DEF Next

(* Nothing is cached at first. *)
LEMMA CacheShapeStarts == Init => CacheShape
<1> SUFFICES ASSUME Init
             PROVE  CacheShape
  OBVIOUS
<1>1. cache = << >> /\ recent = << >> /\ fetching = NoTx
  BY DEF Init, Cache!Init
<1>2. MaxSize \in Nat \ {0}
  BY TransactionAssumption DEF TransactionAssumption, Cache!CacheAssumption
<1>3. Len(cache) = 0 /\ Len(recent) = 0
  BY <1>1
<1>4. /\ Len(cache) = IF Len(recent) < MaxSize THEN Len(recent) ELSE MaxSize
      /\ \A j \in 1..Len(cache) : cache[j] = recent[Len(recent) - Len(cache) + j]
  BY <1>2, <1>3
<1>5. IsInjective(recent)
  BY <1>1 DEF IsInjective
<1> QED BY <1>1, <1>4, <1>5 DEF CacheShape

(* What is cached are the transactions looked up last, in that order: the  *)
(* OrderedDict of cache.py is a least-recently-used cache.                 *)
THEOREM CacheHoldsMostRecent == Spec => []KeepsMostRecent
<1>1. CallbacksInvariant /\ CacheShape /\ [Next]_vars => CacheShape'
  BY CacheShapeKept
<1>2. CacheShape => KeepsMostRecent
  <2> SUFFICES ASSUME CacheShape
               PROVE  KeepsMostRecent
    OBVIOUS
  <2> DEFINE n == Len(recent)
             m == Len(cache)
             first == IF n > MaxSize THEN n - MaxSize + 1 ELSE 1
             tail == SubSeq(recent, first, n)
  <2>1. /\ n \in Nat /\ m \in Nat /\ m <= n /\ MaxSize \in Nat \ {0} /\ m <= MaxSize
        /\ m < MaxSize => n = m
        /\ DOMAIN recent = 1..n
    BY CacheLengths
  <2>2. /\ recent \in Seq(DOMAIN Funding) /\ cache \in Seq(DOMAIN Funding)
        /\ \A j \in 1..m : cache[j] = recent[n - m + j]
    BY DEF CacheShape
  <2>3. \A i \in 1..n : recent[i] \in DOMAIN Funding
    BY <2>2, LenProperties, ElementOfSeq
  <2> HIDE DEF n, m
  <2>4. first = n - m + 1 /\ first \in Int /\ n \in Int
    BY <2>1
  <2>5. \A i \in first..n : recent[i] \in DOMAIN Funding
    BY <2>1, <2>3, <2>4
  <2> HIDE DEF first
  <2>6. /\ tail \in Seq(DOMAIN Funding) /\ Len(tail) = IF first <= n THEN n - first + 1 ELSE 0
        /\ \A i \in 1..(n - first + 1) : tail[i] = recent[first + i - 1]
    BY <2>4, <2>5, SubSeqProperties
  <2> HIDE DEF tail
  <2>7. Len(tail) = m
    BY <2>1, <2>4, <2>6
  <2>8. ASSUME NEW j \in 1..m
        PROVE  cache[j] = tail[j]
    <3>1. j \in 1..(n - first + 1) /\ first + j - 1 = n - m + j
      BY <2>1, <2>4
    <3> QED BY <2>2, <2>6, <3>1
  <2>9. cache = tail
    BY <2>2, <2>6, <2>7, <2>8, SeqEqual DEF m
  <2> QED BY <2>9 DEF KeepsMostRecent, Cache!KeepsMostRecent, tail, first, n
<1> QED BY <1>1, <1>2, CacheShapeStarts, CallbacksInvariantHolds, PTL DEF Spec
=============================================================================
