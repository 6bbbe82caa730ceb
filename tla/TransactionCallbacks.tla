------------------------- MODULE TransactionCallbacks -------------------------
(***************************************************************************)
(* From a bitcoin transaction to the callbacks it causes: Transaction of   *)
(* bitcallback/bitmon/transaction.py sums up what the transaction moves    *)
(* from and to each address, TransactionMonitor lets it pass when it       *)
(* involves a monitored address, and _transaction_to_callbacks of          *)
(* SubscriptionManager (bitcallback/bitmon_task.py) makes a callback per   *)
(* subscription. An input names an output of an earlier transaction, which *)
(* is looked up in the cache (TxOutCache) and, when it is not there, asked *)
(* of the node, which may fail. Transactions follow each other, and the    *)
(* cache stays.                                                            *)
(***************************************************************************)
EXTENDS Integers, Sequences, FiniteSets

CONSTANTS
  Addr,         \* bitcoin addresses
  NonStandard,  \* an output without an address
  Sub,          \* subscriptions
  Funding,      \* the earlier transactions: what each paid
  Transactions, \* the transactions considered
  NoTx,         \* "no transaction"
  MaxSize       \* the size of the cache

(* A transaction output; an input; and a transaction. *)
TxOut == [addr : Addr \cup {NonStandard}, value : Nat]
OutPoint == [hash : DOMAIN Funding, n : Nat \ {0}]
Transaction == [coinbase : BOOLEAN, vin : Seq(OutPoint), vout : Seq(TxOut)]

VARIABLES
  tx,         \* the transaction, or NoTx between two
  looked,     \* how many of its inputs were looked up
  tin,        \* Transaction.tin: a dictionary from addresses to amounts
  subsByAddr, \* _subs_by_addr: a dictionary of nonempty sets
  made,       \* whether it was turned into callbacks
  callbacks,  \* these callbacks, pairs of subscription and amount
  cache, fetching, recent  \* its cache: see TxOutCache

cacheVars == <<cache, fetching, recent>>
vars == <<tx, looked, tin, subsByAddr, made, callbacks, cacheVars>>

Cache == INSTANCE TxOutCache WITH Tx <- DOMAIN Funding

ASSUME TransactionAssumption ==
  /\ NonStandard \notin Addr
  /\ \A t \in DOMAIN Funding : Funding[t] \in Seq(TxOut)
  /\ Transactions \subseteq Transaction
  /\ \A t \in Transactions : \A i \in DOMAIN t.vin :
       t.vin[i].n \in DOMAIN Funding[t.vin[i].hash]
  /\ NoTx \notin Transactions
  /\ Cache!CacheAssumption

-----------------------------------------------------------------------------
(* Transaction: the dictionaries tin and tout *)

AddressesIn(txouts) == {txouts[i].addr : i \in DOMAIN txouts} \ {NonStandard}

Empty == << >>

(* An output is added to the amount of its address. (Overwritten is the    *)
(* mistake of forgetting the amount there was.)                            *)
Overwritten(dict, out) ==
  IF out.addr = NonStandard THEN dict
  ELSE [a \in DOMAIN dict \cup {out.addr} |-> IF a = out.addr THEN out.value ELSE dict[a]]
Added(dict, out) ==
  IF out.addr = NonStandard THEN dict
  ELSE [a \in DOMAIN dict \cup {out.addr} |->
          (IF a \in DOMAIN dict THEN dict[a] ELSE 0) + (IF a = out.addr THEN out.value ELSE 0)]

(* The dictionary as it grows, output by output. *)
Dicts(txouts) ==
  LET dict[n \in 0..Len(txouts)] ==
        IF n = 0 THEN Empty ELSE Added(dict[n - 1], txouts[n])
  IN  dict

tout == Dicts(tx.vout)[Len(tx.vout)]

(* The outputs a transaction spends. *)
Output(outpoint) == Funding[outpoint.hash][outpoint.n]
Spent(t) == [i \in DOMAIN t.vin |-> Output(t.vin[i])]

(* What a coinbase spends comes from nowhere. *)
Inputs == IF tx.coinbase THEN << >> ELSE tx.vin

Unlooked == tx # NoTx /\ looked < Len(Inputs)
Prevout == Inputs[looked + 1]

(* An input's output is in the cache, or has come from the node. *)
LookUp ==
  /\ Unlooked
  /\ Cache!Found(Prevout.hash)
  /\ tin' = Added(tin, Output(Prevout))
  /\ looked' = looked + 1
  /\ UNCHANGED <<tx, subsByAddr, made, callbacks>>

AskNode ==
  /\ Unlooked
  /\ Cache!Miss(Prevout.hash)
  /\ UNCHANGED <<tx, looked, tin, subsByAddr, made, callbacks>>

Forget ==
  /\ tx' = NoTx /\ looked' = 0 /\ tin' = Empty
  /\ made' = FALSE /\ callbacks' = {}
  /\ UNCHANGED subsByAddr

(* The error leaves the constructor, and there is no transaction. *)
NodeFails == Cache!LoadFails /\ Forget

-----------------------------------------------------------------------------
(* The monitor's filter, and _transaction_to_callbacks *)

Monitored == DOMAIN subsByAddr

(* (OutputsOnly is the mistake of following the method's comment, which    *)
(* speaks of outputs.)                                                     *)
OutputsOnly(ins, outs) == DOMAIN outs \cap Monitored # {}
IsMonitored(ins, outs) == (DOMAIN outs \cup DOMAIN ins) \cap Monitored # {}

(* For an address that receives: unless it spends as much. *)
SpentBy(a) == IF a \in DOMAIN tin THEN tin[a] ELSE 0

Receipts ==
  UNION {{<<s, tout[a]>> : s \in subsByAddr[a]} :
           a \in {b \in DOMAIN tout \cap Monitored : tout[b] - SpentBy(b) # 0}}

(* The addresses that only spend. (AllSpenders is the mistake of leaving   *)
(* out the test for the other loop's addresses.)                           *)
AllSpenders == DOMAIN tin
PureSpenders == DOMAIN tin \ DOMAIN tout

Payments ==
  UNION {{<<s, -tin[a]>> : s \in subsByAddr[a]} : a \in PureSpenders \cap Monitored}

-----------------------------------------------------------------------------
(* The specification: transactions of any kind, whoever is subscribed *)

NonemptySets == (SUBSET Sub) \ {{}}

(* A subscription is for one address. *)
Disjoint(sets) ==
  \A a, b \in DOMAIN sets : a # b => sets[a] \cap sets[b] = {}

Init ==
  /\ \E keys \in SUBSET Addr : subsByAddr \in [keys -> NonemptySets] /\ Disjoint(subsByAddr)
  /\ tx = NoTx /\ looked = 0 /\ tin = Empty
  /\ made = FALSE /\ callbacks = {}
  /\ Cache!Init

NextTransaction ==
  /\ tx = NoTx
  /\ tx' \in Transactions
  /\ UNCHANGED <<looked, tin, subsByAddr, made, callbacks, cacheVars>>

MakeCallbacks ==
  /\ tx # NoTx /\ ~Unlooked /\ ~made
  /\ made' = TRUE
  /\ callbacks' = IF IsMonitored(tin, tout) THEN Receipts \cup Payments ELSE {}
  /\ UNCHANGED <<tx, looked, tin, subsByAddr, cacheVars>>

Done == made /\ Forget /\ UNCHANGED cacheVars

Next == NextTransaction \/ LookUp \/ AskNode \/ NodeFails \/ MakeCallbacks \/ Done

Spec == Init /\ [][Next]_vars

-----------------------------------------------------------------------------
(* Properties *)

(* What a transaction does to an address, computed from its lists.         *)
Sums(txouts, a) ==
  LET value[n \in 0..Len(txouts)] ==
        IF n = 0 THEN 0
        ELSE value[n - 1] + (IF txouts[n].addr = a THEN txouts[n].value ELSE 0)
  IN  value

SumOver(txouts, a) == Sums(txouts, a)[Len(txouts)]

Change(a) ==
  SumOver(tx.vout, a) - (IF tx.coinbase THEN 0 ELSE SumOver(Spent(tx), a))

(* A subscription gets one callback per transaction at most, even when its *)
(* address is among the inputs and the outputs, or several times in one.   *)
OncePerSubscription ==
  \A c, d \in callbacks : c[1] = d[1] => c = d

(* Everybody subscribed to an address whose balance the transaction        *)
(* changes gets a callback, and nobody else, except the subscribers of an  *)
(* address that only spends outputs of value 0.                            *)
ChangesAreNotified ==
  LET notified == {c[1] : c \in callbacks}
      zeroSpender == {a \in DOMAIN tin : tin[a] = 0}
  IN  made => \A a \in Monitored :
        /\ Change(a) # 0 => subsByAddr[a] \subseteq notified
        /\ Change(a) = 0 /\ a \notin zeroSpender => subsByAddr[a] \cap notified = {}

(* What is cached are the transactions looked up last: see TxOutCache. *)
KeepsMostRecent == Cache!KeepsMostRecent

(* A payment from an address that receives nothing back is reported in     *)
(* full, however many inputs it is made of.                                *)
SpentInFull ==
  \A c \in callbacks : \A a \in Monitored :
    c[1] \in subsByAddr[a] /\ a \notin AddressesIn(tx.vout) => c[2] = Change(a)

=============================================================================
