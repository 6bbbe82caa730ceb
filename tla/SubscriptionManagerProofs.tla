----------------------- MODULE SubscriptionManagerProofs -----------------------
(***************************************************************************)
(* Proofs about SubscriptionManager, for any number of subscriptions and   *)
(* addresses and any assignment of the ones to the others.                 *)
(***************************************************************************)
EXTENDS SubscriptionManager, TLAPS

USE SubscriptionAssumption

-----------------------------------------------------------------------------
(* What adding and cancelling do to the tables *)

(* What a call does to the tables and the monitor is independent of the    *)
(* database, so the invariant is taken apart.                              *)
TablesTypeOK ==
  /\ DOMAIN subsByAddr \subseteq Addr
  /\ \A a \in DOMAIN subsByAddr : subsByAddr[a] \subseteq Sub
  /\ subsById \subseteq Sub
  /\ connected \in BOOLEAN /\ monitored \subseteq Addr

LEMMA AddAllAgrees ==
  ASSUME TablesTypeOK, TablesAgree, NEW S \in SUBSET Sub, AddAll(S)
  PROVE  TablesTypeOK' /\ TablesAgree'
<1> DEFINE keys == DOMAIN subsByAddr \cup AddressesOf(S)
<1>1. AddressesOf(S) \subseteq Addr
  BY DEF AddressesOf
<1>2. /\ DOMAIN subsByAddr' = keys
      /\ \A a \in keys : subsByAddr'[a] = Subscribers(a) \cup {s \in S : AddrOf[s] = a}
      /\ subsById' = subsById \cup S
      /\ connected' = connected
  BY DEF AddAll
<1>3. \A a \in keys : Subscribers(a) = {s \in subsById : AddrOf[s] = a}
  BY DEF TablesAgree, Subscribers, AddressesOf
<1>4. keys = AddressesOf(subsById \cup S)
  BY DEF TablesAgree, AddressesOf
<1>5. \A a \in keys : subsByAddr'[a] = {s \in subsById \cup S : AddrOf[s] = a}
  BY <1>2, <1>3
<1>6. monitored' \subseteq Addr /\ (connected => monitored' = keys)
  BY <1>1 DEF AddAll, TablesTypeOK, TablesAgree
<1>7. TablesAgree'
  BY <1>2, <1>4, <1>5, <1>6 DEF TablesAgree, AddressesOf
<1>8. TablesTypeOK'
  BY <1>1, <1>2, <1>5, <1>6 DEF TablesTypeOK
<1> QED BY <1>7, <1>8

LEMMA CancelAllAgrees ==
  ASSUME TablesTypeOK, TablesAgree, NEW S \in SUBSET Sub, CancelAll(S)
  PROVE  TablesTypeOK' /\ TablesAgree'
<1> DEFINE left == [a \in DOMAIN subsByAddr |-> subsByAddr[a] \ S]
           keys == DOMAIN left \ LeftEmpty(left)
<1>1. /\ subsByAddr' = [a \in keys |-> left[a]]
      /\ subsById' = subsById \ S
      /\ connected' = connected
      /\ monitored' = IF connected THEN monitored \ LeftEmpty(left) ELSE monitored
  BY DEF CancelAll, Restrict
<1>2. \A a \in DOMAIN subsByAddr : left[a] = {s \in subsById \ S : AddrOf[s] = a}
  BY DEF TablesAgree
<1>3. keys = {a \in DOMAIN subsByAddr : left[a] # {}}
  BY DEF LeftEmpty
<1>4. keys = AddressesOf(subsById \ S)
  <2>1. ASSUME NEW a \in keys PROVE a \in AddressesOf(subsById \ S)
    BY <1>2, <1>3 DEF AddressesOf
  <2>2. ASSUME NEW s \in subsById \ S PROVE AddrOf[s] \in keys
    <3>1. AddrOf[s] \in DOMAIN subsByAddr
      BY DEF TablesAgree, AddressesOf
    <3> QED BY <1>2, <1>3, <3>1
  <2> QED BY <2>1, <2>2 DEF AddressesOf
<1>5. monitored' \subseteq Addr /\ (connected => monitored' = keys)
  BY <1>1 DEF TablesTypeOK, TablesAgree
<1>6. DOMAIN subsByAddr' = keys /\ \A a \in keys : subsByAddr'[a] = left[a]
  BY <1>1
<1>7. \A a \in keys : left[a] = {s \in subsById \ S : AddrOf[s] = a}
  BY <1>2
<1>8. TablesAgree'
  BY <1>1, <1>4, <1>5, <1>6, <1>7 DEF TablesAgree, AddressesOf
<1>9. TablesTypeOK'
  <2>1. keys \subseteq Addr
    BY DEF TablesTypeOK
  <2> QED BY <2>1, <1>1, <1>5, <1>6, <1>7 DEF TablesTypeOK
<1> QED BY <1>8, <1>9

-----------------------------------------------------------------------------
(* The inductive invariant *)

(* A subscription about to be marked expired is past its expiration: that  *)
(* is what makes MarkedAfterExpiration hold when the row is saved later.   *)
TablesInv ==
  /\ TypeOK
  /\ TablesAgree
  /\ EverySubExpires
  /\ expired \subseteq past

LEMMA TypeParts ==
  TypeOK <=> /\ rows \in [Sub -> RowState] /\ past \subseteq Sub
             /\ expired \subseteq Sub /\ table \in [Sub -> Nat]
             /\ TablesTypeOK
BY DEF TypeOK, TablesTypeOK

LEMMA InitTables == Init => TablesInv
<1> SUFFICES ASSUME Init PROVE TablesInv
  OBVIOUS
<1>1. rows \in [Sub -> RowState]
  BY DEF Init, RowState
<1>2. DOMAIN subsByAddr = {} /\ subsById = {} /\ expired = {} /\ past = {}
      /\ connected = FALSE /\ monitored = {} /\ table \in [Sub -> Nat]
  BY DEF Init, EmptyTables
<1>3. AddressesOf(subsById) = {}
  BY <1>2 DEF AddressesOf
<1>4. TypeOK
  BY <1>1, <1>2 DEF TypeOK
<1> QED BY <1>2, <1>3, <1>4 DEF TablesInv, TablesAgree, EverySubExpires

LEMMA AddKeepsInv ==
  ASSUME TablesInv, NEW S \in SUBSET Sub, AddAll(S), UNCHANGED <<rows, past, expired>>
  PROVE  TablesInv'
<1>1. TablesTypeOK' /\ TablesAgree'
  BY AddAllAgrees, TypeParts DEF TablesInv
<1>2. /\ table \in [Sub -> Nat] /\ subsById \subseteq Sub
      /\ \A s \in subsById : table[s] > 0
  BY DEF TablesInv, TypeOK, EverySubExpires
<1>3. /\ table' = [s \in Sub |-> IF s \in S THEN table[s] + 1 ELSE table[s]]
      /\ subsById' = subsById \cup S
  BY DEF AddAll, Pushed
<1>4. table' \in [Sub -> Nat] /\ \A s \in subsById' : table'[s] > 0
  BY <1>2, <1>3
<1>5. /\ rows' \in [Sub -> RowState] /\ past' \subseteq Sub
      /\ expired' \subseteq Sub /\ expired' \subseteq past'
  BY DEF TablesInv, TypeOK, RowState
<1>6. TypeOK'
  BY <1>1, <1>4, <1>5 DEF TypeOK, TablesTypeOK
<1> QED BY <1>1, <1>4, <1>5, <1>6 DEF TablesInv, EverySubExpires

LEMMA CancelKeepsInv ==
  ASSUME TablesInv, NEW s \in Sub, CancelSubscription(s)
  PROVE  TablesInv'
<1>1. TablesTypeOK' /\ TablesAgree'
  <2>1. CancelAll({s}) /\ {s} \in SUBSET Sub
    BY DEF CancelSubscription
  <2> QED BY <2>1, CancelAllAgrees, TypeParts DEF TablesInv
<1>2. subsById' \subseteq subsById /\ UNCHANGED <<rows, past, table, expired>>
  BY DEF CancelSubscription, CancelAll
<1>3. TypeOK'
  BY <1>1, <1>2 DEF TablesInv, TypeOK, TablesTypeOK, RowState
<1> QED BY <1>1, <1>2, <1>3 DEF TablesInv, EverySubExpires

LEMMA RemoveKeepsInv ==
  ASSUME TablesInv, RemoveExpired
  PROVE  TablesInv'
<1>1. DueEntries \in SUBSET Sub /\ DueEntries \subseteq past
  BY DEF TablesInv, TypeOK, DueEntries
<1>2. TablesTypeOK' /\ TablesAgree'
  BY <1>1, CancelAllAgrees, TypeParts DEF RemoveExpired, TablesInv
<1>3. /\ subsById' = subsById \ DueEntries
      /\ table' = [s \in Sub |-> IF s \in DueEntries THEN 0 ELSE table[s]]
      /\ expired' \subseteq DueEntries
      /\ UNCHANGED <<rows, past>>
  BY DEF RemoveExpired, CancelAll, StillServed
<1>4. /\ table \in [Sub -> Nat] /\ subsById \subseteq Sub
      /\ \A s \in subsById : table[s] > 0
  BY DEF TablesInv, TypeOK, EverySubExpires
<1>5. table' \in [Sub -> Nat] /\ \A s \in subsById' : table'[s] > 0
  BY <1>3, <1>4
<1>6. /\ rows' \in [Sub -> RowState] /\ past' \subseteq Sub
      /\ expired' \subseteq Sub /\ expired' \subseteq past'
  BY <1>1, <1>3 DEF TablesInv, TypeOK, RowState
<1>7. TypeOK'
  BY <1>2, <1>5, <1>6 DEF TypeOK, TablesTypeOK
<1> QED BY <1>2, <1>5, <1>6, <1>7 DEF TablesInv, EverySubExpires

LEMMA NextKeepsInv == TablesInv /\ [Next]_vars => TablesInv'
<1> SUFFICES ASSUME TablesInv, [Next]_vars PROVE TablesInv'
  OBVIOUS
<1>1. CASE Reload
  <2>1. {s \in Sub : Reloadable(rows[s])} \in SUBSET Sub
    OBVIOUS
  <2> QED BY <1>1, <2>1, AddKeepsInv DEF Reload
<1>2. ASSUME NEW s \in Sub, AddSubscription(s) PROVE TablesInv'
  <2>1. {s} \in SUBSET Sub
    OBVIOUS
  <2> QED BY <1>2, <2>1, AddKeepsInv DEF AddSubscription
<1>3. ASSUME NEW s \in Sub, CancelSubscription(s) PROVE TablesInv'
  BY <1>3, CancelKeepsInv
<1>4. CASE RemoveExpired
  BY <1>4, RemoveKeepsInv
<1>5. CASE SaveExpired
  <2>1. expired' = {} /\ UNCHANGED <<past, tableVars, monitorVars>>
    BY <1>5 DEF SaveExpired
  <2>2. rows' \in [Sub -> RowState]
    BY <1>5 DEF SaveExpired, TablesInv, TypeOK, RowState
  <2>3. TypeOK'
    BY <2>1, <2>2 DEF TablesInv, TypeOK, tableVars, monitorVars
  <2> QED
    BY <2>1, <2>3 DEF TablesInv, TablesAgree, AddressesOf, EverySubExpires,
                      tableVars, monitorVars
<1>6. CASE SetMonitor
  <2>1. /\ connected' = TRUE /\ monitored' = DOMAIN subsByAddr
        /\ UNCHANGED <<rows, past, tableVars, expired>>
    BY <1>6 DEF SetMonitor, AllKeys
  <2>2. TypeOK'
    BY <2>1 DEF TablesInv, TypeOK, tableVars, RowState
  <2> QED
    BY <2>1, <2>2 DEF TablesInv, TablesAgree, AddressesOf, EverySubExpires, tableVars
<1>7. CASE SetNoMonitor
  <2>1. /\ connected' = FALSE /\ monitored' = {}
        /\ UNCHANGED <<rows, past, tableVars, expired>>
    BY <1>7 DEF SetNoMonitor
  <2>2. TypeOK'
    BY <2>1 DEF TablesInv, TypeOK, tableVars, RowState
  <2> QED
    BY <2>1, <2>2 DEF TablesInv, TablesAgree, AddressesOf, EverySubExpires, tableVars
<1>8. ASSUME NEW s \in Sub, Expire(s) PROVE TablesInv'
  <2>1. past' = past \cup {s} /\ UNCHANGED <<rows, tableVars, expired, monitorVars>>
    BY <1>8 DEF Expire
  <2>2. TypeOK'
    BY <2>1 DEF TablesInv, TypeOK, tableVars, monitorVars, RowState
  <2> QED
    BY <2>1, <2>2 DEF TablesInv, TablesAgree, AddressesOf, EverySubExpires,
                      tableVars, monitorVars
<1>9. CASE UNCHANGED vars
  BY <1>9 DEF TablesInv, TypeOK, TablesAgree, AddressesOf, EverySubExpires, RowState,
              vars, tableVars, monitorVars
<1> QED
  BY <1>1, <1>2, <1>3, <1>4, <1>5, <1>6, <1>7, <1>8, <1>9 DEF Next, Call

(* It holds however additions, cancellations, expirations and restarts     *)
(* follow each other.                                                      *)
THEOREM TablesInvariant == Spec => []TablesInv
BY InitTables, NextKeepsInv, PTL DEF Spec

-----------------------------------------------------------------------------
(* The theorems *)

(* The type invariant holds, however the calls are ordered. *)
THEOREM TablesTypeCorrect == Spec => []TypeOK
<1>1. TablesInv => TypeOK
  BY DEF TablesInv
<1> QED BY <1>1, TablesInvariant, PTL

(* The two tables and the monitor's set of addresses agree. *)
THEOREM TablesAlwaysAgree == Spec => []TablesAgree
<1>1. TablesInv => TablesAgree
  BY DEF TablesInv
<1> QED BY <1>1, TablesInvariant, PTL

(* Every subscription that is served has an entry that ends it. *)
THEOREM ServedHasExpiration == Spec => []EverySubExpires
<1>1. TablesInv => EverySubExpires
  BY DEF TablesInv
<1> QED BY <1>1, TablesInvariant, PTL

(* Exactly the subscribers of the addresses a transaction involves are     *)
(* notified: the monitor lets it pass whenever one of them is in the table.*)
LEMMA NotifiedExactly ==
  ASSUME TablesAgree, connected, NEW involved \in SUBSET Addr
  PROVE  Notified(involved) = {s \in subsById : AddrOf[s] \in involved}
<1>1. /\ monitored = DOMAIN subsByAddr
      /\ DOMAIN subsByAddr = AddressesOf(subsById)
      /\ \A a \in DOMAIN subsByAddr : subsByAddr[a] = {s \in subsById : AddrOf[s] = a}
  BY DEF TablesAgree
<1>2. CASE involved \cap monitored = {}
  BY <1>1, <1>2 DEF Notified, AddressesOf
<1>3. CASE involved \cap monitored # {}
  <2>1. Notified(involved) = UNION {subsByAddr[a] : a \in involved \cap DOMAIN subsByAddr}
    BY <1>3 DEF Notified
  <2> QED BY <1>1, <2>1 DEF AddressesOf
<1> QED BY <1>2, <1>3

(* The same of every reachable state, whichever subscriptions came and     *)
(* went and however often the monitor was replaced.                        *)
THEOREM ExactlySubscribersNotified == Spec => []SubscribersNotified
<1>1. TablesInv => SubscribersNotified
  BY NotifiedExactly DEF TablesInv, SubscribersNotified
<1> QED BY <1>1, TablesInvariant, PTL

(* A row is marked expired only when its expiration has passed, although   *)
(* the marking comes later than the decision and looks at nothing again.   *)
THEOREM OnlyPastMarked == Spec => MarkedAfterExpiration
<1>1. TablesInv /\ [Next]_vars =>
        [\A s \in Sub : rows'[s] = "expired" => rows[s] = "expired" \/ s \in past]_vars
  <2> SUFFICES ASSUME TablesInv, Next, NEW s \in Sub, rows'[s] = "expired"
               PROVE  rows[s] = "expired" \/ s \in past
    OBVIOUS
  <2>1. CASE SaveExpired
    BY <2>1 DEF SaveExpired, TablesInv
  <2>2. CASE ~SaveExpired
    <3>1. rows' = rows
      BY <2>2 DEF Next, Call, Reload, AddSubscription, CancelSubscription,
                  RemoveExpired, SetMonitor, SetNoMonitor, Expire
    <3> QED BY <3>1
  <2> QED BY <2>1, <2>2
<1> QED BY <1>1, TablesInvariant, PTL DEF Spec, MarkedAfterExpiration

=============================================================================
