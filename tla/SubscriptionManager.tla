------------------------- MODULE SubscriptionManager -------------------------
(***************************************************************************)
(* The tables of the SubscriptionManager of bitcallback/bitmon_task.py and *)
(* the set of addresses its TransactionMonitor looks for. All of it is     *)
(* used by one thread; a call is one step, except the removal of expired   *)
(* subscriptions, which changes the tables first and the database later.   *)
(***************************************************************************)
EXTENDS Integers, FiniteSets, Functions

CONSTANTS
  Sub,        \* subscription ids
  Addr,       \* bitcoin addresses
  AddrOf,     \* AddrOf[s]: the address s is for
  MaxEntries  \* bound: entries of one subscription in the expiration table

ASSUME SubscriptionAssumption ==
  /\ IsFiniteSet(Sub)
  /\ AddrOf \in [Sub -> Addr]
  /\ MaxEntries \in Nat \ {0}

VARIABLES
  rows,        \* state column of the table subscriptions; "none" without a row
  past,        \* the subscriptions whose expiration lies in the past
  subsByAddr,  \* _subs_by_addr, a dictionary of sets
  subsById,    \* keys of _subs_by_id
  table,       \* _expiration_table: the number of entries of each subscription
  expired,     \* expired: the subscriptions to be marked in the database
  connected,   \* _monitor is not None
  monitored    \* the monitor's _monitored

tableVars == <<subsByAddr, subsById, table>>
monitorVars == <<connected, monitored>>
vars == <<rows, past, tableVars, expired, monitorVars>>

RowState == {"none", "active", "canceled", "expired"}

AddressesOf(S) == {AddrOf[s] : s \in S}
Subscribers(a) == IF a \in DOMAIN subsByAddr THEN subsByAddr[a] ELSE {}

(* The tables as __init__ sets them up; the monitor comes later. *)
EmptyTables ==
  /\ subsByAddr = [a \in {} |-> {}] /\ subsById = {}
  /\ table = [s \in Sub |-> 0]
  /\ expired = {}
  /\ connected = FALSE /\ monitored = {}

ClearTables ==
  /\ subsByAddr' = [a \in {} |-> {}] /\ subsById' = {}
  /\ table' = [s \in Sub |-> 0]
  /\ expired' = {}
  /\ connected' = FALSE /\ monitored' = {}

Init ==
  /\ rows \in [Sub -> {"active", "canceled"}] /\ past = {}
  /\ EmptyTables

-----------------------------------------------------------------------------
(* Adding *)

(* One entry more in the expiration table. (PushedOnline is the mistake of *)
(* adding it together with the address.)                                   *)
PushedOnline(entries) == IF connected THEN entries + 1 ELSE entries
Pushed(entries) == entries + 1

(* add_subscription for each member of S; the monitor is told of addresses *)
(* that are new in the table.                                              *)
AddAll(S) ==
  /\ subsByAddr' = [a \in DOMAIN subsByAddr \cup AddressesOf(S) |->
                      Subscribers(a) \cup {s \in S : AddrOf[s] = a}]
  /\ subsById' = subsById \cup S
  /\ table' = [s \in Sub |-> IF s \in S THEN Pushed(table[s]) ELSE table[s]]
  /\ monitored' = IF connected
                    THEN monitored \cup (AddressesOf(S) \ DOMAIN subsByAddr)
                    ELSE monitored
  /\ UNCHANGED connected

(* __init__: what is active in the database, expired or not. (AnyState is  *)
(* the mistake of leaving out the filter.)                                 *)
AnyState(row) == row # "none"
Reloadable(row) == row = "active"

Reload ==
  /\ AddAll({s \in Sub : Reloadable(rows[s])})
  /\ UNCHANGED <<rows, past, expired>>

AddSubscription(s) ==
  /\ table[s] < MaxEntries
  /\ AddAll({s})
  /\ UNCHANGED <<rows, past, expired>>

-----------------------------------------------------------------------------
(* Cancelling *)

(* The addresses whose sets have become empty. (NoneOfThem is the mistake  *)
(* of leaving an empty set behind, which a defaultdict invites.)           *)
NoneOfThem(sets) == {}
LeftEmpty(sets) == {a \in DOMAIN sets : sets[a] = {}}

(* cancel_subscription for each member of S; unknown ids are skipped, and  *)
(* an address nobody is subscribed to any more leaves table and monitor.   *)
CancelAll(S) ==
  LET left == [a \in DOMAIN subsByAddr |-> subsByAddr[a] \ S]
      empty == LeftEmpty(left)
  IN  /\ subsById' = subsById \ S
      /\ subsByAddr' = Restrict(left, DOMAIN left \ empty)
      /\ monitored' = IF connected THEN monitored \ empty ELSE monitored
      /\ UNCHANGED connected

CancelSubscription(s) ==
  /\ CancelAll({s})
  /\ UNCHANGED <<rows, past, table, expired>>

(* The entries of the expiration table that are due. (AllEntries is the    *)
(* mistake of popping without looking at the clock.)                       *)
AllEntries == {s \in Sub : table[s] > 0}
DueEntries == {s \in past : table[s] > 0}

(* Those of the popped entries that are to be marked. *)
StillServed(popped) == popped \cap subsById

(* _remove_expired_subscriptions: all due entries are popped, and those    *)
(* not cancelled yet are cancelled ...                                     *)
RemoveExpired ==
  /\ expired' = StillServed(DueEntries)
  /\ CancelAll(DueEntries)
  /\ table' = [s \in Sub |-> IF s \in DueEntries THEN 0 ELSE table[s]]
  /\ UNCHANGED <<rows, past>>

(* ... and then marked, whatever their rows say by now. (They are also     *)
(* cancelled again, which finds none of them.)                             *)
SaveExpired ==
  /\ expired # {}
  /\ rows' = [s \in Sub |-> IF s \in expired THEN "expired" ELSE rows[s]]
  /\ expired' = {}
  /\ UNCHANGED <<past, tableVars, monitorVars>>

-----------------------------------------------------------------------------
(* The monitor *)

(* What a new monitor is told to look for. (Nothing is the mistake of      *)
(* leaving it to add_subscription, AllValues that of passing subscribers.) *)
Nothing(sets) == {}
AllValues(sets) == UNION {sets[a] : a \in DOMAIN sets}
AllKeys(sets) == DOMAIN sets

(* set_transaction_monitor with a new monitor, and with None. *)
SetMonitor ==
  /\ connected' = TRUE
  /\ monitored' = AllKeys(subsByAddr)
  /\ UNCHANGED <<rows, past, tableVars, expired>>

SetNoMonitor ==
  /\ connected
  /\ connected' = FALSE /\ monitored' = {}
  /\ UNCHANGED <<rows, past, tableVars, expired>>

(* The subscriptions to be notified of a transaction that involves the     *)
(* addresses in involved: the monitor lets it pass when it looks for one   *)
(* of them, and _transaction_to_callbacks picks those of its addresses     *)
(* that are in the table.                                                  *)
Notified(involved) ==
  IF involved \cap monitored = {} THEN {}
  ELSE UNION {subsByAddr[a] : a \in involved \cap DOMAIN subsByAddr}

-----------------------------------------------------------------------------
(* The specification: the calls in any order, while time passes, and the   *)
(* removal of expired subscriptions finished before the next call          *)

Expire(s) ==
  /\ s \notin past
  /\ past' = past \cup {s}
  /\ UNCHANGED <<rows, tableVars, expired, monitorVars>>

Call ==
  \/ subsById = {} /\ (\A s \in Sub : table[s] = 0) /\ Reload
  \/ \E s \in Sub : AddSubscription(s) \/ CancelSubscription(s)
  \/ RemoveExpired
  \/ SetMonitor \/ SetNoMonitor

Next ==
  \/ expired = {} /\ Call
  \/ SaveExpired
  \/ \E s \in Sub : Expire(s)

Spec == Init /\ [][Next]_vars

-----------------------------------------------------------------------------
(* Properties *)

(* Type invariant. *)
TypeOK ==
  /\ rows \in [Sub -> RowState] /\ past \subseteq Sub
  /\ DOMAIN subsByAddr \subseteq Addr
  /\ \A a \in DOMAIN subsByAddr : subsByAddr[a] \subseteq Sub
  /\ subsById \subseteq Sub /\ expired \subseteq Sub
  /\ table \in [Sub -> Nat]
  /\ connected \in BOOLEAN /\ monitored \subseteq Addr

(* The two tables and the monitor agree: they hold the same subscriptions, *)
(* each under its address, and no address is kept or looked for without    *)
(* subscribers. (An empty set left behind would make add_subscription take *)
(* the address for one that is monitored already.)                         *)
TablesAgree ==
  /\ DOMAIN subsByAddr = AddressesOf(subsById)
  /\ \A a \in DOMAIN subsByAddr : subsByAddr[a] = {s \in subsById : AddrOf[s] = a}
  /\ connected => monitored = DOMAIN subsByAddr

(* Every subscriber of an address is notified of a transaction that        *)
(* involves it and nobody else is, whichever subscriptions came and went   *)
(* for that address and however often the monitor was lost and replaced.   *)
SubscribersNotified ==
  connected =>
    \A involved \in SUBSET Addr :
      Notified(involved) = {s \in subsById : AddrOf[s] \in involved}

(* A subscription that is being served has an entry in the expiration      *)
(* table, so that it ends; added a second time while it is served (it was  *)
(* reloaded and then announced), or added again after it was cancelled, it *)
(* is not kept by an entry used up by its earlier life.                    *)
EverySubExpires == \A s \in subsById : table[s] > 0

(* Only subscriptions that were past their expiration are marked expired.  *)
MarkedAfterExpiration ==
  [][\A s \in Sub : rows'[s] = "expired" => rows[s] = "expired" \/ s \in past]_vars

=============================================================================
