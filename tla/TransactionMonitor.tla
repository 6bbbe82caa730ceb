-------------------------- MODULE TransactionMonitor --------------------------
(***************************************************************************)
(* The reader of the block chain of bitcallback/bitmon/monitor.py, and the *)
(* chain it reads. get_confirmed handles at most one block: it asks for    *)
(* the height of the chain and, when that has grown, fetches the block     *)
(* _confirmations - 1 below the last height it has handled. Between the    *)
(* two calls, as between any two, the node may append blocks or replace    *)
(* the newest ones by a longer branch. The calls getblockhash and getblock *)
(* are one step: the node answers for a hash whether or not the block is   *)
(* still on its best chain. The addresses being monitored are in           *)
(* SubscriptionManager.                                                    *)
(***************************************************************************)
EXTENDS Integers, Sequences

CONSTANTS
  Confirmations,  \* CONFIRMATIONS
  Contents,       \* what a block may contain
  Offline,        \* there is no monitor: the node was not reached yet
  FirstTip,       \* height of the chain in the beginning
  MaxTip,         \* bound: the height of the chain
  MaxReorg,       \* how many blocks a reorganisation replaces at most
  MaxForks        \* bound: the number of reorganisations

ASSUME MonitorAssumption ==
  /\ Confirmations \in Nat \ {0}
  /\ FirstTip \in Nat /\ MaxTip \in Nat /\ FirstTip <= MaxTip
  /\ MaxReorg \in Nat /\ MaxForks \in Nat
  /\ Offline \notin Int

VARIABLES
  chain,      \* the node's best chain: chain[h] is the block at height h
  forks,      \* reorganisations so far, which tells blocks of one height apart
  current,    \* _current_block, or Offline
  behind,     \* getblockcount answered with a new height
  accepted    \* history: the blocks handled, with their heights

chainVars == <<chain, forks>>
vars == <<chain, forks, current, behind, accepted>>

tip == CHOOSE h \in DOMAIN chain : h + 1 \notin DOMAIN chain

Block == [fork : Nat, has : Contents]

Init ==
  /\ chain \in [0..FirstTip -> [fork : {0}, has : Contents]]
  /\ forks = 0
  /\ current = Offline /\ behind = FALSE /\ accepted = << >>

-----------------------------------------------------------------------------
(* The node *)

NewBlock ==
  /\ tip < MaxTip
  /\ \E has \in Contents :
       chain' = [h \in 0..tip + 1 |->
                   IF h \in DOMAIN chain THEN chain[h] ELSE [fork |-> forks, has |-> has]]
  /\ UNCHANGED <<forks, current, behind, accepted>>

(* The newest d blocks are replaced by d + 1 others. *)
Reorganise(d) ==
  /\ forks < MaxForks
  /\ d <= tip /\ tip < MaxTip
  /\ forks' = forks + 1
  /\ \E has \in [tip - d + 1..tip + 1 -> Contents] :
       chain' = [h \in 0..tip + 1 |->
                   IF h \in DOMAIN has THEN [fork |-> forks', has |-> has[h]] ELSE chain[h]]
  /\ UNCHANGED <<current, behind, accepted>>

-----------------------------------------------------------------------------
(* The monitor *)

(* __init__: a negative start counts from the end of the chain. *)
Connect(start) ==
  /\ current = Offline
  /\ current' = IF start < 0 THEN tip + start + 1 ELSE start
  /\ UNCHANGED <<chain, forks, behind, accepted>>

(* getblockcount: nothing new. (A node may be behind the saved height.) *)
NothingNew ==
  /\ current # Offline /\ ~behind
  /\ tip <= current
  /\ UNCHANGED vars

(* getblockcount: the chain has grown. *)
NewHeight ==
  /\ current # Offline /\ ~behind
  /\ current < tip
  /\ behind' = TRUE
  /\ UNCHANGED <<chain, forks, current, accepted>>

(* The height that is handled next. (OneTooNew is an off-by-one.) *)
OneTooNew(height) == height - Confirmations + 2
MonitoredBlock(height) == height - Confirmations + 1

(* The step to the next height. (OneTooFar is an off-by-one.) *)
OneTooFar(height) == height + 2
NextHeight(height) == height + 1

(* The block is loaded and handled. The node has no block below height 0.  *)
LoadBlock ==
  /\ behind
  /\ MonitoredBlock(current) \in DOMAIN chain
  /\ accepted' = Append(accepted, [height |-> MonitoredBlock(current),
                                   block |-> chain[MonitoredBlock(current)]])
  /\ current' = NextHeight(current)
  /\ behind' = FALSE
  /\ UNCHANGED <<chain, forks>>

(* A call raises: the connection is lost, or the node has no such block.   *)
(* The monitor keeps its state and would go on with the next poll.         *)
CallFails ==
  /\ behind
  /\ behind' = FALSE
  /\ UNCHANGED <<chain, forks, current, accepted>>

-----------------------------------------------------------------------------
(* The specification *)

NodeStep == NewBlock \/ \E d \in 1..MaxReorg : Reorganise(d)
Poll == NewHeight \/ LoadBlock

(* Monitoring starts at the newest block or where it stopped last time. *)
Next ==
  \/ NodeStep
  \/ \E start \in -1..FirstTip : Connect(start)
  \/ NothingNew \/ Poll \/ CallFails

Spec == Init /\ [][Next]_vars

(* The monitor is polled again and again, and calls that are tried again   *)
(* and again succeed some time.                                            *)
FairSpec == Spec /\ WF_vars(NewHeight) /\ SF_vars(LoadBlock)

-----------------------------------------------------------------------------
(* Properties *)

(* Type invariant. The monitor is never ahead of the chain. *)
TypeOK ==
  /\ DOMAIN chain \in {0..h : h \in FirstTip..MaxTip}
  /\ \A h \in DOMAIN chain : chain[h] \in Block /\ chain[h].fork <= forks
  /\ forks \in 0..MaxForks
  /\ current \in Int \cup {Offline} /\ (current # Offline => current <= tip)
  /\ behind \in BOOLEAN
  /\ accepted \in Seq([height : Nat, block : Block])

(* A block that was handled stays on the chain, although blocks are        *)
(* appended and replaced between getblockcount and the loading of the      *)
(* block, as long as no reorganisation replaces more than CONFIRMATIONS    *)
(* blocks: nobody is notified of a transaction that is undone.             *)
AcceptedIsFinal ==
  \A i \in DOMAIN accepted : chain[accepted[i].height] = accepted[i].block

(* No height is skipped or handled twice, however many blocks arrive       *)
(* between two polls and however often a call fails in between.            *)
OneAfterAnother ==
  \A i \in 2..Len(accepted) : accepted[i].height = accepted[i - 1].height + 1

(* Having fallen behind by any number of blocks, the monitor catches up,   *)
(* one block per poll: in the end it is at the tip. A start below height   *)
(* CONFIRMATIONS - 1 is excepted: the node has no block at the negative    *)
(* height that would be handled first.                                     *)
CatchesUp ==
  current # Offline /\ MonitoredBlock(current) \in DOMAIN chain
    ~> current = tip

=============================================================================
