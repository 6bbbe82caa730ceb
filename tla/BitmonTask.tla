------------------------------ MODULE BitmonTask ------------------------------
(***************************************************************************)
(* The process that watches the block chain: BitmonTask of                 *)
(* bitcallback/bitmon_task.py with its SubscriptionManager and             *)
(* TransactionMonitor, its command queue, the handlers of views.py that    *)
(* create and cancel subscriptions, and the two tables it is restored      *)
(* from (subscriptions and lastblock).                                     *)
(*                                                                         *)
(* The process is one thread: it takes a command, or polls the node, or    *)
(* goes on with a poll. A poll is a step for each database transaction,    *)
(* each call of the node and each callback sent on, because the handlers   *)
(* and the node work in between and the process may be killed anywhere.    *)
(* Abstractions: one transaction of interest per block, which involves the *)
(* addresses in the block's content; a failed attempt to connect changes   *)
(* nothing and is left out.                                                *)
(***************************************************************************)
EXTENDS Integers, Sequences, FiniteSets, Functions

CONSTANTS
  Sub, Addr, AddrOf,                                     \* see SubscriptionManager
  Confirmations, Contents, Offline,
  FirstTip, MaxTip, MaxReorg, MaxForks,                  \* see TransactionMonitor
  NoCommand,    \* nothing to tell bitmon
  NoBlock,      \* lastblock is empty
  QueueSize,    \* QUEUE_SIZE of the command queue
  FromLast,     \* START_BLOCK is 'last'
  ReloadSubs,   \* RELOAD_SUBSCRIPTIONS
  RpcMayFail,   \* whether the node or the database may fail during a poll
  MaxRestarts   \* bound: how often the application is started again

VARIABLES
  (* The database: rows as in SubscriptionManager, and the last block *)
  rows, blockRow,
  (* The flask process *)
  app,         \* "up", or "closing" once clean_up has begun
  telling,     \* the command a handler is about to send, its commit done
  bitmonQ,     \* _input_q
  restarts,    \* how often the application was started again
  unannounced, \* subscriptions created without a command since the process
               \* last read the table (history)
  (* The bitmon process *)
  bpc,         \* where the dispatch loop is
  ownBlock,    \* BitmonTask._current_block
  out,         \* callbacks of this poll not yet sent: pairs of subscription, height
  past, subsByAddr, subsById, table, expired, monitored,  \* its SubscriptionManager
  current, behind, accepted,                              \* its TransactionMonitor
  (* The node *)
  chain, forks,
  (* What was given to CallbackTask.new_callback (history) *)
  sent

dbVars == <<rows, blockRow>>
flaskVars == <<app, telling, bitmonQ, restarts, unannounced>>
subsVars == <<subsByAddr, subsById, table, expired, monitored>>
monitorVars == <<current, behind, accepted>>
chainVars == <<chain, forks>>
taskVars == <<bpc, ownBlock, out>>
vars == <<dbVars, flaskVars, taskVars, past, subsVars, monitorVars, chainVars, sent>>

Monitor == INSTANCE TransactionMonitor
Subs == INSTANCE SubscriptionManager WITH
  connected <- (current # Offline), MaxEntries <- MaxRestarts + 2

ASSUME BitmonAssumption ==
  /\ Monitor!MonitorAssumption /\ Subs!SubscriptionAssumption
  /\ QueueSize \in Nat \ {0} /\ MaxRestarts \in Nat
  /\ FromLast \in BOOLEAN /\ ReloadSubs \in BOOLEAN
  /\ RpcMayFail \in BOOLEAN
  /\ NoBlock \notin Int /\ NoCommand \notin Sub
  /\ NoCommand \notin [cmd : {"NEW_SUBSCRIPTION", "CANCEL_SUBSCRIPTION"}, id : Sub]
  /\ \A has \in Contents : has \subseteq Addr

Running == bpc \notin {"dead", "exited"}

Init ==
  /\ rows = [s \in Sub |-> "none"] /\ blockRow = NoBlock
  /\ app = "up" /\ telling = NoCommand /\ bitmonQ = << >> /\ restarts = 0
  /\ unannounced = {}
  /\ bpc = "init" /\ ownBlock = -1 /\ out = {}
  /\ past = {}
  /\ Monitor!Init
  /\ Subs!EmptyTables
  /\ sent = {}

(* What is lost when the process ends. *)
ForgetMemory ==
  /\ current' = Offline /\ behind' = FALSE
  /\ Subs!ClearTables
  /\ ownBlock' = -1 /\ out' = {}

-----------------------------------------------------------------------------
(* The flask process *)

(* new_subscription, cancel_subscription and close: one put each, which    *)
(* waits while the queue is full.                                          *)
Command(cmd, s) == [cmd |-> cmd, id |-> s]

Put(msg) ==
  /\ Len(bitmonQ) < QueueSize
  /\ bitmonQ' = Append(bitmonQ, msg)

Handler ==
  /\ app = "up" /\ telling = NoCommand
  /\ UNCHANGED <<blockRow, app, bitmonQ, restarts, taskVars, past, subsVars,
                 monitorVars, chainVars, sent>>

(* POST /subscription commits the row and calls new_subscripition, a name *)
(* BitmonTask does not have: the request fails, nothing is put, the row    *)
(* stays.                                                                  *)
PostSubscription(s) ==
  /\ Handler
  /\ rows[s] = "none"
  /\ rows' = [rows EXCEPT ![s] = "active"]
  /\ unannounced' = unannounced \cup {s}
  /\ UNCHANGED telling

(* What new_subscription puts. (NotAnnounced is the mistake of putting     *)
(* nothing.)                                                               *)
NotAnnounced(s) == NoCommand
Announcement(s) == Command("NEW_SUBSCRIPTION", s)

(* GET /test_subscription commits the row before it tells the process. The *)
(* two other rows of its commit are told to nobody: they are created like  *)
(* those of POSTs.                                                         *)
TestSubscription(s) ==
  /\ Handler
  /\ rows[s] = "none"
  /\ rows' = [rows EXCEPT ![s] = "active"]
  /\ telling' = Announcement(s)
  /\ UNCHANGED unannounced

(* PATCH /subscription/<id> cancels whatever is not cancelled yet. *)
PatchSubscription(s) ==
  /\ Handler
  /\ rows[s] \notin {"none", "canceled"}
  /\ rows' = [rows EXCEPT ![s] = "canceled"]
  /\ telling' = Command("CANCEL_SUBSCRIPTION", s)
  /\ UNCHANGED unannounced

SendCommand ==
  /\ telling # NoCommand
  /\ Put(telling)
  /\ telling' = NoCommand
  /\ UNCHANGED <<dbVars, app, restarts, unannounced, taskVars, past, subsVars,
                 monitorVars, chainVars, sent>>

(* clean_up closes this task first. *)
CloseTask ==
  /\ app = "up" /\ telling = NoCommand
  /\ app' = "closing"
  /\ Put(Command("EXIT_TASK", NoCommand))
  /\ UNCHANGED <<dbVars, telling, restarts, unannounced, taskVars, past, subsVars,
                 monitorVars, chainVars, sent>>

-----------------------------------------------------------------------------
(* Starting and stopping *)

(* Where monitoring starts. (FromGenesis is the mistake of defaulting to   *)
(* block 0.)                                                               *)
FromGenesis == 0
StartBlock == IF FromLast /\ blockRow # NoBlock THEN blockRow ELSE -1

(* _init_task: the saved block and the active subscriptions are read. *)
LoadState ==
  /\ bpc = "init"
  /\ ownBlock' = StartBlock
  /\ bpc' = "idle"
  /\ UNCHANGED <<blockRow, app, telling, bitmonQ, restarts, out, monitorVars, chainVars,
                 sent>>
  /\ IF ReloadSubs
       THEN Subs!Reload /\ unannounced' = {}
       ELSE UNCHANGED <<rows, past, subsVars, unannounced>>

Dies ==
  /\ bpc' = "dead"
  /\ ForgetMemory
  /\ UNCHANGED <<dbVars, past, accepted, chainVars, sent>>

(* The process is killed. Bound: only while it can be started again. *)
TaskDies ==
  /\ Running
  /\ restarts < MaxRestarts
  /\ Dies
  /\ UNCHANGED flaskVars

(* The whole application is started again. *)
Restart ==
  /\ ~Running
  /\ restarts < MaxRestarts
  /\ restarts' = restarts + 1
  /\ app' = "up" /\ telling' = NoCommand /\ bitmonQ' = << >>
  /\ bpc' = "init"
  /\ ForgetMemory
  /\ UNCHANGED <<dbVars, unannounced, past, accepted, chainVars, sent>>

-----------------------------------------------------------------------------
(* Commands *)

(* (Peeked is the mistake of leaving the command in the queue.) *)
Peeked(cmd) ==
  /\ bpc = "idle"
  /\ bitmonQ # << >> /\ Head(bitmonQ).cmd = cmd
  /\ UNCHANGED flaskVars
GetCommand(cmd) ==
  /\ bpc = "idle"
  /\ bitmonQ # << >> /\ Head(bitmonQ).cmd = cmd
  /\ bitmonQ' = Tail(bitmonQ)
  /\ UNCHANGED <<app, telling, restarts, unannounced>>

GetNew ==
  /\ GetCommand("NEW_SUBSCRIPTION")
  /\ UNCHANGED <<blockRow, taskVars, monitorVars, chainVars, sent>>
  /\ Subs!AddSubscription(Head(bitmonQ).id)

(* The id sent with the command is an int; looking for its .id raises, and *)
(* the loop catches queue.Empty only.                                      *)
GetCancel ==
  /\ GetCommand("CANCEL_SUBSCRIPTION")
  /\ Dies

GetExit ==
  /\ GetCommand("EXIT_TASK")
  /\ bpc' = "exited"
  /\ UNCHANGED <<dbVars, ownBlock, out, past, subsVars, monitorVars, chainVars, sent>>

-----------------------------------------------------------------------------
(* Polling *)

PollFrame == UNCHANGED <<flaskVars, chainVars>>

(* _connect_bitcoind: the new monitor is told the addresses and starts at  *)
(* the saved block or at the newest.                                       *)
Connect ==
  /\ bpc = "idle"
  /\ Monitor!Connect(ownBlock)
  /\ Subs!SetMonitor
  /\ bpc' = "poll"
  /\ PollFrame
  /\ UNCHANGED <<blockRow, ownBlock, out, sent>>

BeginPoll ==
  /\ bpc = "idle" /\ current # Offline
  /\ bpc' = "poll"
  /\ PollFrame
  /\ UNCHANGED <<dbVars, ownBlock, out, past, subsVars, monitorVars, sent>>

RemoveExpired ==
  /\ bpc = "poll"
  /\ UNCHANGED monitorVars
  /\ Subs!RemoveExpired
  /\ bpc' = IF expired' # {} THEN "expire" ELSE "ask"
  /\ PollFrame
  /\ UNCHANGED <<blockRow, ownBlock, out, sent>>

SaveExpired ==
  /\ bpc = "expire"
  /\ UNCHANGED monitorVars
  /\ Subs!SaveExpired
  /\ bpc' = "ask"
  /\ PollFrame
  /\ UNCHANGED <<blockRow, ownBlock, out, sent>>

(* get_confirmed. *)
AskHeight ==
  /\ bpc = "ask"
  /\ \/ Monitor!NothingNew /\ bpc' = "send"
     \/ Monitor!NewHeight /\ bpc' = "load"
  /\ PollFrame
  /\ UNCHANGED <<dbVars, ownBlock, out, past, subsVars, sent>>

LoadBlock ==
  /\ bpc = "load"
  /\ Monitor!LoadBlock
  /\ LET h == Monitor!MonitoredBlock(current)
     IN  out' = Subs!Notified(chain[h].has) \X {h}
  /\ bpc' = "send"
  /\ PollFrame
  /\ UNCHANGED <<dbVars, ownBlock, past, subsVars, sent>>

(* What has to be sent before the block number is saved. (NoCallbacks is   *)
(* the mistake of saving it without waiting for them.)                     *)
NoCallbacks == {}
Unsent == out

(* The block number is about to be saved: it has changed, or was unknown.  *)
SavesBlock == bpc = "send" /\ Unsent = {} /\ ownBlock # current

(* A call of the node or a transaction of the database raises: what is     *)
(* caught in _send_confirmed ends in the use of a name that is not defined,*)
(* and the save of the block number is outside of the try.                 *)
PollFails ==
  /\ RpcMayFail
  /\ bpc \in {"expire", "ask", "load"} \/ SavesBlock
  /\ Dies
  /\ UNCHANGED flaskVars

SendCallback(cback) ==
  /\ bpc = "send" /\ cback \in out
  /\ out' = out \ {cback} /\ sent' = sent \cup {cback}
  /\ PollFrame
  /\ UNCHANGED <<dbVars, bpc, ownBlock, past, subsVars, monitorVars>>

SaveBlock ==
  /\ bpc = "send" /\ Unsent = {}
  /\ blockRow' = IF SavesBlock THEN current ELSE blockRow
  /\ ownBlock' = current
  /\ bpc' = "idle"
  /\ PollFrame
  /\ UNCHANGED <<rows, out, past, subsVars, monitorVars, sent>>

-----------------------------------------------------------------------------
(* The specification *)

Requests ==
  \E s \in Sub : PostSubscription(s) \/ TestSubscription(s) \/ PatchSubscription(s)

CommandStep == GetNew \/ GetCancel \/ GetExit

BeginStep == Connect \/ BeginPoll
LocalStep ==
  LoadState \/ RemoveExpired \/ SaveExpired \/ AskHeight \/ LoadBlock \/ SaveBlock
SendStep == \E cback \in out : SendCallback(cback)

(* The node works on, and subscriptions expire. *)
WorldStep ==
  \/ /\ Monitor!NodeStep
     /\ UNCHANGED <<dbVars, flaskVars, taskVars, past, subsVars, sent>>
  \/ \E s \in Sub :
       /\ rows[s] # "none" /\ s \notin past
       /\ past' = past \cup {s}
       /\ UNCHANGED <<dbVars, flaskVars, taskVars, subsVars, monitorVars, chainVars, sent>>

Next ==
  \/ Requests \/ SendCommand \/ CloseTask
  \/ CommandStep \/ BeginStep \/ LocalStep \/ SendStep \/ PollFails
  \/ WorldStep \/ TaskDies \/ Restart

Spec == Init /\ [][Next]_vars

(* The process goes on while it can. Its loop takes a command each time    *)
(* round and polls every five seconds, so that both happen again and again *)
(* whenever they can. A handler that has committed goes on to its put.     *)
FairSpec ==
  /\ Spec
  /\ WF_vars(SendCommand)
  /\ SF_vars(CommandStep)
  /\ WF_vars(LocalStep \/ SendStep)
  /\ SF_vars(BeginStep)

-----------------------------------------------------------------------------
(* Properties *)

CommandSet ==
  [cmd : {"NEW_SUBSCRIPTION", "CANCEL_SUBSCRIPTION"}, id : Sub]
    \cup [cmd : {"EXIT_TASK"}, id : {NoCommand}]

(* Type invariant. *)
TypeOK ==
  /\ Subs!TypeOK /\ Monitor!TypeOK
  /\ blockRow \in Int \cup {NoBlock} /\ ownBlock \in Int
  /\ app \in {"up", "closing"}
  /\ telling \in CommandSet \cup {NoCommand}
  /\ bitmonQ \in Seq(CommandSet)
  /\ restarts \in 0..MaxRestarts /\ unannounced \subseteq Sub
  /\ bpc \in {"init", "idle", "poll", "expire", "ask", "load", "send", "exited", "dead"}
  /\ out \subseteq Sub \X Nat /\ sent \subseteq Sub \X Nat

OnItsWay(cmd, s) ==
  telling = Command(cmd, s) \/ Command(cmd, s) \in Range(bitmonQ)

(* A subscription the database holds for active is served or its           *)
(* NEW_SUBSCRIPTION is on the way, although the handler commits and tells  *)
(* in two steps, the process reads the table at its own time, and queue    *)
(* and memory are lost in a crash. Of one that nobody announces this much  *)
(* is true: it is served from the next start of the process on. The other  *)
(* exception is a subscription just expired, until that is saved.          *)
ActiveIsServed ==
  Running /\ bpc # "init" /\ ReloadSubs =>
    \A s \in Sub : rows[s] = "active" =>
      \/ s \in subsById \/ OnItsWay("NEW_SUBSCRIPTION", s)
      \/ s \in expired \/ s \in unannounced

(* A subscription cancelled in the database and still served has its       *)
(* CANCEL_SUBSCRIPTION on the way.                                         *)
CancelIsOnItsWay ==
  \A s \in subsById : rows[s] = "canceled" => OnItsWay("CANCEL_SUBSCRIPTION", s)

(* "It is saved after the callbacks are sent for data consistency": the    *)
(* saved number moves past a height only when all callbacks for the block  *)
(* handled there were sent on, so that a crash at any point leads to the   *)
(* block being handled again rather than skipped. (The subscriptions       *)
(* served cannot change between the loading of a block and the save.)      *)
SavedAfterSent ==
  [][blockRow # NoBlock /\ blockRow' # blockRow =>
       \A h \in Monitor!MonitoredBlock(blockRow)..Monitor!MonitoredBlock(blockRow') - 1 :
         \A s \in subsById : AddrOf[s] \in chain[h].has => <<s, h>> \in sent]_vars

(* The saved number never goes back, whatever height a new run starts at:  *)
(* after a crash no block is handled again that was done with.             *)
SavedNeverGoesBack ==
  [][blockRow # NoBlock => blockRow' # NoBlock /\ blockRow' >= blockRow]_vars

(* A subscription canceled by the client is marked expired only when it    *)
(* expired before the client's command reached the process. (The update of *)
(* _remove_expired_subscriptions does not look at the state it replaces.)  *)
CanceledUntilProcessed ==
  [][\A s \in Sub :
       rows[s] = "canceled" /\ rows'[s] = "expired" => OnItsWay("CANCEL_SUBSCRIPTION", s)]_vars

(* commands.py, NEW_SUBSCRIPTION: "Start monitoring bitcoin address": an   *)
(* active subscription is served in the end, unless the process stops.     *)
PostedIsServed ==
  \A s \in Sub :
    (rows[s] = "active") ~> (s \in subsById \/ rows[s] # "active" \/ app = "closing" \/ ~Running)

(* README.md: "There are two ways to stop a subscription, wait until the   *)
(* expiration date or send a PATCH request". One that is served stays so   *)
(* until then.                                                             *)
StoppedInTwoWays ==
  [][\A s \in subsById :
       rows[s] = "active" /\ s \notin past => s \in subsById']_vars

=============================================================================
