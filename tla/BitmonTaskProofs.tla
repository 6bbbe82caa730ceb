---------------------------- MODULE BitmonTaskProofs ----------------------------
(***************************************************************************)
(* Proofs about BitmonTask, for any number of subscriptions, addresses,    *)
(* restarts and reorganisations. What is proved of TransactionMonitor and  *)
(* of SubscriptionManager on their own is used here, of the monitor and    *)
(* the manager that BitmonTask is composed of.                             *)
(***************************************************************************)
EXTENDS BitmonTask, SequenceTheorems, TLAPS

MP == INSTANCE TransactionMonitorProofs
SP == INSTANCE SubscriptionManagerProofs WITH
  connected <- (current # Offline), MaxEntries <- MaxRestarts + 2

LEMMA Assumptions == MP!MonitorAssumption /\ SP!SubscriptionAssumption
BY BitmonAssumption DEF Monitor!MonitorAssumption, MP!MonitorAssumption,
                        Subs!SubscriptionAssumption, SP!SubscriptionAssumption,
                        Subs!IsFiniteSet, SP!IsFiniteSet

-----------------------------------------------------------------------------
(* The parts of BitmonTask are those the proofs speak of *)

LEMMA SameMonitor ==
  /\ Monitor!tip = MP!tip
  /\ Monitor!TypeOK <=> MP!TypeOK
  /\ Monitor!Init <=> MP!Init
  /\ Monitor!NodeStep <=> MP!NodeStep
  /\ Monitor!NothingNew <=> MP!NothingNew
  /\ Monitor!NewHeight <=> MP!NewHeight
  /\ Monitor!LoadBlock <=> MP!LoadBlock
  /\ \A start : Monitor!Connect(start) <=> MP!Connect(start)
<1>1. Monitor!tip = MP!tip
  BY DEF Monitor!tip, MP!tip
<1>2. Monitor!TypeOK <=> MP!TypeOK
  BY DEF Monitor!TypeOK, MP!TypeOK, Monitor!tip, MP!tip, Monitor!Block, MP!Block
<1>3. Monitor!Init <=> MP!Init
  BY DEF Monitor!Init, MP!Init
<1>4. Monitor!NodeStep <=> MP!NodeStep
  BY DEF Monitor!NodeStep, MP!NodeStep, Monitor!NewBlock, MP!NewBlock,
         Monitor!Reorganise, MP!Reorganise, Monitor!tip, MP!tip
<1>5. Monitor!NothingNew <=> MP!NothingNew
  BY DEF Monitor!NothingNew, MP!NothingNew, Monitor!tip, MP!tip, Monitor!vars, MP!vars
<1>6. Monitor!NewHeight <=> MP!NewHeight
  BY DEF Monitor!NewHeight, MP!NewHeight, Monitor!tip, MP!tip
<1>7. Monitor!LoadBlock <=> MP!LoadBlock
  BY DEF Monitor!LoadBlock, MP!LoadBlock, Monitor!MonitoredBlock, MP!MonitoredBlock,
         Monitor!NextHeight, MP!NextHeight
<1>8. \A start : Monitor!Connect(start) <=> MP!Connect(start)
  BY DEF Monitor!Connect, MP!Connect, Monitor!tip, MP!tip
<1> QED BY <1>1, <1>2, <1>3, <1>4, <1>5, <1>6, <1>7, <1>8

LEMMA SameSubs ==
  /\ Subs!TypeOK <=> SP!TypeOK
  /\ Subs!TablesAgree <=> SP!TablesAgree
  /\ \A S : Subs!AddAll(S) <=> SP!AddAll(S)
  /\ \A S : Subs!CancelAll(S) <=> SP!CancelAll(S)
  /\ \A involved : Subs!Notified(involved) = SP!Notified(involved)
<1>1. Subs!TypeOK <=> SP!TypeOK
  BY DEF Subs!TypeOK, SP!TypeOK, Subs!RowState, SP!RowState
<1>2. Subs!TablesAgree <=> SP!TablesAgree
  BY DEF Subs!TablesAgree, SP!TablesAgree, Subs!AddressesOf, SP!AddressesOf
<1>3. \A S : Subs!AddAll(S) <=> SP!AddAll(S)
  BY DEF Subs!AddAll, SP!AddAll, Subs!AddressesOf, SP!AddressesOf,
         Subs!Subscribers, SP!Subscribers, Subs!Pushed, SP!Pushed
<1>4. \A S : Subs!CancelAll(S) <=> SP!CancelAll(S)
  BY DEF Subs!CancelAll, SP!CancelAll, Subs!LeftEmpty, SP!LeftEmpty,
         Subs!Restrict, SP!Restrict
<1>5. \A involved : Subs!Notified(involved) = SP!Notified(involved)
  BY DEF Subs!Notified, SP!Notified
<1> QED BY <1>1, <1>2, <1>3, <1>4, <1>5

-----------------------------------------------------------------------------
(* The monitor as a part of the process *)

(* The saved number is a height that the chain has reached and that the    *)
(* monitor is not behind of; the process holds it, or no number, for its   *)
(* own; and it polls with a monitor only.                                  *)
SavedOK ==
  /\ blockRow \in Nat \cup {NoBlock} /\ ownBlock \in Int
  /\ blockRow # NoBlock => blockRow <= MP!tip
  /\ ownBlock = -1 \/ (ownBlock = blockRow /\ blockRow # NoBlock)
  /\ current # Offline => current \in Nat /\ (blockRow # NoBlock => blockRow <= current)
  /\ bpc \in {"poll", "expire", "ask", "load", "send"} => current # Offline

(* What a step is to the monitor: nothing, its end, or one of its own.     *)
LEMMA StepOfMonitor ==
  ASSUME [Next]_vars
  PROVE  \/ UNCHANGED <<monitorVars, chainVars>>
         \/ current' = Offline /\ behind' = FALSE /\ UNCHANGED <<accepted, chainVars>>
         \/ MP!NodeStep
         \/ MP!Connect(ownBlock)
         \/ MP!NothingNew \/ MP!NewHeight \/ MP!LoadBlock
<1>1. CASE Requests \/ SendCommand \/ CloseTask
  BY <1>1 DEF Requests, PostSubscription, TestSubscription, PatchSubscription,
              Handler, SendCommand, CloseTask
<1>2. CASE GetNew \/ GetExit
  BY <1>2 DEF GetNew, GetExit
<1>3. CASE GetCancel \/ PollFails \/ TaskDies \/ Restart
  BY <1>3 DEF GetCancel, PollFails, TaskDies, Restart, Dies, ForgetMemory
<1>4. CASE Connect
  BY <1>4, SameMonitor DEF Connect
<1>5. CASE BeginPoll \/ LoadState \/ RemoveExpired \/ SaveExpired \/ SaveBlock
  BY <1>5 DEF BeginPoll, LoadState, RemoveExpired, SaveExpired, SaveBlock, PollFrame
<1>6. CASE AskHeight \/ LoadBlock
  BY <1>6, SameMonitor DEF AskHeight, LoadBlock
<1>7. CASE SendStep
  BY <1>7 DEF SendStep, SendCallback, PollFrame
<1>8. CASE WorldStep
  BY <1>8, SameMonitor DEF WorldStep
<1>9. CASE UNCHANGED vars
  BY <1>9 DEF vars, monitorVars, chainVars
<1> QED
  BY <1>1, <1>2, <1>3, <1>4, <1>5, <1>6, <1>7, <1>8, <1>9
     DEF Next, CommandStep, BeginStep, LocalStep

LEMMA ReaderKept ==
  ASSUME MP!ReaderInv, SavedOK, [Next]_vars
  PROVE  MP!ReaderInv'
<1>1. CASE UNCHANGED <<monitorVars, chainVars>>
  <2>1. UNCHANGED MP!vars
    BY <1>1 DEF monitorVars, chainVars, MP!vars
  <2> QED BY <2>1, Assumptions, MP!ReaderRests
<1>2. CASE current' = Offline /\ behind' = FALSE /\ UNCHANGED <<accepted, chainVars>>
  BY <1>2, Assumptions, MP!ReaderRests DEF chainVars
<1>3. CASE MP!Connect(ownBlock)
  <2>1. MP!tip \in Nat
    BY Assumptions, MP!TypeParts DEF MP!ReaderInv, MP!ChainOK, MP!MonitorAssumption
  <2>2. ownBlock \in Int /\ ownBlock <= MP!tip
    BY <2>1 DEF SavedOK
  <2>3. \E start \in Int : MP!StartAt(start)
    BY <1>3, <2>2 DEF MP!StartAt
  <2> QED BY <2>3, Assumptions, MP!ReaderStep
<1>4. CASE MP!NodeStep \/ MP!NothingNew \/ MP!NewHeight \/ MP!LoadBlock
  BY <1>4, Assumptions, MP!ReaderStep DEF MP!Poll
<1> QED BY <1>1, <1>2, <1>3, <1>4, StepOfMonitor

LEMMA MonitorFacts ==
  ASSUME MP!ReaderInv
  PROVE  /\ MP!ChainOK /\ MP!tip \in Nat /\ DOMAIN chain = 0..MP!tip
         /\ current \in Int \cup {Offline} /\ (current # Offline => current <= MP!tip)
         /\ behind => current # Offline /\ current < MP!tip
         /\ Offline \notin Int /\ NoBlock \notin Int
BY Assumptions, BitmonAssumption, MP!TypeParts
   DEF MP!ReaderInv, MP!ChainOK, MP!MonitorAssumption

LEMMA TipMoves ==
  ASSUME MP!ReaderInv
  PROVE  /\ UNCHANGED chain => MP!tip' = MP!tip
         /\ MP!NodeStep => MP!tip' = MP!tip + 1
<1>1. UNCHANGED chain => MP!tip' = MP!tip
  BY DEF MP!tip
<1>2. MP!NodeStep => MP!tip' = MP!tip + 1
  BY Assumptions, MP!ChainGrows, MP!TypeParts DEF MP!ReaderInv
<1> QED BY <1>1, <1>2

LEMMA SavedKept ==
  ASSUME MP!ReaderInv, SavedOK, [Next]_vars
  PROVE  SavedOK'
<1>0. /\ MP!tip \in Nat
      /\ current \in Int \cup {Offline} /\ (current # Offline => current <= MP!tip)
      /\ Offline \notin Int /\ NoBlock \notin Int
      /\ UNCHANGED chain => MP!tip' = MP!tip
      /\ MP!NodeStep => MP!tip' = MP!tip + 1
  BY MonitorFacts, TipMoves
<1>1. ASSUME UNCHANGED <<blockRow, ownBlock, current, chain>>,
             bpc' \in {"poll", "expire", "ask", "load", "send"} => current # Offline
      PROVE  SavedOK'
  BY <1>0, <1>1 DEF SavedOK
<1>2. CASE Requests \/ SendCommand \/ CloseTask
  <2>1. UNCHANGED <<blockRow, ownBlock, current, chain, bpc>>
    BY <1>2 DEF Requests, PostSubscription, TestSubscription,
                PatchSubscription, Handler, SendCommand,
                CloseTask, dbVars, taskVars, monitorVars, chainVars
  <2> QED BY <1>1, <2>1 DEF SavedOK
<1>3. CASE GetNew \/ GetExit
  <2>1. UNCHANGED <<blockRow, ownBlock, current, chain>> /\ bpc' \in {"idle", "exited"}
    BY <1>3 DEF GetNew, GetExit, GetCommand, dbVars, taskVars, monitorVars, chainVars
  <2> QED BY <1>1, <2>1
<1>4. CASE GetCancel \/ PollFails \/ TaskDies \/ Restart
  <2>1. /\ UNCHANGED <<blockRow, chain>> /\ ownBlock' = -1 /\ current' = Offline
        /\ bpc' \in {"dead", "init"}
    BY <1>4 DEF GetCancel, PollFails, TaskDies, Restart, Dies, ForgetMemory, dbVars, chainVars
  <2> QED BY <1>0, <2>1 DEF SavedOK
<1>5. CASE Connect
  <2>1. UNCHANGED <<blockRow, ownBlock, chain>> /\ bpc' = "poll"
    BY <1>5 DEF Connect, PollFrame, chainVars
  <2>2. current' = IF ownBlock < 0 THEN MP!tip + ownBlock + 1 ELSE ownBlock
    BY <1>5, SameMonitor DEF Connect, MP!Connect
  <2>3. current' \in Nat /\ (blockRow # NoBlock => blockRow <= current')
    BY <1>0, <2>2 DEF SavedOK
  <2> QED BY <1>0, <2>1, <2>3 DEF SavedOK
<1>6. CASE BeginPoll \/ RemoveExpired \/ SaveExpired \/ AskHeight
  <2>1. UNCHANGED <<blockRow, ownBlock, current, chain>>
    BY <1>6, SameMonitor
       DEF BeginPoll, RemoveExpired, SaveExpired, AskHeight, PollFrame, dbVars,
           monitorVars, chainVars, MP!NothingNew, MP!NewHeight, MP!vars
  <2>2. current # Offline
    BY <1>6 DEF BeginPoll, RemoveExpired, SaveExpired, AskHeight, SavedOK
  <2> QED BY <1>1, <2>1, <2>2
<1>7. CASE LoadState
  <2>1. UNCHANGED <<blockRow, current, chain>> /\ bpc' = "idle" /\ ownBlock' = StartBlock
    BY <1>7 DEF LoadState, monitorVars, chainVars
  <2> QED BY <1>0, <2>1 DEF SavedOK, StartBlock
<1>8. CASE LoadBlock
  <2>1. /\ UNCHANGED <<blockRow, ownBlock, chain>> /\ bpc' = "send"
        /\ current # Offline /\ current' = current + 1
    BY <1>8, SameMonitor
       DEF LoadBlock, PollFrame, dbVars, chainVars, SavedOK, MP!LoadBlock, MP!NextHeight
  <2> QED BY <1>0, <2>1 DEF SavedOK
<1>9. CASE SaveBlock
  <2>1. /\ UNCHANGED <<current, chain>> /\ bpc' = "idle" /\ current # Offline
        /\ blockRow' = (IF ownBlock # current THEN current ELSE blockRow)
        /\ ownBlock' = current
    BY <1>9 DEF SaveBlock, SavesBlock, PollFrame, monitorVars, chainVars, SavedOK
  <2>2. current \in Nat /\ current <= MP!tip /\ blockRow' = current
    BY <1>0, <2>1 DEF SavedOK
  <2> QED BY <1>0, <2>1, <2>2 DEF SavedOK
<1>10. CASE SendStep
  <2>1. UNCHANGED <<blockRow, ownBlock, current, chain, bpc>>
    BY <1>10 DEF SendStep, SendCallback, PollFrame, dbVars, monitorVars, chainVars
  <2> QED BY <1>1, <2>1 DEF SavedOK
<1>11. CASE WorldStep
  <2>1. UNCHANGED <<blockRow, ownBlock, bpc>>
    BY <1>11 DEF WorldStep, dbVars, taskVars
  <2>2. (MP!NodeStep /\ UNCHANGED current) \/ UNCHANGED <<chain, current>>
    BY <1>11, SameMonitor
       DEF WorldStep, monitorVars, chainVars, MP!NodeStep, MP!NewBlock, MP!Reorganise
  <2> QED BY <1>0, <2>1, <2>2 DEF SavedOK
<1>12. CASE UNCHANGED vars
  <2>1. UNCHANGED <<blockRow, ownBlock, current, chain, bpc>>
    BY <1>12 DEF vars, dbVars, taskVars, monitorVars, chainVars
  <2> QED BY <1>1, <2>1 DEF SavedOK
<1> QED
  BY <1>2, <1>3, <1>4, <1>5, <1>6, <1>7, <1>8, <1>9, <1>10, <1>11, <1>12
     DEF Next, CommandStep, BeginStep, LocalStep

-----------------------------------------------------------------------------
(* The commands *)

(* What is in a queue when a message is taken, and when one is put. *)
LEMMA QueueTail ==
  ASSUME NEW S, NEW q \in Seq(S), q # << >>
  PROVE  /\ Head(q) \in S /\ Tail(q) \in Seq(S)
         /\ Range(q) = {Head(q)} \cup Range(Tail(q))
<1>1. Head(q) \in S /\ Tail(q) \in Seq(S) /\ q = <<Head(q)>> \o Tail(q)
  BY HeadTailProperties
<1> DEFINE first == <<Head(q)>>
<1>2. first \in Seq(S) /\ Range(first) = {Head(q)}
  BY <1>1 DEF Range
<1> HIDE DEF first
<1>3. Range(first \o Tail(q)) = Range(first) \cup Range(Tail(q))
  BY <1>1, <1>2, RangeConcatenation
<1> QED BY <1>1, <1>2, <1>3 DEF first

LEMMA QueueAppend ==
  ASSUME NEW S, NEW q \in Seq(S), NEW e \in S
  PROVE  /\ Append(q, e) \in Seq(S)
         /\ Range(Append(q, e)) = Range(q) \cup {e}
<1> DEFINE last == <<e>>
<1>1. last \in Seq(S) /\ Range(last) = {e}
  BY DEF Range
<1> HIDE DEF last
<1>2. Range(q \o last) = Range(q) \cup Range(last)
  BY <1>1, RangeConcatenation
<1> QED BY <1>1, <1>2, AppendIsConcat, AppendProperties DEF last

LEMMA QueueEmpty ==
  (\A S : << >> \in Seq(S)) /\ Range(<< >>) = {}
<1>1. DOMAIN << >> = {}
  OBVIOUS
<1> QED BY <1>1, EmptySeq DEF Range

QueueOK ==
  /\ app \in {"up", "closing"}
  /\ telling \in CommandSet \cup {NoCommand}
  /\ bitmonQ \in Seq(CommandSet)
  /\ restarts \in 0..MaxRestarts /\ unannounced \subseteq Sub
  /\ bpc \in {"init", "idle", "poll", "expire", "ask", "load", "send", "exited", "dead"}

(* The commands that name a subscription. *)
Naming == {"NEW_SUBSCRIPTION", "CANCEL_SUBSCRIPTION"}

LEMMA CommandFacts ==
  /\ \A cmd \in Naming, s \in Sub : Command(cmd, s) \in CommandSet /\ Command(cmd, s) # NoCommand
  /\ Command("EXIT_TASK", NoCommand) \in CommandSet
  /\ \A msg \in CommandSet, cmd \in Naming :
       msg.cmd = cmd => msg.id \in Sub /\ msg = Command(cmd, msg.id)
  /\ \A cmd \in Naming, s \in Sub : Command(cmd, s).cmd = cmd /\ Command(cmd, s).id = s
<1>1. \A cmd \in Naming, s \in Sub : Command(cmd, s) \in [cmd : Naming, id : Sub]
  BY DEF Command
<1>2. \A msg \in [cmd : Naming, id : Sub] :
        msg.id \in Sub /\ msg = Command(msg.cmd, msg.id) /\ msg \in CommandSet /\ msg # NoCommand
  BY BitmonAssumption DEF Naming, Command, CommandSet
<1>3. \A msg \in CommandSet, cmd \in Naming :
        msg.cmd = cmd => msg \in [cmd : Naming, id : Sub]
  BY DEF Naming, CommandSet
<1>4. Command("EXIT_TASK", NoCommand) \in CommandSet
  BY DEF Command, CommandSet
<1>5. \A cmd \in Naming, s \in Sub : Command(cmd, s).cmd = cmd /\ Command(cmd, s).id = s
  BY DEF Command
<1> QED BY <1>1, <1>2, <1>3, <1>4, <1>5

(* What a step is to the commands: one is about to be told, or is put, or  *)
(* is taken, or all are lost with the application.                         *)
Tells == \E s \in Sub :
  /\ telling = NoCommand /\ UNCHANGED bitmonQ
  /\ \/ PostSubscription(s) /\ telling' = NoCommand
     \/ TestSubscription(s) /\ telling' = Command("NEW_SUBSCRIPTION", s)
     \/ PatchSubscription(s) /\ telling' = Command("CANCEL_SUBSCRIPTION", s)
Puts == \E msg \in CommandSet :
  /\ bitmonQ' = Append(bitmonQ, msg)
  /\ \/ msg = telling /\ telling' = NoCommand
     \/ msg = Command("EXIT_TASK", NoCommand) /\ UNCHANGED telling
Takes ==
  /\ bitmonQ # << >> /\ bitmonQ' = Tail(bitmonQ) /\ UNCHANGED telling
  /\ Head(bitmonQ).cmd = "EXIT_TASK" \/ GetNew \/ bpc' = "dead"
Loses == bitmonQ' = << >> /\ telling' = NoCommand 
         /\ bpc' = "init" /\ subsById' = {} /\ expired' = {}

LEMMA StepOfQueue ==
  ASSUME QueueOK, [Next]_vars
  PROVE  Tells \/ Puts \/ Takes \/ Loses \/ UNCHANGED <<telling, bitmonQ>>
<1>1. ASSUME NEW s \in Sub,
             PostSubscription(s) \/ TestSubscription(s) \/ PatchSubscription(s)
      PROVE  Tells
  BY <1>1 DEF Tells, PostSubscription, TestSubscription, PatchSubscription, Handler,
              Announcement
<1>2. CASE SendCommand
  BY <1>2 DEF SendCommand, Put, Puts, QueueOK
<1>3. CASE CloseTask
  BY <1>3, CommandFacts DEF CloseTask, Put, Puts
<1>4. CASE GetNew \/ GetCancel \/ GetExit
  BY <1>4 DEF GetNew, GetCancel, GetExit, GetCommand, Takes, Dies
<1>5. CASE Restart
  BY <1>5 DEF Restart, Loses, ForgetMemory, Subs!ClearTables
<1>6. CASE BeginStep \/ LocalStep \/ SendStep \/ PollFails
  BY <1>6 DEF BeginStep, Connect, BeginPoll, LocalStep, LoadState, RemoveExpired, SaveExpired,
              AskHeight, LoadBlock, SaveBlock, SendStep, SendCallback, PollFails,
              PollFrame, flaskVars
<1>7. CASE WorldStep \/ TaskDies \/ UNCHANGED vars
  BY <1>7 DEF WorldStep, TaskDies, vars, flaskVars
<1> QED BY <1>1, <1>2, <1>3, <1>4, <1>5, <1>6, <1>7 DEF Next, Requests, CommandStep

LEMMA QueueKept ==
  ASSUME QueueOK, [Next]_vars
  PROVE  QueueOK'
<1>1. telling' \in CommandSet \cup {NoCommand} /\ bitmonQ' \in Seq(CommandSet)
  <2>1. CASE Tells
    BY <2>1, CommandFacts DEF Tells, QueueOK, Naming
  <2>2. CASE Puts
    <3>1. PICK msg \in CommandSet :
            bitmonQ' = Append(bitmonQ, msg) /\ (telling' = NoCommand \/ UNCHANGED telling)
      BY <2>2 DEF Puts
    <3> QED BY <3>1, QueueAppend DEF QueueOK
  <2>3. CASE Takes
    BY <2>3, QueueTail DEF Takes, QueueOK
  <2>4. CASE Loses
    BY <2>4, QueueEmpty DEF Loses
  <2> QED BY <2>1, <2>2, <2>3, <2>4, StepOfQueue DEF QueueOK
<1>2. app' \in {"up", "closing"} /\ restarts' \in 0..MaxRestarts /\ unannounced' \subseteq Sub
  <2>1. CASE Requests \/ SendCommand \/ CloseTask
    BY <2>1 DEF Requests, PostSubscription, TestSubscription,
                PatchSubscription, Handler, SendCommand, CloseTask, QueueOK
  <2>2. CASE CommandStep
    BY <2>2 DEF CommandStep, GetNew, GetCancel, GetExit, GetCommand, QueueOK
  <2>3. CASE Restart
    BY <2>3, BitmonAssumption DEF Restart, QueueOK
  <2>4. CASE BeginStep \/ LocalStep \/ SendStep \/ PollFails
    BY <2>4 DEF BeginStep, Connect, BeginPoll, LocalStep, LoadState, RemoveExpired, SaveExpired,
                AskHeight, LoadBlock, SaveBlock, SendStep, SendCallback, PollFails,
                PollFrame, flaskVars, QueueOK
  <2>5. CASE WorldStep \/ TaskDies \/ UNCHANGED vars
    BY <2>5 DEF WorldStep, TaskDies, vars, flaskVars, QueueOK
  <2> QED BY <2>1, <2>2, <2>3, <2>4, <2>5 DEF Next
<1>3. bpc' \in {"init", "idle", "poll", "expire", "ask", "load", "send", "exited", "dead"}
  <2>1. CASE Requests \/ SendCommand \/ CloseTask
    BY <2>1 DEF Requests, PostSubscription, TestSubscription,
                PatchSubscription, Handler, SendCommand, CloseTask, taskVars, QueueOK
  <2>2. CASE CommandStep
    BY <2>2 DEF CommandStep, GetNew, GetCancel, GetExit, taskVars, Dies, QueueOK
  <2>3. CASE Restart \/ TaskDies \/ PollFails
    BY <2>3 DEF Restart, TaskDies, PollFails, Dies
  <2>4. CASE BeginStep \/ LocalStep
    BY <2>4 DEF BeginStep, Connect, BeginPoll, LocalStep, LoadState, RemoveExpired, SaveExpired,
                AskHeight, LoadBlock, SaveBlock
  <2>5. CASE SendStep \/ WorldStep \/ UNCHANGED vars
    BY <2>5 DEF SendStep, SendCallback, WorldStep, vars, taskVars, QueueOK
  <2> QED BY <2>1, <2>2, <2>3, <2>4, <2>5 DEF Next
<1> QED BY <1>1, <1>2, <1>3 DEF QueueOK

-----------------------------------------------------------------------------
(* The subscription manager as a part of the process *)

TablesOK == SP!TypeOK /\ SP!TablesAgree

LEMMA TablesKept ==
  ASSUME MP!ReaderInv, SavedOK, QueueOK, TablesOK, [Next]_vars
  PROVE  TablesOK'
<1>0. /\ rows \in [Sub -> SP!RowState] /\ past \subseteq Sub
      /\ expired \subseteq Sub /\ table \in [Sub -> Nat]
      /\ SP!TablesTypeOK /\ SP!TablesAgree
      /\ SP!TablesTypeOK' /\ rows' \in [Sub -> SP!RowState] /\ past' \subseteq Sub
           /\ expired' \subseteq Sub /\ table' \in [Sub -> Nat] => SP!TypeOK'
  BY SP!TypeParts, Assumptions DEF TablesOK, SP!TypeOK, SP!TablesTypeOK, SP!RowState
<1>1. ASSUME UNCHANGED subsVars, (current # Offline)' = (current # Offline)
      PROVE  SP!TablesTypeOK' /\ SP!TablesAgree'
  BY <1>0, <1>1 DEF subsVars, SP!TablesTypeOK, SP!TablesAgree, SP!AddressesOf
<1>2. ASSUME UNCHANGED <<rows, past, subsVars>>, (current # Offline)' = (current # Offline)
      PROVE  TablesOK'
  BY <1>0, <1>1, <1>2 DEF TablesOK, subsVars, SP!RowState
<1>3. ASSUME NEW S \in SUBSET Sub, Subs!AddAll(S), UNCHANGED <<rows, past, expired>>
      PROVE  TablesOK'
  <2>1. SP!TablesTypeOK' /\ SP!TablesAgree'
    BY <1>0, <1>3, Assumptions, SameSubs, SP!AddAllAgrees
  <2>2. table' \in [Sub -> Nat]
    BY <1>0, <1>3 DEF Subs!AddAll, Subs!Pushed
  <2> QED BY <1>0, <1>3, <2>1, <2>2 DEF TablesOK, SP!RowState
<1>4. ASSUME subsByAddr' = [a \in {} |-> {}], subsById' = {}, table' = [s \in Sub |-> 0],
             expired' = {}, ~(current # Offline)', monitored' = {}, UNCHANGED <<rows, past>>
      PROVE  TablesOK'
  <2>1. SP!TablesTypeOK' /\ SP!TablesAgree'
    BY <1>4 DEF SP!TablesTypeOK, SP!TablesAgree, SP!AddressesOf
  <2> QED BY <1>0, <1>4, <2>1 DEF TablesOK, SP!RowState
<1>5. ASSUME NEW s \in Sub,
             PostSubscription(s) \/ TestSubscription(s) \/ PatchSubscription(s)
      PROVE  TablesOK'
  <2>1. UNCHANGED <<past, subsVars, current>>
    BY <1>5 DEF PostSubscription, TestSubscription, PatchSubscription, Handler, monitorVars
  <2>2. rows' \in [Sub -> SP!RowState]
    BY <1>0, <1>5 DEF PostSubscription, TestSubscription, PatchSubscription, SP!RowState
  <2> QED BY <1>0, <1>1, <2>1, <2>2 DEF TablesOK, subsVars
<1>6. CASE SendCommand \/ CloseTask
  BY <1>2, <1>6 DEF SendCommand, CloseTask, dbVars, monitorVars
<1>7. CASE GetNew
  <2>1. Subs!AddAll({Head(bitmonQ).id}) /\ UNCHANGED <<rows, past, expired>>
    BY <1>7 DEF GetNew, Subs!AddSubscription
  <2>2. Head(bitmonQ) \in CommandSet /\ Head(bitmonQ).cmd = "NEW_SUBSCRIPTION"
    BY <1>7, QueueTail DEF GetNew, GetCommand, QueueOK
  <2>3. Head(bitmonQ).id \in Sub
    BY <2>2, CommandFacts DEF Naming
  <2> QED BY <1>3, <2>1, <2>3
<1>8. CASE GetExit
  BY <1>2, <1>8 DEF GetExit, dbVars, monitorVars
<1>9. CASE GetCancel \/ PollFails \/ TaskDies \/ Restart
  BY <1>4, <1>9 DEF GetCancel, PollFails, TaskDies, Restart, Dies, ForgetMemory,
                    Subs!ClearTables, dbVars
<1>10. CASE Connect
  <2>1. /\ UNCHANGED <<rows, past, subsByAddr, subsById, table, expired>>
        /\ monitored' = DOMAIN subsByAddr
    BY <1>10 DEF Connect, Subs!SetMonitor, Subs!AllKeys, Subs!tableVars
  <2>2. SP!TablesTypeOK' /\ SP!TablesAgree'
    BY <1>0, <2>1 DEF SP!TablesTypeOK, SP!TablesAgree, SP!AddressesOf
  <2> QED BY <1>0, <2>1, <2>2 DEF TablesOK, SP!RowState
<1>11. CASE BeginPoll \/ AskHeight \/ SaveBlock
  <2>1. UNCHANGED <<rows, past, subsVars, current>>
    BY <1>11, SameMonitor
       DEF BeginPoll, AskHeight, SaveBlock, dbVars, monitorVars, MP!NothingNew,
           MP!NewHeight, MP!vars
  <2> QED BY <1>2, <2>1
<1>12. CASE LoadState
  <2>1. UNCHANGED monitorVars
    BY <1>12 DEF LoadState
  <2>2. CASE ReloadSubs
    <3>1. Subs!AddAll({s \in Sub : Subs!Reloadable(rows[s])}) /\ UNCHANGED <<rows, past, expired>>
      BY <1>12, <2>2 DEF LoadState, Subs!Reload
    <3> QED BY <1>3, <3>1
  <2>3. CASE ~ReloadSubs
    BY <1>2, <1>12, <2>1, <2>3 DEF LoadState, monitorVars
  <2> QED BY <2>2, <2>3
<1>13. CASE RemoveExpired
  <2>1. /\ Subs!CancelAll(Subs!DueEntries) /\ UNCHANGED <<rows, past>>
        /\ expired' = Subs!DueEntries \cap subsById
        /\ table' = [s \in Sub |-> IF s \in Subs!DueEntries THEN 0 ELSE table[s]]
    BY <1>13 DEF RemoveExpired, Subs!RemoveExpired, Subs!StillServed
  <2>2. Subs!DueEntries \in SUBSET Sub
    BY <1>0 DEF Subs!DueEntries
  <2>3. SP!TablesTypeOK' /\ SP!TablesAgree'
    BY <1>0, <2>1, <2>2, Assumptions, SameSubs, SP!CancelAllAgrees
  <2>4. table' \in [Sub -> Nat] /\ expired' \subseteq Sub
    BY <1>0, <2>1, <2>2
  <2> QED BY <1>0, <2>1, <2>3, <2>4 DEF TablesOK, SP!RowState
<1>14. CASE SaveExpired
  <2>1. /\ UNCHANGED <<past, subsByAddr, subsById, table, monitored, current>>
        /\ expired' = {}
        /\ rows' = [s \in Sub |-> IF s \in expired THEN "expired" ELSE rows[s]]
    BY <1>14 DEF SaveExpired, Subs!SaveExpired, Subs!tableVars, Subs!monitorVars, monitorVars
  <2>2. rows' \in [Sub -> SP!RowState]
    BY <1>0, <2>1 DEF SP!RowState
  <2>3. SP!TablesTypeOK' /\ SP!TablesAgree'
    BY <1>0, <2>1 DEF SP!TablesTypeOK, SP!TablesAgree, SP!AddressesOf
  <2> QED BY <1>0, <2>1, <2>2, <2>3 DEF TablesOK
<1>15. CASE LoadBlock
  <2>1. UNCHANGED <<rows, past, subsVars>> /\ current # Offline /\ current' = current + 1
    BY <1>15, SameMonitor DEF LoadBlock, dbVars, SavedOK, MP!LoadBlock, MP!NextHeight
  <2>2. current + 1 # Offline
    BY <2>1, MonitorFacts
  <2> QED BY <1>2, <2>1, <2>2
<1>16. CASE SendStep
  BY <1>2, <1>16 DEF SendStep, SendCallback, dbVars, monitorVars
<1>17. CASE WorldStep
  <2>1. UNCHANGED <<rows, subsVars, current>>
    BY <1>17, SameMonitor
       DEF WorldStep, dbVars, monitorVars, MP!NodeStep, MP!NewBlock, MP!Reorganise
  <2>2. past' \subseteq Sub
    BY <1>0, <1>17 DEF WorldStep
  <2> QED BY <1>0, <1>1, <2>1, <2>2 DEF TablesOK, subsVars, SP!RowState
<1>18. CASE UNCHANGED vars
  BY <1>2, <1>18 DEF vars, dbVars, monitorVars
<1> QED
  BY <1>5, <1>6, <1>7, <1>8, <1>9, <1>10, <1>11, <1>12, <1>13, <1>14, <1>15, <1>16, <1>17,
     <1>18 DEF Next, Requests, CommandStep, BeginStep, LocalStep

-----------------------------------------------------------------------------
(* What is left between two steps of a poll *)

(* Expired subscriptions are waiting to be saved, and callbacks to be      *)
(* sent, only in the middle of a poll. A process that starts has nothing   *)
(* in memory.                                                              *)
PollOK ==
  /\ out \subseteq Sub \X Nat /\ sent \subseteq Sub \X Nat
  /\ bpc # "expire" => expired = {}
  /\ bpc # "send" => out = {}
  /\ bpc \in {"init", "dead"} => subsById = {}

(* The block that is handled next, and its callbacks. *)
LEMMA LoadedBlock ==
  ASSUME MP!ReaderInv, SavedOK, TablesOK, LoadBlock,
         NEW h, h = Monitor!MonitoredBlock(current)
  PROVE  /\ h \in 0..MP!tip /\ h = current - Confirmations + 1
         /\ current \in Nat /\ current < MP!tip /\ current' = current + 1
         /\ out' = {s \in subsById : AddrOf[s] \in chain[h].has} \X {h}
         /\ bpc = "load" /\ bpc' = "send"
         /\ UNCHANGED <<dbVars, flaskVars, ownBlock, past, subsVars, sent, chainVars>>
<1>1. /\ h \in DOMAIN chain /\ behind /\ current' = current + 1
      /\ out' = Subs!Notified(chain[h].has) \X {h}
      /\ bpc = "load" /\ bpc' = "send"
      /\ UNCHANGED <<dbVars, flaskVars, ownBlock, past, subsVars, sent, chainVars>>
  BY DEF LoadBlock, PollFrame, Monitor!LoadBlock, Monitor!NextHeight
<1>2. h \in 0..MP!tip /\ current # Offline /\ current \in Nat /\ current < MP!tip
  BY <1>1, MonitorFacts DEF SavedOK
<1>3. chain[h].has \in SUBSET Addr
  BY <1>2, MonitorFacts, BitmonAssumption DEF MP!ChainOK, MP!Block
<1>4. Subs!Notified(chain[h].has) = {s \in subsById : AddrOf[s] \in chain[h].has}
  BY <1>2, <1>3, Assumptions, SameSubs, SP!NotifiedExactly DEF TablesOK
<1> QED BY <1>1, <1>2, <1>4 DEF Monitor!MonitoredBlock

LEMMA PollKept ==
  ASSUME MP!ReaderInv, SavedOK, QueueOK, TablesOK, PollOK, [Next]_vars
  PROVE  PollOK'
<1>1. ASSUME UNCHANGED <<bpc, out, sent, expired, subsById>> PROVE PollOK'
  BY <1>1 DEF PollOK
<1>2. CASE Requests \/ SendCommand \/ CloseTask
  BY <1>1, <1>2 DEF Requests, PostSubscription, TestSubscription,
                    PatchSubscription, Handler, SendCommand, CloseTask, taskVars, subsVars
<1>3. CASE GetNew
  BY <1>3 DEF GetNew, GetCommand, taskVars, Subs!AddSubscription, PollOK
<1>4. CASE GetExit
  BY <1>4 DEF GetExit, GetCommand, subsVars, PollOK
<1>5. CASE GetCancel \/ PollFails \/ TaskDies \/ Restart
  <2>1. out' = {} /\ sent' = sent /\ expired' = {} /\ subsById' = {}
    BY <1>5 DEF GetCancel, PollFails, TaskDies, Restart, Dies, ForgetMemory, Subs!ClearTables
  <2> QED BY <2>1 DEF PollOK
<1>6. CASE Connect
  BY <1>6 DEF Connect, Subs!SetMonitor, Subs!tableVars, PollOK
<1>7. CASE BeginPoll \/ AskHeight
  BY <1>7 DEF BeginPoll, AskHeight, subsVars, PollOK
<1>8. CASE LoadState
  <2>1. expired' = expired
    BY <1>8 DEF LoadState, Subs!Reload, subsVars
  <2> QED BY <1>8, <2>1 DEF LoadState, PollOK
<1>9. CASE RemoveExpired
  BY <1>9 DEF RemoveExpired, PollOK
<1>10. CASE SaveExpired
  BY <1>10 DEF SaveExpired, Subs!SaveExpired, Subs!tableVars, PollOK
<1>11. CASE LoadBlock
  <2> DEFINE h == Monitor!MonitoredBlock(current)
             served == {s \in subsById : AddrOf[s] \in chain[h].has}
  <2>1. /\ h \in Nat /\ out' = served \X {h}
        /\ bpc = "load" /\ bpc' = "send" /\ UNCHANGED <<subsVars, sent>>
    BY <1>11, LoadedBlock, MonitorFacts
  <2>2. served \subseteq Sub
    BY DEF TablesOK, SP!TypeOK
  <2> HIDE DEF h, served
  <2>3. out' \subseteq Sub \X Nat
    BY <2>1, <2>2
  <2> QED BY <2>1, <2>3 DEF subsVars, PollOK
<1>12. CASE SaveBlock
  BY <1>12 DEF SaveBlock, Unsent, subsVars, PollOK
<1>13. CASE SendStep
  BY <1>13 DEF SendStep, SendCallback, subsVars, PollOK
<1>14. CASE WorldStep
  BY <1>1, <1>14 DEF WorldStep, taskVars, subsVars
<1>15. CASE UNCHANGED vars
  BY <1>1, <1>15 DEF vars, taskVars, subsVars
<1> QED
  BY <1>2, <1>3, <1>4, <1>5, <1>6, <1>7, <1>8, <1>9, <1>10, <1>11, <1>12, <1>13, <1>14, <1>15
     DEF Next, CommandStep, BeginStep, LocalStep

-----------------------------------------------------------------------------
(* Type correctness *)

(* The inductive invariant behind all theorems. *)
ProcessInv ==
  /\ MP!ReaderInv /\ TablesOK
  /\ SavedOK /\ QueueOK /\ PollOK

LEMMA ProcessStarts == Init => ProcessInv
<1> SUFFICES ASSUME Init PROVE ProcessInv
  OBVIOUS
<1>1. MP!ReaderInv
  BY Assumptions, SameMonitor, MP!ReaderStarts DEF Init
<1>2. TablesOK
  <2>1. /\ rows \in [Sub -> SP!RowState] /\ past = {} /\ expired = {} /\ subsById = {}
        /\ table = [s \in Sub |-> 0] /\ subsByAddr = [a \in {} |-> {}] /\ monitored = {}
        /\ current = Offline
    BY DEF Init, Subs!EmptyTables, Monitor!Init, SP!RowState
  <2> QED BY <2>1 DEF TablesOK, SP!TypeOK, SP!TablesAgree, SP!AddressesOf
<1>3. SavedOK
  BY BitmonAssumption DEF Init, SavedOK, Monitor!Init
<1>4. QueueOK
  BY BitmonAssumption, QueueEmpty DEF Init, QueueOK
<1>5. PollOK
  BY DEF Init, PollOK, Subs!EmptyTables
<1> QED BY <1>1, <1>2, <1>3, <1>4, <1>5 DEF ProcessInv

LEMMA ProcessKept == ProcessInv /\ [Next]_vars => ProcessInv'
BY ReaderKept, TablesKept, SavedKept, QueueKept, PollKept DEF ProcessInv

(* It holds in every state of the process and its parts. *)
THEOREM ProcessInvariant == Spec => []ProcessInv
BY ProcessStarts, ProcessKept, PTL DEF Spec

(* The type invariant: of the tables, the monitor, the queue and the loop. *)
THEOREM BitmonTypeCorrect == Spec => []TypeOK
<1>1. ProcessInv => TypeOK
  BY SameMonitor, SameSubs, BitmonAssumption
     DEF ProcessInv, MP!ReaderInv, TablesOK, SavedOK, QueueOK, PollOK, TypeOK
<1> QED BY <1>1, ProcessInvariant, PTL

(* The number of the last block never goes back, whatever height a run     *)
(* starts at, because the monitor never starts below the saved number.     *)
THEOREM NumberOnlyGrows == Spec => SavedNeverGoesBack
<1>1. ProcessInv /\ [Next]_vars =>
        [blockRow # NoBlock => blockRow' # NoBlock /\ blockRow' >= blockRow]_vars
  <2> SUFFICES ASSUME ProcessInv, Next, blockRow # NoBlock
               PROVE  blockRow' # NoBlock /\ blockRow' >= blockRow
    OBVIOUS
  <2>1. blockRow \in Nat /\ NoBlock \notin Int
    BY MonitorFacts DEF ProcessInv, SavedOK
  <2>2. CASE SaveBlock
    <3>1. blockRow' \in {blockRow, current}
      BY <2>2 DEF SaveBlock
    <3>2. current \in Nat /\ blockRow <= current
      BY <2>2 DEF SaveBlock, ProcessInv, SavedOK
    <3> QED BY <2>1, <3>1, <3>2
  <2>3. CASE ~SaveBlock
    <3>1. blockRow' = blockRow
      BY <2>3 DEF Next, Requests, PostSubscription, TestSubscription,
                  PatchSubscription, Handler, SendCommand,
                  CloseTask, CommandStep, GetNew, GetCancel, GetExit, BeginStep, Connect,
                  BeginPoll, LocalStep, LoadState, RemoveExpired, SaveExpired, AskHeight,
                  LoadBlock, SendStep, SendCallback, PollFails, WorldStep, TaskDies, Restart,
                  Dies, dbVars
    <3> QED BY <2>1, <3>1
  <2> QED BY <2>2, <2>3
<1> QED BY <1>1, ProcessInvariant, PTL DEF Spec, SavedNeverGoesBack

-----------------------------------------------------------------------------
(* Database and process, with the commands between them *)

(* A command on its way stays so until it is taken, unless the process     *)
(* dies or is started again.                                               *)
LEMMA StaysOnItsWay ==
  ASSUME QueueOK, [Next]_vars, bpc' # "dead", ~Loses,
         NEW cmd \in Naming, NEW s \in Sub, OnItsWay(cmd, s)
  PROVE  \/ OnItsWay(cmd, s)'
         \/ GetNew /\ Head(bitmonQ) = Command(cmd, s) /\ cmd = "NEW_SUBSCRIPTION"
<1>0. Command(cmd, s) # NoCommand /\ Command(cmd, s) \in CommandSet /\ Command(cmd, s).cmd = cmd
  BY CommandFacts
<1>1. CASE Tells
  BY <1>0, <1>1 DEF Tells, OnItsWay, Command
<1>2. CASE Puts
  <2>1. PICK msg \in CommandSet :
          /\ bitmonQ' = Append(bitmonQ, msg)
          /\ \/ msg = telling /\ telling' = NoCommand
             \/ msg = Command("EXIT_TASK", NoCommand) /\ UNCHANGED telling
    BY <1>2 DEF Puts
  <2>2. Range(bitmonQ') = Range(bitmonQ) \cup {msg}
    BY <2>1, QueueAppend DEF QueueOK
  <2> QED BY <2>1, <2>2 DEF OnItsWay, Command
<1>3. CASE Takes
  <2>1. Range(bitmonQ) = {Head(bitmonQ)} \cup Range(bitmonQ')
    BY <1>3, QueueTail DEF Takes, QueueOK
  <2>2. CASE Head(bitmonQ) = Command(cmd, s)
    <3>1. Head(bitmonQ).cmd # "EXIT_TASK" /\ Head(bitmonQ).cmd = cmd
      BY <1>0, <2>2 DEF Naming
    <3>2. GetNew
      BY <1>3, <3>1 DEF Takes
    <3> QED BY <2>2, <3>1, <3>2 DEF GetNew, GetCommand
  <2> QED BY <1>3, <2>1, <2>2 DEF OnItsWay, Takes, Command
<1>4. CASE UNCHANGED <<telling, bitmonQ>>
  BY <1>4 DEF OnItsWay, Command
<1> QED BY <1>1, <1>2, <1>3, <1>4, StepOfQueue

(* A NEW_SUBSCRIPTION comes from the handler that has made the row active. *)
LEMMA OnlyActiveAnnounced ==
  ASSUME QueueOK, TablesOK, [Next]_vars, NEW s \in Sub, OnItsWay("NEW_SUBSCRIPTION", s)'
  PROVE  OnItsWay("NEW_SUBSCRIPTION", s) \/ rows'[s] = "active"
<1> DEFINE new == Command("NEW_SUBSCRIPTION", s)
<1>0. /\ new # NoCommand /\ new # Command("EXIT_TASK", NoCommand)
      /\ \A t \in Sub : new # Command("CANCEL_SUBSCRIPTION", t)
      /\ \A t \in Sub : new = Command("NEW_SUBSCRIPTION", t) => s = t
  BY CommandFacts DEF Naming, Command
<1>1. new' = new /\ (telling' = new \/ new \in Range(bitmonQ'))
  BY DEF OnItsWay, Command
<1> HIDE DEF new
<1>2. CASE Tells
  <2>1. PICK t \in Sub :
          /\ UNCHANGED bitmonQ
          /\ \/ PostSubscription(t) /\ telling' = NoCommand
             \/ TestSubscription(t) /\ telling' = Command("NEW_SUBSCRIPTION", t)
             \/ PatchSubscription(t) /\ telling' = Command("CANCEL_SUBSCRIPTION", t)
    BY <1>2 DEF Tells
  <2>2. CASE telling' = new
    <3>1. TestSubscription(t) /\ s = t
      BY <1>0, <2>1, <2>2
    <3> QED BY <3>1 DEF TestSubscription, TablesOK, SP!TypeOK
  <2>3. CASE new \in Range(bitmonQ)
    BY <2>3 DEF OnItsWay, new
  <2> QED BY <1>1, <2>1, <2>2, <2>3
<1>3. CASE Puts
  <2>1. PICK msg \in CommandSet :
          /\ bitmonQ' = Append(bitmonQ, msg)
          /\ \/ msg = telling /\ telling' = NoCommand
             \/ msg = Command("EXIT_TASK", NoCommand) /\ UNCHANGED telling
    BY <1>3 DEF Puts
  <2>2. Range(bitmonQ') = Range(bitmonQ) \cup {msg}
    BY <2>1, QueueAppend DEF QueueOK
  <2> QED BY <1>0, <1>1, <2>1, <2>2 DEF OnItsWay, new
<1>4. CASE Takes
  <2>1. Range(bitmonQ') \subseteq Range(bitmonQ) /\ telling' = telling
    BY <1>4, QueueTail DEF Takes, QueueOK
  <2> QED BY <1>1, <2>1 DEF OnItsWay, new
<1>5. CASE Loses
  BY <1>0, <1>1, <1>5, QueueEmpty DEF Loses
<1>6. CASE UNCHANGED <<telling, bitmonQ>>
  BY <1>1, <1>6 DEF OnItsWay, new
<1> QED BY <1>2, <1>3, <1>4, <1>5, <1>6, StepOfQueue

(* What a step is to the row of a subscription ...                         *)
LEMMA StepOfRow ==
  ASSUME TablesOK, [Next]_vars, NEW s \in Sub
  PROVE  \/ rows'[s] = rows[s]
         \/ /\ PostSubscription(s) \/ TestSubscription(s)
            /\ rows[s] = "none" /\ rows'[s] = "active"
         \/ PatchSubscription(s) /\ rows'[s] = "canceled"
         \/ SaveExpired /\ s \in expired /\ rows'[s] = "expired"
<1>0. rows \in [Sub -> SP!RowState]
  BY DEF TablesOK, SP!TypeOK
<1>1. ASSUME NEW t \in Sub,
             PostSubscription(t) \/ TestSubscription(t) \/ PatchSubscription(t)
      PROVE  \/ rows'[s] = rows[s]
             \/ /\ PostSubscription(s) \/ TestSubscription(s)
                /\ rows[s] = "none" /\ rows'[s] = "active"
             \/ PatchSubscription(s) /\ rows'[s] = "canceled"
  BY <1>0, <1>1 DEF PostSubscription, TestSubscription, PatchSubscription
<1>2. CASE SaveExpired
  BY <1>0, <1>2 DEF SaveExpired, Subs!SaveExpired
<1>3. CASE ~SaveExpired /\ ~Requests
  <2>1. rows' = rows
    BY <1>3 DEF Next, SendCommand, CloseTask, CommandStep, GetNew, Subs!AddSubscription,
                GetCancel, GetExit, BeginStep, Connect, Subs!SetMonitor, BeginPoll, LocalStep,
                LoadState, Subs!Reload, RemoveExpired, Subs!RemoveExpired, AskHeight,
                LoadBlock, SaveBlock, SendStep, SendCallback, PollFails, WorldStep, TaskDies,
                Restart, Dies, vars, dbVars
  <2> QED BY <2>1
<1> QED BY <1>1, <1>2, <1>3 DEF Requests

(* ... and to what the process serves. *)
LEMMA StepOfServed ==
  ASSUME ProcessInv, [Next]_vars
  PROVE  \/ UNCHANGED <<subsById, expired>>
         \/ subsById' = {} /\ expired' = {} /\ bpc' \in {"dead", "init"}
         \/ /\ GetNew /\ Head(bitmonQ).id \in Sub /\ UNCHANGED expired
            /\ subsById' = subsById \cup {Head(bitmonQ).id}
         \/ /\ LoadState /\ ReloadSubs /\ subsById = {} /\ UNCHANGED expired
            /\ subsById' = {s \in Sub : rows[s] = "active"}
         \/ RemoveExpired /\ subsById' \cup expired' = subsById /\ expired = {}
         \/ SaveExpired /\ expired' = {} /\ UNCHANGED subsById
<1>1. CASE Requests \/ SendCommand \/ CloseTask
  BY <1>1 DEF Requests, PostSubscription, TestSubscription,
              PatchSubscription, Handler, SendCommand, CloseTask, subsVars
<1>2. CASE GetNew
  <2>1. Head(bitmonQ) \in CommandSet /\ Head(bitmonQ).cmd = "NEW_SUBSCRIPTION"
    BY <1>2, QueueTail DEF GetNew, GetCommand, ProcessInv, QueueOK
  <2>2. Head(bitmonQ).id \in Sub
    BY <2>1, CommandFacts DEF Naming
  <2> QED BY <1>2, <2>2 DEF GetNew, Subs!AddSubscription, Subs!AddAll
<1>3. CASE GetCancel \/ PollFails \/ TaskDies \/ Restart
  BY <1>3 DEF GetCancel, PollFails, TaskDies, Restart, Dies, ForgetMemory, Subs!ClearTables
<1>4. CASE GetExit \/ BeginPoll \/ AskHeight \/ LoadBlock \/ SaveBlock \/ SendStep
  BY <1>4 DEF GetExit, BeginPoll, AskHeight, LoadBlock, SaveBlock, SendStep, SendCallback,
              subsVars
<1>5. CASE Connect
  BY <1>5 DEF Connect, Subs!SetMonitor, Subs!tableVars
<1>6. CASE LoadState
  <2>1. subsById = {}
    BY <1>6 DEF LoadState, ProcessInv, PollOK
  <2> QED BY <1>6, <2>1 DEF LoadState, Subs!Reload, Subs!AddAll, Subs!Reloadable, subsVars
<1>7. CASE RemoveExpired
  <2>1. expired = {}
    BY <1>7 DEF RemoveExpired, ProcessInv, PollOK
  <2> QED BY <1>7, <2>1 DEF RemoveExpired, Subs!RemoveExpired, Subs!CancelAll, Subs!StillServed
<1>8. CASE SaveExpired
  BY <1>8 DEF SaveExpired, Subs!SaveExpired, Subs!tableVars
<1>9. CASE WorldStep \/ UNCHANGED vars
  BY <1>9 DEF WorldStep, vars, subsVars
<1> QED
  BY <1>1, <1>2, <1>3, <1>4, <1>5, <1>6, <1>7, <1>8, <1>9
     DEF Next, CommandStep, BeginStep, LocalStep

(* The loop begins with LoadState, and a process that is dead is started   *)
(* again first.                                                            *)
LEMMA StepOfLoop ==
  ASSUME [Next]_vars
  PROVE  /\ Running' /\ bpc' # "init" => LoadState \/ (Running /\ bpc # "init")
         /\ bpc = "dead" => bpc' = "dead" \/ Loses
<1>1. CASE Requests \/ SendCommand \/ CloseTask \/ WorldStep \/ UNCHANGED vars
  BY <1>1 DEF Requests, PostSubscription, TestSubscription,
              PatchSubscription, Handler, SendCommand,
              CloseTask, WorldStep, vars, taskVars, Running
<1>2. CASE CommandStep \/ BeginStep \/ SendStep
  BY <1>2 DEF CommandStep, GetNew, GetCancel, GetExit, GetCommand, BeginStep, Connect,
              BeginPoll, SendStep, SendCallback, Running
<1>3. CASE LocalStep /\ ~LoadState
  BY <1>3 DEF LocalStep, RemoveExpired, SaveExpired, AskHeight, LoadBlock, SaveBlock, Running
<1>4. CASE LoadState
  BY <1>4 DEF LoadState
<1>5. CASE PollFails \/ TaskDies
  BY <1>5 DEF PollFails, TaskDies, Dies, Running
<1>6. CASE Restart
  BY <1>6 DEF Restart, Loses, ForgetMemory, Subs!ClearTables
<1> QED BY <1>1, <1>2, <1>3, <1>4, <1>5, <1>6 DEF Next, LocalStep

(* What was not announced stays so until the process reads the table.      *)
LEMMA AnnouncedWhenRead ==
  ASSUME [Next]_vars, ~LoadState
  PROVE  unannounced \subseteq unannounced'
<1>1. CASE Requests \/ SendCommand \/ CloseTask
  BY <1>1 DEF Requests, PostSubscription, TestSubscription, PatchSubscription, SendCommand,
              CloseTask
<1>2. CASE CommandStep
  BY <1>2 DEF CommandStep, GetNew, GetCancel, GetExit, GetCommand
<1>3. CASE BeginStep \/ (LocalStep /\ ~LoadState) \/ SendStep \/ PollFails
  BY <1>3 DEF BeginStep, Connect, BeginPoll, LocalStep, RemoveExpired, SaveExpired, AskHeight,
              LoadBlock, SaveBlock, SendStep, SendCallback, PollFails, PollFrame, flaskVars
<1>4. CASE WorldStep \/ TaskDies \/ Restart \/ UNCHANGED vars
  BY <1>4 DEF WorldStep, TaskDies, Restart, vars, flaskVars
<1> QED BY <1>1, <1>2, <1>3, <1>4 DEF Next

LEMMA ActiveKept ==
  ASSUME ProcessInv, ActiveIsServed, [Next]_vars
  PROVE  ActiveIsServed'
<1> SUFFICES ASSUME Running', bpc' # "init", ReloadSubs,
                    NEW s \in Sub, rows'[s] = "active"
             PROVE  \/ s \in subsById' \/ OnItsWay("NEW_SUBSCRIPTION", s)'
                    \/ s \in expired' \/ s \in unannounced'
  BY DEF ActiveIsServed
<1>1. CASE PostSubscription(s) \/ TestSubscription(s)
  BY <1>1 DEF PostSubscription, TestSubscription, Announcement, OnItsWay, Command
<1>2. CASE LoadState
  <2>1. rows[s] = "active"
    BY <1>2, StepOfRow DEF ProcessInv, LoadState, Subs!Reload
  <2> QED BY <1>2, <2>1 DEF LoadState, Subs!Reload, Subs!AddAll, Subs!Reloadable
<1>3. CASE rows[s] = "active" /\ ~LoadState
  <2>1. Running /\ bpc # "init" /\ bpc' # "dead" /\ ~Loses
    BY <1>3, StepOfLoop DEF Running, Loses
  <2>2. \/ s \in subsById \/ OnItsWay("NEW_SUBSCRIPTION", s)
        \/ s \in expired \/ s \in unannounced
    BY <1>3, <2>1 DEF ActiveIsServed
  <2>3. CASE OnItsWay("NEW_SUBSCRIPTION", s)
    <3>1. CASE GetNew /\ Head(bitmonQ) = Command("NEW_SUBSCRIPTION", s)
      BY <3>1 DEF GetNew, Subs!AddSubscription, Subs!AddAll, Command
    <3> QED BY <2>1, <2>3, <3>1, StaysOnItsWay DEF ProcessInv, Naming
  <2>4. CASE s \in expired /\ SaveExpired
    BY <2>4 DEF SaveExpired, Subs!SaveExpired
  <2>5. CASE s \in subsById \/ (s \in expired /\ ~SaveExpired)
    BY <2>1, <2>5, StepOfServed
  <2>6. CASE s \in unannounced
    BY <1>3, <2>1, <2>6, AnnouncedWhenRead
  <2> QED BY <2>2, <2>3, <2>4, <2>5, <2>6
<1> QED BY <1>1, <1>2, <1>3, StepOfRow DEF ProcessInv

(* A subscription the database holds for active is served, or the process  *)
(* is being told: for any number of handlers' commits between the          *)
(* process's reading of the table and of its queue.                        *)
THEOREM ActiveAlwaysServed == Spec => []ActiveIsServed
<1>1. Init => ActiveIsServed
  BY DEF Init, ActiveIsServed
<1> QED BY <1>1, ActiveKept, ProcessInvariant, PTL DEF Spec

(* A canceled subscription that is served, or was until it expired just    *)
(* now, or will be by a command still in the queue, has its                *)
(* CANCEL_SUBSCRIPTION on the way, behind that command.                    *)
CancelComes ==
  bpc # "dead" =>
    \A s \in Sub :
      rows[s] = "canceled" /\ (s \in subsById \cup expired \/ OnItsWay("NEW_SUBSCRIPTION", s))
        => OnItsWay("CANCEL_SUBSCRIPTION", s)

LEMMA CancelKept ==
  ASSUME ProcessInv, CancelComes, [Next]_vars
  PROVE  CancelComes'
<1> SUFFICES ASSUME bpc' # "dead", NEW s \in Sub, rows'[s] = "canceled",
                    s \in subsById' \cup expired' \/ OnItsWay("NEW_SUBSCRIPTION", s)'
             PROVE  OnItsWay("CANCEL_SUBSCRIPTION", s)'
  BY DEF CancelComes
<1>1. CASE PatchSubscription(s)
  BY <1>1 DEF PatchSubscription, OnItsWay, Command
<1>2. CASE rows[s] = "canceled"
  <2>1. ~Loses
    <3> SUFFICES ASSUME Loses PROVE FALSE
      OBVIOUS
    <3>1. ~OnItsWay("NEW_SUBSCRIPTION", s)'
      BY CommandFacts, QueueEmpty DEF Loses, OnItsWay, Command, Naming
    <3> QED BY <3>1 DEF Loses
  <2>2. s \in subsById \cup expired \/ OnItsWay("NEW_SUBSCRIPTION", s)
    <3>1. CASE OnItsWay("NEW_SUBSCRIPTION", s)'
      BY <3>1, OnlyActiveAnnounced DEF ProcessInv
    <3>2. CASE s \in subsById' \cup expired' /\ GetNew /\ s = Head(bitmonQ).id
      <4>1. Head(bitmonQ) = Command("NEW_SUBSCRIPTION", s) /\ Head(bitmonQ) \in Range(bitmonQ)
        BY <3>2, QueueTail, CommandFacts DEF GetNew, GetCommand, ProcessInv, QueueOK, Naming
      <4> QED BY <4>1 DEF OnItsWay
    <3>3. CASE s \in subsById' \cup expired' /\ ~(GetNew /\ s = Head(bitmonQ).id)
      BY <1>2, <3>3, StepOfServed
    <3> QED BY <3>1, <3>2, <3>3
  <2>3. OnItsWay("CANCEL_SUBSCRIPTION", s)
    BY <1>2, <2>1, <2>2, StepOfLoop DEF CancelComes
  <2> QED BY <2>1, <2>3, StaysOnItsWay DEF ProcessInv, Naming
<1> QED BY <1>1, <1>2, StepOfRow DEF ProcessInv

LEMMA CancelStarts == Init => CancelComes
BY DEF Init, CancelComes

(* No subscription is served on after its cancel command was taken: a      *)
(* canceled one that is served still has it to come.                       *)
THEOREM CancelAlwaysComes == Spec => []CancelIsOnItsWay
<1>1. ProcessInv /\ CancelComes => CancelIsOnItsWay
  BY DEF ProcessInv, PollOK, CancelComes, CancelIsOnItsWay, TablesOK, SP!TypeOK
<1> QED BY <1>1, CancelStarts, CancelKept, ProcessInvariant, PTL DEF Spec

(* A row is taken from canceled to expired only while the client's cancel  *)
(* command is still to come.                                               *)
THEOREM CancelLostBeforeOnly == Spec => CanceledUntilProcessed
<1>1. ProcessInv /\ CancelComes /\ [Next]_vars =>
        [\A s \in Sub :
           rows[s] = "canceled" /\ rows'[s] = "expired" => OnItsWay("CANCEL_SUBSCRIPTION", s)]_vars
  <2> SUFFICES ASSUME ProcessInv, CancelComes, Next, NEW s \in Sub,
                      rows[s] = "canceled", rows'[s] = "expired"
               PROVE  OnItsWay("CANCEL_SUBSCRIPTION", s)
    OBVIOUS
  <2>1. SaveExpired /\ s \in expired
    BY StepOfRow DEF ProcessInv
  <2> QED BY <2>1 DEF SaveExpired, CancelComes
<1> QED
  BY <1>1, CancelStarts, CancelKept, ProcessInvariant, PTL DEF Spec, CanceledUntilProcessed

-----------------------------------------------------------------------------
(* The number is saved after the callbacks are sent *)

(* When monitoring goes on from the last block: the saved number, the      *)
(* process's own and the monitor's are one, except that the monitor is one *)
(* block ahead while the callbacks of that block are being sent. The block *)
(* is out of the reach of reorganisations then.                            *)
AllSent(h) ==
  /\ h \in 0..MP!tip - Confirmations
  /\ \A s \in subsById : AddrOf[s] \in chain[h].has => <<s, h>> \in sent \cup out

NumbersOK ==
  blockRow # NoBlock =>
    /\ Running /\ bpc # "init" => ownBlock = blockRow
    /\ current # Offline =>
         \/ current = blockRow
         \/ /\ bpc = "send" /\ current = blockRow + 1
            /\ AllSent(blockRow - Confirmations + 1)

(* Of a height that deep, the block stays as it is, and what was to be     *)
(* sent about it is sent or still to be sent.                              *)
LEMMA AllSentKept ==
  ASSUME ProcessInv, MaxReorg <= Confirmations, NEW h, AllSent(h), UNCHANGED subsById,
         UNCHANGED chain \/ MP!NodeStep, sent \cup out \subseteq sent' \cup out'
  PROVE  AllSent(h)'
<1>0. /\ MP!tip \in Nat /\ Confirmations \in Nat /\ MaxReorg \in Nat
      /\ UNCHANGED chain => MP!tip' = MP!tip
      /\ MP!NodeStep => MP!tip' = MP!tip + 1
  BY Assumptions, MonitorFacts, TipMoves DEF ProcessInv, MP!MonitorAssumption
<1>1. chain'[h] = chain[h]
  <2>1. h \in 0..MP!tip /\ h <= MP!tip - MaxReorg
    BY <1>0 DEF AllSent
  <2> QED BY <2>1, Assumptions, MonitorFacts, MP!ChainGrows DEF ProcessInv, MP!Buried
<1>2. h \in 0..MP!tip' - Confirmations
  BY <1>0 DEF AllSent
<1> QED BY <1>1, <1>2 DEF AllSent

LEMMA NumbersKept ==
  ASSUME ProcessInv, FromLast, MaxReorg <= Confirmations, NumbersOK, [Next]_vars
  PROVE  NumbersOK'
<1>0. Offline \notin Int /\ NoBlock \notin Int /\ Confirmations \in Nat
  BY Assumptions, MonitorFacts DEF ProcessInv, MP!MonitorAssumption
<1>1. ASSUME UNCHANGED <<blockRow, ownBlock, current, subsById>>,
             bpc' = bpc \/ (bpc # "init" /\ Running /\ bpc # "send"),
             UNCHANGED chain \/ MP!NodeStep, sent \cup out \subseteq sent' \cup out'
      PROVE  NumbersOK'
  <2>1. Running' /\ bpc' # "init" => Running /\ bpc # "init"
    BY <1>1 DEF Running
  <2>2. CASE blockRow # NoBlock /\ current # Offline /\ current # blockRow
    <3>1. bpc = "send" /\ current = blockRow + 1 /\ AllSent(blockRow - Confirmations + 1)
      BY <2>2 DEF NumbersOK
    <3>2. AllSent(blockRow - Confirmations + 1)'
      <4>1. \A h : AllSent(h) => AllSent(h)'
        BY <1>1, AllSentKept
      <4> DEFINE h == blockRow - Confirmations + 1
      <4>2. h' = h
        BY <1>1
      <4> QED BY <1>1, <3>1, <4>1 DEF AllSent
    <3> QED BY <1>1, <2>1, <2>2, <3>1, <3>2 DEF NumbersOK
  <2> QED BY <1>1, <2>1, <2>2 DEF NumbersOK
<1>2. CASE Requests \/ SendCommand \/ CloseTask
  <2>1. UNCHANGED <<blockRow, ownBlock, current, subsById, bpc, chain, sent, out>>
    BY <1>2 DEF Requests, PostSubscription, TestSubscription,
                PatchSubscription, Handler, SendCommand,
                CloseTask, dbVars, taskVars, subsVars, monitorVars, chainVars
  <2> QED BY <1>1, <2>1
<1>3. CASE GetNew \/ GetExit
  <2>1. /\ UNCHANGED <<blockRow, ownBlock, current>> /\ bpc = "idle"
        /\ bpc' \in {"idle", "exited"}
    BY <1>3 DEF GetNew, GetExit, GetCommand, dbVars, taskVars, monitorVars
  <2> QED BY <2>1 DEF NumbersOK, Running
<1>4. CASE GetCancel \/ PollFails \/ TaskDies \/ Restart
  <2>1. current' = Offline /\ bpc' \in {"dead", "init"}
    BY <1>4 DEF GetCancel, PollFails, TaskDies, Restart, Dies, ForgetMemory
  <2> QED BY <2>1 DEF NumbersOK, Running
<1>5. CASE Connect
  <2>1. /\ UNCHANGED <<blockRow, ownBlock>> /\ bpc = "idle" /\ bpc' = "poll"
        /\ current' = IF ownBlock < 0 THEN MP!tip + ownBlock + 1 ELSE ownBlock
    BY <1>5, SameMonitor DEF Connect, MP!Connect
  <2>2. blockRow # NoBlock => ownBlock = blockRow /\ blockRow \in Nat
    BY <2>1 DEF NumbersOK, Running, ProcessInv, SavedOK
  <2> QED BY <2>1, <2>2 DEF NumbersOK
<1>6. CASE BeginPoll \/ SaveExpired \/ RemoveExpired
  <2>1. /\ UNCHANGED <<blockRow, ownBlock, current>> /\ bpc \in {"idle", "poll", "expire"}
        /\ bpc' \in {"poll", "expire", "ask"}
    BY <1>6 DEF BeginPoll, SaveExpired, RemoveExpired, PollFrame, dbVars, monitorVars
  <2> QED BY <2>1 DEF NumbersOK, Running
<1>7. CASE AskHeight
  <2>1. UNCHANGED <<blockRow, ownBlock, current>> /\ bpc = "ask" /\ bpc' \in {"send", "load"}
    BY <1>7, SameMonitor DEF AskHeight, dbVars, MP!NothingNew, MP!NewHeight, MP!vars
  <2> QED BY <2>1 DEF NumbersOK, Running
<1>8. CASE LoadState
  <2>1. /\ UNCHANGED <<blockRow, current>> /\ bpc = "init"
        /\ blockRow # NoBlock => ownBlock' = blockRow
    BY <1>8 DEF LoadState, StartBlock, monitorVars
  <2>2. bpc' = "idle"
    BY <1>8 DEF LoadState
  <2> QED BY <2>1, <2>2 DEF NumbersOK
<1>9. CASE LoadBlock
  <2> DEFINE h == Monitor!MonitoredBlock(current)
             served == {s \in subsById : AddrOf[s] \in chain[h].has}
  <2>1. /\ h \in 0..MP!tip /\ h = current - Confirmations + 1
        /\ current \in Nat /\ current < MP!tip /\ current' = current + 1
        /\ out' = served \X {h}
        /\ bpc = "load" /\ bpc' = "send"
        /\ UNCHANGED <<blockRow, ownBlock, subsById, sent, chain>>
    BY <1>9, LoadedBlock DEF ProcessInv, dbVars, subsVars, chainVars
  <2>2. MP!tip' = MP!tip /\ MP!tip \in Nat
    BY <2>1, TipMoves, MonitorFacts DEF ProcessInv
  <2>3. h \in 0..MP!tip' - Confirmations
    BY <1>0, <2>1, <2>2
  <2>4. \A s \in subsById : AddrOf[s] \in chain[h].has => <<s, h>> \in out'
    BY <2>1
  <2> HIDE DEF h, served
  <2>5. ASSUME blockRow # NoBlock
        PROVE  /\ ownBlock = blockRow /\ current = blockRow
               /\ h = blockRow - Confirmations + 1
    BY <1>0, <2>1, <2>5 DEF NumbersOK, Running
  <2>6. blockRow # NoBlock => AllSent(blockRow - Confirmations + 1)'
    <3> SUFFICES ASSUME blockRow # NoBlock
                 PROVE  AllSent(blockRow - Confirmations + 1)'
      OBVIOUS
    <3>1. h = blockRow - Confirmations + 1 /\ UNCHANGED <<blockRow, chain, subsById>>
      BY <2>1, <2>5
    <3> QED BY <2>3, <2>4, <3>1 DEF AllSent
  <2>7. ASSUME blockRow' # NoBlock
        PROVE  ownBlock' = blockRow' /\ bpc' = "send" /\ current' = blockRow' + 1
    BY <2>1, <2>5, <2>7
  <2> QED BY <2>1, <2>6, <2>7 DEF NumbersOK
<1>10. CASE SaveBlock
  <2>1. /\ UNCHANGED current /\ ownBlock' = current /\ bpc = "send" /\ bpc' = "idle"
        /\ blockRow' = (IF ownBlock # current THEN current ELSE blockRow)
    BY <1>10 DEF SaveBlock, SavesBlock, monitorVars
  <2>2. current \in Nat
    BY <2>1 DEF ProcessInv, SavedOK
  <2>3. blockRow' = current
    BY <1>0, <2>1, <2>2 DEF ProcessInv, SavedOK
  <2> QED BY <2>1, <2>3 DEF NumbersOK
<1>11. CASE SendStep
  <2>1. /\ UNCHANGED <<blockRow, ownBlock, current, subsById, bpc, chain>>
        /\ sent \cup out \subseteq sent' \cup out'
    BY <1>11 DEF SendStep, SendCallback, PollFrame, dbVars, monitorVars, chainVars, subsVars
  <2> QED BY <1>1, <2>1
<1>12. CASE WorldStep
  <2>1. UNCHANGED <<blockRow, ownBlock, subsById, bpc, sent, out>>
    BY <1>12 DEF WorldStep, dbVars, taskVars, subsVars
  <2>2. (MP!NodeStep /\ UNCHANGED current) \/ UNCHANGED <<chain, current>>
    BY <1>12, SameMonitor
       DEF WorldStep, monitorVars, chainVars, MP!NodeStep, MP!NewBlock, MP!Reorganise
  <2> QED BY <1>1, <2>1, <2>2
<1>13. CASE UNCHANGED vars
  <2>1. UNCHANGED <<blockRow, ownBlock, current, subsById, bpc, chain, sent, out>>
    BY <1>13 DEF vars, dbVars, taskVars, subsVars, monitorVars, chainVars
  <2> QED BY <1>1, <2>1
<1> QED
  BY <1>2, <1>3, <1>4, <1>5, <1>6, <1>7, <1>8, <1>9, <1>10, <1>11, <1>12, <1>13
     DEF Next, CommandStep, BeginStep, LocalStep

(* "It is saved after the callbacks are sent for data consistency", for    *)
(* any number of blocks, restarts and subscriptions, when START_BLOCK is   *)
(* 'last' and no reorganisation replaces more than CONFIRMATIONS blocks:   *)
(* the saved number moves by one height at a time, and past it only when   *)
(* every subscriber of the block there was sent its callback.              *)
THEOREM NumberSavedAfterCallbacks ==
  ASSUME FromLast, MaxReorg <= Confirmations PROVE Spec => SavedAfterSent
<1>1. Init => NumbersOK
  BY DEF Init, NumbersOK
<1>2. ProcessInv /\ NumbersOK /\ [Next]_vars => NumbersOK'
  BY NumbersKept
<1>3. ProcessInv /\ NumbersOK /\ [Next]_vars =>
        [blockRow # NoBlock /\ blockRow' # blockRow =>
           \A h \in Monitor!MonitoredBlock(blockRow)..Monitor!MonitoredBlock(blockRow') - 1 :
             \A s \in subsById : AddrOf[s] \in chain[h].has => <<s, h>> \in sent]_vars
  <2> SUFFICES ASSUME ProcessInv, NumbersOK, Next,
                      blockRow # NoBlock, blockRow' # blockRow,
                      NEW h \in Monitor!MonitoredBlock(blockRow)
                                  ..Monitor!MonitoredBlock(blockRow') - 1,
                      NEW s \in subsById, AddrOf[s] \in chain[h].has
               PROVE  <<s, h>> \in sent
    OBVIOUS
  <2>1. SaveBlock
    BY DEF Next, Requests, PostSubscription, TestSubscription,
           PatchSubscription, Handler, SendCommand,
           CloseTask, CommandStep, GetNew, GetCancel, GetExit, BeginStep, Connect,
           BeginPoll, LocalStep, LoadState, RemoveExpired, SaveExpired, AskHeight,
           LoadBlock, SendStep, SendCallback, PollFails, WorldStep, TaskDies, Restart,
           Dies, dbVars
  <2>2. /\ bpc = "send" /\ out = {} /\ current # Offline /\ current \in Nat
        /\ blockRow' = current /\ blockRow \in Nat
    BY <2>1, MonitorFacts DEF SaveBlock, SavesBlock, Unsent, ProcessInv, SavedOK
  <2>3. current = blockRow + 1 /\ AllSent(blockRow - Confirmations + 1)
    BY <2>2 DEF NumbersOK
  <2>4. h = blockRow - Confirmations + 1
    <3>1. Confirmations \in Nat
      BY Assumptions DEF MP!MonitorAssumption
    <3> QED BY <2>2, <2>3, <3>1 DEF Monitor!MonitoredBlock
  <2> QED BY <2>2, <2>3, <2>4 DEF AllSent
<1> QED BY <1>1, <1>2, <1>3, ProcessInvariant, PTL DEF Spec, SavedAfterSent

=============================================================================
