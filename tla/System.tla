-------------------------------- MODULE System --------------------------------
(***************************************************************************)
(* The application as bitcallback/application.py puts it together: the     *)
(* bitmon process (BitmonTask), the delivery process (what it promises,    *)
(* Delivery), the command queues of both, the flask process that writes to *)
(* them, and clean_up. A callback that bitmon creates is put into the      *)
(* delivery process's queue, which it shares with the acknowledgements and *)
(* the EXIT_TASK of flask; the put waits while the queue is full. Either   *)
(* process may be killed alone, bitmon with what it has put last.          *)
(***************************************************************************)
EXTENDS Integers, Sequences, FiniteSets

CONSTANTS
  Sub, Addr, AddrOf, Confirmations, Contents, Offline,     \* see BitmonTask
  FirstTip, MaxTip, MaxReorg, MaxForks,
  NoCommand, NoBlock, QueueSize, FromLast, ReloadSubs, RpcMayFail,
  NoCallback, CallbackQueueSize, MinTries, MaxTries,       \* see Delivery
  MaxCallbacks, \* bound: the number of callbacks
  MaxRestarts   \* bound: how often the application is started again

(* unique_id gives every callback an id of its own: the ids are numbered.  *)
Callback == 1..MaxCallbacks

VARIABLES
  rows, blockRow, telling, bitmonQ, unannounced, bpc, ownBlock, out, past,
  subsByAddr, subsById, table, expired, monitored, current, behind, accepted,
  chain, forks,                                                \* see BitmonTask
  state, posts, process, patching, inputQ,                     \* see Delivery
  phase,    \* how far the flask process is: see Phase
  restarts, \* how often the application was started again
  about     \* history: about[c] is what bitmon created callback c for

bitmonVars == <<rows, blockRow, telling, bitmonQ, unannounced, bpc, ownBlock, out, past,
                subsByAddr, subsById, table, expired, monitored, current, behind,
                accepted, chain, forks>>
deliveryVars == <<state, posts, process, patching, inputQ>>
vars == <<bitmonVars, deliveryVars, phase, restarts, about>>

(* Serving; clean_up was called; it waits for bitmon; it waits for the     *)
(* delivery process; it has returned.                                      *)
Phase == {"serving", "exiting", "joining bitmon", "joining delivery", "closed"}

Bitmon == INSTANCE BitmonTask WITH
  app <- IF phase \in {"serving", "exiting"} THEN "up" ELSE "closing",
  sent <- {<<about[c].sub, about[c].height>> : c \in DOMAIN about}

Deliv == INSTANCE Delivery WITH
  QueueSize <- CallbackQueueSize,
  app <- IF phase \in {"joining delivery", "closed"} THEN "closing" ELSE "up"

ASSUME SystemAssumption ==
  /\ MaxCallbacks \in Nat
  /\ Bitmon!BitmonAssumption /\ Deliv!DeliveryAssumption

Init ==
  /\ phase = "serving" /\ about = << >>
  /\ Bitmon!Init /\ Deliv!Init

-----------------------------------------------------------------------------
(* Steps of one process that the other takes no part in *)

BitmonFrame == UNCHANGED <<deliveryVars, phase, about>>
DeliveryFrame == UNCHANGED <<bitmonVars, phase, about>>

BitmonStep ==
  /\ BitmonFrame
  /\ Bitmon!CommandStep \/ Bitmon!LocalStep \/ Bitmon!BeginStep \/ Bitmon!PollFails

(* The node, and the clock. *)
WorldStep == BitmonFrame /\ Bitmon!WorldStep

DeliveryStep == DeliveryFrame /\ Deliv!ProcessStep

(* Flask serves one request at a time: none while the handler of another   *)
(* is between its commit and its put.                                      *)
Request ==
  /\ phase = "serving"
  /\ telling = NoCommand /\ patching = NoCallback
  /\ \/ BitmonFrame /\ Bitmon!Requests
     \/ DeliveryFrame /\ \E c \in Callback : Deliv!PatchCallback(c)

TellBitmon == BitmonFrame /\ Bitmon!SendCommand
TellDelivery == DeliveryFrame /\ Deliv!SendAck

-----------------------------------------------------------------------------
(* Bitmon hands a callback on *)

SendCallback(cback) ==
  /\ Len(about) < MaxCallbacks
  /\ about' = Append(about, [sub |-> cback[1], height |-> cback[2], run |-> restarts])
  /\ UNCHANGED phase
  /\ Bitmon!SendCallback(cback)
  /\ Deliv!PutCallback(Len(about'))

-----------------------------------------------------------------------------
(* clean_up *)

BeginCleanUp ==
  /\ phase = "serving"
  /\ telling = NoCommand /\ patching = NoCallback
  /\ phase' = "exiting"
  /\ UNCHANGED <<bitmonVars, deliveryVars, restarts, about>>

(* bitmon_task.close() puts EXIT_TASK ... *)
CloseBitmon ==
  /\ phase = "exiting"
  /\ phase' = "joining bitmon"
  /\ UNCHANGED <<deliveryVars, about>>
  /\ Bitmon!CloseTask

(* When callback_task.close() may begin: bitmon was joined. (NotJoined is  *)
(* the mistake of telling both processes before waiting for any.)          *)
NotJoined == TRUE
BitmonJoined == ~Bitmon!Running

(* ... and joins; then callback_task.close() does the same.                *)
CloseDelivery ==
  /\ phase = "joining bitmon" /\ BitmonJoined
  /\ phase' = "joining delivery"
  /\ UNCHANGED <<bitmonVars, about>>
  /\ Deliv!CloseTask

JoinDelivery ==
  /\ phase = "joining delivery" /\ ~Deliv!Running
  /\ phase' = "closed"
  /\ UNCHANGED <<bitmonVars, deliveryVars, restarts, about>>

CleanUpStep == CloseBitmon \/ CloseDelivery \/ JoinDelivery

-----------------------------------------------------------------------------
(* Crashes *)

(* What may be left of the queue q when bitmon is killed. The put of a     *)
(* process hands the message to a thread of its own, which writes to the   *)
(* pipe: the callbacks put last may not have got there. (That a message    *)
(* waits in one process while another overtakes it is left out: nothing    *)
(* overtakes the callbacks that depends on them, and EXIT_TASK is put when *)
(* bitmon has ended, which waits for its thread unless it is killed.)      *)
(* What is in the places Kept(q, n) is left, in the order it was put, when *)
(* the callbacks up to n got there.                                        *)
Kept(q, n) == {i \in DOMAIN q : q[i].cmd # "NEW_CALLBACK" \/ q[i].id <= n}
InOrder(places) ==
  {f \in [1..Cardinality(places) -> places] : \A i, j \in DOMAIN f : i < j => f[i] < f[j]}
Surviving(q) ==
  UNION {{[i \in DOMAIN f |-> q[f[i]]] : f \in InOrder(Kept(q, n))} : n \in {0} \cup Callback}

BitmonDies ==
  /\ inputQ' \in Surviving(inputQ)
  /\ UNCHANGED <<state, posts, process, patching, phase, about>>
  /\ Bitmon!TaskDies

DeliveryDies == DeliveryFrame /\ Deliv!Dies

(* create_app again, when nothing of the last run is left but the tables.  *)
Restart ==
  /\ phase' = "serving"
  /\ UNCHANGED about
  /\ Bitmon!Restart /\ Deliv!Restart

-----------------------------------------------------------------------------
(* The specification *)

Next ==
  \/ Request \/ TellBitmon \/ TellDelivery
  \/ BitmonStep \/ (\E cback \in out : SendCallback(cback)) \/ WorldStep
  \/ DeliveryStep
  \/ BeginCleanUp \/ CleanUpStep
  \/ BitmonDies \/ DeliveryDies \/ Restart

Spec == Init /\ [][Next]_vars

(* Bitmon as in its own specification, where the put of a callback may     *)
(* have to wait; the delivery process takes its commands and ends when it  *)
(* is told to; handlers and clean_up go on when they can. Requests,        *)
(* crashes and restarts are never obliged to happen.                       *)
FairSpec ==
  /\ Spec
  /\ WF_vars(TellBitmon) /\ WF_vars(TellDelivery) /\ WF_vars(CleanUpStep)
  /\ SF_vars(BitmonFrame /\ Bitmon!CommandStep)
  /\ WF_vars((BitmonFrame /\ Bitmon!LocalStep) \/ \E cback \in out : SendCallback(cback))
  /\ SF_vars(BitmonFrame /\ Bitmon!BeginStep)
  /\ WF_vars(DeliveryFrame /\ (Deliv!TakeStep \/ Deliv!End))

-----------------------------------------------------------------------------
(* Properties *)

(* A callback that bitmon has handed on gets its row. It is lost on its    *)
(* way only when bitmon is killed, or the delivery process was: clean_up   *)
(* closes bitmon first and waits for it, so that nothing follows the       *)
(* EXIT_TASK; and a bitmon that ends by an error has no effect on what it  *)
(* has put.                                                                *)
HandedOnIsKept ==
  [][\A c \in Callback :
       Deliv!OnItsWay(c) /\ ~Deliv!OnItsWay(c)'
         => state'[c] # "none" \/ process = "dead" \/ BitmonDies]_vars

(* A second callback about the same block and subscription is created only *)
(* by a later run of the application, and only when the block number was   *)
(* not yet saved in the run that created the first.                        *)
RepeatedOnlyUnsaved ==
  [][\A c \in DOMAIN about' \ DOMAIN about :
       /\ blockRow # NoBlock => about'[c].height >= Bitmon!Monitor!MonitoredBlock(blockRow)
       /\ \A b \in DOMAIN about :
            about[b].sub = about'[c].sub /\ about[b].height = about'[c].height
              => about[b].run < about'[c].run]_vars

Died == bpc = "dead" \/ process = "dead"

(* clean_up returns: it waits for bitmon, which may be waiting for room in *)
(* the queue of the delivery process, which waits for nobody. A process    *)
(* that was killed is excepted: nobody reads its queue, and a put into it  *)
(* may wait for ever.                                                      *)
CleanUpReturns == (phase = "exiting") ~> (phase \in {"closed", "serving"} \/ Died)

(* A request is answered, although its handler may have to wait for room   *)
(* in a queue: unless the process that reads it was killed.                *)
RequestsReturn ==
  (telling # NoCommand \/ patching # NoCallback)
    ~> ((telling = NoCommand /\ patching = NoCallback) \/ Died)

(* From the block chain to the tables: when a block that is deep enough    *)
(* involves the address of a subscription that is served, a callback about *)
(* it gets a row, unless a process stops.                                  *)
PaymentsReachRows ==
  \A s \in Sub, h \in 0..MaxTip :
    /\ phase = "serving" /\ Bitmon!Running /\ current # Offline
    /\ bpc = "load" /\ Bitmon!Monitor!MonitoredBlock(current) = h
    /\ s \in subsById /\ AddrOf[s] \in chain[h].has
    ~> \/ \E c \in DOMAIN about :
            about[c].sub = s /\ about[c].height = h /\ state[c] # "none"
       \/ phase # "serving" \/ Died

=============================================================================
