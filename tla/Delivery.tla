------------------------------- MODULE Delivery -------------------------------
(***************************************************************************)
(* What the callback delivery process promises to the rest of the program: *)
(* the abstract specification that CallbackTask implements, and with which *)
(* System composes the bitmon process. Of the process there is its command *)
(* queue and whether it runs; of a callback what its row says and how      *)
(* often it was POSTed. When a callback is POSTed, and by which thread, is *)
(* left open; how often, and when the process may give up, is not.         *)
(***************************************************************************)
EXTENDS Integers, Sequences

CONSTANTS
  Callback,    \* callback ids
  NoCallback,  \* "no callback"
  QueueSize,   \* QUEUE_SIZE of the command queue
  MinTries,    \* POSTs before a callback may be given up
  MaxTries,    \* POSTs of a callback when the process never restarts
  MaxRestarts  \* bound: how often the application is started again

(* What is assumed of them (by System, and by CallbackTask of what it puts *)
(* in their places).                                                       *)
DeliveryAssumption ==
  /\ NoCallback \notin Callback
  /\ QueueSize \in Nat \ {0} /\ MaxRestarts \in Nat
  /\ MinTries \in Nat /\ MaxTries \in Nat /\ MinTries <= MaxTries

VARIABLES
  state,     \* what the rows say: see CallbackState
  posts,     \* posts[c]: POST requests issued for c
  process,   \* "up", "closing" once EXIT_TASK was read, "ended" or "dead"
  app, patching, inputQ, restarts  \* the flask process, as in CallbackTask

rowVars == <<state, posts>>
vars == <<rowVars, process, app, patching, inputQ, restarts>>

(* No row; unacknowledged with retries left or without; acknowledged.      *)
CallbackState == {"none", "open", "over", "acked"}

Running == process \in {"up", "closing"}

Init ==
  /\ state = [c \in Callback |-> "none"]
  /\ posts = [c \in Callback |-> 0]
  /\ process = "up"
  /\ app = "up" /\ patching = NoCallback /\ inputQ = << >> /\ restarts = 0

-----------------------------------------------------------------------------
(* The processes that write to the command queue *)

Command(cmd, c) == [cmd |-> cmd, id |-> c]

Put(msg) ==
  /\ Len(inputQ) < QueueSize
  /\ inputQ' = Append(inputQ, msg)

OnItsWay(c) == \E i \in DOMAIN inputQ : inputQ[i] = Command("NEW_CALLBACK", c)

PutCallback(c) ==
  /\ state[c] = "none" /\ ~OnItsWay(c)
  /\ Put(Command("NEW_CALLBACK", c))
  /\ UNCHANGED <<rowVars, process, app, patching, restarts>>

(* That no callback follows the EXIT_TASK is assumed here; System, which   *)
(* does not assume it, shows it.                                           *)
NewCallback(c) == app = "up" /\ PutCallback(c)

PatchCallback(c) ==
  /\ app = "up" /\ patching = NoCallback
  /\ state[c] \in {"open", "over"}
  /\ state' = [state EXCEPT ![c] = "acked"]
  /\ patching' = c
  /\ UNCHANGED <<posts, process, app, inputQ, restarts>>

SendAck ==
  /\ patching # NoCallback
  /\ Put(Command("ACK_CALLBACK", patching))
  /\ patching' = NoCallback
  /\ UNCHANGED <<rowVars, process, app, restarts>>

CloseTask ==
  /\ app = "up" /\ patching = NoCallback
  /\ app' = "closing"
  /\ Put(Command("EXIT_TASK", NoCallback))
  /\ UNCHANGED <<rowVars, process, patching, restarts>>

-----------------------------------------------------------------------------
(* The process *)

Take(cmd) ==
  /\ process = "up"
  /\ inputQ # << >> /\ Head(inputQ).cmd = cmd
  /\ inputQ' = Tail(inputQ)
  /\ UNCHANGED <<posts, app, patching, restarts>>

TakeNew ==
  /\ Take("NEW_CALLBACK")
  /\ state' = [state EXCEPT ![Head(inputQ).id] = "open"]
  /\ UNCHANGED process

(* The row is acknowledged already: the handler did that. *)
TakeAck == Take("ACK_CALLBACK") /\ UNCHANGED <<state, process>>

(* (ExitIgnored is the mistake of going on after it.) *)
ExitIgnored == Take("EXIT_TASK") /\ UNCHANGED <<state, process>>
TakeExit ==
  /\ Take("EXIT_TASK")
  /\ process' = "closing"
  /\ UNCHANGED state

End ==
  /\ process = "closing"
  /\ process' = "ended"
  /\ UNCHANGED <<rowVars, app, patching, inputQ, restarts>>

(* A try for a callback that has a row. One that is acknowledged or given  *)
(* up may still be POSTed by a worker that had it by then. Every restart   *)
(* may repeat one try.                                                     *)
Post(c) ==
  /\ Running
  /\ state[c] # "none"
  /\ posts[c] < MaxTries + restarts
  /\ posts' = [posts EXCEPT ![c] = @ + 1]
  /\ UNCHANGED <<state, process, app, patching, inputQ, restarts>>

(* Its retries are used up: not before it had all of them. *)
GiveUp(c) ==
  /\ Running
  /\ state[c] = "open" /\ posts[c] >= MinTries
  /\ state' = [state EXCEPT ![c] = "over"]
  /\ UNCHANGED <<posts, process, app, patching, inputQ, restarts>>

(* The process is killed; the rows and the queue are left. *)
Dies ==
  /\ Running
  /\ restarts < MaxRestarts
  /\ process' = "dead"
  /\ UNCHANGED <<rowVars, app, patching, inputQ, restarts>>

(* The application is started again; the rows are left. *)
Restart ==
  /\ ~Running
  /\ restarts < MaxRestarts
  /\ restarts' = restarts + 1
  /\ process' = "up"
  /\ app' = "up" /\ patching' = NoCallback /\ inputQ' = << >>
  /\ UNCHANGED rowVars

-----------------------------------------------------------------------------
(* The specification *)

FlaskStep ==
  \/ SendAck \/ CloseTask
  \/ \E c \in Callback : NewCallback(c) \/ PatchCallback(c)

TakeStep == TakeNew \/ TakeAck \/ TakeExit

ProcessStep == TakeStep \/ End \/ \E c \in Callback : Post(c) \/ GiveUp(c)

Next == FlaskStep \/ ProcessStep \/ Dies \/ Restart

Spec == Init /\ [][Next]_vars

=============================================================================
