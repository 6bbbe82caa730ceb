-------------------------- MODULE DeliveryRefinement --------------------------
(***************************************************************************)
(* CallbackTask implements Delivery: the state of a callback is read off   *)
(* its row, the process is as far as its dispatch thread is, and the POSTs *)
(* are the runs of the pool's function. Records, queues and threads are    *)
(* what the abstract specification does not show.                          *)
(***************************************************************************)
EXTENDS CallbackTask

(* What the row of a callback says of it. *)
StateOf(row) ==
  IF row = Missing THEN "none"
  ELSE IF row.acked THEN "acked"
  ELSE IF row.retries = 0 THEN "over"
  ELSE "open"

ProcessOf(pc) ==
  CASE pc = "dead" -> "dead"
    [] pc = "exited" -> "ended"
    [] pc \in {"closing", "join"} -> "closing"
    [] OTHER -> "up"

(* A callback is sent once and retried Retries times before it is given    *)
(* up, and process_sent adds one.                                          *)
Abstract == INSTANCE Delivery WITH
  MinTries <- Retries + 1, MaxTries <- Retries + 2,
  state <- [c \in Callback |-> StateOf(db[c])],
  process <- ProcessOf(dpc)

(* README.md: "Each callbacks is reissued until the retry limit is reached *)
(* or it is acknowledged": whatever the threads of the process do between  *)
(* each other's steps, a callback's row is created by its command only,    *)
(* is given up only after its first send and all of its retries, is never  *)
(* taken back from acknowledged to unacknowledged or from given up to      *)
(* open, and is POSTed no more often than promised; a crash forgets the    *)
(* commands in the queue and nothing else.                                 *)
ImplementsDelivery == Abstract!Spec

=============================================================================
