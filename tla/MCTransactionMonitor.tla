------------------------- MODULE MCTransactionMonitor -------------------------
(* Instances of TransactionMonitor. *)
EXTENDS TransactionMonitor

(* What the blocks contain makes no difference to the monitor. *)
Blocks == {"block"}

=============================================================================
