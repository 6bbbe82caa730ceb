------------------------------ MODULE ThreadPool ------------------------------
(***************************************************************************)
(* The job pool of bitcallback/thread_pool.py: a bounded FIFO queue        *)
(* (queue.Queue), a fixed set of worker threads that take messages from it *)
(* and apply the pool's function to each job, producers that call add_job, *)
(* and one thread that calls close.                                        *)
(*                                                                         *)
(* queue.Queue is thread safe, so one put or get is one step. add_job is   *)
(* two steps, because it reads the close flag before it puts the job and   *)
(* holds nothing in between.                                               *)
(***************************************************************************)
EXTENDS Integers, Sequences, FiniteSets, Functions

CONSTANTS
  Worker,      \* the pool's threads (nthreads of them)
  Producer,    \* the threads that call add_job
  Job,         \* the jobs
  FailingJob,  \* the jobs for which the pool's function raises
  MaxLen,      \* maxlen: capacity of the job queue, 0 for no limit
  NoJob,       \* "not adding anything"
  MsgExit,     \* the (MSG_EXIT, None) message
  Idle,        \* a worker blocked in job_q.get()
  Gone         \* a worker whose thread has ended

ASSUME PoolAssumption ==
  /\ MaxLen \in Nat
  /\ IsFiniteSet(Worker)
  /\ FailingJob \subseteq Job
  /\ NoJob \notin Job /\ MsgExit \notin Job /\ Idle \notin Job /\ Gone \notin Job
  /\ Idle # Gone

VARIABLES
  pendingQ,   \* _pending_q: the messages waiting for a worker
  closeFlag,  \* _close_flag
  worker,     \* worker[w]: Idle, the job being processed, or Gone
  adding,     \* adding[p]: the job p has checked the flag for and not yet put
  closing,    \* where close() is: open, purge, exits, join, closed
  exitsLeft,  \* how many MSG_EXIT close() still has to put
  runs        \* how many times the function was applied to each job (history)

poolVars == <<pendingQ, closeFlag, worker, adding, closing, exitsLeft, runs>>

Init ==
  /\ pendingQ = << >>
  /\ closeFlag = FALSE
  /\ worker = [w \in Worker |-> Idle]
  /\ adding = [p \in Producer |-> NoJob]
  /\ closing = "open"
  /\ exitsLeft = 0
  /\ runs = [j \in Job |-> 0]

-----------------------------------------------------------------------------
(* add_job *)

HasRoom == MaxLen = 0 \/ Len(pendingQ) < MaxLen

(* add_job begins: the flag is clear, so the call goes on to put the job. *)
CheckFlag(p, j) ==
  /\ adding[p] = NoJob
  /\ ~closeFlag
  /\ adding' = [adding EXCEPT ![p] = j]
  /\ UNCHANGED <<pendingQ, closeFlag, worker, closing, exitsLeft, runs>>

(* add_job ends: the job is in the queue. *)
PutJob(p) ==
  /\ adding[p] # NoJob
  /\ HasRoom
  /\ pendingQ' = Append(pendingQ, adding[p])
  /\ adding' = [adding EXCEPT ![p] = NoJob]
  /\ UNCHANGED <<closeFlag, worker, closing, exitsLeft, runs>>

(* add_job ends with queue.Full, at once (block=False) or on its timeout.  *)
(* A producer with block=True and no timeout waits for PutJob instead.     *)
PutFull(p) ==
  /\ adding[p] # NoJob
  /\ ~HasRoom
  /\ adding' = [adding EXCEPT ![p] = NoJob]
  /\ UNCHANGED <<pendingQ, closeFlag, worker, closing, exitsLeft, runs>>

-----------------------------------------------------------------------------
(* worker_thread *)

(* What the queue holds once a message has been taken from it. (KeepTaken  *)
(* is the mistake of reading the head without removing it.)                *)
KeepTaken(q) == q
Taken(q) == Tail(q)

(* The test a worker makes on every message. *)
IsExit(msg) == msg = MsgExit

(* A worker takes a job and starts applying the function to it. *)
GetJob(w) ==
  /\ worker[w] = Idle
  /\ pendingQ # << >> /\ ~IsExit(Head(pendingQ))
  /\ worker' = [worker EXCEPT ![w] = Head(pendingQ)]
  /\ runs' = [runs EXCEPT ![Head(pendingQ)] = @ + 1]
  /\ pendingQ' = Taken(pendingQ)
  /\ UNCHANGED <<closeFlag, adding, closing, exitsLeft>>

(* A worker takes MSG_EXIT and leaves its loop. *)
GetExit(w) ==
  /\ worker[w] = Idle
  /\ pendingQ # << >> /\ IsExit(Head(pendingQ))
  /\ worker' = [worker EXCEPT ![w] = Gone]
  /\ pendingQ' = Taken(pendingQ)
  /\ UNCHANGED <<closeFlag, adding, closing, exitsLeft, runs>>

(* The function returns and the worker goes back to the queue. *)
FinishJob(w) ==
  /\ worker[w] \in Job \ FailingJob
  /\ worker' = [worker EXCEPT ![w] = Idle]
  /\ UNCHANGED <<pendingQ, closeFlag, adding, closing, exitsLeft, runs>>

(* The function raises: nothing in worker_thread catches it, so the thread *)
(* ends without having taken a MSG_EXIT.                                   *)
RaiseJob(w) ==
  /\ worker[w] \in FailingJob
  /\ worker' = [worker EXCEPT ![w] = Gone]
  /\ UNCHANGED <<pendingQ, closeFlag, adding, closing, exitsLeft, runs>>

-----------------------------------------------------------------------------
(* close *)

(* How many exit messages close() puts. (HalfTheExits is the mistake of    *)
(* waking every second thread.)                                            *)
HalfTheExits == Cardinality(Worker) \div 2
ExitMessages == 2 * Cardinality(Worker)

(* close(now): set the flag, then purge the queue or go straight to the    *)
(* exit messages. A closed pool may be closed again with now=True: the     *)
(* tests' tearDown closes a manager that the test has closed already.      *)
BeginClose(now) ==
  /\ closing = "open" \/ (closing = "closed" /\ now)
  /\ closeFlag' = TRUE
  /\ closing' = IF now THEN "purge" ELSE "exits"
  /\ exitsLeft' = ExitMessages
  /\ UNCHANGED <<pendingQ, worker, adding, runs>>

(* One get_nowait of the purge loop. *)
PurgeOne ==
  /\ closing = "purge"
  /\ pendingQ # << >>
  /\ pendingQ' = Tail(pendingQ)
  /\ UNCHANGED <<closeFlag, worker, adding, closing, exitsLeft, runs>>

(* get_nowait raises queue.Empty and the purge loop ends. *)
PurgeDone ==
  /\ closing = "purge"
  /\ pendingQ = << >>
  /\ closing' = "exits"
  /\ UNCHANGED <<pendingQ, closeFlag, worker, adding, exitsLeft, runs>>

(* Where an exit message goes: behind whatever the queue holds.            *)
(* (ExitFirst is the mistake of putting it ahead.)                         *)
ExitFirst(q) == <<MsgExit>> \o q
WithExit(q) == Append(q, MsgExit)

(* One of the 2 * nthreads exit messages; the put blocks while the queue   *)
(* is full.                                                                *)
PutExit ==
  /\ closing = "exits" /\ exitsLeft > 0
  /\ HasRoom
  /\ pendingQ' = WithExit(pendingQ)
  /\ exitsLeft' = exitsLeft - 1
  /\ UNCHANGED <<closeFlag, worker, adding, closing, runs>>

ExitsDone ==
  /\ closing = "exits" /\ exitsLeft = 0
  /\ closing' = "join"
  /\ UNCHANGED <<pendingQ, closeFlag, worker, adding, exitsLeft, runs>>

(* thread.join() on every worker has returned. *)
Join ==
  /\ closing = "join"
  /\ \A w \in Worker : worker[w] = Gone
  /\ closing' = "closed"
  /\ UNCHANGED <<pendingQ, closeFlag, worker, adding, exitsLeft, runs>>

-----------------------------------------------------------------------------
(* The pool with its environment *)

(* j has not been submitted yet. Two submissions of one job are two jobs   *)
(* here, so that runs[j] counts what became of one submission; this also   *)
(* bounds the model by Cardinality(Job).                                   *)
Fresh(j) ==
  /\ runs[j] = 0
  /\ j \notin Range(pendingQ)
  /\ \A p \in Producer : adding[p] # j

WorkerStep(w) == GetJob(w) \/ GetExit(w) \/ FinishJob(w) \/ RaiseJob(w)

CloserStep == PurgeOne \/ PurgeDone \/ PutExit \/ ExitsDone \/ Join

Next ==
  \/ \E p \in Producer, j \in Job : Fresh(j) /\ CheckFlag(p, j)
  \/ \E p \in Producer : PutJob(p) \/ PutFull(p)
  \/ \E w \in Worker : WorkerStep(w)
  \/ \E now \in BOOLEAN : BeginClose(now)
  \/ CloserStep

Spec == Init /\ [][Next]_poolVars

(* Threads that can run do run: the workers, and the thread inside close().*)
(* Nothing obliges anybody to add a job or to close the pool.              *)
FairSpec ==
  /\ Spec
  /\ \A w \in Worker : WF_poolVars(WorkerStep(w))
  /\ WF_poolVars(CloserStep)

-----------------------------------------------------------------------------
(* Properties *)

(* Type invariant of the pool: the queue holds jobs and exit messages, a   *)
(* worker is idle, at work or gone, and every counter is a natural number. *)
TypeOK ==
  /\ pendingQ \in Seq(Job \cup {MsgExit})
  /\ closeFlag \in BOOLEAN
  /\ worker \in [Worker -> Job \cup {Idle, Gone}]
  /\ adding \in [Producer -> Job \cup {NoJob}]
  /\ closing \in {"open", "purge", "exits", "join", "closed"}
  /\ exitsLeft \in Nat
  /\ runs \in [Job -> Nat]

InQueue(j) == j \in Range(pendingQ)

(* However the producers, the workers and a close interleave, a job        *)
(* submitted once is handed to the pool's function at most once, and a job *)
(* that has been handed out is no longer waiting in the queue.             *)
EachJobRunsAtMostOnce ==
  \A j \in Job : runs[j] <= 1 /\ (InQueue(j) => runs[j] = 0)

(* A job that is in the queue while the pool is open is run, unless a      *)
(* close(now=True) purges the queue first: close(now=False) puts the exit  *)
(* messages behind it ("it will wait until all queued jobs are processed").*)
(* It needs a worker that no job kills.                                    *)
AcceptedJobsRun ==
  \A j \in Job :
    (InQueue(j) /\ ~closeFlag) ~> (runs[j] = 1 \/ closing = "purge")

(* close() returns, although a job may kill a worker and producers that    *)
(* have passed the test of the flag add late jobs: it never stays blocked  *)
(* putting exit messages or joining the workers. It needs room in the      *)
(* queue for the messages no worker takes and for the late jobs.           *)
CloseReturns == (closing # "open") ~> (closing = "closed")

=============================================================================
