----------------------------- MODULE CallbackTask -----------------------------
(***************************************************************************)
(* The callback delivery process of bitcallback/callback_task.py:          *)
(* CallbackTask (the process, its command queue and dispatch loop) and     *)
(* CallbackManager (the callback table, the retry queue, the thread that   *)
(* feeds the thread pool and collects what was sent, and the database rows *)
(* they are recovered from), with the part of views.py that acknowledges a *)
(* callback.                                                               *)
(*                                                                         *)
(* Three kinds of thread run in the process: the dispatch thread, the      *)
(* update thread and the workers of a ThreadPool. The table and the retry  *)
(* queue are only touched under _lock and the database only under          *)
(* _db_lock, neither lock is taken while the other is held, and each       *)
(* critical section is one step here. The process may die between any two  *)
(* steps; the database survives.                                           *)
(***************************************************************************)
EXTENDS Integers, Sequences, FiniteSets, Functions

CONSTANTS
  Callback,     \* callback ids
  NoCallback,   \* "no callback"
  Missing,      \* no row in the database, no record in the table
  Worker,       \* the threads of the pool
  Retries,      \* RETRIES: "max number of retries before acknowledgment"
  RetryPeriod,  \* RETRY_PERIOD, in clock ticks
  Backdate,     \* age given to a new callback's last_retry (10 minutes)
  MaxAge,       \* bound: ages beyond it are not told apart
  MaxLen,       \* JOB_QUEUE_MAX_LENGTH
  QueueSize,    \* QUEUE_SIZE of the command queue
  DbMayFail,    \* whether a database access of the update thread may raise
  MaxRestarts,  \* bound: how often the application is started again
  MsgExit, Idle, Gone  \* see ThreadPool

(* A callback's row in the database, and its CallbackRecord in memory.     *)
(* age is the time since last_retry.                                       *)
Row == [acked : BOOLEAN, retries : Nat, age : 0..MaxAge]
Record == [retries : Nat, age : 0..MaxAge]

ASSUME CallbackAssumption ==
  /\ NoCallback \notin Callback /\ MsgExit \notin Callback
  /\ Idle \notin Callback /\ Gone \notin Callback /\ Idle # Gone
  /\ Missing \notin Row /\ Missing \notin Record
  /\ IsFiniteSet(Callback) /\ IsFiniteSet(Worker)
  /\ Retries \in Nat /\ RetryPeriod \in Nat /\ Backdate \in Nat
  /\ MaxAge \in Nat /\ RetryPeriod <= MaxAge /\ Backdate <= MaxAge
  /\ MaxLen \in Nat /\ QueueSize \in Nat \ {0} /\ MaxRestarts \in Nat
  /\ DbMayFail \in BOOLEAN

VARIABLES
  (* What outlives the process *)
  db,          \* db[c]: the callback's row, or Missing
  posts,       \* posts[c]: POST requests issued for c since it exists (history)
  (* The flask process *)
  app,         \* "up", or "closing" once clean_up has begun
  patching,    \* callback whose PATCH is committed but not yet sent on
  inputQ,      \* _input_q: commands for the dispatch loop
  restarts,    \* how often the application was started again
  (* CallbackManager, shared by its threads *)
  callbacks,   \* _callbacks: callbacks[c] is c's record, or Missing
  retryQ,      \* _retry_q
  sentQ,       \* _sent_q
  closeFlag,   \* _close_flag of the manager
  (* The dispatch thread *)
  dpc,         \* where it is
  did,         \* the callback it is adding or acknowledging
  recovered,   \* the callbacks __init__ has read from the database
  (* The update thread *)
  upc,         \* where it is
  uid,         \* the callback it has taken from the retry queue
  urec,        \* the record it is about to save
  (* The thread pool *)
  pendingQ, poolFlag, worker, adding, closing, exitsLeft

poolVars == <<pendingQ, poolFlag, worker, adding, closing, exitsLeft>>
flaskVars == <<app, patching, inputQ, restarts>>
managerVars == <<callbacks, retryQ, sentQ, closeFlag>>
dispatchVars == <<dpc, did, recovered>>
updateVars == <<upc, uid, urec>>
vars == <<db, posts, flaskVars, managerVars, dispatchVars, updateVars, poolVars>>

(* The pool's only producer is the update thread, its function            *)
(* (_send_thread_func) catches everything, and each run of it is one POST. *)
Pool == INSTANCE ThreadPool WITH
  Producer <- {"update"}, Job <- Callback, FailingJob <- {},
  NoJob <- NoCallback, closeFlag <- poolFlag, runs <- posts

-----------------------------------------------------------------------------
(* Starting and stopping the process *)

Live == {c \in Callback : callbacks[c] # Missing}

Running == dpc \notin {"dead", "exited"}

NoRecords == [c \in Callback |-> Missing]
IdleWorkers == [w \in Worker |-> Idle]
NotAdding == [p \in {"update"} |-> NoCallback]

(* The process memory as CallbackManager.__init__ sets it up. *)
Init ==
  /\ db = [c \in Callback |-> Missing]
  /\ posts = [c \in Callback |-> 0]
  /\ app = "up" /\ patching = NoCallback /\ inputQ = << >> /\ restarts = 0
  /\ dpc = "recover"
  /\ callbacks = NoRecords
  /\ retryQ = << >> /\ sentQ = << >> /\ closeFlag = FALSE
  /\ did = NoCallback /\ recovered = {}
  /\ upc = "check" /\ uid = NoCallback /\ urec = Missing
  /\ pendingQ = << >> /\ poolFlag = FALSE
  /\ worker = IdleWorkers /\ adding = NotAdding
  /\ closing = "open" /\ exitsLeft = 0

(* All of it is lost when the process ends, and set up again for the next. *)
ForgetMemory ==
  /\ callbacks' = NoRecords
  /\ retryQ' = << >> /\ sentQ' = << >> /\ closeFlag' = FALSE
  /\ did' = NoCallback /\ recovered' = {}
  /\ upc' = "check" /\ uid' = NoCallback /\ urec' = Missing
  /\ pendingQ' = << >> /\ poolFlag' = FALSE
  /\ worker' = IdleWorkers /\ adding' = NotAdding
  /\ closing' = "open" /\ exitsLeft' = 0

(* The process ends without cleaning up: it is killed, or a command raises *)
(* in the dispatch loop, which catches only queue.Empty (the other threads *)
(* are daemons and end with it). Flask keeps running and keeps writing to  *)
(* the command queue. Bound: only while it can be started again.           *)
TaskDies ==
  /\ Running
  /\ restarts < MaxRestarts
  /\ dpc' = "dead"
  /\ ForgetMemory
  /\ UNCHANGED <<db, posts, flaskVars>>

(* The whole application is started again; only the database is left. *)
Restart ==
  /\ ~Running
  /\ restarts < MaxRestarts
  /\ restarts' = restarts + 1
  /\ app' = "up" /\ patching' = NoCallback /\ inputQ' = << >>
  /\ dpc' = "recover"
  /\ ForgetMemory
  /\ UNCHANGED <<db, posts>>

-----------------------------------------------------------------------------
(* The flask and bitmon processes: what they write to the command queue *)

(* CallbackTask.new_callback, .ack_callback and .close are one put each;   *)
(* a put waits while the queue is full.                                    *)
Command(cmd, c) == [cmd |-> cmd, id |-> c]

Put(msg) ==
  /\ Len(inputQ) < QueueSize
  /\ inputQ' = Append(inputQ, msg)

(* bitmon_task sends a callback it has just created. *)
NewCallback(c) ==
  /\ app = "up"
  /\ db[c] = Missing
  /\ \A i \in DOMAIN inputQ : inputQ[i].id # c
  /\ Put(Command("NEW_CALLBACK", c))
  /\ UNCHANGED <<db, posts, app, patching, restarts, managerVars, dispatchVars,
                 updateVars, poolVars>>

(* PATCH /callback/<id>: 404 without a row, 403 when already acknowledged, *)
(* otherwise the row is committed first ...                                *)
PatchCallback(c) ==
  /\ app = "up" /\ patching = NoCallback
  /\ db[c] # Missing /\ ~db[c].acked
  /\ db' = [db EXCEPT ![c].acked = TRUE]
  /\ patching' = c
  /\ UNCHANGED <<posts, app, inputQ, restarts, managerVars, dispatchVars,
                 updateVars, poolVars>>

(* ... and then the delivery process is told. *)
SendAck ==
  /\ patching # NoCallback
  /\ Put(Command("ACK_CALLBACK", patching))
  /\ patching' = NoCallback
  /\ UNCHANGED <<db, posts, app, restarts, managerVars, dispatchVars,
                 updateVars, poolVars>>

(* clean_up closes the callback task; by then bitmon has ended and flask   *)
(* serves no more requests.                                                *)
CloseTask ==
  /\ app = "up" /\ patching = NoCallback
  /\ app' = "closing"
  /\ Put(Command("EXIT_TASK", NoCallback))
  /\ UNCHANGED <<db, posts, patching, restarts, managerVars, dispatchVars,
                 updateVars, poolVars>>

-----------------------------------------------------------------------------
(* The dispatch thread *)

(* What __init__ recovers: unacknowledged rows with retries left.          *)
(* (StillRetrying is the mistake of not looking at acknowledged.)          *)
StillRetrying(row) == row # Missing /\ row.retries > 0
Unfinished(row) == row # Missing /\ ~row.acked /\ row.retries > 0

RecordOf(row) == [retries |-> row.retries, age |-> row.age]

(* pending = query(...).all(). The update thread is running already. *)
ReadPending ==
  /\ dpc = "recover"
  /\ recovered' = {c \in Callback : Unfinished(db[c])}
  /\ dpc' = "reload"
  /\ UNCHANGED <<db, posts, flaskVars, managerVars, did, updateVars, poolVars>>

(* The orders sorted() may return: by last_retry, the oldest first. *)
OldestFirst(S) ==
  {q \in [1..Cardinality(S) -> S] :
    /\ \A c \in S : \E i \in DOMAIN q : q[i] = c
    /\ \A i, k \in DOMAIN q : i < k => q[i] # q[k] /\ db[q[i]].age >= db[q[k]].age}

(* Under the lock: every recovered callback enters the table and the queue.*)
AddPending ==
  /\ dpc = "reload"
  /\ callbacks' = [c \in Callback |->
                     IF c \in recovered THEN RecordOf(db[c]) ELSE callbacks[c]]
  /\ \E q \in OldestFirst(recovered) : retryQ' = retryQ \o q
  /\ recovered' = {}
  /\ dpc' = "idle"
  /\ UNCHANGED <<db, posts, flaskVars, sentQ, closeFlag, did, updateVars, poolVars>>

(* The command at the head of the queue, taken by the dispatch loop. *)
GetCommand(cmd) ==
  /\ dpc = "idle"
  /\ inputQ # << >> /\ Head(inputQ).cmd = cmd
  /\ inputQ' = Tail(inputQ)
  /\ UNCHANGED <<app, patching, restarts>>

(* The row new_callback inserts: one send and Retries retries to go, due   *)
(* at once because last_retry lies ten minutes back. (OneTryLess is the    *)
(* mistake of counting the first send as a retry.)                         *)
OneTryLess == [acked |-> FALSE, retries |-> Retries, age |-> Backdate]
NewRow == [acked |-> FALSE, retries |-> Retries + 1, age |-> Backdate]

(* new_callback: insert the row ... *)
InsertRow ==
  /\ GetCommand("NEW_CALLBACK")
  /\ did' = Head(inputQ).id
  /\ db' = [db EXCEPT ![did'] = NewRow]
  /\ dpc' = "new"
  /\ UNCHANGED <<posts, managerVars, recovered, updateVars, poolVars>>

(* ... then, under the lock, the record, next in line for delivery. *)
AddCallback ==
  /\ dpc = "new"
  /\ callbacks' = [callbacks EXCEPT ![did] = RecordOf(db[did])]
  /\ retryQ' = <<did>> \o retryQ
  /\ did' = NoCallback
  /\ dpc' = "idle"
  /\ UNCHANGED <<db, posts, flaskVars, sentQ, closeFlag, recovered, updateVars, poolVars>>

(* The table without c. *)
DropFrom(table, c) == [table EXCEPT ![c] = Missing]

(* ack_callback: under the lock, the record is dropped; an unknown id ends *)
(* the call.                                                               *)
DropRecord ==
  /\ GetCommand("ACK_CALLBACK")
  /\ LET c == Head(inputQ).id IN
       /\ callbacks' = DropFrom(callbacks, c)
       /\ IF c \in Live
            THEN dpc' = "ack" /\ did' = c
            ELSE UNCHANGED <<dpc, did>>
  /\ UNCHANGED <<db, posts, retryQ, sentQ, closeFlag, recovered, updateVars, poolVars>>

(* Then the row is marked acknowledged (once more: PATCH has done it). *)
SaveAck ==
  /\ dpc = "ack"
  /\ db' = [db EXCEPT ![did].acked = TRUE]
  /\ did' = NoCallback
  /\ dpc' = "idle"
  /\ UNCHANGED <<posts, flaskVars, managerVars, recovered, updateVars, poolVars>>

(* EXIT_TASK: close() starts by closing the pool (now=True). *)
GetExitTask ==
  /\ GetCommand("EXIT_TASK")
  /\ dpc' = "closing"
  /\ Pool!BeginClose(TRUE)
  /\ UNCHANGED <<db, managerVars, did, recovered, updateVars>>

ClosePool ==
  /\ dpc = "closing"
  /\ Pool!CloserStep
  /\ UNCHANGED <<db, flaskVars, managerVars, dispatchVars, updateVars>>

(* The pool is closed: tell the update thread. *)
SetCloseFlag ==
  /\ dpc = "closing" /\ closing = "closed"
  /\ closeFlag' = TRUE
  /\ dpc' = "join"
  /\ UNCHANGED <<db, posts, flaskVars, callbacks, retryQ, sentQ, did, recovered,
                 updateVars, poolVars>>

(* The update thread has ended: close the session and exit. *)
JoinUpdate ==
  /\ dpc = "join" /\ upc \in {"stopped", "dead"}
  /\ dpc' = "exited"
  /\ UNCHANGED <<db, posts, flaskVars, managerVars, did, recovered, updateVars, poolVars>>

-----------------------------------------------------------------------------
(* The update thread: send what is ready, collect what was sent, repeat *)

UpdateFrame == UNCHANGED <<db, posts, flaskVars, closeFlag, dispatchVars>>

(* Is the thread to stop? (NeverAsked is the mistake of not looking.) *)
NeverAsked == FALSE
StopAsked == closeFlag

(* while True: stop, or go round once more. *)
CheckClose ==
  /\ upc = "check"
  /\ upc' = IF StopAsked THEN "stopped" ELSE "ready"
  /\ UpdateFrame
  /\ UNCHANGED <<callbacks, retryQ, sentQ, uid, urec, poolVars>>

(* _next_sent's tests of the head of the queue: it is still in the table   *)
(* and its last try lies a retry period back.                              *)
Due(rec) == rec # Missing /\ rec.age >= RetryPeriod

HeadIsDue == retryQ # << >> /\ Due(callbacks[Head(retryQ)])

(* The retry queue without the head that is being sent. (NotPopped is the  *)
(* mistake of only reading it.)                                            *)
NotPopped(q) == q
Popped(q) == Tail(q)

(* _next_sent: the head of the retry queue is due and is taken off it. *)
TakeReady ==
  /\ upc = "ready"
  /\ HeadIsDue
  /\ uid' = Head(retryQ)
  /\ retryQ' = Popped(retryQ)
  /\ upc' = "load"
  /\ UpdateFrame
  /\ UNCHANGED <<callbacks, sentQ, urec, poolVars>>

(* The queue is empty or its head is not to be sent: _send_ready ends. *)
NoneReady ==
  /\ upc = "ready"
  /\ ~HeadIsDue
  /\ upc' = "sent"
  /\ UpdateFrame
  /\ UNCHANGED <<callbacks, retryQ, sentQ, uid, urec, poolVars>>

(* The request is built from the database row. *)
LoadRequest ==
  /\ upc = "load"
  /\ upc' = "add"
  /\ UpdateFrame
  /\ UNCHANGED <<callbacks, retryQ, sentQ, uid, urec, poolVars>>

(* A database access of the update thread raises: nothing catches it and   *)
(* the thread ends, with what it had in its hands; the process lives on.   *)
UpdateDies ==
  /\ DbMayFail
  /\ upc \in {"load", "save"}
  /\ upc' = "dead"
  /\ UpdateFrame
  /\ UNCHANGED <<callbacks, retryQ, sentQ, uid, urec, poolVars>>

(* add_job(block=False): the pool is open ... *)
BeginAddJob ==
  /\ upc = "add"
  /\ Pool!CheckFlag("update", uid)
  /\ upc' = "put"
  /\ UNCHANGED <<db, flaskVars, managerVars, dispatchVars, uid, urec>>

(* ... or it is closing, which add_job reports as queue.Full. *)
RefuseJob ==
  /\ upc = "add" /\ poolFlag
  /\ upc' = "full"
  /\ UpdateFrame
  /\ UNCHANGED <<callbacks, retryQ, sentQ, uid, urec, poolVars>>

AddJob ==
  /\ upc = "put"
  /\ Pool!PutJob("update")
  /\ upc' = "ready" /\ uid' = NoCallback
  /\ UNCHANGED <<db, flaskVars, managerVars, dispatchVars, urec>>

JobQueueFull ==
  /\ upc = "put"
  /\ Pool!PutFull("update")
  /\ upc' = "full"
  /\ UNCHANGED <<db, flaskVars, managerVars, dispatchVars, uid, urec>>

(* What except queue.Full does with the callback in hand. (LeftOut is the  *)
(* mistake of catching the exception and going on.)                        *)
LeftOut(q, c) == q
GivenBack(q, c) == <<c>> \o q

GiveBack ==
  /\ upc = "full"
  /\ retryQ' = GivenBack(retryQ, uid)
  /\ upc' = "sent" /\ uid' = NoCallback
  /\ UpdateFrame
  /\ UNCHANGED <<callbacks, sentQ, urec, poolVars>>

(* _process_sent: no id arrived for a second. *)
NothingSent ==
  /\ upc = "sent" /\ sentQ = << >>
  /\ upc' = "check"
  /\ UpdateFrame
  /\ UNCHANGED <<callbacks, retryQ, sentQ, uid, urec, poolVars>>

(* The id of a callback that was acknowledged while being sent. *)
DiscardSent ==
  /\ upc = "sent" /\ sentQ # << >> /\ Head(sentQ) \notin Live
  /\ sentQ' = Tail(sentQ)
  /\ UpdateFrame
  /\ UNCHANGED <<callbacks, retryQ, updateVars, poolVars>>

(* Is there a retry left? (OneTooMany is the mistake of an off-by-one.)    *)
OneTooMany(rec) == rec.retries >= 0
HasRetries(rec) == rec.retries > 0

(* A record after one more try. *)
AfterTry(rec) == [retries |-> rec.retries - 1, age |-> 0]

(* Where a callback waits for its next retry. (AtFront is the mistake of   *)
(* queueing it like a new one, Nowhere that of forgetting it.)             *)
Nowhere(q, c) == q
AtFront(q, c) == <<c>> \o q
AtBack(q, c) == Append(q, c)

(* A live callback was sent: queue it for a retry ... *)
Requeue ==
  /\ upc = "sent" /\ sentQ # << >>
  /\ uid' = Head(sentQ)
  /\ uid' \in Live /\ HasRetries(callbacks[uid'])
  /\ sentQ' = Tail(sentQ)
  /\ urec' = AfterTry(callbacks[uid'])
  /\ callbacks' = [callbacks EXCEPT ![uid'] = urec']
  /\ retryQ' = AtBack(retryQ, uid')
  /\ upc' = "save"
  /\ UpdateFrame
  /\ UNCHANGED poolVars

(* ... or drop it when that was its last. *)
GiveUp ==
  /\ upc = "sent" /\ sentQ # << >>
  /\ uid' = Head(sentQ)
  /\ uid' \in Live /\ ~HasRetries(callbacks[uid'])
  /\ sentQ' = Tail(sentQ)
  /\ urec' = callbacks[uid']
  /\ callbacks' = [callbacks EXCEPT ![uid'] = Missing]
  /\ upc' = "save"
  /\ UpdateFrame
  /\ UNCHANGED <<retryQ, poolVars>>

(* The row with the record's fields saved. (OnlyTime is the mistake of     *)
(* leaving retries out of update_fields, WholeRow that of writing the row  *)
(* as it was when it was loaded, not acknowledged.)                        *)
WholeRow(row, rec) == [acked |-> FALSE, retries |-> rec.retries, age |-> rec.age]
OnlyTime(row, rec) == [row EXCEPT !.age = rec.age]
SavedRow(row, rec) == [row EXCEPT !.retries = rec.retries, !.age = rec.age]

SaveRecord ==
  /\ upc = "save"
  /\ db' = [db EXCEPT ![uid] = SavedRow(@, urec)]
  /\ upc' = "sent" /\ uid' = NoCallback /\ urec' = Missing
  /\ UNCHANGED <<posts, flaskVars, managerVars, dispatchVars, poolVars>>

UpdateStep ==
  \/ CheckClose \/ TakeReady \/ NoneReady \/ LoadRequest \/ UpdateDies
  \/ BeginAddJob \/ RefuseJob \/ AddJob \/ JobQueueFull \/ GiveBack
  \/ NothingSent \/ DiscardSent \/ Requeue \/ GiveUp \/ SaveRecord

-----------------------------------------------------------------------------
(* The workers: _send_thread_func *)

(* A worker takes a job and POSTs it. *)
StartPost(w) ==
  /\ Pool!GetJob(w)
  /\ UNCHANGED <<db, flaskVars, managerVars, dispatchVars, updateVars>>

(* The request was answered, failed or timed out, which are all one: the   *)
(* id goes to the sent queue.                                              *)
EndPost(w) ==
  /\ Pool!FinishJob(w)
  /\ sentQ' = Append(sentQ, worker[w])
  /\ UNCHANGED <<db, flaskVars, callbacks, retryQ, closeFlag, dispatchVars, updateVars>>

EndWorker(w) ==
  /\ Pool!GetExit(w)
  /\ UNCHANGED <<db, flaskVars, managerVars, dispatchVars, updateVars>>

-----------------------------------------------------------------------------
(* The clock *)

Older(age) == IF age < MaxAge THEN age + 1 ELSE age

(* Time passes. The ages stop at MaxAge, so that the clock is bounded. *)
Tick ==
  /\ db' = [c \in Callback |-> IF db[c] = Missing THEN Missing
                               ELSE [db[c] EXCEPT !.age = Older(@)]]
  /\ callbacks' = [c \in Callback |-> IF callbacks[c] = Missing THEN Missing
                                      ELSE [callbacks[c] EXCEPT !.age = Older(@)]]
  /\ urec' = IF urec = Missing THEN Missing ELSE [urec EXCEPT !.age = Older(@)]
  /\ UNCHANGED <<posts, flaskVars, retryQ, sentQ, closeFlag, dispatchVars,
                 upc, uid, poolVars>>

-----------------------------------------------------------------------------
(* The specification *)

FlaskStep ==
  \/ SendAck
  \/ CloseTask
  \/ \E c \in Callback : NewCallback(c) \/ PatchCallback(c)

DispatchStep ==
  \/ ReadPending \/ AddPending
  \/ InsertRow \/ AddCallback
  \/ DropRecord \/ SaveAck
  \/ GetExitTask \/ ClosePool \/ SetCloseFlag \/ JoinUpdate

WorkerStep(w) == StartPost(w) \/ EndPost(w) \/ EndWorker(w)

Next ==
  \/ FlaskStep
  \/ DispatchStep
  \/ Running /\ UpdateStep
  \/ Running /\ \E w \in Worker : WorkerStep(w)
  \/ Tick
  \/ TaskDies \/ Restart

Spec == Init /\ [][Next]_vars

(* Every thread that can go on does, time passes, and a PATCH handler that *)
(* has committed goes on to its put. Nothing obliges anybody to create,    *)
(* acknowledge, close, kill or restart.                                    *)
FairSpec ==
  /\ Spec
  /\ WF_vars(SendAck)
  /\ WF_vars(DispatchStep)
  /\ WF_vars(Running /\ UpdateStep)
  /\ \A w \in Worker : WF_vars(Running /\ WorkerStep(w))
  /\ WF_vars(Tick)

-----------------------------------------------------------------------------
(* Properties *)

(* Type invariant. *)
CommandSet ==
  [cmd : {"NEW_CALLBACK", "ACK_CALLBACK"}, id : Callback]
    \cup [cmd : {"EXIT_TASK"}, id : {NoCallback}]

DispatchPC == {"recover", "reload", "idle", "new", "ack", "closing", "join",
               "exited", "dead"}
UpdatePC == {"check", "ready", "load", "add", "put", "full", "sent", "save",
             "stopped", "dead"}

TypeOK ==
  /\ db \in [Callback -> Row \cup {Missing}]
  /\ app \in {"up", "closing"}
  /\ patching \in Callback \cup {NoCallback}
  /\ inputQ \in Seq(CommandSet)
  /\ restarts \in Nat
  /\ callbacks \in [Callback -> Record \cup {Missing}]
  /\ retryQ \in Seq(Callback) /\ sentQ \in Seq(Callback)
  /\ closeFlag \in BOOLEAN
  /\ dpc \in DispatchPC /\ did \in Callback \cup {NoCallback}
  /\ recovered \subseteq Callback
  /\ upc \in UpdatePC /\ uid \in Callback \cup {NoCallback}
  /\ urec \in Record \cup {Missing}
  /\ Pool!TypeOK

(* Where the id of a callback can be on its way round: in the retry queue, *)
(* in the update thread's hand, in the job queue, with a worker, in the    *)
(* sent queue.                                                             *)
Queued(c) == c \in Range(retryQ)
InHand(c) == uid = c /\ urec = Missing
Pending(c) == c \in Range(pendingQ)
Sending(c) == \E w \in Worker : worker[w] = c
Sent(c) == c \in Range(sentQ)

(* An id is in one place at a time and there only once, whatever the       *)
(* dispatch thread, the update thread, the workers and the recovery do to  *)
(* the queues between each other's critical sections. A second copy would  *)
(* be POSTed twice in a period and would use up retries twice as fast.     *)
OnePlace ==
  /\ IsInjective(retryQ) /\ IsInjective(sentQ)
  /\ \A i, k \in DOMAIN pendingQ :
       pendingQ[i] = pendingQ[k] /\ pendingQ[i] # MsgExit => i = k
  /\ \A w, x \in Worker : worker[w] = worker[x] /\ worker[w] \in Callback => w = x
  /\ \A c \in Callback :
       /\ Queued(c) => ~InHand(c) /\ ~Pending(c) /\ ~Sending(c) /\ ~Sent(c)
       /\ InHand(c) => ~Pending(c) /\ ~Sending(c) /\ ~Sent(c)
       /\ Pending(c) => ~Sending(c) /\ ~Sent(c)
       /\ Sending(c) => ~Sent(c)

(* No live callback is lost: until the pool is told to close, every record *)
(* in the table has its id somewhere on the way round. (Should the update  *)
(* thread die, what it had in its hand still counts, but stays there.)     *)
LiveIsSomewhere ==
  Running /\ ~poolFlag =>
    \A c \in Live : Queued(c) \/ InHand(c) \/ Pending(c) \/ Sending(c) \/ Sent(c)

(* An acknowledgement reaches the table: a callback that the database      *)
(* holds for acknowledged and the process still delivers, or is about to   *)
(* deliver, has its ACK_CALLBACK on the way. PATCH commits the row before  *)
(* it tells the process, the process reads the rows when it starts, and    *)
(* new_callback inserts the row before it has the record.                  *)
AckIsOnItsWay ==
  \A c \in Callback :
    /\ Running
    /\ c \in Live \cup recovered \/ (dpc = "new" /\ did = c)
    /\ db[c] # Missing /\ db[c].acked
    => patching = c \/ Command("ACK_CALLBACK", c) \in Range(inputQ)

(* The row follows the record: what a restart would recover is at most the *)
(* one try behind that the update thread is about to save (or failed to).  *)
RowFollowsRecord ==
  \A c \in Live :
    /\ db[c] # Missing
    /\ db[c].retries = callbacks[c].retries + (IF uid = c /\ urec # Missing THEN 1 ELSE 0)

(* No run of the application, however often it was killed or stopped       *)
(* between a POST and the save of its record, makes a callback be POSTed   *)
(* more often than its first send, its retries, the send process_sent adds *)
(* when it looks at retries before it counts them, and one per restart.    *)
AttemptBound ==
  \A c \in Callback : posts[c] <= Retries + 2 + restarts

(* "Queue of callbacks ids to retry ordered by last retry time": the ids   *)
(* of live callbacks that are due are all ahead of those that are not, so  *)
(* that looking at the head alone overlooks nothing. New callbacks enter   *)
(* at the front with a last_retry ten minutes back, which takes a retry    *)
(* period of at most that.                                                 *)
DueFirst ==
  \A i, k \in DOMAIN retryQ :
    /\ i < k
    /\ retryQ[i] \in Live /\ Due(callbacks[retryQ[k]])
    => Due(callbacks[retryQ[i]])

(* A callback the process is done with: its row says so, and nothing is    *)
(* about to enter it into the table.                                       *)
Dropped(c) ==
  /\ db[c] # Missing /\ (db[c].acked \/ db[c].retries = 0)
  /\ c \notin Live \cup recovered
  /\ ~(dpc = "new" /\ did = c)

(* The POSTs that follow without another look at the table.                *)
SendsLeft(c) == IF InHand(c) \/ Pending(c) THEN 1 ELSE 0

(* What leaves the table of a running process, acknowledged or after its   *)
(* last try, does so for good, wherever its id is by then: in the retry    *)
(* queue, in a hand, a job, with a worker, in the sent queue, or with a    *)
(* record that is being saved. Nobody who comes upon it brings it back, no *)
(* save and no recovery after a crash does, and nothing is POSTed but what *)
(* was on its way to a worker when it left.                                *)
DroppedForGood ==
  [][\A c \in Callback :
       /\ c \in Live /\ c \notin Live' /\ Running /\ Running' => Dropped(c)'
       /\ Dropped(c) =>
            /\ Dropped(c)'
            /\ posts'[c] + SendsLeft(c)' <= posts[c] + SendsLeft(c)]_vars

(* EXIT_TASK ends the process: the pool's close does not wait for the      *)
(* update thread, the update thread does not wait for the pool.            *)
ExitEnds == (app = "closing") ~> ~Running

(* What keeps a callback from being reissued, while the process runs and   *)
(* is not closing: an id at the head of the retry queue that was           *)
(* acknowledged while it waited there, because _next_sent returns without  *)
(* popping it; or a dead update thread.                                    *)
HeadGone == retryQ # << >> /\ Head(retryQ) \notin Live

Stopping == ~Running \/ app = "closing" \/ upc = "dead"

(* Delivery: a callback in the table is acknowledged, or has its tries and *)
(* leaves the table, unless the process stops or an acknowledged id comes  *)
(* to the head of the retry queue.                                         *)
ReissuedUntilResolved ==
  \A c \in Callback : (c \in Live) ~> (c \notin Live \/ HeadGone \/ Stopping)

(* README.md: "Each callbacks is reissued until the retry limit is reached *)
(* or it is acknowledged by the client".                                   *)
ReissuedAsDocumented ==
  \A c \in Callback : (c \in Live) ~> (c \notin Live \/ Stopping)

=============================================================================
