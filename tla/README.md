# A TLA+ model of bitcoin-callback

bitcoin-callback is a REST server that notifies clients of payments. A client
subscribes to a bitcoin address; one process follows the block chain of a
bitcoind node and creates a *callback* for every confirmed transaction that
changes the address's balance; a second process POSTs the callback to the
client's URL, again and again, until the client acknowledges it with a PATCH or
the retries are used up. This directory holds the model of that program, what
TLC checks of it and what TLAPS proves.

## 1. Inventory

Three processes start when the application is created (`application.py`): flask
with the REST API, `BitmonTask` and `CallbackTask`. They talk through two
multiprocessing queues and share one database.

```
        POST/PATCH subscription                 PATCH callback
  client ----------> flask process <------------------------- client
                       |        \______________________           ^
            NEW/CANCEL |              ACK_CALLBACK      \         | POST
                       v                                 v        | callback
  bitcoind <---- BitmonTask process --- NEW_CALLBACK --> CallbackTask process
                 SubscriptionManager                     CallbackManager
                 TransactionMonitor, TxOutCache          ThreadPool
                       \______________ database ______________/
```

| Component | State | Operations | What makes it correct |
|---|---|---|---|
| `ThreadPool` (`thread_pool.py`) | bounded job queue, close flag, threads | `add_job`, the worker loop, `close(now)` | a job runs at most once; one accepted before a `close(now=False)` runs; `close` returns |
| `CallbackManager` (`callback_task.py`) | record table, retry queue, sent queue, update thread, workers; rows `retries`, `last_retry`, `acknowledged` | recovery, `new_callback`, `ack_callback`, `_send_ready`, `_process_sent`, `close` | an id is in one place; no live callback is lost; acknowledged ones leave; the number of POSTs is bounded across crashes; the queue is in the order of the retries |
| `CallbackTask` (`callback_task.py`) | command queue, dispatch loop | NEW, ACK, EXIT, death, restart | commands are carried out, EXIT ends it |
| `SubscriptionManager` (`bitmon_task.py`) | subscribers by address, by id, expiration table, monitor | add, cancel, expire, reload, `set_transaction_monitor`, `poll_bitcoin` | tables and monitor agree; every subscriber is notified; every subscription ends |
| `_transaction_to_callbacks`, `Transaction` | none | what a transaction moves from and to an address, and who is told | one callback per subscription; every change of a balance is told |
| `TransactionMonitor` (`bitmon/monitor.py`) | current height, monitored addresses | `get_confirmed`, `add_addr`, `del_addr` | no height skipped or repeated; a handled block stays; it catches up |
| `TxOutCache` (`bitmon/cache.py`) | ordered dictionary of bounded size | `txout`, `_load`, `purge` | keeps the most recently used |
| `BitmonTask` (`bitmon_task.py`) | command queue, dispatch loop, connection, saved block number | NEW, CANCEL, EXIT, connect, poll, death, restart | the block number is saved after the callbacks; active subscriptions are served |
| REST API (`views.py`) | none of its own; a client keeps a link between two requests | POST and PATCH of subscriptions, PATCH of callbacks; listings by pages, with filters | commits before it tells the process; a walk through the pages shows everything that was asked for, and nothing else |
| Application (`application.py`) | the two tasks | start, `clean_up` | bitmon is closed before the callback task, no callback is lost between them, nobody waits for ever |
| Models, database | the tables | | what the processes are restored from, and the listings show |
| Marshalling, fields, configuration, logging | none | formatting and parsing | the paging links only |

The hard behaviours are: in `CallbackTask`, four kinds of actors (dispatch
thread, update thread, workers, REST handlers) that meet in a table and three
queues, under two locks of which neither is held while the other is taken; a
crash between a POST and the save of its row; a database error that ends one
thread while the process lives; a full job queue. In `BitmonTask`, a chain that
grows and is reorganised between two RPC calls, commands that arrive while a
poll is under way, subscriptions that expire or are cancelled between a change
in memory and its save, a crash between sending callbacks and saving the block
number. Between the processes, a put that waits while the reader waits for
somebody else, a process that is killed alone, messages in memory when the
application ends. In the listings, pages that shift while a client reads them.
The line of each hazard and the properties aimed at it are under
`hazards` in `PROJECT.json`.

## 2. Modules

| Module | Models | Composed from |
|---|---|---|
| `ThreadPool` | `thread_pool.py` | |
| `CallbackTask` | `CallbackTask`, `CallbackManager`, PATCH of a callback | instance `Pool` of `ThreadPool` |
| `TransactionMonitor` | `get_confirmed` and the node's chain | |
| `SubscriptionManager` | the subscription tables and the monitor's address set | |
| `TxOutCache` | `cache.py` | |
| `TransactionCallbacks` | `Transaction`, `_is_monitored_transaction`, `_transaction_to_callbacks` | instance `Cache` of `TxOutCache` |
| `BitmonTask` | the process, its loop, POST and PATCH of a subscription, `/test_subscription` | instances `Monitor` of `TransactionMonitor`, `Subs` of `SubscriptionManager` |
| `Delivery` | what the delivery process promises: the abstract specification of `CallbackTask` | |
| `DeliveryRefinement` | that `CallbackTask` implements `Delivery` | `CallbackTask`, instance `Abstract` of `Delivery` |
| `System` | both processes, their queues, the handlers, `clean_up` | instances `Bitmon` of `BitmonTask`, `Deliv` of `Delivery` |
| `RestApi` | the two listings of `views.py` and a client | |
| `MC...` | instances for TLC: model values, small tables, symmetry | the module named |
| `ThreadPoolProofs`, `TransactionMonitorProofs`, `SubscriptionManagerProofs`, `TransactionCallbacksProofs`, `RestApiProofs` | theorems and proofs | the module named |
| `CallbackTaskProofs` | theorems and proofs about `CallbackTask`, and that it implements `Delivery` | `DeliveryRefinement` |
| `BitmonTaskProofs` | theorems and proofs about `BitmonTask` | `BitmonTask`, instances `MP` of `TransactionMonitorProofs`, `SP` of `SubscriptionManagerProofs` |
| `SystemProofs` | theorems and proofs about `System`, and that it implements `BitmonTask` | `System`, instance `BP` of `BitmonTaskProofs` |

Some small operators come in two forms, for instance `Popped(q)` and
`NotPopped(q)`. The one the actions use is what the code does; the other,
introduced in its comment as "the mistake of ...", is never used by a
specification. It documents what the properties detect: with the mistake in
place TLC finds the property violated (`mutants` in `PROJECT.json`).

### 2.1 ThreadPool

`queue.Queue` is thread safe, so one put or get is one step. `add_job` is two:
`CheckFlag` reads the close flag, `PutJob`/`PutFull` puts the job; nothing is
held in between. A worker takes a message (`GetJob`, `GetExit`) and returns
(`FinishJob`) or is ended by an exception of the pool's function (`RaiseJob`:
nothing in `worker_thread` catches it). `close` is a sequence of steps:
`BeginClose` (flag), `PurgeOne`/`PurgeDone` (`now=True`), `PutExit` twice per
worker, `ExitsDone`, `Join`. `runs` is a history of how often the function was
applied to each job. Two submissions of one job are two elements of `Job`.

### 2.2 CallbackTask

State and code:

| Variable | Code |
|---|---|
| `db[c]` | the row of callback `c`: acknowledged, retries, the age of `last_retry` |
| `callbacks[c]` | its `CallbackRecord` in `_callbacks`, or `Missing` |
| `retryQ`, `sentQ`, `closeFlag` | `_retry_q`, `_sent_q`, `_close_flag` |
| `inputQ`, `patching`, `app` | the command queue; a PATCH between its commit and its put; whether `clean_up` has begun |
| `dpc`, `did`, `recovered` | the dispatch thread: where it is, the id in its hand, the rows `__init__` has read |
| `upc`, `uid`, `urec` | the update thread: where it is, the id it took from the queue, the record it is about to save |
| `pendingQ`, `poolFlag`, `worker`, ... | the `ThreadPool`, whose `runs` is `posts`: the POSTs of each callback |

Each critical section under `_lock` or `_db_lock` is one step and there is a
step boundary between any two of them. `__init__` starts the update thread and
the pool before it recovers, reads the rows under one lock (`ReadPending`) and
enters them under the other (`AddPending`). `last_retry` is modelled by its age
in ticks; ages beyond `MaxAge` are not told apart. The outcome of a POST
(answered, refused, timed out) makes no difference to the code, so `EndPost` is
one step. A database error in the update thread (`UpdateDies`) ends that thread
alone. `TaskDies` may happen between any two steps; `Restart` starts the whole
application, and only `db` is left.

### 2.3 BitmonTask and its parts

`TransactionMonitor` has the node's chain in it: `NewBlock` appends,
`Reorganise(d)` replaces the newest `d` blocks by `d + 1` others. A poll asks
for the height (`NewHeight`, `NothingNew`) and loads one block (`LoadBlock`) at
`MonitoredBlock(current)`; in between the node works on. `getblockhash` and
`getblock` are one step since a hash names its block for ever.

`SubscriptionManager` has one action per method. `subsByAddr` is a function
with a changing domain, as the `defaultdict` is. `_remove_expired_subscriptions`
is `RemoveExpired` (memory) and `SaveExpired` (rows), between which the REST API
may write. The expiration table is a bag: entries of a cancelled subscription
stay in it until they are due.

`BitmonTask` is one thread that alternates between a command and a poll; `bpc`
says where it is: `init`, `idle`, `poll`, `expire`, `ask`, `load`, `send`.
`out` holds the callbacks of this poll that are not sent on, `sent` what was
ever sent (history). A CANCEL command ends the process, as it does in the code
(section 6), and so does a poll that fails anywhere from the first call of the
node to the save of the block number (`PollFails`). A POST commits the row and
tells nobody (section 6). The one caller of `new_subscription` is the view
`/test_subscription`, and `TestSubscription` is where NEW_SUBSCRIPTION comes from.
`unannounced` says whose row was left by a POST and not read by a process yet
(history). One transaction of interest per block is enough
here; what a transaction does is in `TransactionCallbacks`.

`TransactionCallbacks` follows a transaction from its inputs to the callbacks.
An input names an output of an earlier transaction (`Funding`); `LookUp` takes it
from the cache or from the answer of the node, `AskNode` is the request and
`NodeFails` the exception, which leaves no transaction. `MakeCallbacks` is the
monitor's filter and `_transaction_to_callbacks`. The dictionaries `tin` and
`tout` grow output by output (`Added`, `Dicts`). `TxOutCache` models the order
of the dictionary, the eviction and failing loads; the cache outlives the
transactions.

### 2.4 Delivery and its refinement

`Delivery` says what the rest of the program may count on, in terms of `state`
(no row, open, over, acknowledged) and `posts` of each callback, the command
queue, and whether the process runs. A row comes from a NEW_CALLBACK command and
from nothing else; a callback is given up only after `MinTries` POSTs; it is
POSTed at most `MaxTries` times and once more for each restart; acknowledged is
final; a crash takes the queue when the application is started again and nothing
else. `DeliveryRefinement` reads `state` off the row and `process` off the
dispatch thread, with `MinTries = Retries + 1` and `MaxTries = Retries + 2`; the
steps of the update thread and the workers that neither start a POST nor use up
the last retry are stutters. `ImplementsDelivery` is `Abstract!Spec` as a
property of `CallbackTask`.

### 2.5 System

`System` joins `BitmonTask` with the abstract delivery process. `BitmonTask.sent`
is read off `about`, which says for each callback what it is about and in which
run it was created. `SendCallback` is a joint step: bitmon leaves its `send` loop
only when the queue of the other process has room. `phase` is how far flask is:
serving, or in one of the steps of `clean_up`: put the EXIT_TASK of bitmon, join
bitmon, put that of the delivery process, join it. Each process may be killed
alone (`BitmonDies`, `DeliveryDies`); `Restart` starts both when both have ended.
A put of `multiprocessing.Queue` returns before its feeder thread has written to
the pipe, so that a killed bitmon takes with it a suffix of what it has put
(`Surviving`); a process that ends, even by an exception, waits for that thread.
The `CallbackTask` of the other modules never sees a callback after EXIT_TASK;
`System` does not assume that (`PutCallback`), and shows it.

### 2.6 RestApi

One listing, `/subscription` or `/callback`, with the two columns its rows can be
filtered by. `Get` is the first query of `paginate` with its errors, `Count` the
second, which is not made when the first page is not full. The answer has links
to the next and the previous page, made of the parsed arguments by
`build_paginated_url`, and the client follows them (`FollowNext`, `FollowPrev`).
`ParseArgs` renames the arguments to columns and ignores those it does not know;
`Link` does not rename them back, as in the code. Booleans are written in lower
case and states by name, and parsed back to the same values. Between the two
queries of a page only the other processes write (`SaveExpired`,
`InsertCallback`), between two requests everybody. The index of a row is its place
in the order of creation, and its place in the listing the number of rows
that are `Newer`; a page is the set of rows with the places from its first to its
last. `paginate` itself is external (Flask-SQLAlchemy 2.2).

## 3. What TLC checks

| Run | Instance | Shows |
|---|---|---|
| `Pool` | 2 workers, 2 producers, 3 jobs of which one kills its worker, queue of 6, closed at any time with or without `now`, and closed again | `EachJobRunsAtMostOnce`; `AcceptedJobsRun`; `CloseReturns` |
| `DeliverySafety` | 2 callbacks, 2 workers, 2 retries, retry period of 2 ticks, job queue of 1, command queue of 2, database errors, one crash and one restart | `OnePlace`, `LiveIsSomewhere`, `AckIsOnItsWay`, `RowFollowsRecord`, `AttemptBound`, `DueFirst`, `DroppedForGood`, `ImplementsDelivery` |
| `DeliveryLiveness` | 2 callbacks, 1 worker, 1 retry, database errors, no crash | `ReissuedUntilResolved`, `ExitEnds` |
| `DeliveryHeadBlocked` | 2 callbacks, 1 worker, no database errors | the README's promise, without the exception in `ReissuedUntilResolved`, fails |
| `Monitor` | 2 confirmations, chain up to height 7, two reorganisations of up to 2 blocks | `AcceptedIsFinal`, `OneAfterAnother`, `CatchesUp` |
| `SubscriptionTables` | 3 subscriptions, 2 addresses, up to 2 entries in the expiration table | `TablesAgree`, `SubscribersNotified`, `EverySubExpires`, `MarkedAfterExpiration` |
| `CallbackAmounts` | one transaction after the other, of at most 2 inputs and 2 outputs of values 0 to 2 over 2 addresses and a script without address; 3 funding transactions and a cache of 2; every table of 2 subscriptions | `OncePerSubscription`, `SpentInFull`, `ChangesAreNotified`, `KeepsMostRecent` |
| `BitmonSafety` | 2 subscriptions for one address, announced or not, blocks that involve it or not, chain up to height 3, failing polls and saves, one crash and restart | `TypeOK`, `ActiveIsServed`, `CancelIsOnItsWay`, `CanceledUntilProcessed`, `SavedAfterSent`, `SavedNeverGoesBack` |
| `System` | 1 subscription, queues of length 1, chain up to height 2 with a reorganisation, failing polls, either process killed, one restart | `HandedOnIsKept`, `RepeatedOnlyUnsaved`, `CleanUpReturns`, `RequestsReturn`, `PaymentsReachRows` |
| `RestApi` | up to 4 rows, pages of 1 or 2, 8 filters, every first page from 0 to 2 | `NothingSkipped`, `NothingTwice`, `NoDeadLink`, `OnlyWanted` |
| `BitmonPostLost` | 1 subscription, no crash | `PostedIsServed` fails |
| `BitmonCancelKills` | 2 subscriptions | `StoppedInTwoWays` fails |

`CHECK_DEADLOCK FALSE` stands in the configurations of systems that may stop: a
process that has exited and is not restarted, a chain at its greatest height, a
client that has read the last page of a full table. `Pool` and `CallbackAmounts`
check for deadlock: a closed pool can always be closed again, and a transaction
follows the other.

The composition shows what neither process shows alone. `HandedOnIsKept`: a
callback handed on gets its row or is lost by a kill, never by `clean_up`; with
the two tasks closed at once (`NotJoined`) it is lost. `RepeatedOnlyUnsaved`: a
client is told twice of a block only across a restart, and only when the block
number was not saved. `CleanUpReturns` and `RequestsReturn`: with queues of
length one everybody waits for everybody, and nobody for ever, unless the reader
was killed. `PaymentsReachRows` goes all the way from a block to a row.

### Bounds

- *Two callbacks* are the fewest for which the order of the retry queue, the
  blocked head and two ids in different places matter; *two workers* finish out
  of order. With *two retries* a callback goes round the queue more than once,
  and with a retry period of two ticks queued callbacks have different ages
  below it. A *job queue of one* makes `queue.Full` frequent.
- *One restart* includes crashes at every step before it and everything that is
  recovered after it. In `DeliverySafety` an exit that was asked for does not
  come to its end: `close` has four exit messages to put into a job queue of one,
  the two workers take one each, and the last put waits for ever (section 6).
  Crashes happen on the way there, but `SetCloseFlag` and `JoinUpdate`, and a
  restart after an exit, do not. `DeliveryLiveness`, with a job queue of three,
  goes through them to the end (`ExitEnds`), and the theorems of section 4 hold for
  every size of the queue.
- *Reorganisations up to CONFIRMATIONS blocks*: block `b` is handled when
  CONFIRMATIONS blocks are above it, so that this is the depth the parameter is
  there for; a deeper one does undo notified blocks, in any such program.
- *Subscriptions*: two for one address and one for another distinguish an
  address losing a subscriber from one losing its last.
- `MaxEntries` bounds how often one id is added; the code adds an id twice at
  most per run (reloaded and announced).
- `System` has queues of *length one*, so that every put may have to wait, and a
  chain that gives one callback in each of the two runs of the application:
  `MaxCallbacks` is never what keeps bitmon from sending one. In the second run
  an ACK of the first callback may be what fills the queue while bitmon sends the
  second and `clean_up` waits for bitmon.
- `RestApi`: with *four rows and pages of one or two* there is a page in the
  middle, and rows enter and leave before, on and behind the page being read. The
  default of `per_page` is 1, so that a link without it would change the size.
- *A cache of two* for three transactions: each look-up of a third evicts one.
- The pool's queue of 6 has room for two jobs, or two late jobs, and the four
  exit messages. With less `close` may block (section 6).

### Fairness

- Pool and delivery: weak fairness of each thread. A thread that can go on does
  because the operating system schedules it, and the blocking calls (`get`,
  `put`, `join`) return when they can. Producers, clients, `clean_up`, crashes
  and restarts are never obliged to happen. A POST ends because `requests` is
  called with a timeout. Time passes (`Tick`).
- Monitor: polling is repeated, so `NewHeight` is weakly fair. `SF(LoadBlock)`:
  a call that is tried again and again succeeds some time. Without it a node
  that always fails would keep the monitor from its place for ever.
- Bitmon: the loop takes a command each time round and polls every five
  seconds. Each choice is disabled while the other is carried out, so `CommandStep`
  and `Connect \/ BeginPoll` are strongly fair and the steps within a poll
  weakly.
- System: the same for bitmon, with the put of a callback among the steps of a
  poll; the delivery process takes its commands and ends when told to
  (DeliveryLiveness shows `ExitEnds` of the detailed one); handlers and
  `clean_up` go on when they can.
- `BitmonSafety`, `RestApi`, `CallbackAmounts`: safety only.

## 4. What is proved

TLAPS checks these for every value of the constants that satisfies the named
assumption of the module (`PoolAssumption`, `CallbackAssumption`,
`MonitorAssumption`, `SubscriptionAssumption`, `BitmonAssumption`,
`TransactionAssumption`, `RestAssumption`: the special values differ from the
ids, sets of workers and callbacks are finite, bounds are natural numbers;
nothing is assumed about the size of anything).

| Theorem | Statement |
|---|---|
| `ThreadPoolProofs!PoolTypeCorrect` | `Spec => []TypeOK` |
| `ThreadPoolProofs!PoolRunsOnce` | `Spec => []EachJobRunsAtMostOnce` |
| `CallbackTaskProofs!TypeCorrect` | `Spec => []TypeOK` |
| `CallbackTaskProofs!EachIdInOnePlace` | `Spec => []OnePlace` |
| `CallbackTaskProofs!DroppedStaysOut` | `Spec => DroppedForGood` |
| `CallbackTaskProofs!RowFollows` | `Spec => []RowFollowsRecord` |
| `CallbackTaskProofs!PostsAreBounded` | `Spec => []AttemptBound` |
| `CallbackTaskProofs!AcksReachTheTable` | `Spec => []AckIsOnItsWay` |
| `CallbackTaskProofs!NoLiveCallbackLost` | `Spec => []LiveIsSomewhere` |
| `CallbackTaskProofs!DueAreAhead` | `RetryPeriod <= Backdate` proves `Spec => []DueFirst` |
| `CallbackTaskProofs!DeliveryImplemented` | `Spec => ImplementsDelivery` |
| `TransactionMonitorProofs!MonitorTypeCorrect` | `Spec => []TypeOK` |
| `TransactionMonitorProofs!BlocksInOrder` | `Spec => []OneAfterAnother` |
| `TransactionMonitorProofs!HandledForGood` | `MaxReorg <= Confirmations` proves `Spec => []AcceptedIsFinal` |
| `SubscriptionManagerProofs!TablesTypeCorrect` | `Spec => []TypeOK` |
| `SubscriptionManagerProofs!TablesAlwaysAgree` | `Spec => []TablesAgree` |
| `SubscriptionManagerProofs!ServedHasExpiration` | `Spec => []EverySubExpires` |
| `SubscriptionManagerProofs!ExactlySubscribersNotified` | `Spec => []SubscribersNotified` |
| `SubscriptionManagerProofs!OnlyPastMarked` | `Spec => MarkedAfterExpiration` |
| `TransactionCallbacksProofs!CalledBackOnce` | `Spec => []OncePerSubscription` |
| `TransactionCallbacksProofs!PaymentsInFull` | `Spec => []SpentInFull` |
| `TransactionCallbacksProofs!ChangesNotified` | `Spec => []ChangesAreNotified` |
| `TransactionCallbacksProofs!CacheHoldsMostRecent` | `Spec => []KeepsMostRecent` |
| `BitmonTaskProofs!BitmonTypeCorrect` | `Spec => []TypeOK` |
| `BitmonTaskProofs!NumberOnlyGrows` | `Spec => SavedNeverGoesBack` |
| `BitmonTaskProofs!ActiveAlwaysServed` | `Spec => []ActiveIsServed` |
| `BitmonTaskProofs!CancelAlwaysComes` | `Spec => []CancelIsOnItsWay` |
| `BitmonTaskProofs!CancelLostBeforeOnly` | `Spec => CanceledUntilProcessed` |
| `BitmonTaskProofs!NumberSavedAfterCallbacks` | `FromLast` and `MaxReorg <= Confirmations` prove `Spec => SavedAfterSent` |
| `RestApiProofs!WalkTypeCorrect` | `Spec => []TypeOK` |
| `RestApiProofs!WalkSkipsNothing` | `Spec => []NothingSkipped` |
| `RestApiProofs!WalkRepeatsNothing` | `Spec => []NothingTwice` |
| `RestApiProofs!LinksLead` | `Spec => []NoDeadLink` |
| `RestApiProofs!OnlyWantedFound` | `Spec => OnlyWanted` |
| `SystemProofs!HandedOnKept` | `Spec => HandedOnIsKept` |
| `SystemProofs!BitmonInside` | `Spec => Bitmon!Spec` |
| `SystemProofs!RepeatsAreUnsaved` | `Spec => RepeatedOnlyUnsaved` |

Three theorems have an assumption of their own. `MaxReorg <= Confirmations` is what
the parameter `CONFIRMATIONS` is there for: a deeper reorganisation undoes blocks
that were handled, in any such program (section 3, Bounds). `FromLast` is
`START_BLOCK = 'last'`, as in config.py:54; with `'newest'` the process is told to
skip the blocks in between. `RetryPeriod <= Backdate` is explained below.

**The pool.** `EachJobRunsAtMostOnce` is not inductive: it says nothing of a job
that a producer holds between the test of the flag and the put. The
strengthening adds that a job is held by one producer at most, that a held or
queued job has not been run, and that no job is queued twice.

**Delivery: places.** `OnePlace` is not inductive either. Three invariants carry
it. `TypeInv` (`TypeOK` and `HandsOK`) says that the update thread holds an id
exactly when its program counter says so, that the id `add_job` has in its hand
is the update thread's, and that whatever the process holds has a row.
`CommandsInv` says that no command is in the queue twice, that a callback is
announced before it has a row and acknowledged after its row is. `PlacesInv` adds
to `OnePlace` that what is somewhere on the way round has a row, that the
callback being created is nowhere yet, and that every place is empty before the
recovery is over. The hard cases are `AddPending` (several ids enter the queue at
once: the order `sorted` returns is an injective sequence of exactly the
recovered ids), `TakeReady` and `Requeue` (an id changes place). The lemmas about
sequences (head, tail, append and concatenation preserve absence of repetitions)
are at the beginning of the module.

**Delivery: tries.** The conjunct of `TriesInv` that carries `AttemptBound` is a
balance. As long as a callback may still be POSTed (it is in the table, about to
enter it, on its way round, or its row is one the recovery would take up),

    posts[c] + db[c].retries <= Retries + 1 + restarts + (1 if c is untold)

where a callback is untold while a worker or the sent queue has it, while the
update thread is about to save its record, and while the process is down. A POST
makes it untold, the save takes one off `retries` and tells, a crash leaves it
untold and a restart pays for it. The rest of `TriesInv` says how row and record
differ (`RowFollowsRecord`), what holds of a record that is being saved, and that
an id that is on its way but not in the table belongs to a row the recovery does
not take up. A step that neither counts nor loses a POST of `c` is `Steady(c)`,
and one lemma, `SteadyTries`, covers all of those.

**Delivery: acknowledgements, losses, order.** `AckInv` adds to `AckIsOnItsWay`
that the callback whose acknowledgement is being saved has left the table: an
`ACK_CALLBACK` is only used up by dropping the record. `LiveInv` adds to
`LiveIsSomewhere` that the queues are purged only after the pool was told to
close. `DueInv` strengthens `DueFirst`: of two ids in the table, the one ahead is
due or has waited at least as long, and what enters at the front (a new callback,
one the pool had no room for) is due. It takes the assumption that new callbacks
are backdated by a retry period or more; the code has ten minutes, and
`RETRY_PERIOD` is 120 seconds in config.py.

**Delivery: what is dropped.** `DroppedForGood` follows the callbacks that left the
table acknowledged or used up, through crashes and restarts too. The id of one
may still be in the update thread's hand, in the job queue, with a worker or in
the sent queue, and its record may be waiting to be saved. The row stays one that
the recovery passes over: a record that is saved late has no retries left or
meets an acknowledged row (`DroppedRow`, from `TriesInv`). Nothing brings the
callback back into the table (`DroppedDoesNotEnter`: the callback being created has
no row yet, by `CommandsInv`). And it is POSTed at most by the one job, or the hand
that makes one, that has its id when it leaves (`SendsAreNumbered`, from `OnePlace`
and the shape of the hand).

**Delivery: the refinement.** `RefinementInv` joins the above with `FloorInv`,
which bounds the POSTs from below: each retry that a row has lost was a POST, and
so was one that is not counted yet,

    posts[c] + db[c].retries >= Retries + 1 + (1 if c is uncounted)

Without it the abstract `GiveUp`, which asks for `MinTries` POSTs, would not be
allowed where the code gives up; `PostsAreBounded` is what allows the abstract
`Post`. There is one lemma per actor (`FlaskRefines`, `DispatchRefines`,
`WorkerRefines`, `TickRefines`, `CrashRefines`), each showing that a step is a
step of `Abstract` or leaves `Shown`, what the abstract state is read off,
unchanged.

**The monitor.** `ReaderInv` adds to `TypeOK` that a monitor that was told of a
new height is below the tip and stays there: a reorganisation makes the chain
longer, never shorter. Blocks are handled at successive heights because the
history of the handled ones ends at the current height. That a handled block
stays takes that it is deeper than a reorganisation reaches, and gets deeper.

**Subscriptions.** `TablesInv` is `TypeOK`, `TablesAgree`, `EverySubExpires` and
"what is about to be marked expired is past its expiration". Two lemmas,
`AddAllAgrees` and `CancelAllAgrees`, say that adding or cancelling a set of
subscriptions keeps the tables and the monitor in agreement; every call is one
of these or leaves the tables alone. That the subscribers of the involved
addresses, and nobody else, are notified follows from the agreement alone, and
`MarkedAfterExpiration` from the last conjunct.

**The bitmon process.** `BitmonTaskProofs` instantiates the proofs about its two
parts and cites their lemmas: `StepOfMonitor` says that each step of the process
is to the monitor nothing, its end or one of its own steps, and so its invariant
is kept. `ProcessInv` adds `SavedOK` (the saved number is one the chain has
reached and the monitor has not fallen behind of), `QueueOK` and `PollOK` (what
is left between two steps of a poll). `ActiveIsServed` is inductive with it: a
row that a POST has left unannounced stays so until the process reads the table
(`AnnouncedWhenRead`). `CancelIsOnItsWay` is not: a subscription that is not
served yet, but announced, may be cancelled in the database, and the CANCEL must
be on the way by the time it is served; `CancelComes` speaks of these, and of
those that have just expired, too. `CanceledUntilProcessed` follows from it. For
`SavedAfterSent`, `NumbersOK` says that the monitor is at the saved number, or
one block ahead while the callbacks of that block are sent, and that the block
is too deep to be replaced.

**Amounts.** `CallbacksInvariant` says that `tin` holds what the inputs looked up
so far spend and that the callbacks were made of both dictionaries. What a
dictionary holds is defined by recursion over a list. `DictsAreSums` shows that
it has exactly the addresses among the outputs, with the sums of what they get,
and the properties follow by a case distinction on `tin` and `tout`.

**The cache.** `CacheShape` is `KeepsMostRecent` element by element, and that
what is asked for is not cached. A hit moves the element at `i` of the cache and
at `n - m + i` of the history to the end, which shifts both in the same way
(`MovedToEndShifts`); a load evicts the oldest, and the transaction loaded was
not among the most recent.

**The listings.** The place of a row in a listing is its rank, the number of newer
rows that match. Rows that enter the listing only raise ranks, rows that leave
only lower them. So, as long as no row leaves, the pages read so far show
all rows whose rank is below their total size, but for those that came late
(`ShownFirst`); and as long as none enters, what they show keeps a rank below it
(`ShownStay`). Both speak of ranks at the present, while the pages were read at
different times. The other conjuncts of `WalkInvariant` say the same of the page
that has been read and not answered (`FoundFirst`, `FoundStay`), and what a
link promises (`PageIsThere`, `NextIsThere`).

**The application.** `QueueInv` says of the queue of the delivery process that
EXIT_TASK is in it only when bitmon has ended and no callback is behind it, and
that no callback is left once it was taken. The step that matters is
`CloseDelivery`, which waits for bitmon; without that wait the invariant is lost
(`NotJoined`). A killed bitmon takes callbacks out of the queue, but brings none
in and changes no order (`SurvivorsWereThere`). `HandedOnIsKept` follows: the
delivery process ends by itself only with no callback in its queue, and takes one
from it only to give it its row.

For `RepeatedOnlyUnsaved`, bitmon as a part of the application is shown to do
what `BitmonTask` specifies (`BitmonInside`): whatever another actor does leaves its
variables alone, the EXIT_TASK of `clean_up` is its `CloseTask`, and a callback
handed on is its `SendCallback`, with `sent` read off `about`. `SameBitmon`
identifies the operations with those that `BitmonTaskProofs` speaks of, so that
`ProcessInv` holds here by the lemma proved there. On top of it `RunInv` says that
what this run has handed on lies below the block it handles next and is no longer
among what is to be sent, and that the block whose callbacks are being sent is
not saved yet. The heights within a run go up, and a run that ends loses what it
had not sent, so that a pair of subscription and height comes up a second time
only in a later run.

`System` does not implement `Delivery`, where a callback that was put into the queue
stays there: that is what a killed bitmon breaks.

**Induction over data.** The library's induction theorems are stated for any
predicate, which the installed provers cannot instantiate. Two consequences can be
cited instead, and are proved where they are used: a nonempty set of natural numbers has a
least element (`LeastElement`), so that an induction is the search for the least
counterexample; and a function defined by recursion on `0..n` exists
(`RecursionExists`).

**Only model-checked.** Every invariant and every action property of the passing runs is
a theorem above. Liveness (`ReissuedUntilResolved`,
`ExitEnds`, `AcceptedJobsRun`, `CloseReturns`, `CatchesUp`,
`CleanUpReturns`, `RequestsReturn`, `PaymentsReachRows`): fairness and ENABLED are out
of the prover's reach.

## 5. What is left out

- The content of requests and responses, marshalling, validation, logging,
  configuration: formatting without state. GET of a single row.
- Of the two debug views, "remove before release" (views.py:63): `/test_callback`
  calls `new_callback` from flask, with a subscription it has just committed; and
  `/test_subscription` inserts a callback row without a NEW_CALLBACK, which the
  delivery process would find at its next start. `NewCallback` is bitmon's call
  only. The two other subscriptions that `/test_subscription` commits are told to
  nobody, like those of POSTs.
- `PAUSE_TASK` and `START_TASK`: declared in `commands.py`, used nowhere.
- `TxOutCache.purge`: called nowhere.
- The order in which messages of different processes reach a queue: a message
  enters it at its put. That a killed process loses what it put last is modelled
  for bitmon (`Surviving`); its places in the semaphore of the queue, which are
  not given back, are not.
- Two callbacks created at the same time: the listing is sorted by a time stamp
  of microseconds, and one process inserts them.
- Failed attempts to connect to bitcoind: they change nothing.
- Concurrent requests: the development server of Flask 0.12, which `run.py`
  starts, handles one request at a time unless it is told otherwise, so that one
  handler is between its commit and its put.
- A crash of the database or of flask alone; a restart while the other process
  still runs.

## 6. Where the code and its documents disagree

Three runs show a disagreement (`findings` in `PROJECT.json`):

- `DeliveryHeadBlocked`: `_next_sent` (callback_task.py:159) returns without
  popping an id that is no longer in the table, so a callback acknowledged while
  it waits at the head of the retry queue stops every retry behind it, until the
  next restart or a new callback that is put in front, and then again. This is
  why `ReissuedUntilResolved` has the exception `HeadGone`.
- `BitmonPostLost`: the handler of POST /subscription (views.py:229) calls
  `new_subscripition`, which `BitmonTask` does not have, after the commit: the
  request fails and the row stays. `ActiveIsServed` has the exception
  `unannounced` for it.
- `BitmonCancelKills`: the dispatch loop formats `data.id` of an int
  (bitmon_task.py:365), which ends the process.

Others can be read off the model and have no run:

- `AttemptBound` says `Retries + 2`: `new_callback` stores `retries + 1` and
  `_process_sent` tests before it decrements, so a callback is POSTed once more
  than the send and the retries that test_callback_task.py:150 counts.
- An id put into the sent queue while the pool closes is not processed
  (callback_task.py:240): the try is not counted in the row, although EXIT_TASK
  is to "Save current status and exit" (commands.py:9).
- `add_job` tests the flag and puts in two steps (thread_pool.py:86): a late job
  can enter a closing pool. `CloseReturns` needs room for it.
- `close` puts two exit messages per worker with a blocking put
  (thread_pool.py:109), and each worker takes one: with a queue shorter than
  what is left over, it never returns.
- `get_confirmed` handles a block when CONFIRMATIONS blocks are above it, one
  more than config.py:42 says; see `MonitoredBlock` and the guard of `NewHeight`.
- A start below height CONFIRMATIONS - 1 asks the node for a negative height,
  for ever (the exception in `CatchesUp`).
- A payment that returns change to its sender is reported with the amount of the
  change output (bitmon_task.py:178) rather than the "Amount transfered to/from
  the address" (README.md:260). `SpentInFull` has the precondition for that.
- A failed poll ends the process: the handlers of `_send_confirmed`
  (bitmon_task.py:323) use an undefined name, and the save of the block number
  (bitmon_task.py:341) is outside of the `try`. `PollFails` models both.
- `_remove_expired_subscriptions` marks every expired id whatever its row says
  by then (bitmon_task.py:150), so one cancelled in between becomes expired:
  `SaveExpired` does not look at `rows`. `CanceledUntilProcessed` says that this
  happens only as long as the process has not read the command.
- The links of /callback name the column `subscription_id`, while the argument is
  called `subscription` (views.py:274): from the second page on callbacks of all
  subscriptions are listed, against the "usual meaning" of README.md:205.
  `OnlyWanted` has the exception.
- A row that leaves the listing while a client walks through it (acknowledged,
  canceled, expired) moves those behind it to a page already read, or leaves a
  link without a page, which answers "Not found". `NothingSkipped`, `NoDeadLink`.
- GET /subscription/<id> calls `Subscription.get_or_404` (views.py:239), which
  the model does not have: `query` is missing.
- README.md:186-187 documents `page` from 0 and five rows per page; page 0 is "Not
  found", the first page is 1 and has ten rows (views.py:24).
- When a process has died, a handler that tells it something waits for ever once
  its queue is full (4000 messages), and so does `clean_up`: the exception `Died`
  in `RequestsReturn` and `CleanUpReturns`.
- A callback is lost when either process is killed while it is in the queue and
  the block number has been saved: the exceptions in `HandedOnIsKept`, against
  "It is saved after the callbacks are sent for data consistency".

## 7. Plan

Done in this order: `ThreadPool` and `CallbackTask`, because delivery is what
the program promises; then `TransactionMonitor`, `SubscriptionManager`,
`TransactionCallbacks`, `TxOutCache` and their composition `BitmonTask`; then the
abstract `Delivery`, the refinement, `System` and `RestApi`.

Then the proofs, in the order of section 4.

Next: an abstract pool (a bag of jobs), implemented by `ThreadPool`.
