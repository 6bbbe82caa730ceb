--------------------------- MODULE CallbackTaskProofs ---------------------------
(***************************************************************************)
(* Proofs about CallbackTask, for any number of callbacks, workers,        *)
(* retries and restarts, any retry period and any queue lengths:           *)
(*   - that its variables have their types;                                *)
(*   - that no command is sent twice and an id is in one place at a time;  *)
(*   - that a dropped callback is not taken up again;                      *)
(*   - what a crash may cost the row of a callback, and how often the      *)
(*     callback is POSTed;                                                 *)
(*   - that an acknowledgement reaches the table;                          *)
(*   - that no live callback is lost;                                      *)
(*   - that the retry queue is in order;                                   *)
(*   - that it implements Delivery.                                        *)
(* Each part has its own inductive invariant, and uses those before it.    *)
(***************************************************************************)
EXTENDS DeliveryRefinement, SequenceTheorems, FiniteSetTheorems, TLAPS

-----------------------------------------------------------------------------
(* Queues: what taking from and adding to a queue does to the set of its   *)
(* elements, and to the fact that no element is in it twice.               *)

(* No element of q but x is in q twice. *)
NoneTwiceBut(q, x) ==
  \A i, k \in DOMAIN q : q[i] = q[k] /\ q[i] # x => i = k

(* Taking the head: it was an element, the other elements stay, and if it  *)
(* was in the queue once it is gone.                                       *)
LEMMA QueueTail ==
  ASSUME NEW S, NEW q \in Seq(S), q # << >>
  PROVE  /\ Head(q) \in S /\ Head(q) \in Range(q)
         /\ Tail(q) \in Seq(S)
         /\ Range(q) = {Head(q)} \cup Range(Tail(q))
         /\ IsInjective(q) => IsInjective(Tail(q)) /\ Head(q) \notin Range(Tail(q))
         /\ \A x : NoneTwiceBut(q, x) =>
              NoneTwiceBut(Tail(q), x) /\ (Head(q) # x => Head(q) \notin Range(Tail(q)))
<1>1. /\ Head(q) \in S /\ Tail(q) \in Seq(S) /\ Len(Tail(q)) = Len(q) - 1
      /\ \A i \in 1..Len(Tail(q)) : Tail(q)[i] = q[i + 1]
  BY HeadTailProperties
<1>2. Len(q) \in Nat \ {0}
  BY EmptySeq
<1>3. DOMAIN q = 1..Len(q) /\ DOMAIN Tail(q) = 1..(Len(q) - 1)
  BY <1>1, LenProperties
<1>4. Head(q) = q[1]
  OBVIOUS
<1>5. ASSUME NEW i \in DOMAIN q, i # 1
      PROVE  i - 1 \in DOMAIN Tail(q) /\ q[i] = Tail(q)[i - 1]
  <2>1. i \in Int /\ i - 1 \in 1..Len(Tail(q)) /\ (i - 1) + 1 = i
    BY <1>1, <1>2, <1>3, <1>5
  <2>2. Tail(q)[i - 1] = q[(i - 1) + 1]
    BY <2>1, <1>1
  <2> QED BY <1>1, <1>3, <2>1, <2>2
<1>6. \A i \in DOMAIN Tail(q) : i + 1 \in DOMAIN q /\ Tail(q)[i] = q[i + 1] /\ i + 1 # 1
  BY <1>1, <1>2, <1>3
<1>7. 1 \in DOMAIN q
  BY <1>2, <1>3
<1>8. Range(q) = {Head(q)} \cup Range(Tail(q))
  <2>1. Range(q) \subseteq {Head(q)} \cup Range(Tail(q))
    BY <1>4, <1>5 DEF Range
  <2>2. {Head(q)} \cup Range(Tail(q)) \subseteq Range(q)
    BY <1>4, <1>6, <1>7 DEF Range
  <2> QED BY <2>1, <2>2
<1>9. IsInjective(q) => IsInjective(Tail(q)) /\ Head(q) \notin Range(Tail(q))
  BY <1>3, <1>4, <1>6, <1>7 DEF IsInjective, Range
<1>10. \A x : NoneTwiceBut(q, x) =>
         NoneTwiceBut(Tail(q), x) /\ (Head(q) # x => Head(q) \notin Range(Tail(q)))
  BY <1>3, <1>4, <1>6, <1>7 DEF NoneTwiceBut, Range
<1> QED BY <1>1, <1>4, <1>7, <1>8, <1>9, <1>10 DEF Range

(* Appending an element. *)
LEMMA QueueAppend ==
  ASSUME NEW S, NEW q \in Seq(S), NEW e \in S
  PROVE  /\ Append(q, e) \in Seq(S)
         /\ Range(Append(q, e)) = Range(q) \cup {e}
         /\ IsInjective(q) /\ e \notin Range(q) => IsInjective(Append(q, e))
         /\ \A x : NoneTwiceBut(q, x) /\ (e = x \/ e \notin Range(q)) =>
              NoneTwiceBut(Append(q, e), x)
<1> DEFINE r == Append(q, e)
<1>1. /\ r \in Seq(S) /\ Len(r) = Len(q) + 1
      /\ \A i \in 1..Len(q) : r[i] = q[i]
      /\ r[Len(q) + 1] = e
  BY AppendProperties
<1>2. Len(q) \in Nat /\ DOMAIN q = 1..Len(q) /\ DOMAIN r = 1..(Len(q) + 1)
  BY <1>1, LenProperties
<1> HIDE DEF r
<1>3. \A i \in DOMAIN r : (i \in DOMAIN q /\ r[i] = q[i]) \/ (i = Len(q) + 1 /\ r[i] = e)
  BY <1>1, <1>2
<1>4. \A i \in DOMAIN q : i \in DOMAIN r /\ r[i] = q[i]
  BY <1>1, <1>2
<1>5. Len(q) + 1 \in DOMAIN r /\ r[Len(q) + 1] = e
  BY <1>1, <1>2
<1>6. Range(r) = Range(q) \cup {e}
  BY <1>3, <1>4, <1>5 DEF Range
<1>7. IsInjective(q) /\ e \notin Range(q) => IsInjective(r)
  BY <1>3 DEF IsInjective, Range
<1>8. \A x : NoneTwiceBut(q, x) /\ (e = x \/ e \notin Range(q)) => NoneTwiceBut(r, x)
  BY <1>3 DEF NoneTwiceBut, Range
<1> QED BY <1>1, <1>6, <1>7, <1>8 DEF r

(* Joining two queues that share no element. *)
LEMMA QueueConcat ==
  ASSUME NEW S, NEW q \in Seq(S), NEW r \in Seq(S)
  PROVE  /\ q \o r \in Seq(S)
         /\ Range(q \o r) = Range(q) \cup Range(r)
         /\ IsInjective(q) /\ IsInjective(r) /\ Range(q) \cap Range(r) = {}
              => IsInjective(q \o r)
<1> DEFINE s == q \o r
<1>1. /\ s \in Seq(S) /\ Len(s) = Len(q) + Len(r)
      /\ \A i \in 1..(Len(q) + Len(r)) :
           s[i] = IF i <= Len(q) THEN q[i] ELSE r[i - Len(q)]
  BY ConcatProperties
<1>2. /\ Len(q) \in Nat /\ DOMAIN q = 1..Len(q)
      /\ Len(r) \in Nat /\ DOMAIN r = 1..Len(r)
      /\ DOMAIN s = 1..(Len(q) + Len(r))
  BY <1>1, LenProperties
<1>3. Range(s) = Range(q) \cup Range(r)
  BY RangeConcatenation
<1> HIDE DEF s
<1>4. \A i \in DOMAIN s : (i \in DOMAIN q /\ s[i] = q[i])
                          \/ (i - Len(q) \in DOMAIN r /\ s[i] = r[i - Len(q)])
  BY <1>1, <1>2
<1>5. IsInjective(q) /\ IsInjective(r) /\ Range(q) \cap Range(r) = {} => IsInjective(s)
  <2> SUFFICES ASSUME IsInjective(q), IsInjective(r), Range(q) \cap Range(r) = {},
                      NEW i \in DOMAIN s, NEW k \in DOMAIN s, s[i] = s[k]
               PROVE  i = k
    BY DEF IsInjective
  <2>1. CASE i \in DOMAIN q /\ s[i] = q[i] /\ k \in DOMAIN q /\ s[k] = q[k]
    BY <2>1 DEF IsInjective
  <2>2. CASE /\ i - Len(q) \in DOMAIN r /\ s[i] = r[i - Len(q)]
             /\ k - Len(q) \in DOMAIN r /\ s[k] = r[k - Len(q)]
    <3>1. i - Len(q) = k - Len(q)
      BY <2>2 DEF IsInjective
    <3>2. i \in Int /\ k \in Int
      BY <1>2
    <3> QED BY <3>1, <3>2, <1>2
  <2> QED BY <1>4, <2>1, <2>2 DEF Range
<1> QED BY <1>1, <1>3, <1>5 DEF s

(* Putting an element in front. *)
LEMMA QueuePush ==
  ASSUME NEW S, NEW q \in Seq(S), NEW e \in S
  PROVE  /\ <<e>> \o q \in Seq(S)
         /\ Range(<<e>> \o q) = {e} \cup Range(q)
         /\ IsInjective(q) /\ e \notin Range(q) => IsInjective(<<e>> \o q)
<1>1. <<e>> \in Seq(S) /\ Range(<<e>>) = {e} /\ IsInjective(<<e>>)
  BY DEF Range, IsInjective
<1> DEFINE f == <<e>>
<1>2. /\ f \o q \in Seq(S)
      /\ Range(f \o q) = Range(f) \cup Range(q)
      /\ IsInjective(f) /\ IsInjective(q) /\ Range(f) \cap Range(q) = {}
           => IsInjective(f \o q)
  <2> HIDE DEF f
  <2>1. f \in Seq(S)
    BY <1>1 DEF f
  <2> QED BY <2>1, QueueConcat
<1> QED BY <1>1, <1>2

(* The empty queue. *)
LEMMA QueueEmpty ==
  /\ \A S : << >> \in Seq(S)
  /\ Range(<< >>) = {}
  /\ IsInjective(<< >>)
  /\ \A x : NoneTwiceBut(<< >>, x)
<1>1. \A S : << >> \in Seq(S)
  BY EmptySeq
<1>2. DOMAIN << >> = {}
  OBVIOUS
<1> QED BY <1>1, <1>2 DEF Range, IsInjective, NoneTwiceBut

-----------------------------------------------------------------------------

USE CallbackAssumption

-----------------------------------------------------------------------------
(* Type correctness *)

(* What the type invariant rests on: where a thread's program counter says *)
(* that it holds a callback it does, and whatever the process holds has a  *)
(* row in the database.                                                    *)
HandsOK ==
  /\ upc \in {"load", "add", "put", "full"} => uid \in Callback /\ urec = Missing
  /\ upc = "save" => uid \in Callback /\ urec \in Record
  /\ upc \in {"check", "ready", "sent", "stopped"} => uid = NoCallback /\ urec = Missing
  /\ adding["update"] = IF upc = "put" THEN uid ELSE NoCallback
  /\ dpc \in {"new", "ack"} => did \in Callback
  /\ \A c \in Callback :
       c \in Live \/ c \in recovered \/ did = c \/ uid = c => db[c] # Missing

LEMMA NewRowType == NewRow \in Row /\ ~NewRow.acked
BY DEF NewRow, Row

LEMMA RowFields ==
  ASSUME NEW row \in Row
  PROVE  /\ row.acked \in BOOLEAN /\ row.retries \in Nat /\ row.age \in 0..MaxAge
         /\ RecordOf(row) \in Record /\ RecordOf(row) # Missing
         /\ [row EXCEPT !.acked = TRUE] \in Row
         /\ [row EXCEPT !.acked = TRUE] # Missing
<1>1. row.acked \in BOOLEAN /\ row.retries \in Nat /\ row.age \in 0..MaxAge
  BY DEF Row
<1>2. RecordOf(row) \in Record
  BY <1>1 DEF Record, RecordOf
<1>3. [row EXCEPT !.acked = TRUE] \in Row
  BY DEF Row
<1> QED BY <1>1, <1>2, <1>3

LEMMA SavedRowType ==
  ASSUME NEW row \in Row, NEW rec \in Record
  PROVE  SavedRow(row, rec) \in Row /\ SavedRow(row, rec) # Missing
BY DEF Row, Record, SavedRow

LEMMA AfterTryType ==
  ASSUME NEW rec \in Record, HasRetries(rec)
  PROVE  /\ AfterTry(rec) \in Record /\ AfterTry(rec) # Missing
         /\ AfterTry(rec).retries = rec.retries - 1
         /\ AfterTry(rec).age = 0
BY DEF Record, HasRetries, AfterTry

LEMMA OlderTypes ==
  /\ \A row \in Row : /\ [row EXCEPT !.age = Older(row.age)] \in Row
                      /\ [row EXCEPT !.age = Older(row.age)] # Missing
  /\ \A rec \in Record : /\ [rec EXCEPT !.age = Older(rec.age)] \in Record
                         /\ [rec EXCEPT !.age = Older(rec.age)] # Missing
BY DEF Row, Record, Older

LEMMA OldestFirstType ==
  ASSUME NEW S \in SUBSET Callback, NEW q \in OldestFirst(S)
  PROVE  q \in Seq(Callback) /\ Range(q) = S /\ IsInjective(q)
<1>1. Cardinality(S) \in Nat
  BY FS_Subset, FS_CardinalityType
<1>2. q \in [1..Cardinality(S) -> S]
  BY DEF OldestFirst
<1>3. q \in Seq(Callback)
  BY <1>1, <1>2
<1>4. Range(q) = S
  BY <1>2 DEF OldestFirst, Range
<1>5. \A i, k \in DOMAIN q : i < k => q[i] # q[k]
  BY DEF OldestFirst
<1>6. IsInjective(q)
  <2>1. \A i, k \in DOMAIN q : i \in Int /\ k \in Int
    BY <1>1, <1>2
  <2> QED BY <1>5, <2>1 DEF IsInjective
<1> QED BY <1>3, <1>4, <1>6

LEMMA Starts == Init => TypeOK /\ HandsOK
<1> SUFFICES ASSUME Init PROVE TypeOK /\ HandsOK
  OBVIOUS
<1>1. /\ inputQ \in Seq(CommandSet)
      /\ retryQ \in Seq(Callback) /\ sentQ \in Seq(Callback)
      /\ pendingQ \in Seq(Callback \cup {MsgExit})
  <2>1. /\ << >> \in Seq(CommandSet) /\ << >> \in Seq(Callback)
        /\ << >> \in Seq(Callback \cup {MsgExit})
    BY QueueEmpty
  <2> QED BY <2>1 DEF Init
<1>2. Pool!TypeOK
  BY <1>1 DEF Init, Pool!TypeOK, IdleWorkers, NotAdding
<1>3. TypeOK
  BY <1>1, <1>2 DEF Init, TypeOK, NoRecords, DispatchPC, UpdatePC
<1>4. HandsOK
  BY DEF Init, HandsOK, NotAdding, NoRecords, Live
<1> QED BY <1>3, <1>4

TypeInv == TypeOK /\ HandsOK

LEMMA FlaskTypes == TypeInv /\ FlaskStep => TypeInv'
<1> SUFFICES ASSUME TypeInv, FlaskStep PROVE TypeInv'
  OBVIOUS
<1> USE DEF TypeInv, TypeOK, flaskVars, managerVars, dispatchVars, updateVars, poolVars
<1>1. ASSUME NEW cmd, NEW c, Command(cmd, c) \in CommandSet, Put(Command(cmd, c))
      PROVE  inputQ' \in Seq(CommandSet)
  BY <1>1, QueueAppend DEF Put
<1>2. ASSUME NEW c \in Callback, NewCallback(c) PROVE TypeInv'
  <2>1. inputQ' \in Seq(CommandSet)
    BY <1>1, <1>2 DEF NewCallback, Command, CommandSet
  <2>2. HandsOK'
    BY <1>2 DEF NewCallback, HandsOK, Live
  <2> QED BY <1>2, <2>1, <2>2 DEF NewCallback, Pool!TypeOK
<1>3. ASSUME NEW c \in Callback, PatchCallback(c) PROVE TypeInv'
  <2>1. db[c] \in Row
    BY <1>3 DEF PatchCallback
  <2>2. [db[c] EXCEPT !.acked = TRUE] \in Row /\ [db[c] EXCEPT !.acked = TRUE] # Missing
    BY <2>1, RowFields
  <2>3. db' = [db EXCEPT ![c] = [db[c] EXCEPT !.acked = TRUE]]
    BY <1>3 DEF PatchCallback
  <2>4. db' \in [Callback -> Row \cup {Missing}]
    BY <2>2, <2>3
  <2>5. HandsOK'
    BY <1>3, <2>2, <2>3 DEF PatchCallback, HandsOK, Live
  <2> QED BY <1>3, <2>4, <2>5 DEF PatchCallback, Pool!TypeOK
<1>4. CASE SendAck
  <2>1. inputQ' \in Seq(CommandSet)
    BY <1>1, <1>4 DEF SendAck, Command, CommandSet
  <2>2. HandsOK'
    BY <1>4 DEF SendAck, HandsOK, Live
  <2> QED BY <1>4, <2>1, <2>2 DEF SendAck, Pool!TypeOK
<1>5. CASE CloseTask
  <2>1. inputQ' \in Seq(CommandSet)
    BY <1>1, <1>5 DEF CloseTask, Command, CommandSet
  <2>2. HandsOK'
    BY <1>5 DEF CloseTask, HandsOK, Live
  <2> QED BY <1>5, <2>1, <2>2 DEF CloseTask, Pool!TypeOK
<1> QED BY <1>2, <1>3, <1>4, <1>5 DEF FlaskStep

(* The command that GetCommand takes. *)
LEMMA CommandTaken ==
  ASSUME TypeOK, NEW cmd, GetCommand(cmd)
  PROVE  /\ inputQ' \in Seq(CommandSet)
         /\ Head(inputQ) \in CommandSet /\ Head(inputQ) \in Range(inputQ)
         /\ cmd # "EXIT_TASK" => Head(inputQ).id \in Callback
         /\ Range(inputQ) = {Head(inputQ)} \cup Range(inputQ')
<1>1. inputQ \in Seq(CommandSet) /\ inputQ # << >> /\ inputQ' = Tail(inputQ)
      /\ Head(inputQ).cmd = cmd
  BY DEF TypeOK, GetCommand
<1>2. /\ Head(inputQ) \in CommandSet /\ Head(inputQ) \in Range(inputQ)
      /\ Tail(inputQ) \in Seq(CommandSet)
      /\ Range(inputQ) = {Head(inputQ)} \cup Range(Tail(inputQ))
  BY <1>1, QueueTail
<1>3. cmd # "EXIT_TASK" => Head(inputQ).id \in Callback
  BY <1>1, <1>2 DEF CommandSet
<1> QED BY <1>1, <1>2, <1>3

LEMMA DispatchTypes == TypeInv /\ DispatchStep => TypeInv'
<1> SUFFICES ASSUME TypeInv, DispatchStep PROVE TypeInv'
  OBVIOUS
<1> USE DEF TypeInv, TypeOK, flaskVars, managerVars, dispatchVars, updateVars, poolVars,
            DispatchPC
<1>1. CASE ReadPending
  <2>1. HandsOK'
    BY <1>1 DEF ReadPending, HandsOK, Live, Unfinished
  <2> QED BY <1>1, <2>1 DEF ReadPending, Pool!TypeOK
<1>2. CASE AddPending
  <2>1. \A c \in recovered : db[c] \in Row
    BY DEF HandsOK
  <2>2. \A c \in recovered : RecordOf(db[c]) \in Record
    BY <2>1, RowFields
  <2>3. callbacks' \in [Callback -> Record \cup {Missing}]
    BY <1>2, <2>2 DEF AddPending
  <2>4. retryQ' \in Seq(Callback)
    <3>1. PICK q \in OldestFirst(recovered) : retryQ' = retryQ \o q
      BY <1>2 DEF AddPending
    <3>2. q \in Seq(Callback)
      BY OldestFirstType
    <3> QED BY <3>1, <3>2, QueueConcat
  <2>5. \A c \in Callback : c \in Live' => c \in Live \/ c \in recovered
    BY <1>2 DEF AddPending, Live
  <2>6. HandsOK'
    BY <1>2, <2>5 DEF AddPending, HandsOK
  <2> QED BY <1>2, <2>3, <2>4, <2>6 DEF AddPending, Pool!TypeOK
<1>3. CASE InsertRow
  <2>1. did' \in Callback /\ inputQ' \in Seq(CommandSet)
    BY <1>3, CommandTaken DEF InsertRow
  <2>2. NewRow \in Row /\ NewRow # Missing
    BY NewRowType
  <2>3. db' = [db EXCEPT ![did'] = NewRow]
    BY <1>3 DEF InsertRow
  <2>4. db' \in [Callback -> Row \cup {Missing}]
    BY <2>1, <2>2, <2>3
  <2>5. HandsOK'
    BY <1>3, <2>1, <2>2, <2>3 DEF InsertRow, HandsOK, Live
  <2> QED BY <1>3, <2>1, <2>4, <2>5 DEF InsertRow, GetCommand, Pool!TypeOK
<1>4. CASE AddCallback
  <2>1. did \in Callback /\ db[did] \in Row
    BY <1>4 DEF AddCallback, HandsOK
  <2>2. RecordOf(db[did]) \in Record
    BY <2>1, RowFields
  <2>3. retryQ' \in Seq(Callback)
    BY <1>4, <2>1, QueuePush DEF AddCallback
  <2>4. HandsOK'
    BY <1>4, <2>1 DEF AddCallback, HandsOK, Live
  <2> QED BY <1>4, <2>2, <2>3, <2>4 DEF AddCallback, Pool!TypeOK
<1>5. CASE DropRecord
  <2> DEFINE c == Head(inputQ).id
  <2>1. c \in Callback /\ inputQ' \in Seq(CommandSet)
    BY <1>5, CommandTaken DEF DropRecord
  <2>2. /\ callbacks' = [callbacks EXCEPT ![c] = Missing]
        /\ dpc' \in {dpc, "ack"}
        /\ \/ c \in Live /\ dpc' = "ack" /\ did' = c
           \/ UNCHANGED <<dpc, did>>
        /\ UNCHANGED <<db, posts, app, patching, restarts, retryQ, sentQ, closeFlag,
                       recovered, updateVars, poolVars>>
    BY <1>5 DEF DropRecord, DropFrom, GetCommand
  <2> HIDE DEF c
  <2>3. HandsOK'
    BY <2>1, <2>2 DEF HandsOK, Live
  <2>4. did' \in Callback \cup {NoCallback}
    BY <2>1, <2>2
  <2> QED BY <2>1, <2>2, <2>3, <2>4 DEF Pool!TypeOK
<1>6. CASE SaveAck
  <2>1. did \in Callback /\ db[did] \in Row
    BY <1>6 DEF SaveAck, HandsOK
  <2>2. /\ [db[did] EXCEPT !.acked = TRUE] \in Row
        /\ [db[did] EXCEPT !.acked = TRUE] # Missing
    BY <2>1, RowFields
  <2>3. db' = [db EXCEPT ![did] = [db[did] EXCEPT !.acked = TRUE]]
    BY <1>6 DEF SaveAck
  <2>4. db' \in [Callback -> Row \cup {Missing}]
    BY <2>1, <2>2, <2>3
  <2>5. HandsOK'
    BY <1>6, <2>1, <2>2, <2>3 DEF SaveAck, HandsOK, Live
  <2> QED BY <1>6, <2>4, <2>5 DEF SaveAck, Pool!TypeOK
<1>7. CASE GetExitTask
  <2>1. inputQ' \in Seq(CommandSet)
    BY <1>7, CommandTaken DEF GetExitTask
  <2>2. HandsOK'
    BY <1>7 DEF GetExitTask, GetCommand, Pool!BeginClose, HandsOK, Live
  <2>3. exitsLeft' \in Nat
    <3>1. Cardinality(Worker) \in Nat
      BY FS_CardinalityType
    <3>2. Pool!Cardinality(Worker) = Cardinality(Worker)
      BY DEF Pool!Cardinality, Cardinality, Pool!IsFiniteSet, IsFiniteSet
    <3>3. exitsLeft' = Pool!ExitMessages
      BY <1>7 DEF GetExitTask, Pool!BeginClose
    <3> QED BY <3>1, <3>2, <3>3 DEF Pool!ExitMessages
  <2> QED BY <1>7, <2>1, <2>2, <2>3
          DEF GetExitTask, GetCommand, Pool!BeginClose, Pool!TypeOK
<1>8. CASE ClosePool
  <2>1. /\ pendingQ' \in Seq(Callback \cup {MsgExit})
        /\ exitsLeft' \in Nat
        /\ closing' \in {"open", "purge", "exits", "join", "closed"}
        /\ UNCHANGED <<poolFlag, worker, adding, posts>>
    <3> USE DEF ClosePool, Pool!TypeOK
    <3>1. CASE Pool!PurgeOne
      BY <1>8, <3>1, QueueTail DEF Pool!PurgeOne
    <3>2. CASE Pool!PurgeDone
      BY <1>8, <3>2 DEF Pool!PurgeDone
    <3>3. CASE Pool!PutExit
      BY <1>8, <3>3, QueueAppend DEF Pool!PutExit, Pool!WithExit
    <3>4. CASE Pool!ExitsDone
      BY <1>8, <3>4 DEF Pool!ExitsDone
    <3>5. CASE Pool!Join
      BY <1>8, <3>5 DEF Pool!Join
    <3> QED BY <1>8, <3>1, <3>2, <3>3, <3>4, <3>5 DEF Pool!CloserStep
  <2>2. HandsOK'
    BY <1>8, <2>1 DEF ClosePool, HandsOK, Live
  <2> QED BY <1>8, <2>1, <2>2 DEF ClosePool, Pool!TypeOK
<1>9. CASE SetCloseFlag
  <2>1. HandsOK'
    BY <1>9 DEF SetCloseFlag, HandsOK, Live
  <2> QED BY <1>9, <2>1 DEF SetCloseFlag, Pool!TypeOK
<1>10. CASE JoinUpdate
  <2>1. HandsOK'
    BY <1>10 DEF JoinUpdate, HandsOK, Live
  <2> QED BY <1>10, <2>1 DEF JoinUpdate, Pool!TypeOK
<1> QED
  BY <1>1, <1>2, <1>3, <1>4, <1>5, <1>6, <1>7, <1>8, <1>9, <1>10 DEF DispatchStep

LEMMA UpdateTypes == TypeInv /\ UpdateStep => TypeInv'
<1> SUFFICES ASSUME TypeInv, UpdateStep PROVE TypeInv'
  OBVIOUS
<1> USE DEF TypeInv, TypeOK, UpdateFrame, flaskVars, managerVars, dispatchVars,
            updateVars, poolVars, UpdatePC
<1>1. CASE CheckClose
  <2>1. HandsOK'
    BY <1>1 DEF CheckClose, HandsOK, Live
  <2> QED BY <1>1, <2>1 DEF CheckClose, Pool!TypeOK
<1>2. CASE TakeReady
  <2>1. /\ uid' = Head(retryQ) /\ uid' \in Callback
        /\ retryQ' \in Seq(Callback) /\ uid' \in Live
    BY <1>2, QueueTail DEF TakeReady, HeadIsDue, Due, Popped, Live
  <2>2. HandsOK'
    BY <1>2, <2>1 DEF TakeReady, HandsOK, Live
  <2> QED BY <1>2, <2>1, <2>2 DEF TakeReady, Pool!TypeOK
<1>3. CASE NoneReady
  <2>1. HandsOK'
    BY <1>3 DEF NoneReady, HandsOK, Live
  <2> QED BY <1>3, <2>1 DEF NoneReady, Pool!TypeOK
<1>4. CASE LoadRequest
  <2>1. HandsOK'
    BY <1>4 DEF LoadRequest, HandsOK, Live
  <2> QED BY <1>4, <2>1 DEF LoadRequest, Pool!TypeOK
<1>5. CASE UpdateDies
  <2>1. HandsOK'
    BY <1>5 DEF UpdateDies, HandsOK, Live
  <2> QED BY <1>5, <2>1 DEF UpdateDies, Pool!TypeOK
<1>6. CASE BeginAddJob
  <2>1. uid \in Callback /\ adding' = [adding EXCEPT !["update"] = uid]
    BY <1>6 DEF BeginAddJob, HandsOK, Pool!CheckFlag
  <2>2. UNCHANGED <<pendingQ, poolFlag, worker, closing, exitsLeft, posts>>
    BY <1>6 DEF BeginAddJob, Pool!CheckFlag
  <2>3. Pool!TypeOK'
    BY <2>1, <2>2 DEF Pool!TypeOK
  <2>4. adding'["update"] = uid
    BY <2>1 DEF Pool!TypeOK
  <2>5. HandsOK'
    BY <1>6, <2>4 DEF BeginAddJob, HandsOK, Live
  <2> QED BY <1>6, <2>3, <2>5 DEF BeginAddJob
<1>7. CASE RefuseJob
  <2>1. HandsOK'
    BY <1>7 DEF RefuseJob, HandsOK, Live
  <2> QED BY <1>7, <2>1 DEF RefuseJob, Pool!TypeOK
<1>8. CASE AddJob
  <2>1. /\ uid \in Callback /\ adding["update"] = uid
        /\ pendingQ' = Append(pendingQ, uid)
        /\ adding' = [adding EXCEPT !["update"] = NoCallback]
        /\ UNCHANGED <<poolFlag, worker, closing, exitsLeft, posts>>
    BY <1>8 DEF AddJob, HandsOK, Pool!PutJob
  <2>2. pendingQ' \in Seq(Callback \cup {MsgExit})
    BY <2>1, QueueAppend DEF Pool!TypeOK
  <2>3. Pool!TypeOK' /\ adding'["update"] = NoCallback
    BY <2>1, <2>2 DEF Pool!TypeOK
  <2>4. HandsOK'
    BY <1>8, <2>3 DEF AddJob, HandsOK, Live
  <2> QED BY <1>8, <2>3, <2>4 DEF AddJob
<1>9. CASE JobQueueFull
  <2>1. /\ adding' = [adding EXCEPT !["update"] = NoCallback]
        /\ UNCHANGED <<pendingQ, poolFlag, worker, closing, exitsLeft, posts>>
    BY <1>9 DEF JobQueueFull, Pool!PutFull
  <2>2. Pool!TypeOK' /\ adding'["update"] = NoCallback
    BY <2>1 DEF Pool!TypeOK
  <2>3. HandsOK'
    BY <1>9, <2>2 DEF JobQueueFull, HandsOK, Live
  <2> QED BY <1>9, <2>2, <2>3 DEF JobQueueFull
<1>10. CASE GiveBack
  <2>1. uid \in Callback /\ retryQ' \in Seq(Callback)
    BY <1>10, QueuePush DEF GiveBack, GivenBack, HandsOK
  <2>2. HandsOK'
    BY <1>10 DEF GiveBack, HandsOK, Live
  <2> QED BY <1>10, <2>1, <2>2 DEF GiveBack, Pool!TypeOK
<1>11. CASE NothingSent
  <2>1. HandsOK'
    BY <1>11 DEF NothingSent, HandsOK, Live
  <2> QED BY <1>11, <2>1 DEF NothingSent, Pool!TypeOK
<1>12. CASE DiscardSent
  <2>1. sentQ' \in Seq(Callback)
    BY <1>12, QueueTail DEF DiscardSent
  <2>2. HandsOK'
    BY <1>12 DEF DiscardSent, HandsOK, Live
  <2> QED BY <1>12, <2>1, <2>2 DEF DiscardSent, Pool!TypeOK
<1>13. CASE Requeue
  <2>1. /\ uid' \in Callback /\ uid' \in Live
        /\ sentQ' \in Seq(Callback)
    BY <1>13, QueueTail DEF Requeue
  <2>2. callbacks[uid'] \in Record /\ HasRetries(callbacks[uid'])
    BY <1>13, <2>1 DEF Requeue, Live
  <2>3. urec' \in Record
    BY <1>13, <2>2, AfterTryType DEF Requeue
  <2>4. callbacks' \in [Callback -> Record \cup {Missing}]
    BY <1>13, <2>1, <2>3 DEF Requeue
  <2>5. retryQ' \in Seq(Callback)
    BY <1>13, <2>1, QueueAppend DEF Requeue, AtBack
  <2>6. HandsOK'
    BY <1>13, <2>1, <2>3 DEF Requeue, HandsOK, Live
  <2> QED BY <1>13, <2>1, <2>3, <2>4, <2>5, <2>6 DEF Requeue, Pool!TypeOK
<1>14. CASE GiveUp
  <2>1. /\ uid' \in Callback /\ uid' \in Live
        /\ sentQ' \in Seq(Callback)
    BY <1>14, QueueTail DEF GiveUp
  <2>2. urec' \in Record
    BY <1>14, <2>1 DEF GiveUp, Live
  <2>3. callbacks' \in [Callback -> Record \cup {Missing}]
    BY <1>14, <2>1 DEF GiveUp
  <2>4. HandsOK'
    BY <1>14, <2>1, <2>2 DEF GiveUp, HandsOK, Live
  <2> QED BY <1>14, <2>1, <2>2, <2>3, <2>4 DEF GiveUp, Pool!TypeOK
<1>15. CASE SaveRecord
  <2>1. uid \in Callback /\ urec \in Record /\ db[uid] \in Row
    BY <1>15 DEF SaveRecord, HandsOK
  <2>2. SavedRow(db[uid], urec) \in Row /\ SavedRow(db[uid], urec) # Missing
    BY <2>1, SavedRowType
  <2>3. db' = [db EXCEPT ![uid] = SavedRow(db[uid], urec)]
    BY <1>15 DEF SaveRecord
  <2>4. db' \in [Callback -> Row \cup {Missing}]
    BY <2>1, <2>2, <2>3
  <2>5. HandsOK'
    BY <1>15, <2>1, <2>2, <2>3 DEF SaveRecord, HandsOK, Live
  <2> QED BY <1>15, <2>4, <2>5 DEF SaveRecord, Pool!TypeOK
<1> QED
  BY <1>1, <1>2, <1>3, <1>4, <1>5, <1>6, <1>7, <1>8, <1>9, <1>10, <1>11, <1>12,
     <1>13, <1>14, <1>15 DEF UpdateStep

LEMMA WorkerTypes ==
  ASSUME TypeInv, NEW w \in Worker, WorkerStep(w) PROVE TypeInv'
<1> USE DEF TypeInv, TypeOK, flaskVars, managerVars, dispatchVars, updateVars
<1>1. CASE StartPost(w)
  <2>1. /\ Head(pendingQ) \in Callback
        /\ pendingQ' \in Seq(Callback \cup {MsgExit})
    BY <1>1, QueueTail DEF StartPost, Pool!GetJob, Pool!IsExit, Pool!Taken, Pool!TypeOK
  <2>2. worker' \in [Worker -> Callback \cup {Idle, Gone}]
    BY <1>1, <2>1 DEF StartPost, Pool!GetJob, Pool!TypeOK
  <2>3. posts' \in [Callback -> Nat]
    BY <1>1, <2>1 DEF StartPost, Pool!GetJob, Pool!TypeOK
  <2>4. HandsOK'
    BY <1>1 DEF StartPost, Pool!GetJob, HandsOK, Live
  <2> QED BY <1>1, <2>1, <2>2, <2>3, <2>4 DEF StartPost, Pool!GetJob, Pool!TypeOK
<1>2. CASE EndPost(w)
  <2>1. worker[w] \in Callback /\ worker' = [worker EXCEPT ![w] = Idle]
    BY <1>2 DEF EndPost, Pool!FinishJob
  <2>2. sentQ' \in Seq(Callback)
    BY <1>2, <2>1, QueueAppend DEF EndPost
  <2>3. HandsOK'
    BY <1>2 DEF EndPost, Pool!FinishJob, HandsOK, Live
  <2> QED BY <1>2, <2>1, <2>2, <2>3 DEF EndPost, Pool!FinishJob, Pool!TypeOK
<1>3. CASE EndWorker(w)
  <2>1. pendingQ' \in Seq(Callback \cup {MsgExit})
    BY <1>3, QueueTail DEF EndWorker, Pool!GetExit, Pool!Taken, Pool!TypeOK
  <2>2. HandsOK'
    BY <1>3 DEF EndWorker, Pool!GetExit, HandsOK, Live
  <2> QED BY <1>3, <2>1, <2>2 DEF EndWorker, Pool!GetExit, Pool!TypeOK
<1> QED BY <1>1, <1>2, <1>3 DEF WorkerStep

LEMMA TickTypes == TypeInv /\ Tick => TypeInv'
<1> SUFFICES ASSUME TypeInv, Tick PROVE TypeInv'
  OBVIOUS
<1> USE DEF TypeInv, TypeOK, flaskVars, dispatchVars, poolVars
<1>1. db' \in [Callback -> Row \cup {Missing}]
  BY OlderTypes DEF Tick
<1>2. callbacks' \in [Callback -> Record \cup {Missing}]
  BY OlderTypes DEF Tick
<1>3. urec' \in Record \cup {Missing} /\ (urec' = Missing <=> urec = Missing)
  BY OlderTypes DEF Tick
<1>4. \A c \in Callback : /\ db'[c] = Missing <=> db[c] = Missing
                          /\ callbacks'[c] = Missing <=> callbacks[c] = Missing
  BY OlderTypes DEF Tick
<1>5. HandsOK'
  BY <1>3, <1>4 DEF Tick, HandsOK, Live
<1> QED BY <1>1, <1>2, <1>3, <1>5 DEF Tick, Pool!TypeOK

LEMMA ForgetTypes ==
  ASSUME TypeInv, ForgetMemory, db' = db, posts' = posts,
         app' \in {"up", "closing"}, patching' \in Callback \cup {NoCallback},
         inputQ' \in Seq(CommandSet), restarts' \in Nat, dpc' \in {"recover", "dead"}
  PROVE  TypeInv'
<1> USE DEF TypeInv, TypeOK, ForgetMemory
<1>1. /\ retryQ' \in Seq(Callback) /\ sentQ' \in Seq(Callback)
      /\ pendingQ' \in Seq(Callback \cup {MsgExit})
  <2>1. << >> \in Seq(Callback) /\ << >> \in Seq(Callback \cup {MsgExit})
    BY QueueEmpty
  <2> QED BY <2>1
<1>2. Pool!TypeOK'
  BY <1>1 DEF Pool!TypeOK, IdleWorkers, NotAdding
<1>3. HandsOK'
  BY DEF HandsOK, NotAdding, NoRecords, Live
<1> QED BY <1>1, <1>2, <1>3 DEF NoRecords, DispatchPC, UpdatePC

LEMMA RestartTypes == TypeInv /\ (TaskDies \/ Restart) => TypeInv'
<1>1. ASSUME TypeInv, TaskDies PROVE TypeInv'
  BY <1>1, ForgetTypes DEF TaskDies, TypeInv, TypeOK, flaskVars
<1>2. ASSUME TypeInv, Restart PROVE TypeInv'
  <2>1. << >> \in Seq(CommandSet)
    BY QueueEmpty
  <2>2. restarts' \in Nat
    BY <1>2 DEF Restart, TypeInv, TypeOK
  <2> QED BY <1>2, <2>1, <2>2, ForgetTypes DEF Restart
<1> QED BY <1>1, <1>2

LEMMA TypeStep == TypeInv /\ [Next]_vars => TypeInv'
<1> SUFFICES ASSUME TypeInv, [Next]_vars PROVE TypeInv'
  OBVIOUS
<1>1. CASE UNCHANGED vars
  BY <1>1 DEF vars, TypeInv, TypeOK, HandsOK, Pool!TypeOK, Live,
              flaskVars, managerVars, dispatchVars, updateVars, poolVars
<1> QED
  BY <1>1, FlaskTypes, DispatchTypes, UpdateTypes, WorkerTypes, TickTypes, RestartTypes
  DEF Next

LEMMA TypesHold == Spec => []TypeInv
<1>1. Init => TypeInv
  BY Starts DEF TypeInv
<1> QED BY <1>1, TypeStep, PTL DEF Spec

(* In every state the program reaches, every queue holds callback ids only,*)
(* no retry count is negative, and every thread is where it can be.        *)
THEOREM TypeCorrect == Spec => []TypeOK
<1>1. TypeInv => TypeOK
  BY DEF TypeInv
<1> QED BY <1>1, TypesHold, PTL

-----------------------------------------------------------------------------
(* Commands: none is sent twice *)

(* A callback is announced before it has a row and acknowledged after its  *)
(* row is, and each at most once, so no command is in the queue twice.     *)
CommandsInv ==
  /\ IsInjective(inputQ)
  /\ \A m \in Range(inputQ) :
       /\ m.cmd = "NEW_CALLBACK" => db[m.id] = Missing
       /\ m.cmd = "ACK_CALLBACK" => db[m.id] # Missing /\ db[m.id].acked
       /\ m.cmd = "EXIT_TASK" => app = "closing"
  /\ patching \in Callback =>
       /\ db[patching] # Missing /\ db[patching].acked
       /\ Command("ACK_CALLBACK", patching) \notin Range(inputQ)

(* A row stays, and stays acknowledged. *)
RowsStay ==
  \A c \in Callback : /\ db[c] = Missing <=> db'[c] = Missing
                      /\ db[c] # Missing => (db'[c].acked <=> db[c].acked)

LEMMA CommandsFrame ==
  ASSUME TypeInv, CommandsInv, RowsStay, UNCHANGED <<app, inputQ, patching>>
  PROVE  CommandsInv'
<1>1. \A m \in Range(inputQ) : m.cmd # "EXIT_TASK" => m.id \in Callback
  BY RangeOfSeq DEF TypeInv, TypeOK, CommandSet
<1> QED BY <1>1 DEF CommandsInv, RowsStay

(* Commands leave the queue in order, one by one. *)
LEMMA CommandsTake ==
  ASSUME TypeInv, CommandsInv, RowsStay, NEW cmd, GetCommand(cmd)
  PROVE  CommandsInv'
<1>1. inputQ \in Seq(CommandSet) /\ inputQ # << >> /\ inputQ' = Tail(inputQ)
      /\ UNCHANGED <<app, patching>>
  BY DEF TypeInv, TypeOK, GetCommand
<1>2. Range(inputQ') \subseteq Range(inputQ) /\ IsInjective(inputQ')
  BY <1>1, QueueTail DEF CommandsInv
<1>3. \A m \in Range(inputQ) : m.cmd # "EXIT_TASK" => m.id \in Callback
  BY <1>1, RangeOfSeq DEF CommandSet
<1> QED BY <1>1, <1>2, <1>3 DEF CommandsInv, RowsStay

LEMMA SameRowsStay == db' = db => RowsStay
BY DEF RowsStay

LEMMA CommandsStep == TypeInv /\ CommandsInv /\ [Next]_vars => CommandsInv'
<1> SUFFICES ASSUME TypeInv, CommandsInv, [Next]_vars PROVE CommandsInv'
  OBVIOUS
<1> USE DEF flaskVars, managerVars, dispatchVars, updateVars, poolVars
<1>1. inputQ \in Seq(CommandSet) /\ db \in [Callback -> Row \cup {Missing}]
      /\ patching \in Callback \cup {NoCallback}
  BY DEF TypeInv, TypeOK
<1>2. \A m \in Range(inputQ) : m \in CommandSet
  BY <1>1, RangeOfSeq
<1>3. ASSUME NEW c \in Callback, NewCallback(c) PROVE CommandsInv'
  <2> DEFINE m == Command("NEW_CALLBACK", c)
  <2>1. m \in CommandSet /\ m.cmd = "NEW_CALLBACK" /\ m.id = c
    BY DEF Command, CommandSet
  <2>2. inputQ' = Append(inputQ, m) /\ db[c] = Missing
        /\ UNCHANGED <<db, app, patching>>
    BY <1>3 DEF NewCallback, Put
  <2>3. \A n \in Range(inputQ) : n.id # c
    BY <1>3 DEF NewCallback, Range
  <2> HIDE DEF m
  <2>4. Range(inputQ') = Range(inputQ) \cup {m} /\ IsInjective(inputQ')
    BY <1>1, <2>1, <2>2, <2>3, QueueAppend DEF CommandsInv
  <2>5. patching \in Callback => Command("ACK_CALLBACK", patching) # m
    BY <2>1 DEF Command
  <2> QED BY <2>1, <2>2, <2>4, <2>5 DEF CommandsInv
<1>4. ASSUME NEW c \in Callback, PatchCallback(c) PROVE CommandsInv'
  <2>1. /\ db[c] \in Row /\ ~db[c].acked /\ patching' = c
        /\ db' = [db EXCEPT ![c] = [db[c] EXCEPT !.acked = TRUE]]
        /\ UNCHANGED <<app, inputQ>>
    BY <1>1, <1>4 DEF PatchCallback
  <2>2. db'[c] # Missing /\ db'[c].acked
    BY <1>1, <2>1, RowFields DEF Row
  <2>3. \A d \in Callback : d # c => db'[d] = db[d]
    BY <1>1, <2>1
  <2>4. Command("ACK_CALLBACK", c) \notin Range(inputQ)
    BY <2>1 DEF CommandsInv, Command
  <2>5. \A m \in Range(inputQ) : m.cmd # "EXIT_TASK" => m.id \in Callback
    BY <1>2 DEF CommandSet
  <2>6. \A m \in Range(inputQ) : m.cmd = "NEW_CALLBACK" => m.id # c
    BY <2>1 DEF CommandsInv
  <2> QED BY <2>1, <2>2, <2>3, <2>4, <2>5, <2>6 DEF CommandsInv
<1>5. CASE SendAck
  <2> DEFINE m == Command("ACK_CALLBACK", patching)
  <2>1. patching \in Callback /\ patching' = NoCallback
        /\ inputQ' = Append(inputQ, m) /\ UNCHANGED <<db, app>>
    BY <1>1, <1>5 DEF SendAck, Put
  <2>2. m \in CommandSet /\ m.cmd = "ACK_CALLBACK" /\ m.id = patching
    BY <2>1 DEF Command, CommandSet
  <2>3. m \notin Range(inputQ)
    BY <2>1 DEF CommandsInv
  <2> HIDE DEF m
  <2>4. Range(inputQ') = Range(inputQ) \cup {m} /\ IsInjective(inputQ')
    BY <1>1, <2>1, <2>2, <2>3, QueueAppend DEF CommandsInv
  <2> QED BY <2>1, <2>2, <2>4 DEF CommandsInv
<1>6. CASE CloseTask
  <2> DEFINE m == Command("EXIT_TASK", NoCallback)
  <2>1. patching = NoCallback /\ app = "up" /\ app' = "closing"
        /\ inputQ' = Append(inputQ, m) /\ UNCHANGED <<db, patching>>
    BY <1>6 DEF CloseTask, Put
  <2>2. m \in CommandSet /\ m.cmd = "EXIT_TASK"
    BY DEF Command, CommandSet
  <2>3. m \notin Range(inputQ)
    BY <2>1, <2>2 DEF CommandsInv
  <2> HIDE DEF m
  <2>4. Range(inputQ') = Range(inputQ) \cup {m} /\ IsInjective(inputQ')
    BY <1>1, <2>2, <2>1, <2>3, QueueAppend DEF CommandsInv
  <2> QED BY <2>1, <2>2, <2>4 DEF CommandsInv
<1>7. CASE InsertRow
  <2> DEFINE m == Head(inputQ)
  <2>1. /\ m \in Range(inputQ) /\ m.cmd = "NEW_CALLBACK" /\ did' = m.id
        /\ did' \in Callback /\ inputQ' = Tail(inputQ) /\ inputQ # << >>
        /\ m = Command("NEW_CALLBACK", did')
        /\ db' = [db EXCEPT ![did'] = NewRow]
        /\ UNCHANGED <<app, patching>>
    BY <1>2, <1>7, CommandTaken DEF InsertRow, GetCommand, TypeInv, Command, CommandSet
  <2>2. /\ Range(inputQ') \subseteq Range(inputQ) /\ IsInjective(inputQ')
        /\ m \notin Range(inputQ')
    BY <1>1, <2>1, QueueTail DEF CommandsInv
  <2> HIDE DEF m
  <2>3. db[did'] = Missing
    BY <2>1 DEF CommandsInv
  <2>4. \A n \in Range(inputQ) : n.cmd # "EXIT_TASK" => n.id \in Callback
    BY <1>2 DEF CommandSet
  <2>5. \A n \in Range(inputQ') : n.cmd = "NEW_CALLBACK" => n.id # did'
    BY <1>2, <2>1, <2>2 DEF Command, CommandSet
  <2>6. \A n \in Range(inputQ') : n.cmd = "ACK_CALLBACK" => n.id # did'
    BY <2>2, <2>3 DEF CommandsInv
  <2>7. patching \in Callback => patching # did'
    BY <2>3 DEF CommandsInv
  <2>8. \A d \in Callback : d # did' => db'[d] = db[d]
    BY <1>1, <2>1
  <2> QED BY <2>1, <2>2, <2>4, <2>5, <2>6, <2>7, <2>8 DEF CommandsInv
<1>8. CASE SaveAck
  <2>1. /\ did \in Callback /\ db[did] \in Row
        /\ db' = [db EXCEPT ![did] = [db[did] EXCEPT !.acked = TRUE]]
        /\ UNCHANGED <<app, patching, inputQ>>
    BY <1>1, <1>8 DEF SaveAck, TypeInv, HandsOK
  <2>2. db'[did] # Missing /\ db'[did].acked
    BY <1>1, <2>1, RowFields DEF Row
  <2>3. \A d \in Callback : d # did => db'[d] = db[d]
    BY <1>1, <2>1
  <2>4. \A n \in Range(inputQ) : n.cmd # "EXIT_TASK" => n.id \in Callback
    BY <1>2 DEF CommandSet
  <2> QED BY <2>1, <2>2, <2>3, <2>4 DEF CommandsInv
<1>9. CASE SaveRecord
  <2>1. /\ uid \in Callback /\ urec \in Record /\ db[uid] \in Row
        /\ db' = [db EXCEPT ![uid] = SavedRow(db[uid], urec)]
        /\ UNCHANGED <<app, patching, inputQ>>
    BY <1>1, <1>9 DEF SaveRecord, TypeInv, HandsOK
  <2>2. SavedRow(db[uid], urec) # Missing
        /\ SavedRow(db[uid], urec).acked = db[uid].acked
    BY <2>1, SavedRowType DEF SavedRow, Row
  <2>3. RowsStay
    BY <1>1, <2>1, <2>2 DEF RowsStay
  <2> QED BY <2>1, <2>3, CommandsFrame
<1>10. CASE Tick
  <2>1. \A row \in Row : [row EXCEPT !.age = Older(row.age)].acked = row.acked
    BY DEF Row
  <2>2. RowsStay
    BY <1>1, <1>10, <2>1, OlderTypes DEF Tick, RowsStay
  <2> QED BY <1>10, <2>2, CommandsFrame DEF Tick
<1>11. CASE Restart
  <2>1. inputQ' = << >> /\ patching' = NoCallback
    BY <1>11 DEF Restart
  <2> QED BY <2>1, QueueEmpty DEF CommandsInv
<1>12. CASE DropRecord
  BY <1>12, CommandsTake, SameRowsStay DEF DropRecord
<1>13. CASE GetExitTask
  BY <1>13, CommandsTake, SameRowsStay DEF GetExitTask
<1>14. CASE UNCHANGED <<db, app, inputQ, patching>>
  BY <1>14, CommandsFrame, SameRowsStay
<1>15. ReadPending \/ AddPending \/ AddCallback \/ ClosePool \/ SetCloseFlag
         \/ JoinUpdate \/ TaskDies
       => UNCHANGED <<db, app, inputQ, patching>>
  BY DEF ReadPending, AddPending, AddCallback, ClosePool, SetCloseFlag, JoinUpdate,
         TaskDies
<1>16. UpdateStep /\ ~SaveRecord => UNCHANGED <<db, app, inputQ, patching>>
  BY DEF UpdateStep, UpdateFrame, CheckClose, TakeReady, NoneReady, LoadRequest,
         UpdateDies, BeginAddJob, RefuseJob, AddJob, JobQueueFull, GiveBack,
         NothingSent, DiscardSent, Requeue, GiveUp
<1>17. \A w \in Worker : WorkerStep(w) => UNCHANGED <<db, app, inputQ, patching>>
  BY DEF WorkerStep, StartPost, EndPost, EndWorker
<1>18. UNCHANGED vars => UNCHANGED <<db, app, inputQ, patching>>
  BY DEF vars
<1> QED
  BY <1>3, <1>4, <1>5, <1>6, <1>7, <1>8, <1>9, <1>10, <1>11, <1>12, <1>13, <1>14,
     <1>15, <1>16, <1>17, <1>18 DEF Next, FlaskStep, DispatchStep

-----------------------------------------------------------------------------
(* An id is in one place at a time *)

Somewhere(c) == Queued(c) \/ InHand(c) \/ Pending(c) \/ Sending(c) \/ Sent(c)

(* The inductive invariant: what is on its way round has a row, so that a  *)
(* callback that gets its row now is nowhere yet, and until the recovery   *)
(* has filled the table nothing is anywhere.                               *)
PlacesInv ==
  /\ OnePlace
  /\ \A c \in Callback : Somewhere(c) => db[c] # Missing
  /\ dpc = "new" => ~Somewhere(did) /\ did \notin Live
  /\ dpc \in {"recover", "reload"} => \A c \in Callback : ~Somewhere(c) /\ c \notin Live
  /\ dpc # "reload" => recovered = {}

(* OnePlace, queue by queue. *)
LEMMA OnePlaceParts ==
  OnePlace <=>
    /\ IsInjective(retryQ) /\ IsInjective(sentQ) /\ NoneTwiceBut(pendingQ, MsgExit)
    /\ \A w, x \in Worker : worker[w] = worker[x] /\ worker[w] \in Callback => w = x
    /\ \A c \in Callback :
         /\ Queued(c) => ~InHand(c) /\ ~Pending(c) /\ ~Sending(c) /\ ~Sent(c)
         /\ InHand(c) => ~Pending(c) /\ ~Sending(c) /\ ~Sent(c)
         /\ Pending(c) => ~Sending(c) /\ ~Sent(c)
         /\ Sending(c) => ~Sent(c)
BY DEF OnePlace, NoneTwiceBut

(* A step that only shortens the queues, or leaves them alone. *)
LEMMA FewerPlaces ==
  ASSUME OnePlace,
         IsInjective(retryQ'), IsInjective(sentQ'), NoneTwiceBut(pendingQ', MsgExit),
         Range(retryQ') \subseteq Range(retryQ), Range(sentQ') \subseteq Range(sentQ),
         Range(pendingQ') \subseteq Range(pendingQ),
         worker' = worker, \A c \in Callback : InHand(c)' => InHand(c)
  PROVE  OnePlace' /\ \A c \in Callback : Somewhere(c)' => Somewhere(c)
BY DEF OnePlace, NoneTwiceBut, Queued, Pending, Sending, Sent, Somewhere

LEMMA SamePlaces ==
  ASSUME OnePlace, UNCHANGED <<retryQ, sentQ, pendingQ, worker>>,
         \A c \in Callback : InHand(c)' => InHand(c)
  PROVE  OnePlace' /\ \A c \in Callback : Somewhere(c)' => Somewhere(c)
BY OnePlaceParts, FewerPlaces

(* The rest of the invariant after a step that takes no id anywhere new.   *)
LEMMA PlacesFrame ==
  ASSUME TypeInv, PlacesInv, OnePlace', RowsStay,
         \A c \in Callback : Somewhere(c)' => Somewhere(c),
         \A c \in Callback : c \in Live' => c \in Live,
         UNCHANGED <<dpc, did, recovered>>
  PROVE  PlacesInv'
BY DEF PlacesInv, RowsStay, TypeInv, HandsOK

(* Nothing happens to the places of the ids. *)
LEMMA PlacesIdle ==
  ASSUME TypeInv, PlacesInv, RowsStay,
         UNCHANGED <<retryQ, sentQ, pendingQ, worker>>,
         \A c \in Callback : InHand(c)' => InHand(c),
         \A c \in Callback : c \in Live' => c \in Live,
         UNCHANGED <<dpc, did, recovered>>
  PROVE  PlacesInv'
BY SamePlaces, PlacesFrame DEF PlacesInv

LEMMA FlaskPlaces == TypeInv /\ PlacesInv /\ FlaskStep => PlacesInv'
<1> SUFFICES ASSUME TypeInv, PlacesInv, FlaskStep PROVE PlacesInv'
  OBVIOUS
<1>1. /\ UNCHANGED <<retryQ, sentQ, pendingQ, worker, callbacks, uid, urec, dpc, did,
                     recovered>>
  BY DEF FlaskStep, NewCallback, PatchCallback, SendAck, CloseTask, managerVars,
         dispatchVars, updateVars, poolVars
<1>2. \A c \in Callback : db[c] = Missing <=> db'[c] = Missing
  <2>1. CASE db' = db
    BY <2>1
  <2>2. ASSUME NEW c \in Callback, PatchCallback(c)
        PROVE  \A d \in Callback : db[d] = Missing <=> db'[d] = Missing
    <3>1. db \in [Callback -> Row \cup {Missing}]
      BY DEF TypeInv, TypeOK
    <3>2. db[c] \in Row /\ db' = [db EXCEPT ![c] = [db[c] EXCEPT !.acked = TRUE]]
      BY <2>2, <3>1 DEF PatchCallback
    <3> QED BY <3>1, <3>2, RowFields
  <2> QED BY <2>1, <2>2 DEF FlaskStep, NewCallback, SendAck, CloseTask
<1>3. \A c \in Callback : (InHand(c)' <=> InHand(c)) /\ (c \in Live' <=> c \in Live)
  BY <1>1 DEF InHand, Live
<1>4. OnePlace' /\ \A c \in Callback : Somewhere(c)' => Somewhere(c)
  BY <1>1, <1>3, SamePlaces DEF PlacesInv
<1> QED BY <1>1, <1>2, <1>3, <1>4 DEF PlacesInv, TypeInv, HandsOK

LEMMA UpdatePlaces == TypeInv /\ PlacesInv /\ UpdateStep => PlacesInv'
<1> SUFFICES ASSUME TypeInv, PlacesInv, UpdateStep PROVE PlacesInv'
  OBVIOUS
<1>0. /\ retryQ \in Seq(Callback) /\ sentQ \in Seq(Callback)
      /\ pendingQ \in Seq(Callback \cup {MsgExit})
      /\ db \in [Callback -> Row \cup {Missing}] /\ uid \in Callback \cup {NoCallback}
      /\ adding["update"] = IF upc = "put" THEN uid ELSE NoCallback
      /\ upc \in {"load", "add", "put", "full"} => uid \in Callback /\ urec = Missing
      /\ upc \in {"check", "ready", "sent", "stopped"} => uid = NoCallback /\ urec = Missing
  BY DEF TypeInv, TypeOK, HandsOK, Pool!TypeOK
<1>a. /\ IsInjective(retryQ) /\ IsInjective(sentQ) /\ NoneTwiceBut(pendingQ, MsgExit)
  BY OnePlaceParts DEF PlacesInv
<1> USE DEF UpdateFrame, managerVars, dispatchVars, updateVars, poolVars
<1>1. CASE \/ CheckClose \/ NoneReady \/ LoadRequest \/ UpdateDies \/ BeginAddJob
           \/ RefuseJob \/ JobQueueFull \/ NothingSent
  <2>1. UNCHANGED <<db, retryQ, sentQ, pendingQ, worker, callbacks, uid, urec, dpc, did,
                    recovered>>
    BY <1>1 DEF CheckClose, NoneReady, LoadRequest, UpdateDies, BeginAddJob, RefuseJob,
                JobQueueFull, NothingSent, Pool!CheckFlag, Pool!PutFull
  <2>2. \A c \in Callback : (InHand(c)' => InHand(c)) /\ (c \in Live' => c \in Live)
    BY <2>1 DEF InHand, Live
  <2> QED BY <2>1, <2>2, PlacesIdle, SameRowsStay
<1>2. CASE TakeReady
  <2>0. PICK c \in Callback : retryQ # << >> /\ c = Head(retryQ)
    BY <1>0, <1>2, QueueTail DEF TakeReady, HeadIsDue
  <2>1. /\ uid' = c /\ urec' = Missing /\ retryQ' = Tail(retryQ)
        /\ retryQ # << >>
        /\ UNCHANGED <<db, sentQ, pendingQ, worker, callbacks, dpc, did, recovered>>
    BY <1>0, <1>2, <2>0 DEF TakeReady, HeadIsDue, Popped
  <2>2. /\ c \in Callback /\ Queued(c) /\ ~Queued(c)' /\ IsInjective(retryQ')
        /\ Range(retryQ') \subseteq Range(retryQ)
    BY <1>0, <1>a, <2>0, <2>1, QueueTail DEF Queued
  <2>3. \A d \in Callback : InHand(d)' <=> d = c
    BY <2>1 DEF InHand
  <2>4. \A d \in Callback : /\ Queued(d)' => Queued(d)
                            /\ Pending(d)' <=> Pending(d)
                            /\ Sending(d)' <=> Sending(d)
                            /\ Sent(d)' <=> Sent(d)
    BY <2>1, <2>2 DEF Queued, Pending, Sending, Sent
  <2>5. OnePlace'
    <3>1. \A d \in Callback :
            /\ Queued(d)' => ~InHand(d)' /\ ~Pending(d)' /\ ~Sending(d)' /\ ~Sent(d)'
            /\ InHand(d)' => ~Pending(d)' /\ ~Sending(d)' /\ ~Sent(d)'
            /\ Pending(d)' => ~Sending(d)' /\ ~Sent(d)'
            /\ Sending(d)' => ~Sent(d)'
      BY <2>2, <2>3, <2>4 DEF PlacesInv, OnePlace
    <3> QED BY <3>1, <2>1, <2>2 DEF PlacesInv, OnePlace
  <2>6. \A d \in Callback : Somewhere(d)' => Somewhere(d)
    BY <2>2, <2>3, <2>4 DEF Somewhere
  <2> QED BY <2>1, <2>5, <2>6, PlacesFrame, SameRowsStay DEF Live
<1>3. CASE AddJob
  <2>1. /\ uid \in Callback /\ InHand(uid) /\ uid' = NoCallback
        /\ pendingQ' = Append(pendingQ, uid)
        /\ UNCHANGED <<db, retryQ, sentQ, worker, callbacks, urec, dpc, did, recovered>>
    BY <1>0, <1>3 DEF AddJob, Pool!PutJob, InHand
  <2>2. ~Pending(uid) /\ ~Queued(uid) /\ ~Sending(uid) /\ ~Sent(uid)
    BY <2>1 DEF PlacesInv, OnePlace
  <2>3. /\ Range(pendingQ') = Range(pendingQ) \cup {uid}
        /\ NoneTwiceBut(pendingQ', MsgExit)
    BY <1>0, <1>a, <2>1, <2>2, QueueAppend DEF Pending
  <2>4. \A d \in Callback : /\ ~InHand(d)'
                            /\ Pending(d)' <=> Pending(d) \/ d = uid
                            /\ Queued(d)' <=> Queued(d)
                            /\ Sending(d)' <=> Sending(d)
                            /\ Sent(d)' <=> Sent(d)
    BY <2>1, <2>3 DEF InHand, Pending, Queued, Sending, Sent
  <2>5. \A d \in Callback :
          /\ Queued(d)' => ~InHand(d)' /\ ~Pending(d)' /\ ~Sending(d)' /\ ~Sent(d)'
          /\ InHand(d)' => ~Pending(d)' /\ ~Sending(d)' /\ ~Sent(d)'
          /\ Pending(d)' => ~Sending(d)' /\ ~Sent(d)'
          /\ Sending(d)' => ~Sent(d)'
    BY <2>2, <2>4 DEF PlacesInv, OnePlace
  <2>6. OnePlace'
    BY <2>1, <2>3, <2>5 DEF PlacesInv, OnePlace, NoneTwiceBut
  <2>7. \A d \in Callback : Somewhere(d)' => Somewhere(d)
    BY <2>1, <2>4 DEF Somewhere
  <2> QED BY <2>1, <2>6, <2>7, PlacesFrame, SameRowsStay DEF Live
<1>4. CASE GiveBack
  <2>1. /\ uid \in Callback /\ InHand(uid) /\ uid' = NoCallback
        /\ retryQ' = <<uid>> \o retryQ
        /\ UNCHANGED <<db, pendingQ, sentQ, worker, callbacks, urec, dpc, did, recovered>>
    BY <1>0, <1>4 DEF GiveBack, GivenBack, InHand
  <2>2. ~Pending(uid) /\ ~Queued(uid) /\ ~Sending(uid) /\ ~Sent(uid)
    BY <2>1 DEF PlacesInv, OnePlace
  <2>3. Range(retryQ') = {uid} \cup Range(retryQ) /\ IsInjective(retryQ')
    BY <1>0, <1>a, <2>1, <2>2, QueuePush DEF Queued
  <2>4. \A d \in Callback : /\ ~InHand(d)'
                            /\ Queued(d)' <=> Queued(d) \/ d = uid
                            /\ Pending(d)' <=> Pending(d)
                            /\ Sending(d)' <=> Sending(d)
                            /\ Sent(d)' <=> Sent(d)
    BY <2>1, <2>3 DEF InHand, Pending, Queued, Sending, Sent
  <2>5. \A d \in Callback :
          /\ Queued(d)' => ~InHand(d)' /\ ~Pending(d)' /\ ~Sending(d)' /\ ~Sent(d)'
          /\ InHand(d)' => ~Pending(d)' /\ ~Sending(d)' /\ ~Sent(d)'
          /\ Pending(d)' => ~Sending(d)' /\ ~Sent(d)'
          /\ Sending(d)' => ~Sent(d)'
    BY <2>2, <2>4 DEF PlacesInv, OnePlace
  <2>6. OnePlace'
    BY <2>1, <2>3, <2>5 DEF PlacesInv, OnePlace
  <2>7. \A d \in Callback : Somewhere(d)' => Somewhere(d)
    BY <2>1, <2>4 DEF Somewhere
  <2> QED BY <2>1, <2>6, <2>7, PlacesFrame, SameRowsStay DEF Live
<1>5. CASE DiscardSent
  <2>1. /\ sentQ # << >> /\ sentQ' = Tail(sentQ)
        /\ UNCHANGED <<db, retryQ, pendingQ, worker, callbacks, uid, urec, dpc, did,
                       recovered>>
    BY <1>5 DEF DiscardSent
  <2>2. Range(sentQ') \subseteq Range(sentQ) /\ IsInjective(sentQ')
    BY <1>0, <1>a, <2>1, QueueTail
  <2>3. \A c \in Callback : (InHand(c)' => InHand(c)) /\ (c \in Live' => c \in Live)
    BY <2>1 DEF InHand, Live
  <2>4. OnePlace' /\ \A c \in Callback : Somewhere(c)' => Somewhere(c)
    BY <1>a, <2>1, <2>2, <2>3, FewerPlaces DEF PlacesInv
  <2> QED BY <2>1, <2>3, <2>4, PlacesFrame, SameRowsStay
<1>6. CASE Requeue
  <2>0. PICK c \in Callback : sentQ # << >> /\ c = Head(sentQ)
    BY <1>0, <1>6, QueueTail DEF Requeue
  <2>1. /\ sentQ # << >> /\ sentQ' = Tail(sentQ) /\ uid' = c /\ c \in Live
        /\ retryQ' = Append(retryQ, c)
        /\ UNCHANGED <<db, pendingQ, worker, dpc, did, recovered>>
    BY <1>6, <2>0 DEF Requeue, AtBack
  <2>2. /\ c \in Callback /\ Sent(c) /\ ~Sent(c)' /\ IsInjective(sentQ')
        /\ Range(sentQ') \subseteq Range(sentQ)
    BY <1>0, <1>a, <2>0, <2>1, QueueTail DEF Sent
  <2>3. ~Queued(c) /\ ~InHand(c) /\ ~Pending(c) /\ ~Sending(c)
    BY <2>2 DEF PlacesInv, OnePlace
  <2>4. Range(retryQ') = Range(retryQ) \cup {c} /\ IsInjective(retryQ')
    BY <1>0, <1>a, <2>1, <2>2, <2>3, QueueAppend DEF Queued
  <2>5. urec' # Missing
    <3>1. callbacks[c] \in Record /\ HasRetries(callbacks[c])
      BY <1>6, <2>1, <2>2 DEF Requeue, Live, TypeInv, TypeOK
    <3> QED BY <1>6, <2>1, <3>1, AfterTryType DEF Requeue
  <2>6. \A d \in Callback : d \in Live' => d \in Live
    BY <1>6, <2>1 DEF Requeue, Live, TypeInv, TypeOK
  <2>7. \A d \in Callback : /\ ~InHand(d)'
                            /\ Queued(d)' <=> Queued(d) \/ d = c
                            /\ Pending(d)' <=> Pending(d)
                            /\ Sending(d)' <=> Sending(d)
                            /\ Sent(d)' => Sent(d) /\ d # c
    BY <2>1, <2>2, <2>4, <2>5 DEF InHand, Pending, Queued, Sending, Sent
  <2>8. \A d \in Callback :
          /\ Queued(d)' => ~InHand(d)' /\ ~Pending(d)' /\ ~Sending(d)' /\ ~Sent(d)'
          /\ InHand(d)' => ~Pending(d)' /\ ~Sending(d)' /\ ~Sent(d)'
          /\ Pending(d)' => ~Sending(d)' /\ ~Sent(d)'
          /\ Sending(d)' => ~Sent(d)'
    BY <2>3, <2>7 DEF PlacesInv, OnePlace
  <2>9. OnePlace'
    BY <2>1, <2>2, <2>4, <2>8 DEF PlacesInv, OnePlace
  <2>10. \A d \in Callback : Somewhere(d)' => Somewhere(d)
    BY <2>2, <2>7 DEF Somewhere
  <2> QED BY <2>1, <2>6, <2>9, <2>10, PlacesFrame, SameRowsStay
<1>7. CASE GiveUp
  <2>1. /\ sentQ # << >> /\ sentQ' = Tail(sentQ) /\ uid' = Head(sentQ)
        /\ uid' \in Callback /\ uid' \in Live
        /\ urec' = callbacks[uid']
        /\ callbacks' = [callbacks EXCEPT ![uid'] = Missing]
        /\ UNCHANGED <<db, retryQ, pendingQ, worker, dpc, did, recovered>>
    BY <1>0, <1>7, QueueTail DEF GiveUp
  <2>2. Range(sentQ') \subseteq Range(sentQ) /\ IsInjective(sentQ')
    BY <1>0, <1>a, <2>1, QueueTail
  <2>3. \A c \in Callback : (InHand(c)' => InHand(c)) /\ (c \in Live' => c \in Live)
    BY <2>1 DEF InHand, Live, TypeInv, TypeOK
  <2>4. OnePlace' /\ \A c \in Callback : Somewhere(c)' => Somewhere(c)
    BY <1>a, <2>1, <2>2, <2>3, FewerPlaces DEF PlacesInv
  <2> QED BY <2>1, <2>3, <2>4, PlacesFrame, SameRowsStay
<1>8. CASE SaveRecord
  <2>1. /\ uid \in Callback /\ urec \in Record /\ db[uid] \in Row
        /\ db' = [db EXCEPT ![uid] = SavedRow(db[uid], urec)]
        /\ uid' = NoCallback
        /\ UNCHANGED <<retryQ, sentQ, pendingQ, worker, callbacks, dpc, did, recovered>>
    BY <1>0, <1>8 DEF SaveRecord, TypeInv, HandsOK
  <2>2. SavedRow(db[uid], urec) # Missing
        /\ SavedRow(db[uid], urec).acked = db[uid].acked
    BY <2>1, SavedRowType DEF SavedRow, Row
  <2>3. RowsStay
    BY <1>0, <2>1, <2>2 DEF RowsStay
  <2>4. \A c \in Callback : (InHand(c)' => InHand(c)) /\ (c \in Live' => c \in Live)
    BY <2>1 DEF InHand, Live
  <2> QED BY <2>1, <2>3, <2>4, PlacesIdle
<1> QED BY <1>1, <1>2, <1>3, <1>4, <1>5, <1>6, <1>7, <1>8 DEF UpdateStep

LEMMA DispatchPlaces ==
  TypeInv /\ CommandsInv /\ PlacesInv /\ DispatchStep => PlacesInv'
<1> SUFFICES ASSUME TypeInv, CommandsInv, PlacesInv, DispatchStep PROVE PlacesInv'
  OBVIOUS
<1>0. /\ retryQ \in Seq(Callback) /\ sentQ \in Seq(Callback)
      /\ pendingQ \in Seq(Callback \cup {MsgExit}) /\ recovered \subseteq Callback
      /\ db \in [Callback -> Row \cup {Missing}]
      /\ \A c \in Callback : c \in Live \/ c \in recovered \/ did = c => db[c] # Missing
  BY DEF TypeInv, TypeOK, HandsOK, Pool!TypeOK
<1>a. /\ IsInjective(retryQ) /\ IsInjective(sentQ) /\ NoneTwiceBut(pendingQ, MsgExit)
  BY OnePlaceParts DEF PlacesInv
<1> USE DEF managerVars, dispatchVars, updateVars, poolVars, flaskVars
<1>1. CASE ReadPending
  <2>1. /\ UNCHANGED <<db, retryQ, sentQ, pendingQ, worker, callbacks, uid, urec, did>>
        /\ dpc = "recover" /\ dpc' = "reload"
    BY <1>1 DEF ReadPending
  <2>2. \A c \in Callback : (InHand(c)' => InHand(c)) /\ (c \in Live' => c \in Live)
    BY <2>1 DEF InHand, Live
  <2>3. OnePlace' /\ \A c \in Callback : Somewhere(c)' => Somewhere(c)
    BY <2>1, <2>2, SamePlaces DEF PlacesInv
  <2> QED BY <2>1, <2>2, <2>3 DEF PlacesInv
<1>2. CASE AddPending
  <2>1. PICK q \in OldestFirst(recovered) : retryQ' = retryQ \o q
    BY <1>2 DEF AddPending
  <2>2. q \in Seq(Callback) /\ Range(q) = recovered /\ IsInjective(q)
    BY <1>0, OldestFirstType
  <2>3. /\ \A c \in Callback : ~Somewhere(c)
        /\ UNCHANGED <<db, sentQ, pendingQ, worker, uid, urec, did>>
        /\ dpc' = "idle" /\ recovered' = {}
    BY <1>2 DEF AddPending, PlacesInv
  <2>4. Range(retryQ) = {}
    BY <1>0, <2>3, RangeOfSeq DEF Somewhere, Queued
  <2>5. Range(retryQ') = recovered /\ IsInjective(retryQ')
    <3>1. /\ Range(retryQ \o q) = Range(retryQ) \cup Range(q)
          /\ IsInjective(retryQ) /\ IsInjective(q) /\ Range(retryQ) \cap Range(q) = {}
               => IsInjective(retryQ \o q)
      BY <1>0, <2>2, QueueConcat
    <3> QED BY <1>a, <2>1, <2>2, <2>4, <3>1
  <2>6. \A c \in Callback : /\ Queued(c)' <=> c \in recovered
                            /\ ~InHand(c)' /\ ~Pending(c)' /\ ~Sending(c)' /\ ~Sent(c)'
    BY <2>3, <2>5 DEF Somewhere, Queued, InHand, Pending, Sending, Sent
  <2>7. OnePlace'
    BY <2>3, <2>5, <2>6 DEF PlacesInv, OnePlace
  <2> QED BY <1>0, <2>3, <2>6, <2>7 DEF PlacesInv, Somewhere
<1>3. CASE InsertRow
  <2>1. /\ did' = Head(inputQ).id /\ did' \in Callback
        /\ Head(inputQ) \in Range(inputQ) /\ Head(inputQ).cmd = "NEW_CALLBACK"
        /\ db' = [db EXCEPT ![did'] = NewRow] /\ dpc = "idle" /\ dpc' = "new"
        /\ UNCHANGED <<retryQ, sentQ, pendingQ, worker, callbacks, uid, urec, recovered>>
    BY <1>3, CommandTaken DEF InsertRow, GetCommand, TypeInv
  <2>2. db[did'] = Missing
    BY <2>1 DEF CommandsInv
  <2>3. \A c \in Callback : (InHand(c)' => InHand(c)) /\ (c \in Live' => c \in Live)
    BY <2>1 DEF InHand, Live
  <2>4. OnePlace' /\ \A c \in Callback : Somewhere(c)' => Somewhere(c)
    BY <2>1, <2>3, SamePlaces DEF PlacesInv
  <2>5. ~Somewhere(did)' /\ did' \notin Live'
    <3>1. \A c \in Callback : db[c] = Missing => ~Somewhere(c)' /\ c \notin Live'
      BY <1>0, <2>3, <2>4 DEF PlacesInv
    <3>2. PICK c \in Callback : c = did'
      BY <2>1
    <3>3. ~Somewhere(c)' /\ c \notin Live'
      BY <2>2, <3>1, <3>2
    <3> QED BY <3>2, <3>3 DEF Somewhere, Queued, InHand, Pending, Sending, Sent
  <2>6. \A c \in Callback : db[c] # Missing => db'[c] # Missing
    BY <1>0, <2>1, NewRowType
  <2> QED BY <2>1, <2>4, <2>5, <2>6 DEF PlacesInv
<1>4. CASE AddCallback
  <2>1. /\ did \in Callback /\ dpc = "new" /\ dpc' = "idle" /\ did' = NoCallback
        /\ retryQ' = <<did>> \o retryQ
        /\ UNCHANGED <<db, sentQ, pendingQ, worker, uid, urec, recovered>>
    BY <1>4 DEF AddCallback, TypeInv, HandsOK
  <2>2. ~Queued(did) /\ ~InHand(did) /\ ~Pending(did) /\ ~Sending(did) /\ ~Sent(did)
    BY <2>1 DEF PlacesInv, Somewhere
  <2>3. Range(retryQ') = {did} \cup Range(retryQ) /\ IsInjective(retryQ')
    BY <1>0, <1>a, <2>1, <2>2, QueuePush DEF Queued
  <2>4. \A d \in Callback : /\ Queued(d)' <=> Queued(d) \/ d = did
                            /\ InHand(d)' <=> InHand(d)
                            /\ Pending(d)' <=> Pending(d)
                            /\ Sending(d)' <=> Sending(d)
                            /\ Sent(d)' <=> Sent(d)
    BY <2>1, <2>3 DEF InHand, Pending, Queued, Sending, Sent
  <2>5. \A d \in Callback :
          /\ Queued(d)' => ~InHand(d)' /\ ~Pending(d)' /\ ~Sending(d)' /\ ~Sent(d)'
          /\ InHand(d)' => ~Pending(d)' /\ ~Sending(d)' /\ ~Sent(d)'
          /\ Pending(d)' => ~Sending(d)' /\ ~Sent(d)'
          /\ Sending(d)' => ~Sent(d)'
    BY <2>2, <2>4 DEF PlacesInv, OnePlace
  <2>6. OnePlace'
    BY <2>1, <2>3, <2>5 DEF PlacesInv, OnePlace
  <2>7. \A d \in Callback : Somewhere(d)' => db'[d] # Missing
    BY <1>0, <2>1, <2>4 DEF PlacesInv, Somewhere
  <2> QED BY <2>1, <2>6, <2>7 DEF PlacesInv
<1>5. CASE DropRecord \/ SaveAck \/ GetExitTask \/ SetCloseFlag \/ JoinUpdate
  <2>1. /\ UNCHANGED <<retryQ, sentQ, pendingQ, worker, uid, urec, recovered>>
        /\ dpc \notin {"recover", "reload", "new"}
        /\ dpc' \notin {"recover", "reload", "new"}
    BY <1>5 DEF DropRecord, SaveAck, GetExitTask, SetCloseFlag, JoinUpdate, GetCommand,
                Pool!BeginClose
  <2>2. \A c \in Callback : db[c] # Missing => db'[c] # Missing
    <3>1. CASE SaveAck
      <4>1. /\ did \in Callback /\ db[did] \in Row
            /\ db' = [db EXCEPT ![did] = [db[did] EXCEPT !.acked = TRUE]]
        BY <1>0, <3>1 DEF SaveAck, TypeInv, HandsOK
      <4> QED BY <1>0, <4>1, RowFields
    <3>2. CASE db' = db
      BY <3>2
    <3> QED
      BY <1>5, <3>1, <3>2 DEF DropRecord, GetExitTask, SetCloseFlag, JoinUpdate
  <2>3. OnePlace' /\ \A c \in Callback : Somewhere(c)' => Somewhere(c)
    BY <2>1, SamePlaces DEF PlacesInv, InHand
  <2> QED BY <2>1, <2>2, <2>3 DEF PlacesInv
<1>6. CASE ClosePool
  <2>1. UNCHANGED <<db, retryQ, sentQ, callbacks, worker, uid, urec, dpc, did, recovered>>
    BY <1>6 DEF ClosePool, Pool!CloserStep, Pool!PurgeOne, Pool!PurgeDone, Pool!PutExit,
                Pool!ExitsDone, Pool!Join
  <2>2. \/ pendingQ' = pendingQ
        \/ pendingQ # << >> /\ pendingQ' = Tail(pendingQ)
        \/ pendingQ' = Append(pendingQ, MsgExit)
    BY <1>6 DEF ClosePool, Pool!CloserStep, Pool!PurgeOne, Pool!PurgeDone, Pool!PutExit,
                Pool!ExitsDone, Pool!Join, Pool!WithExit
  <2>3. /\ NoneTwiceBut(pendingQ', MsgExit)
        /\ Range(pendingQ') \subseteq Range(pendingQ) \cup {MsgExit}
    <3>1. CASE pendingQ' = pendingQ
      BY <1>a, <3>1
    <3>2. CASE pendingQ # << >> /\ pendingQ' = Tail(pendingQ)
      BY <1>0, <1>a, <3>2, QueueTail
    <3>3. CASE pendingQ' = Append(pendingQ, MsgExit)
      BY <1>0, <1>a, <3>3, QueueAppend
    <3> QED BY <2>2, <3>1, <3>2, <3>3
  <2>4. \A c \in Callback : /\ Queued(c)' <=> Queued(c)
                            /\ InHand(c)' <=> InHand(c)
                            /\ Pending(c)' => Pending(c)
                            /\ Sending(c)' <=> Sending(c)
                            /\ Sent(c)' <=> Sent(c)
    BY <2>1, <2>3 DEF InHand, Pending, Queued, Sending, Sent
  <2>5. OnePlace'
    BY <2>1, <2>3, <2>4 DEF PlacesInv, OnePlace, NoneTwiceBut
  <2>6. \A c \in Callback : Somewhere(c)' => Somewhere(c)
    BY <2>4 DEF Somewhere
  <2> QED BY <2>1, <2>5, <2>6, PlacesFrame, SameRowsStay DEF Live
<1> QED BY <1>1, <1>2, <1>3, <1>4, <1>5, <1>6 DEF DispatchStep

LEMMA WorkerPlaces ==
  ASSUME TypeInv, PlacesInv, NEW w \in Worker, WorkerStep(w) PROVE PlacesInv'
<1>0. /\ retryQ \in Seq(Callback) /\ sentQ \in Seq(Callback)
      /\ pendingQ \in Seq(Callback \cup {MsgExit})
      /\ worker \in [Worker -> Callback \cup {Idle, Gone}]
  BY DEF TypeInv, TypeOK, Pool!TypeOK
<1>a. /\ IsInjective(retryQ) /\ IsInjective(sentQ) /\ NoneTwiceBut(pendingQ, MsgExit)
  BY OnePlaceParts DEF PlacesInv
<1> USE DEF managerVars, dispatchVars, updateVars
<1>1. CASE StartPost(w)
  <2>0. PICK c \in Callback : pendingQ # << >> /\ c = Head(pendingQ)
    BY <1>0, <1>1, QueueTail DEF StartPost, Pool!GetJob, Pool!IsExit
  <2>1. /\ worker[w] = Idle /\ worker' = [worker EXCEPT ![w] = c]
        /\ pendingQ' = Tail(pendingQ)
        /\ UNCHANGED <<db, retryQ, sentQ, callbacks, uid, urec, dpc, did, recovered>>
    BY <1>1, <2>0 DEF StartPost, Pool!GetJob, Pool!Taken
  <2>2. /\ Pending(c) /\ ~Pending(c)' /\ NoneTwiceBut(pendingQ', MsgExit)
        /\ Range(pendingQ') \subseteq Range(pendingQ)
    BY <1>0, <1>a, <2>0, <2>1, QueueTail DEF Pending
  <2>3. ~Queued(c) /\ ~InHand(c) /\ ~Sending(c) /\ ~Sent(c)
    BY <2>2 DEF PlacesInv, OnePlace
  <2>4. \A d \in Callback : /\ Sending(d)' <=> Sending(d) \/ d = c
                            /\ Queued(d)' <=> Queued(d)
                            /\ InHand(d)' <=> InHand(d)
                            /\ Pending(d)' => Pending(d) /\ d # c
                            /\ Sent(d)' <=> Sent(d)
    <3>1. \A d \in Callback : Sending(d)' <=> Sending(d) \/ d = c
      BY <1>0, <2>1 DEF Sending
    <3> QED BY <2>1, <2>2, <3>1 DEF InHand, Pending, Queued, Sent
  <2>5. \A d \in Callback :
          /\ Queued(d)' => ~InHand(d)' /\ ~Pending(d)' /\ ~Sending(d)' /\ ~Sent(d)'
          /\ InHand(d)' => ~Pending(d)' /\ ~Sending(d)' /\ ~Sent(d)'
          /\ Pending(d)' => ~Sending(d)' /\ ~Sent(d)'
          /\ Sending(d)' => ~Sent(d)'
    BY <2>2, <2>3, <2>4 DEF PlacesInv, OnePlace
  <2>6. \A x, y \in Worker : worker'[x] = worker'[y] /\ worker'[x] \in Callback => x = y
    <3>1. \A x \in Worker : worker[x] # c
      BY <2>3 DEF Sending
    <3>2. \A x, y \in Worker : worker[x] = worker[y] /\ worker[x] \in Callback => x = y
      BY DEF PlacesInv, OnePlace
    <3> QED BY <1>0, <2>1, <3>1, <3>2
  <2>7. OnePlace'
    BY <2>1, <2>2, <2>5, <2>6 DEF PlacesInv, OnePlace, NoneTwiceBut
  <2>8. \A d \in Callback : Somewhere(d)' => Somewhere(d)
    BY <2>2, <2>4 DEF Somewhere
  <2> QED BY <2>1, <2>7, <2>8, PlacesFrame, SameRowsStay DEF Live
<1>2. CASE EndPost(w)
  <2>0. PICK c \in Callback : c = worker[w]
    BY <1>2 DEF EndPost, Pool!FinishJob
  <2>1. /\ worker' = [worker EXCEPT ![w] = Idle] /\ sentQ' = Append(sentQ, c)
        /\ UNCHANGED <<db, retryQ, pendingQ, callbacks, uid, urec, dpc, did, recovered>>
    BY <1>2, <2>0 DEF EndPost, Pool!FinishJob
  <2>2. Sending(c) /\ ~Queued(c) /\ ~InHand(c) /\ ~Pending(c) /\ ~Sent(c)
    BY <2>0 DEF PlacesInv, OnePlace, Sending
  <2>3. Range(sentQ') = Range(sentQ) \cup {c} /\ IsInjective(sentQ')
    BY <1>0, <1>a, <2>1, <2>2, QueueAppend DEF Sent
  <2>4. \A x, y \in Worker : worker[x] = worker[y] /\ worker[x] \in Callback => x = y
    BY DEF PlacesInv, OnePlace
  <2>5. \A d \in Callback : /\ Sending(d)' => Sending(d) /\ d # c
                            /\ Queued(d)' <=> Queued(d)
                            /\ InHand(d)' <=> InHand(d)
                            /\ Pending(d)' <=> Pending(d)
                            /\ Sent(d)' <=> Sent(d) \/ d = c
    <3>1. \A d \in Callback : Sending(d)' => Sending(d) /\ d # c
      BY <1>0, <2>0, <2>1, <2>4 DEF Sending
    <3> QED BY <2>1, <2>3, <3>1 DEF InHand, Pending, Queued, Sent
  <2>6. \A d \in Callback :
          /\ Queued(d)' => ~InHand(d)' /\ ~Pending(d)' /\ ~Sending(d)' /\ ~Sent(d)'
          /\ InHand(d)' => ~Pending(d)' /\ ~Sending(d)' /\ ~Sent(d)'
          /\ Pending(d)' => ~Sending(d)' /\ ~Sent(d)'
          /\ Sending(d)' => ~Sent(d)'
    BY <2>2, <2>5 DEF PlacesInv, OnePlace
  <2>7. \A x, y \in Worker : worker'[x] = worker'[y] /\ worker'[x] \in Callback => x = y
    BY <1>0, <2>1, <2>4
  <2>8. OnePlace'
    BY <2>1, <2>3, <2>6, <2>7 DEF PlacesInv, OnePlace
  <2>9. \A d \in Callback : Somewhere(d)' => Somewhere(d)
    BY <2>2, <2>5 DEF Somewhere
  <2> QED BY <2>1, <2>8, <2>9, PlacesFrame, SameRowsStay DEF Live
<1>3. CASE EndWorker(w)
  <2>1. /\ worker' = [worker EXCEPT ![w] = Gone] /\ worker[w] = Idle
        /\ pendingQ # << >> /\ pendingQ' = Tail(pendingQ)
        /\ UNCHANGED <<db, retryQ, sentQ, callbacks, uid, urec, dpc, did, recovered>>
    BY <1>3 DEF EndWorker, Pool!GetExit, Pool!Taken
  <2>2. /\ NoneTwiceBut(pendingQ', MsgExit) /\ Range(pendingQ') \subseteq Range(pendingQ)
    BY <1>0, <1>a, <2>1, QueueTail
  <2>3. \A x, y \in Worker : worker[x] = worker[y] /\ worker[x] \in Callback => x = y
    BY DEF PlacesInv, OnePlace
  <2>4. \A d \in Callback : /\ Sending(d)' => Sending(d)
                            /\ Queued(d)' <=> Queued(d)
                            /\ InHand(d)' <=> InHand(d)
                            /\ Pending(d)' => Pending(d)
                            /\ Sent(d)' <=> Sent(d)
    <3>1. \A d \in Callback : Sending(d)' => Sending(d)
      BY <1>0, <2>1 DEF Sending
    <3> QED BY <2>1, <2>2, <3>1 DEF InHand, Pending, Queued, Sent
  <2>5. \A x, y \in Worker : worker'[x] = worker'[y] /\ worker'[x] \in Callback => x = y
    BY <1>0, <2>1, <2>3
  <2>6. OnePlace'
    BY <2>1, <2>2, <2>4, <2>5 DEF PlacesInv, OnePlace, NoneTwiceBut
  <2>7. \A d \in Callback : Somewhere(d)' => Somewhere(d)
    BY <2>4 DEF Somewhere
  <2> QED BY <2>1, <2>6, <2>7, PlacesFrame, SameRowsStay DEF Live
<1> QED BY <1>1, <1>2, <1>3 DEF WorkerStep

LEMMA TickPlaces == TypeInv /\ PlacesInv /\ Tick => PlacesInv'
<1> SUFFICES ASSUME TypeInv, PlacesInv, Tick PROVE PlacesInv'
  OBVIOUS
<1>1. UNCHANGED <<retryQ, sentQ, pendingQ, worker, uid, dpc, did, recovered>>
  BY DEF Tick, dispatchVars, poolVars
<1>2. db \in [Callback -> Row \cup {Missing}] /\ urec \in Record \cup {Missing}
      /\ callbacks \in [Callback -> Record \cup {Missing}]
  BY DEF TypeInv, TypeOK
<1>3. RowsStay
  <2>1. \A row \in Row : [row EXCEPT !.age = Older(row.age)].acked = row.acked
    BY DEF Row
  <2> QED BY <1>2, <2>1, OlderTypes DEF Tick, RowsStay
<1>4. \A c \in Callback : InHand(c)' => InHand(c)
  BY <1>1, <1>2, OlderTypes DEF Tick, InHand
<1>5. \A c \in Callback : c \in Live' => c \in Live
  BY <1>2, OlderTypes DEF Tick, Live
<1> QED BY <1>1, <1>3, <1>4, <1>5, PlacesIdle

LEMMA ForgetPlaces ==
  ASSUME ForgetMemory, dpc' \in {"recover", "dead"} PROVE PlacesInv'
<1>1. /\ retryQ' = << >> /\ sentQ' = << >> /\ pendingQ' = << >> /\ uid' = NoCallback
      /\ worker' = IdleWorkers /\ callbacks' = NoRecords /\ recovered' = {}
  BY DEF ForgetMemory
<1>2. \A c \in Callback : ~Queued(c)' /\ ~InHand(c)' /\ ~Pending(c)' /\ ~Sending(c)'
                          /\ ~Sent(c)' /\ c \notin Live'
  BY <1>1, QueueEmpty
     DEF Queued, InHand, Pending, Sending, Sent, Live, IdleWorkers, NoRecords
<1>3. OnePlace'
  <2>1. \A w, x \in Worker : worker'[w] \notin Callback
    BY <1>1 DEF IdleWorkers
  <2> QED BY <1>1, <1>2, <2>1, QueueEmpty DEF OnePlace
<1> QED BY <1>1, <1>2, <1>3 DEF PlacesInv, Somewhere

LEMMA PlacesStep == TypeInv /\ CommandsInv /\ PlacesInv /\ [Next]_vars => PlacesInv'
<1> SUFFICES ASSUME TypeInv, CommandsInv, PlacesInv, [Next]_vars PROVE PlacesInv'
  OBVIOUS
<1>1. CASE UNCHANGED vars
  <2>1. UNCHANGED <<db, retryQ, sentQ, pendingQ, worker, callbacks, uid, urec, dpc, did,
                    recovered>>
    BY <1>1 DEF vars, managerVars, dispatchVars, updateVars, poolVars
  <2> QED BY <2>1, PlacesIdle, SameRowsStay DEF InHand, Live
<1>2. CASE TaskDies \/ Restart
  BY <1>2, ForgetPlaces DEF TaskDies, Restart
<1> QED
  BY <1>1, <1>2, FlaskPlaces, DispatchPlaces, UpdatePlaces, WorkerPlaces, TickPlaces
  DEF Next

LEMMA PlacesHold == Spec => [](TypeInv /\ CommandsInv /\ PlacesInv)
<1>1. Init => TypeInv /\ CommandsInv /\ PlacesInv
  <2> SUFFICES ASSUME Init PROVE TypeInv /\ CommandsInv /\ PlacesInv
    OBVIOUS
  <2>1. TypeInv
    BY Starts DEF TypeInv
  <2>2. CommandsInv
    BY QueueEmpty DEF Init, CommandsInv
  <2>3. \A c \in Callback : ~Queued(c) /\ ~InHand(c) /\ ~Pending(c) /\ ~Sending(c)
                            /\ ~Sent(c) /\ c \notin Live
    BY QueueEmpty
       DEF Init, Queued, InHand, Pending, Sending, Sent, Live, IdleWorkers, NoRecords
  <2>4. OnePlace
    <3>1. \A w, x \in Worker : worker[w] \notin Callback
      BY DEF Init, IdleWorkers
    <3> QED BY <2>3, <3>1, QueueEmpty DEF Init, OnePlace
  <2> QED BY <2>1, <2>2, <2>3, <2>4 DEF Init, PlacesInv, Somewhere
<1>2. TypeInv /\ CommandsInv /\ PlacesInv /\ [Next]_vars
        => (TypeInv /\ CommandsInv /\ PlacesInv)'
  BY TypeStep, CommandsStep, PlacesStep
<1> QED BY <1>1, <1>2, PTL DEF Spec

(* However the dispatch thread, the update thread, the workers, crashes,   *)
(* recoveries and a closing pool interleave, an id is in one queue or in   *)
(* one thread's hand, and there once.                                      *)
THEOREM EachIdInOnePlace == Spec => []OnePlace
<1>1. PlacesInv => OnePlace
  BY DEF PlacesInv
<1> QED BY <1>1, PlacesHold, PTL

-----------------------------------------------------------------------------
(* Tries: the inductive invariant, one callback at a time *)

(* The update thread is about to save c's record, or died over it. *)
Saving(c) == uid = c /\ urec # Missing

(* A POST of c may have been made that its row does not count yet, and     *)
(* that is lost when the process ends.                                     *)
Untold(c) == Sending(c) \/ Sent(c) \/ Saving(c) \/ ~Running

(* c is about to enter the table. *)
Entering(c) == c \in recovered \/ (dpc = "new" /\ did = c)

(* c may still be POSTed, in this run of the process or in a later one. *)
Active(c) == c \in Live \/ Entering(c) \/ Somewhere(c) \/ Unfinished(db[c])

One(b) == IF b THEN 1 ELSE 0

SavingOK(c) ==
  /\ dpc \notin {"recover", "reload"} /\ ~Entering(c)
  /\ ~Pending(c) /\ ~Sending(c) /\ ~Sent(c)
  /\ \/ db[c].retries = urec.retries + 1
     \/ urec.retries = 0 /\ db[c].retries = 0 /\ ~Queued(c) /\ c \notin Live

(* Every POST is counted in the row, is untold, or was lost in a restart.  *)
(* A callback that is on its way but no longer in the table is one the     *)
(* recovery would not take up.                                             *)
TriesOf(c) ==
  /\ db[c] = Missing => posts[c] = 0
  /\ db[c] # Missing => db[c].retries <= Retries + 1
  /\ c \in Live => db[c].retries = callbacks[c].retries + One(Saving(c))
  /\ Saving(c) => SavingOK(c)
  /\ Somewhere(c) /\ c \notin Live => ~Unfinished(db[c]) /\ ~Entering(c)
  /\ Active(c) /\ db[c] # Missing =>
       posts[c] + db[c].retries <= Retries + 1 + restarts + One(Untold(c))
  /\ posts[c] <= Retries + 2 + restarts

TriesInv == \A c \in Callback : TriesOf(c)

(* A step keeps the retries of c's row, and an acknowledgement in it. *)
RowKept(c) ==
  /\ db'[c] = Missing <=> db[c] = Missing
  /\ db[c] # Missing => db'[c].retries = db[c].retries /\ (db[c].acked => db'[c].acked)

(* A step that neither counts nor loses a POST of c. *)
Steady(c) ==
  /\ RowKept(c)
  /\ c \in Live' => c \in Live /\ callbacks'[c].retries = callbacks[c].retries
  /\ c \in Live /\ c \notin Live' => ~Unfinished(db'[c]) /\ ~Entering(c)
  /\ posts'[c] = posts[c] /\ restarts' = restarts
  /\ Saving(c)' <=> Saving(c)
  /\ Saving(c) => /\ urec'.retries = urec.retries
                  /\ Queued(c)' => Queued(c)
                  /\ ~Pending(c)' /\ ~Sending(c)' /\ ~Sent(c)'
                  /\ dpc' \notin {"recover", "reload"}
  /\ Untold(c) => Untold(c)'
  /\ Somewhere(c)' => Somewhere(c)
  /\ Entering(c)' => Entering(c) \/ (Unfinished(db[c]) /\ ~Somewhere(c) /\ ~Saving(c))

(* The numbers the invariant adds up. *)
LEMMA TriesTypes ==
  ASSUME TypeInv, NEW c \in Callback
  PROVE  /\ db[c] # Missing => db[c].retries \in Nat /\ db[c].acked \in BOOLEAN
         /\ c \in Live => callbacks[c].retries \in Nat /\ db[c] # Missing
         /\ urec # Missing => urec.retries \in Nat
         /\ posts[c] \in Nat /\ restarts \in Nat
<1>1. /\ db[c] \in Row \cup {Missing} /\ callbacks[c] \in Record \cup {Missing}
      /\ urec \in Record \cup {Missing} /\ restarts \in Nat
  BY DEF TypeInv, TypeOK
<1>2. posts[c] \in Nat
  BY DEF TypeInv, TypeOK, Pool!TypeOK
<1>3. db[c] # Missing => db[c].retries \in Nat /\ db[c].acked \in BOOLEAN
  BY <1>1, RowFields
<1>4. \A rec \in Record : rec.retries \in Nat
  BY DEF Record
<1>5. c \in Live => callbacks[c] # Missing /\ db[c] # Missing
  BY DEF TypeInv, HandsOK, Live
<1> QED BY <1>1, <1>2, <1>3, <1>4, <1>5

LEMMA SteadyTries ==
  ASSUME TypeInv, TypeInv', NEW c \in Callback, TriesOf(c), Steady(c)
  PROVE  TriesOf(c)'
<1>1. /\ db[c] # Missing => db[c].retries \in Nat /\ db[c].acked \in BOOLEAN
      /\ c \in Live => callbacks[c].retries \in Nat /\ db[c] # Missing
      /\ urec # Missing => urec.retries \in Nat
      /\ posts[c] \in Nat /\ restarts \in Nat /\ Retries \in Nat
  BY TriesTypes
<1>2. Unfinished(db'[c]) => Unfinished(db[c])
  BY DEF Steady, RowKept, Unfinished
<1>3. Active(c)' => Active(c)
  BY <1>2 DEF Steady, RowKept, Active
<1>4. db'[c] = Missing => posts'[c] = 0
  BY DEF Steady, RowKept, TriesOf
<1>5. db'[c] # Missing => db'[c].retries <= Retries + 1
  BY DEF Steady, RowKept, TriesOf
<1>6. c \in Live' => db'[c].retries = callbacks'[c].retries + One(Saving(c))'
  BY <1>1 DEF Steady, RowKept, TriesOf, One
<1>7. Saving(c)' => SavingOK(c)'
  <2> SUFFICES ASSUME Saving(c)' PROVE SavingOK(c)'
    OBVIOUS
  <2>1. Saving(c) /\ SavingOK(c)
    BY DEF Steady, RowKept, TriesOf
  <2>2. ~Entering(c)'
    BY <2>1 DEF Steady, RowKept, SavingOK
  <2>3. db[c] # Missing
    BY <2>1 DEF TypeInv, HandsOK, Saving
  <2> QED BY <2>1, <2>2, <2>3 DEF Steady, RowKept, SavingOK
<1>8. Somewhere(c)' /\ c \notin Live' => ~Unfinished(db'[c]) /\ ~Entering(c)'
  BY <1>2 DEF Steady, RowKept, TriesOf
<1>9. Active(c)' /\ db'[c] # Missing =>
        posts'[c] + db'[c].retries <= Retries + 1 + restarts' + One(Untold(c))'
  BY <1>1, <1>3 DEF Steady, RowKept, TriesOf, One
<1>10. posts'[c] <= Retries + 2 + restarts'
  BY DEF Steady, RowKept, TriesOf
<1> QED BY <1>4, <1>5, <1>6, <1>7, <1>8, <1>9, <1>10 DEF TriesOf

-----------------------------------------------------------------------------
(* Tries: steps that are steady *)

(* A step that leaves the ids where they are, or loses some of those that  *)
(* wait for a worker.                                                      *)
LEMMA SteadyFrame ==
  ASSUME NEW c \in Callback, TriesOf(c), RowKept(c),
         UNCHANGED <<posts, restarts, callbacks, retryQ, sentQ, uid, urec>>,
         Pending(c)' => Pending(c), Sending(c)' <=> Sending(c),
         dpc' \notin {"recover", "reload"} \/ dpc' = dpc, Running' => Running,
         Entering(c)' => Entering(c)
  PROVE  Steady(c)
<1>1. /\ Queued(c)' <=> Queued(c)
      /\ Sent(c)' <=> Sent(c)
      /\ InHand(c)' <=> InHand(c)
      /\ Saving(c)' <=> Saving(c)
      /\ c \in Live' <=> c \in Live
  BY DEF Queued, Sent, InHand, Saving, Live
<1>2. Somewhere(c)' => Somewhere(c)
  BY <1>1 DEF Somewhere
<1>3. Untold(c) => Untold(c)'
  BY <1>1 DEF Untold
<1>4. Saving(c) => /\ ~Pending(c)' /\ ~Sending(c)' /\ ~Sent(c)'
                   /\ dpc' \notin {"recover", "reload"}
  BY <1>1 DEF TriesOf, SavingOK
<1> QED BY <1>1, <1>2, <1>3, <1>4 DEF Steady

(* The same when no other part of the process is touched. *)
LEMMA SteadyIdle ==
  ASSUME NEW c \in Callback, TriesOf(c), RowKept(c),
         UNCHANGED <<posts, restarts, callbacks, retryQ, sentQ, pendingQ, worker, uid,
                     urec, dpc, did, recovered>>
  PROVE  Steady(c)
<1>1. /\ Pending(c)' <=> Pending(c)
      /\ Sending(c)' <=> Sending(c)
      /\ Entering(c)' <=> Entering(c)
      /\ Running' <=> Running
  BY DEF Pending, Sending, Entering, Running
<1> QED BY <1>1, SteadyFrame

LEMMA SameRowKept ==
  ASSUME NEW c \in Callback, db' = db PROVE RowKept(c)
BY DEF RowKept

LEMMA AckedRowKept ==
  ASSUME TypeInv, NEW c \in Callback, NEW d \in Callback, db[d] # Missing,
         db' = [db EXCEPT ![d] = [db[d] EXCEPT !.acked = TRUE]]
  PROVE  RowKept(c)
<1>1. db \in [Callback -> Row \cup {Missing}] /\ db[d] \in Row
  BY DEF TypeInv, TypeOK
<1>2. /\ [db[d] EXCEPT !.acked = TRUE] # Missing
      /\ [db[d] EXCEPT !.acked = TRUE].retries = db[d].retries
      /\ [db[d] EXCEPT !.acked = TRUE].acked
  BY <1>1, RowFields DEF Row
<1> QED BY <1>1, <1>2 DEF RowKept

LEMMA FlaskTries ==
  ASSUME TypeInv, NEW c \in Callback, TriesOf(c), FlaskStep PROVE Steady(c)
<1>1. UNCHANGED <<posts, restarts, callbacks, retryQ, sentQ, pendingQ, worker, uid,
                  urec, dpc, did, recovered>>
  BY DEF FlaskStep, NewCallback, PatchCallback, SendAck, CloseTask, managerVars,
         dispatchVars, updateVars, poolVars
<1>2. RowKept(c)
  <2>1. ASSUME NEW d \in Callback, PatchCallback(d) PROVE RowKept(c)
    <3>1. db' = [db EXCEPT ![d] = [db[d] EXCEPT !.acked = TRUE]] /\ db[d] # Missing
      BY <2>1 DEF PatchCallback
    <3> QED BY <3>1, AckedRowKept
  <2>2. CASE db' = db
    BY <2>2, SameRowKept
  <2> QED BY <2>1, <2>2 DEF FlaskStep, NewCallback, SendAck, CloseTask
<1> QED BY <1>1, <1>2, SteadyIdle

LEMMA TickTries ==
  ASSUME TypeInv, NEW c \in Callback, TriesOf(c), Tick PROVE Steady(c)
<1>1. UNCHANGED <<posts, restarts, retryQ, sentQ, pendingQ, worker, uid, dpc, did,
                  recovered>>
  BY DEF Tick, flaskVars, dispatchVars, poolVars
<1>2. /\ db \in [Callback -> Row \cup {Missing}] /\ urec \in Record \cup {Missing}
      /\ callbacks \in [Callback -> Record \cup {Missing}]
  BY DEF TypeInv, TypeOK
<1>3. /\ \A row \in Row : LET r == [row EXCEPT !.age = Older(row.age)]
                          IN  r # Missing /\ r.acked = row.acked /\ r.retries = row.retries
      /\ \A rec \in Record : LET r == [rec EXCEPT !.age = Older(rec.age)]
                             IN  r # Missing /\ r.retries = rec.retries
  BY OlderTypes DEF Row, Record
<1>4. RowKept(c)
  BY <1>2, <1>3 DEF Tick, RowKept
<1>5. /\ c \in Live' <=> c \in Live
      /\ c \in Live => callbacks'[c].retries = callbacks[c].retries
      /\ urec' = Missing <=> urec = Missing
      /\ urec # Missing => urec'.retries = urec.retries
  BY <1>2, <1>3 DEF Tick, Live
<1>6. /\ Queued(c)' <=> Queued(c)
      /\ Pending(c)' <=> Pending(c)
      /\ Sending(c)' <=> Sending(c)
      /\ Sent(c)' <=> Sent(c)
      /\ InHand(c)' <=> InHand(c)
      /\ Saving(c)' <=> Saving(c)
      /\ Entering(c)' <=> Entering(c)
      /\ Running' <=> Running
  BY <1>1, <1>5 DEF Queued, Pending, Sending, Sent, InHand, Saving, Entering, Running
<1>7. (Somewhere(c)' => Somewhere(c)) /\ (Untold(c) => Untold(c)')
  BY <1>6 DEF Somewhere, Untold
<1>8. Saving(c) => ~Pending(c) /\ ~Sending(c) /\ ~Sent(c)
                   /\ dpc \notin {"recover", "reload"} /\ urec # Missing
  BY DEF TriesOf, SavingOK, Saving
<1> QED BY <1>1, <1>4, <1>5, <1>6, <1>7, <1>8 DEF Steady

-----------------------------------------------------------------------------
(* Tries: the dispatch thread *)

LEMMA DispatchTries ==
  ASSUME TypeInv, CommandsInv, PlacesInv, TypeInv', PlacesInv',
         NEW c \in Callback, TriesOf(c), DispatchStep
  PROVE  TriesOf(c)'
<1>0. /\ db \in [Callback -> Row \cup {Missing}]
      /\ callbacks \in [Callback -> Record \cup {Missing}]
      /\ recovered \subseteq Callback
      /\ \A d \in Callback : d \in Live \/ d \in recovered \/ did = d \/ uid = d
                              => db[d] # Missing
  BY DEF TypeInv, TypeOK, HandsOK
<1>n. /\ db[c] # Missing => db[c].retries \in Nat /\ db[c].acked \in BOOLEAN
      /\ posts[c] \in Nat /\ restarts \in Nat
  BY TriesTypes
<1> USE DEF managerVars, dispatchVars, updateVars, poolVars, flaskVars
<1>1. CASE ReadPending
  <2>1. /\ UNCHANGED <<db, posts, restarts, callbacks, retryQ, sentQ, pendingQ, worker,
                       uid, urec, did>>
        /\ dpc = "recover" /\ dpc' = "reload"
        /\ recovered' = {d \in Callback : Unfinished(db[d])}
    BY <1>1 DEF ReadPending
  <2>2. ~Saving(c) /\ ~Somewhere(c)
    BY <2>1 DEF TriesOf, SavingOK, PlacesInv
  <2>3. /\ ~Somewhere(c)' /\ ~Saving(c)'
        /\ c \in Live' <=> c \in Live
        /\ Untold(c)' <=> Untold(c)
    BY <2>1, <2>2 DEF Somewhere, Queued, InHand, Pending, Sending, Sent, Saving, Live,
                      Untold, Running
  <2>4. Entering(c)' => Unfinished(db[c])
    BY <2>1 DEF Entering
  <2> QED BY <2>1, <2>2, <2>3, <2>4, SameRowKept, SteadyTries DEF Steady
<1>2. CASE AddPending
  <2>1. /\ UNCHANGED <<db, posts, restarts, sentQ, pendingQ, worker, uid, urec, did>>
        /\ dpc = "reload" /\ dpc' = "idle" /\ recovered' = {}
        /\ callbacks' = [d \in Callback |->
                           IF d \in recovered THEN RecordOf(db[d]) ELSE callbacks[d]]
    BY <1>2 DEF AddPending
  <2>2. ~Saving(c) /\ ~Somewhere(c) /\ c \notin Live
    BY <2>1 DEF TriesOf, SavingOK, PlacesInv
  <2>3. ~Saving(c)' /\ ~Entering(c)' /\ (Untold(c)' <=> Untold(c))
    BY <2>1, <2>2 DEF Saving, Entering, Untold, Sending, Sent, Running
  <2>4. CASE c \in recovered
    <3>1. db[c] # Missing /\ callbacks'[c].retries = db[c].retries /\ Active(c)
      BY <1>0, <2>1, <2>4, RowFields DEF RecordOf, Active, Entering
    <3>2. c \in Live'
      <4>1. db[c] \in Row
        BY <1>0, <3>1
      <4> QED BY <2>1, <2>4, <4>1, RowFields DEF Live
    <3> QED BY <1>n, <2>1, <2>3, <3>1, <3>2 DEF TriesOf, One
  <2>5. CASE c \notin recovered
    <3>1. c \notin Live'
      BY <2>1, <2>2, <2>5 DEF Live
    <3>2. ~Somewhere(c)'
      <4>1. PICK q \in OldestFirst(recovered) : retryQ' = retryQ \o q
        BY <1>2 DEF AddPending
      <4>2. retryQ \in Seq(Callback) /\ q \in Seq(Callback) /\ Range(q) = recovered
        BY <1>0, OldestFirstType DEF TypeInv, TypeOK
      <4>3. Range(retryQ') = Range(retryQ) \cup recovered
        BY <4>1, <4>2, QueueConcat
      <4> QED BY <2>1, <2>2, <2>5, <4>3
              DEF Somewhere, Queued, InHand, Pending, Sending, Sent
    <3>3. Active(c)' => Active(c)
      BY <2>1, <2>3, <3>1, <3>2 DEF Active
    <3> QED BY <1>n, <2>1, <2>3, <3>1, <3>2, <3>3 DEF TriesOf, One
  <2> QED BY <2>4, <2>5
<1>3. CASE InsertRow
  <2>1. /\ did' \in Callback /\ db' = [db EXCEPT ![did'] = NewRow]
        /\ db[did'] = Missing /\ dpc = "idle" /\ dpc' = "new"
        /\ UNCHANGED <<posts, restarts, callbacks, retryQ, sentQ, pendingQ, worker, uid,
                       urec, recovered>>
    BY <1>3, CommandTaken DEF InsertRow, GetCommand, TypeInv, CommandsInv
  <2>2. CASE c = did'
    <3>1. db'[c] = NewRow /\ NewRow # Missing /\ NewRow.retries = Retries + 1
      BY <1>0, <2>1, <2>2, NewRowType DEF NewRow
    <3>2. posts[c] = 0 /\ c \notin Live /\ ~Saving(c) /\ ~Somewhere(c)'
      BY <1>0, <2>1, <2>2 DEF TriesOf, Saving, PlacesInv
    <3>3. c \notin Live' /\ ~Saving(c)'
      BY <2>1, <3>2 DEF Live, Saving
    <3> QED BY <1>n, <2>1, <3>1, <3>2, <3>3 DEF TriesOf, One
  <2>3. CASE c # did'
    <3>1. db'[c] = db[c]
      BY <1>0, <2>1, <2>3
    <3>2. (Entering(c)' => Entering(c)) /\ (Running' => Running)
      BY <2>1, <2>3 DEF Entering, Running
    <3>3. (Pending(c)' <=> Pending(c)) /\ (Sending(c)' <=> Sending(c))
      BY <2>1 DEF Pending, Sending
    <3> QED BY <2>1, <3>1, <3>2, <3>3, SteadyFrame, SteadyTries DEF RowKept
  <2> QED BY <2>2, <2>3
<1>4. CASE AddCallback
  <2>1. /\ did \in Callback /\ dpc = "new" /\ dpc' = "idle" /\ did' = NoCallback
        /\ callbacks' = [callbacks EXCEPT ![did] = RecordOf(db[did])]
        /\ retryQ' = <<did>> \o retryQ
        /\ UNCHANGED <<db, posts, restarts, sentQ, pendingQ, worker, uid, urec,
                       recovered>>
    BY <1>4 DEF AddCallback, TypeInv, HandsOK
  <2>2. recovered = {} /\ ~Entering(c)'
    BY <2>1 DEF PlacesInv, Entering
  <2>3. /\ Range(retryQ') = {did} \cup Range(retryQ)
    BY <2>1, QueuePush DEF TypeInv, TypeOK
  <2>4. /\ Saving(c)' <=> Saving(c)
        /\ Untold(c)' <=> Untold(c)
    BY <2>1 DEF Saving, Untold, Sending, Sent, Running
  <2>5. CASE c = did
    <3>1. Entering(c) /\ Active(c) /\ ~Saving(c)
      BY <2>1, <2>5 DEF Entering, Active, TriesOf, SavingOK
    <3>2. db[c] # Missing /\ c \in Live' /\ callbacks'[c].retries = db[c].retries
      <4>1. db[c] \in Row
        BY <1>0, <2>1, <2>5
      <4> QED BY <1>0, <2>1, <2>5, <4>1, RowFields DEF Live, RecordOf
    <3> QED BY <1>n, <2>1, <2>2, <2>4, <3>1, <3>2 DEF TriesOf, One
  <2>6. CASE c # did
    <3>1. callbacks'[c] = callbacks[c] /\ (c \in Live' <=> c \in Live)
      BY <1>0, <2>1, <2>6 DEF Live
    <3>2. /\ Queued(c)' <=> Queued(c)
          /\ Pending(c)' <=> Pending(c)
          /\ Sending(c)' <=> Sending(c)
          /\ Sent(c)' <=> Sent(c)
          /\ Somewhere(c)' <=> Somewhere(c)
      BY <2>1, <2>3, <2>6 DEF Queued, Pending, Sending, Sent, InHand, Somewhere
    <3>3. Saving(c) => ~Pending(c) /\ ~Sending(c) /\ ~Sent(c)
      BY DEF TriesOf, SavingOK
    <3>4. Steady(c)
      BY <2>1, <2>2, <2>4, <3>1, <3>2, <3>3, SameRowKept DEF Steady
    <3> QED BY <3>4, SteadyTries
  <2> QED BY <2>5, <2>6
<1>5. CASE DropRecord
  <2>1. /\ UNCHANGED <<db, posts, restarts, retryQ, sentQ, pendingQ, worker, uid, urec,
                       recovered>>
        /\ dpc = "idle" /\ dpc' \in {"idle", "ack"}
        /\ callbacks' = DropFrom(callbacks, Head(inputQ).id)
    BY <1>5 DEF DropRecord, GetCommand
  <2>2. /\ Head(inputQ).id \in Callback
        /\ db[Head(inputQ).id] # Missing /\ db[Head(inputQ).id].acked
    BY <1>5, CommandTaken DEF DropRecord, GetCommand, TypeInv, CommandsInv
  <2>3. recovered = {} /\ ~Entering(c) /\ ~Entering(c)'
    BY <2>1 DEF PlacesInv, Entering
  <2>4. c \in Live' => c \in Live /\ callbacks'[c] = callbacks[c]
    BY <1>0, <2>1, <2>2 DEF DropFrom, Live
  <2>5. c \in Live /\ c \notin Live' => ~Unfinished(db[c])
    BY <1>0, <2>1, <2>2 DEF DropFrom, Live, Unfinished
  <2>6. /\ Queued(c)' <=> Queued(c)
        /\ Pending(c)' <=> Pending(c)
        /\ Sending(c)' <=> Sending(c)
        /\ Sent(c)' <=> Sent(c)
        /\ Somewhere(c)' <=> Somewhere(c)
        /\ Saving(c)' <=> Saving(c)
        /\ Untold(c)' <=> Untold(c)
    BY <2>1 DEF Queued, Pending, Sending, Sent, InHand, Somewhere, Saving, Untold, Running
  <2>7. Saving(c) => ~Pending(c) /\ ~Sending(c) /\ ~Sent(c)
    BY DEF TriesOf, SavingOK
  <2>8. Steady(c)
    BY <2>1, <2>3, <2>4, <2>5, <2>6, <2>7, SameRowKept DEF Steady
  <2> QED BY <2>8, SteadyTries
<1>6. CASE SaveAck
  <2>1. /\ UNCHANGED <<posts, restarts, callbacks, retryQ, sentQ, pendingQ, worker, uid,
                       urec, recovered>>
        /\ db' = [db EXCEPT ![did] = [db[did] EXCEPT !.acked = TRUE]]
        /\ did \in Callback /\ db[did] # Missing /\ dpc = "ack" /\ dpc' = "idle"
    BY <1>0, <1>6 DEF SaveAck, TypeInv, HandsOK
  <2>2. (Entering(c)' => Entering(c)) /\ (Running' => Running)
    BY <2>1 DEF Entering, Running
  <2>3. (Pending(c)' <=> Pending(c)) /\ (Sending(c)' <=> Sending(c))
    BY <2>1 DEF Pending, Sending
  <2> QED BY <2>1, <2>2, <2>3, AckedRowKept, SteadyFrame, SteadyTries
<1>7. CASE GetExitTask \/ SetCloseFlag \/ JoinUpdate
  <2>1. /\ UNCHANGED <<db, posts, restarts, callbacks, retryQ, sentQ, pendingQ, worker,
                       uid, urec, recovered, did>>
        /\ dpc' \in {"closing", "join", "exited"} /\ Running
    BY <1>7 DEF GetExitTask, GetCommand, Pool!BeginClose, SetCloseFlag, JoinUpdate,
                Running
  <2>2. Entering(c)' => Entering(c)
    BY <2>1 DEF Entering
  <2>3. (Pending(c)' <=> Pending(c)) /\ (Sending(c)' <=> Sending(c))
    BY <2>1 DEF Pending, Sending
  <2> QED BY <2>1, <2>2, <2>3, SameRowKept, SteadyFrame, SteadyTries
<1>8. CASE ClosePool
  <2>1. /\ UNCHANGED <<db, posts, restarts, callbacks, retryQ, sentQ, worker, uid, urec,
                       dpc, recovered, did>>
    BY <1>8 DEF ClosePool, Pool!CloserStep, Pool!PurgeOne, Pool!PurgeDone, Pool!PutExit,
                Pool!ExitsDone, Pool!Join
  <2>2. Pending(c)' => Pending(c)
    <3>1. pendingQ \in Seq(Callback \cup {MsgExit})
      BY DEF TypeInv, TypeOK, Pool!TypeOK
    <3>2. \/ pendingQ' = pendingQ
          \/ pendingQ # << >> /\ pendingQ' = Tail(pendingQ)
          \/ pendingQ' = Append(pendingQ, MsgExit)
      BY <1>8 DEF ClosePool, Pool!CloserStep, Pool!PurgeOne, Pool!PurgeDone,
                  Pool!PutExit, Pool!ExitsDone, Pool!Join, Pool!WithExit
    <3>3. Range(pendingQ') \subseteq Range(pendingQ) \cup {MsgExit}
      <4>1. CASE pendingQ' = pendingQ
        BY <4>1
      <4>2. CASE pendingQ # << >> /\ pendingQ' = Tail(pendingQ)
        BY <3>1, <4>2, QueueTail
      <4>3. CASE pendingQ' = Append(pendingQ, MsgExit)
        BY <3>1, <4>3, QueueAppend
      <4> QED BY <3>2, <4>1, <4>2, <4>3
    <3> QED BY <3>3 DEF Pending
  <2>3. /\ Entering(c)' <=> Entering(c)
        /\ Sending(c)' <=> Sending(c)
        /\ Running' <=> Running
    BY <2>1 DEF Entering, Sending, Running
  <2> QED BY <2>1, <2>2, <2>3, SameRowKept, SteadyFrame, SteadyTries
<1> QED
  BY <1>1, <1>2, <1>3, <1>4, <1>5, <1>6, <1>7, <1>8 DEF DispatchStep

-----------------------------------------------------------------------------
(* Tries: the update thread *)

LEMMA UpdateTries ==
  ASSUME TypeInv, PlacesInv, TypeInv', PlacesInv',
         NEW c \in Callback, TriesOf(c), Running, UpdateStep
  PROVE  TriesOf(c)'
<1>0. /\ db \in [Callback -> Row \cup {Missing}]
      /\ callbacks \in [Callback -> Record \cup {Missing}]
      /\ retryQ \in Seq(Callback) /\ sentQ \in Seq(Callback)
      /\ pendingQ \in Seq(Callback \cup {MsgExit})
      /\ adding["update"] = IF upc = "put" THEN uid ELSE NoCallback
      /\ upc \in {"load", "add", "put", "full"} => uid \in Callback /\ urec = Missing
      /\ upc = "save" => uid \in Callback /\ urec \in Record
      /\ upc \in {"check", "ready", "sent", "stopped"} => uid = NoCallback /\ urec = Missing
  BY DEF TypeInv, TypeOK, HandsOK, Pool!TypeOK
<1>n. /\ db[c] # Missing => db[c].retries \in Nat /\ db[c].acked \in BOOLEAN
      /\ c \in Live => callbacks[c].retries \in Nat /\ db[c] # Missing
      /\ urec # Missing => urec.retries \in Nat
      /\ posts[c] \in Nat /\ restarts \in Nat
  BY TriesTypes
<1> USE DEF UpdateFrame, managerVars, dispatchVars, updateVars, poolVars, flaskVars
<1>1. CASE \/ CheckClose \/ NoneReady \/ LoadRequest \/ UpdateDies \/ BeginAddJob
           \/ RefuseJob \/ JobQueueFull \/ NothingSent
  <2>1. UNCHANGED <<db, posts, restarts, callbacks, retryQ, sentQ, pendingQ, worker, uid,
                    urec, dpc, did, recovered>>
    BY <1>1 DEF CheckClose, NoneReady, LoadRequest, UpdateDies, BeginAddJob, RefuseJob,
                JobQueueFull, NothingSent, Pool!CheckFlag, Pool!PutFull
  <2> QED BY <2>1, SameRowKept, SteadyIdle, SteadyTries
<1>2. CASE TakeReady \/ AddJob \/ GiveBack
  <2>1. /\ UNCHANGED <<db, posts, restarts, callbacks, sentQ, worker, urec, dpc, did,
                       recovered>>
        /\ urec = Missing
    BY <1>0, <1>2 DEF TakeReady, AddJob, GiveBack, Pool!PutJob
  <2>2. Somewhere(c)' => Somewhere(c)
    <3>1. CASE TakeReady
      <4>1. uid' = Head(retryQ) /\ retryQ # << >> /\ UNCHANGED pendingQ
            /\ retryQ' = Tail(retryQ)
        BY <3>1 DEF TakeReady, HeadIsDue, Popped
      <4>2. Range(retryQ) = {Head(retryQ)} \cup Range(retryQ')
        BY <1>0, <4>1, QueueTail
      <4> QED BY <2>1, <4>1, <4>2 DEF Somewhere, Queued, InHand, Pending, Sending, Sent
    <3>2. CASE AddJob
      <4>1. uid \in Callback /\ uid' = NoCallback /\ UNCHANGED retryQ
            /\ pendingQ' = Append(pendingQ, uid)
        BY <1>0, <3>2 DEF AddJob, Pool!PutJob
      <4>2. Range(pendingQ') = Range(pendingQ) \cup {uid}
        BY <1>0, <4>1, QueueAppend
      <4> QED BY <2>1, <4>1, <4>2 DEF Somewhere, Queued, InHand, Pending, Sending, Sent
    <3>3. CASE GiveBack
      <4>1. uid \in Callback /\ uid' = NoCallback /\ UNCHANGED pendingQ
            /\ retryQ' = <<uid>> \o retryQ
        BY <1>0, <3>3 DEF GiveBack, GivenBack
      <4>2. Range(retryQ') = {uid} \cup Range(retryQ)
        BY <1>0, <4>1, QueuePush
      <4> QED BY <2>1, <4>1, <4>2 DEF Somewhere, Queued, InHand, Pending, Sending, Sent
    <3> QED BY <1>2, <3>1, <3>2, <3>3
  <2>3. /\ ~Saving(c) /\ ~Saving(c)'
        /\ c \in Live' <=> c \in Live
        /\ Entering(c)' <=> Entering(c)
        /\ Untold(c)' <=> Untold(c)
    BY <2>1 DEF Saving, Live, Entering, Untold, Sending, Sent, Running
  <2>4. Steady(c)
    BY <2>1, <2>2, <2>3, SameRowKept DEF Steady
  <2> QED BY <2>4, SteadyTries
<1>3. CASE DiscardSent
  <2>1. /\ UNCHANGED <<db, posts, restarts, callbacks, retryQ, pendingQ, worker, uid,
                       urec, dpc, did, recovered>>
        /\ sentQ # << >> /\ sentQ' = Tail(sentQ) /\ urec = Missing
        /\ Head(sentQ) \notin Live
    BY <1>0, <1>3 DEF DiscardSent
  <2>2. Range(sentQ) = {Head(sentQ)} \cup Range(sentQ')
    BY <1>0, <2>1, QueueTail
  <2>3. /\ Queued(c)' <=> Queued(c)
        /\ InHand(c)' <=> InHand(c)
        /\ Pending(c)' <=> Pending(c)
        /\ Sending(c)' <=> Sending(c)
        /\ Sent(c) <=> Sent(c)' \/ c = Head(sentQ)
        /\ c \in Live' <=> c \in Live
        /\ Entering(c)' <=> Entering(c)
        /\ ~Saving(c) /\ ~Saving(c)' /\ Running'
    BY <2>1, <2>2 DEF Queued, InHand, Pending, Sending, Sent, Live, Entering, Saving,
                      Running
  <2>4. CASE c = Head(sentQ)
    <3>1. Sent(c) /\ c \notin Live /\ ~Unfinished(db[c]) /\ ~Entering(c)
      BY <2>1, <2>3, <2>4 DEF TriesOf, Somewhere
    <3>2. ~Sent(c)'
      BY <1>0, <2>1, <2>4, QueueTail DEF Sent, PlacesInv, OnePlace
    <3>3. ~Active(c)'
      BY <2>1, <2>3, <3>1, <3>2 DEF PlacesInv, OnePlace, Active, Somewhere
    <3> QED BY <2>1, <2>3, <3>1, <3>3 DEF TriesOf
  <2>5. CASE c # Head(sentQ)
    <3>1. (Somewhere(c)' => Somewhere(c)) /\ (Untold(c) => Untold(c)')
      BY <2>3, <2>5 DEF Somewhere, Untold
    <3> QED BY <2>1, <2>3, <3>1, SameRowKept, SteadyTries DEF Steady
  <2> QED BY <2>4, <2>5
<1>4. CASE Requeue
  <2>0. PICK d \in Callback : sentQ # << >> /\ d = Head(sentQ)
    BY <1>0, <1>4, QueueTail DEF Requeue
  <2>1. /\ UNCHANGED <<db, posts, restarts, pendingQ, worker, dpc, did, recovered>>
        /\ uid' = d /\ d \in Live /\ sentQ' = Tail(sentQ) /\ retryQ' = Append(retryQ, d)
        /\ urec' = AfterTry(callbacks[d])
        /\ callbacks' = [callbacks EXCEPT ![d] = AfterTry(callbacks[d])]
        /\ HasRetries(callbacks[d]) /\ urec = Missing
    BY <1>0, <1>4, <2>0 DEF Requeue, AtBack
  <2>2. /\ AfterTry(callbacks[d]) # Missing
        /\ AfterTry(callbacks[d]).retries = callbacks[d].retries - 1
    BY <1>0, <2>1, AfterTryType DEF Live
  <2>3. /\ Range(sentQ) = {d} \cup Range(sentQ')
        /\ Range(retryQ') = Range(retryQ) \cup {d}
        /\ d \notin Range(sentQ')
    BY <1>0, <2>0, <2>1, QueueTail, QueueAppend DEF PlacesInv, OnePlace
  <2>4. /\ Queued(c)' <=> Queued(c) \/ c = d
        /\ ~InHand(c)'
        /\ Pending(c)' <=> Pending(c)
        /\ Sending(c)' <=> Sending(c)
        /\ Sent(c) <=> Sent(c)' \/ c = d
        /\ ~Saving(c) /\ (Saving(c)' <=> c = d)
        /\ Entering(c)' <=> Entering(c)
        /\ Running'
    BY <2>1, <2>2, <2>3 DEF Queued, InHand, Pending, Sending, Sent, Saving, Entering,
                            Running
  <2>5. c \in Live' <=> c \in Live
    BY <1>0, <2>1, <2>2 DEF Live
  <2>6. CASE c = d
    <3>1. Sent(c) /\ ~Sent(c)' /\ Somewhere(c) /\ Untold(c)
      BY <2>3, <2>4, <2>6 DEF Sent, Somewhere, Untold
    <3>2. ~Pending(c)' /\ ~Sending(c)' /\ ~Entering(c) /\ dpc \notin {"recover", "reload"}
      BY <2>4, <3>1 DEF PlacesInv, OnePlace, Entering
    <3>3. /\ db[c].retries = callbacks[c].retries
          /\ callbacks'[c].retries = callbacks[c].retries - 1
          /\ urec'.retries = callbacks[c].retries - 1
      <4>1. db[c].retries = callbacks[c].retries + 0 /\ callbacks[c].retries \in Nat
        BY <1>n, <2>1, <2>4, <2>6 DEF TriesOf, One
      <4> QED BY <1>0, <2>1, <2>2, <2>6, <4>1
    <3>4. SavingOK(c)'
      BY <1>n, <2>1, <2>4, <2>6, <3>1, <3>2, <3>3 DEF SavingOK
    <3>5. Untold(c)' /\ Active(c)
      BY <2>1, <2>4, <2>6 DEF Untold, Active
    <3> QED BY <1>n, <2>1, <2>4, <2>5, <2>6, <3>1, <3>3, <3>4, <3>5 DEF TriesOf, One
  <2>7. CASE c # d
    <3>1. callbacks'[c] = callbacks[c]
      BY <1>0, <2>1, <2>7
    <3>2. (Somewhere(c)' => Somewhere(c)) /\ (Untold(c) => Untold(c)')
      BY <2>4, <2>7 DEF Somewhere, Untold
    <3> QED BY <2>1, <2>4, <2>5, <2>7, <3>1, <3>2, SameRowKept, SteadyTries DEF Steady
  <2> QED BY <2>6, <2>7
<1>5. CASE GiveUp
  <2>0. PICK d \in Callback : sentQ # << >> /\ d = Head(sentQ)
    BY <1>0, <1>5, QueueTail DEF GiveUp
  <2>1. /\ UNCHANGED <<db, posts, restarts, retryQ, pendingQ, worker, dpc, did, recovered>>
        /\ uid' = d /\ d \in Live /\ sentQ' = Tail(sentQ) /\ urec' = callbacks[d]
        /\ callbacks' = [callbacks EXCEPT ![d] = Missing]
        /\ ~HasRetries(callbacks[d]) /\ urec = Missing
    BY <1>0, <1>5, <2>0 DEF GiveUp
  <2>2. callbacks[d] # Missing
    BY <2>1 DEF Live
  <2>3. /\ Range(sentQ) = {d} \cup Range(sentQ')
        /\ d \notin Range(sentQ')
    BY <1>0, <2>0, <2>1, QueueTail DEF PlacesInv, OnePlace
  <2>4. /\ Queued(c)' <=> Queued(c)
        /\ ~InHand(c)'
        /\ Pending(c)' <=> Pending(c)
        /\ Sending(c)' <=> Sending(c)
        /\ Sent(c) <=> Sent(c)' \/ c = d
        /\ ~Saving(c) /\ (Saving(c)' <=> c = d)
        /\ Entering(c)' <=> Entering(c)
        /\ Running'
    BY <2>1, <2>2, <2>3 DEF Queued, InHand, Pending, Sending, Sent, Saving, Entering,
                            Running
  <2>5. c \in Live' <=> c \in Live /\ c # d
    BY <1>0, <2>1 DEF Live
  <2>6. CASE c = d
    <3>1. Sent(c) /\ ~Sent(c)' /\ Somewhere(c)
      BY <2>3, <2>4, <2>6 DEF Sent, Somewhere
    <3>2. /\ ~Queued(c) /\ ~Pending(c) /\ ~Sending(c) /\ ~Entering(c)
          /\ dpc \notin {"recover", "reload"}
      BY <2>4, <3>1 DEF PlacesInv, OnePlace, Entering
    <3>3. db[c].retries = 0 /\ callbacks[c].retries = 0
      <4>1. db[c].retries = callbacks[c].retries + 0 /\ callbacks[c].retries \in Nat
        BY <1>n, <2>1, <2>4, <2>6 DEF TriesOf, One
      <4> QED BY <2>1, <2>6, <4>1 DEF HasRetries
    <3>4. SavingOK(c)' /\ ~Somewhere(c)'
      BY <2>1, <2>4, <2>5, <2>6, <3>1, <3>2, <3>3 DEF SavingOK, Somewhere
    <3>5. ~Active(c)'
      BY <2>1, <2>4, <2>5, <2>6, <3>2, <3>3, <3>4 DEF Active, Unfinished
    <3> QED BY <2>1, <2>5, <2>6, <3>4, <3>5 DEF TriesOf
  <2>7. CASE c # d
    <3>1. callbacks'[c] = callbacks[c]
      BY <1>0, <2>1, <2>7
    <3>2. (Somewhere(c)' => Somewhere(c)) /\ (Untold(c) => Untold(c)')
      BY <2>4, <2>7 DEF Somewhere, Untold
    <3> QED BY <2>1, <2>4, <2>5, <2>7, <3>1, <3>2, SameRowKept, SteadyTries DEF Steady
  <2> QED BY <2>6, <2>7
<1>6. CASE SaveRecord
  <2>1. /\ UNCHANGED <<posts, restarts, callbacks, retryQ, sentQ, pendingQ, worker, dpc,
                       did, recovered>>
        /\ db' = [db EXCEPT ![uid] = SavedRow(db[uid], urec)]
        /\ uid \in Callback /\ urec \in Record /\ urec # Missing
        /\ uid' = NoCallback /\ urec' = Missing /\ db[uid] \in Row
    BY <1>0, <1>6 DEF SaveRecord, TypeInv, HandsOK
  <2>2. /\ SavedRow(db[uid], urec) # Missing
        /\ SavedRow(db[uid], urec).retries = urec.retries
        /\ SavedRow(db[uid], urec).acked = db[uid].acked
    BY <2>1, SavedRowType DEF SavedRow, Row
  <2>3. /\ Queued(c)' <=> Queued(c)
        /\ ~InHand(c) /\ ~InHand(c)'
        /\ Pending(c)' <=> Pending(c)
        /\ Sending(c)' <=> Sending(c)
        /\ Sent(c)' <=> Sent(c)
        /\ ~Saving(c)' /\ (Saving(c) <=> c = uid)
        /\ Entering(c)' <=> Entering(c)
        /\ c \in Live' <=> c \in Live
        /\ Running'
    BY <2>1 DEF Queued, InHand, Pending, Sending, Sent, Saving, Entering, Live, Running
  <2>4. Somewhere(c)' <=> Somewhere(c)
    BY <2>3 DEF Somewhere
  <2>5. CASE c = uid
    <3>1. /\ db[c] # Missing /\ db'[c] # Missing
          /\ db'[c].retries = urec.retries /\ db'[c].acked = db[c].acked
      BY <1>0, <2>1, <2>2, <2>5
    <3>2. /\ SavingOK(c) /\ Untold(c) /\ ~Untold(c)' /\ ~Entering(c)
      BY <2>3, <2>5 DEF TriesOf, SavingOK, Untold
    <3>3. c \in Live => db[c].retries = callbacks[c].retries + 1
      BY <2>3, <2>5 DEF TriesOf, One
    <3>4. Somewhere(c) /\ c \notin Live => ~Unfinished(db[c])
      BY DEF TriesOf
    <3>5. CASE db[c].retries = urec.retries + 1
      <4>1. Unfinished(db'[c]) => Unfinished(db[c])
        BY <1>n, <2>1, <3>1, <3>5 DEF Unfinished
      <4>2. Active(c)' => Active(c)
        BY <2>3, <2>4, <4>1 DEF Active
      <4> QED BY <1>n, <2>1, <2>3, <2>4, <3>1, <3>2, <3>3, <3>4, <3>5, <4>1, <4>2
              DEF TriesOf, One
    <3>6. CASE urec.retries = 0 /\ ~Queued(c) /\ c \notin Live
      <4>1. ~Active(c)'
        BY <2>3, <3>1, <3>2, <3>6 DEF Active, SavingOK, Somewhere, Unfinished
      <4> QED BY <1>n, <2>1, <2>3, <2>4, <3>1, <3>2, <3>6, <4>1
              DEF TriesOf, Active
    <3> QED BY <3>2, <3>5, <3>6 DEF SavingOK
  <2>6. CASE c # uid
    <3>1. db'[c] = db[c]
      BY <1>0, <2>1, <2>6
    <3>2. Untold(c) => Untold(c)'
      BY <2>3, <2>6 DEF Untold
    <3> QED BY <2>1, <2>3, <2>4, <2>6, <3>1, <3>2, SteadyTries DEF Steady, RowKept
  <2> QED BY <2>5, <2>6
<1> QED BY <1>1, <1>2, <1>3, <1>4, <1>5, <1>6 DEF UpdateStep

-----------------------------------------------------------------------------
(* Tries: the workers, and the end of the process *)

LEMMA WorkerTries ==
  ASSUME TypeInv, PlacesInv, TypeInv', PlacesInv',
         NEW c \in Callback, TriesOf(c), Running, NEW w \in Worker, WorkerStep(w)
  PROVE  TriesOf(c)'
<1>0. /\ sentQ \in Seq(Callback)
      /\ pendingQ \in Seq(Callback \cup {MsgExit})
      /\ worker \in [Worker -> Callback \cup {Idle, Gone}]
      /\ posts \in [Callback -> Nat]
  BY DEF TypeInv, TypeOK, Pool!TypeOK
<1>n. /\ db[c] # Missing => db[c].retries \in Nat
      /\ posts[c] \in Nat /\ restarts \in Nat
  BY TriesTypes
<1> USE DEF managerVars, dispatchVars, updateVars, flaskVars
<1>1. CASE StartPost(w)
  <2>0. PICK d \in Callback : pendingQ # << >> /\ d = Head(pendingQ)
    BY <1>0, <1>1, QueueTail DEF StartPost, Pool!GetJob, Pool!IsExit
  <2>1. /\ worker[w] = Idle /\ worker' = [worker EXCEPT ![w] = d]
        /\ pendingQ' = Tail(pendingQ) /\ posts' = [posts EXCEPT ![d] = @ + 1]
        /\ UNCHANGED <<db, restarts, retryQ, sentQ, callbacks, uid, urec, dpc, did,
                       recovered>>
    BY <1>1, <2>0 DEF StartPost, Pool!GetJob, Pool!Taken
  <2>2. Range(pendingQ) = {d} \cup Range(pendingQ')
    BY <1>0, <2>0, <2>1, QueueTail
  <2>3. Sending(c)' <=> Sending(c) \/ c = d
    BY <1>0, <2>1 DEF Sending
  <2>4. /\ Queued(c)' <=> Queued(c)
        /\ InHand(c)' <=> InHand(c)
        /\ Pending(c) <=> Pending(c)' \/ c = d
        /\ Sent(c)' <=> Sent(c)
        /\ Saving(c)' <=> Saving(c)
        /\ Entering(c)' <=> Entering(c)
        /\ c \in Live' <=> c \in Live
        /\ Running'
    BY <2>1, <2>2 DEF Queued, InHand, Pending, Sent, Saving, Entering, Live, Running
  <2>5. Somewhere(c)' <=> Somewhere(c)
    BY <2>3, <2>4 DEF Somewhere
  <2>6. CASE c = d
    <3>1. Pending(c) /\ Somewhere(c) /\ db[c] # Missing
      BY <2>4, <2>6 DEF Somewhere, PlacesInv
    <3>2. ~Sending(c) /\ ~Sent(c) /\ ~Saving(c) /\ ~Untold(c) /\ Untold(c)'
      BY <2>3, <2>6, <3>1 DEF PlacesInv, OnePlace, TriesOf, SavingOK, Untold
    <3>3. posts'[c] = posts[c] + 1
      BY <1>0, <2>1, <2>6
    <3>4. posts[c] + db[c].retries <= Retries + 1 + restarts
      BY <1>n, <3>1, <3>2 DEF TriesOf, Active, One
    <3>5. /\ posts'[c] + db'[c].retries <= Retries + 1 + restarts' + One(Untold(c))'
          /\ posts'[c] <= Retries + 2 + restarts'
      BY <1>n, <2>1, <3>1, <3>2, <3>3, <3>4 DEF One
    <3>6. c \in Live => db[c].retries = callbacks[c].retries + One(Saving(c))'
      BY <2>4 DEF TriesOf, One
    <3> QED BY <2>1, <2>4, <2>5, <3>1, <3>2, <3>5, <3>6 DEF TriesOf
  <2>7. CASE c # d
    <3>1. posts'[c] = posts[c]
      BY <1>0, <2>1, <2>7
    <3>2. Saving(c) => ~Pending(c) /\ ~Sending(c) /\ ~Sent(c)
                       /\ dpc \notin {"recover", "reload"}
      BY DEF TriesOf, SavingOK
    <3>3. Untold(c) => Untold(c)'
      BY <2>3, <2>4 DEF Untold
    <3> QED BY <2>1, <2>3, <2>4, <2>5, <2>7, <3>1, <3>2, <3>3, SameRowKept, SteadyTries
            DEF Steady
  <2> QED BY <2>6, <2>7
<1>2. CASE EndPost(w)
  <2>1. /\ worker[w] \in Callback /\ worker' = [worker EXCEPT ![w] = Idle]
        /\ sentQ' = Append(sentQ, worker[w])
        /\ UNCHANGED <<db, posts, restarts, retryQ, pendingQ, callbacks, uid, urec, dpc,
                       did, recovered>>
    BY <1>2 DEF EndPost, Pool!FinishJob
  <2>2. Range(sentQ') = Range(sentQ) \cup {worker[w]}
    BY <1>0, <2>1, QueueAppend
  <2>3. Sending(c) <=> Sending(c)' \/ c = worker[w]
    <3>1. \A x \in Worker : worker[x] = worker[w] => x = w
      BY <2>1 DEF PlacesInv, OnePlace
    <3> QED BY <1>0, <2>1, <3>1 DEF Sending
  <2>4. /\ Queued(c)' <=> Queued(c)
        /\ InHand(c)' <=> InHand(c)
        /\ Pending(c)' <=> Pending(c)
        /\ Sent(c)' <=> Sent(c) \/ c = worker[w]
        /\ Saving(c)' <=> Saving(c)
        /\ Entering(c)' <=> Entering(c)
        /\ c \in Live' <=> c \in Live
        /\ Running'
    BY <2>1, <2>2 DEF Queued, InHand, Pending, Sent, Saving, Entering, Live, Running
  <2>5. (Somewhere(c)' => Somewhere(c)) /\ (Untold(c) => Untold(c)')
    BY <2>3, <2>4 DEF Somewhere, Untold
  <2>6. Saving(c) => ~Pending(c) /\ ~Sending(c) /\ ~Sent(c)
                     /\ dpc \notin {"recover", "reload"}
    BY DEF TriesOf, SavingOK
  <2> QED BY <2>1, <2>3, <2>4, <2>5, <2>6, SameRowKept, SteadyTries DEF Steady
<1>3. CASE EndWorker(w)
  <2>1. /\ worker' = [worker EXCEPT ![w] = Gone] /\ worker[w] = Idle
        /\ pendingQ # << >> /\ pendingQ' = Tail(pendingQ)
        /\ UNCHANGED <<db, posts, restarts, retryQ, sentQ, callbacks, uid, urec, dpc, did,
                       recovered>>
    BY <1>3 DEF EndWorker, Pool!GetExit, Pool!Taken
  <2>2. Pending(c)' => Pending(c)
    BY <1>0, <2>1, QueueTail DEF Pending
  <2>3. Sending(c)' <=> Sending(c)
    BY <1>0, <2>1 DEF Sending
  <2>4. (Entering(c)' <=> Entering(c)) /\ (Running' <=> Running)
    BY <2>1 DEF Entering, Running
  <2> QED BY <2>1, <2>2, <2>3, <2>4, SameRowKept, SteadyFrame, SteadyTries
<1> QED BY <1>1, <1>2, <1>3 DEF WorkerStep

(* A crash loses at most the one POST that is not counted yet; a restart   *)
(* allows for it.                                                          *)
LEMMA CrashTries ==
  ASSUME TypeInv, NEW c \in Callback, TriesOf(c), TaskDies \/ Restart
  PROVE  TriesOf(c)'
<1>n. /\ db[c] # Missing => db[c].retries \in Nat
      /\ posts[c] \in Nat /\ restarts \in Nat
  BY TriesTypes
<1>1. /\ UNCHANGED <<db, posts>>
      /\ retryQ' = << >> /\ sentQ' = << >> /\ pendingQ' = << >> /\ uid' = NoCallback
      /\ worker' = IdleWorkers /\ callbacks' = NoRecords /\ recovered' = {}
      /\ did' = NoCallback /\ dpc' \in {"dead", "recover"}
  BY DEF TaskDies, Restart, ForgetMemory
<1>2. /\ ~Queued(c)' /\ ~InHand(c)' /\ ~Pending(c)' /\ ~Sending(c)' /\ ~Sent(c)'
      /\ c \notin Live' /\ ~Saving(c)' /\ ~Entering(c)'
  BY <1>1, QueueEmpty
     DEF Queued, InHand, Pending, Sending, Sent, Live, Saving, Entering, IdleWorkers,
         NoRecords
<1>3. ~Somewhere(c)' /\ (Active(c)' => Active(c))
  BY <1>1, <1>2 DEF Somewhere, Active
<1>4. restarts' \in Nat /\ restarts <= restarts'
      /\ restarts + One(Untold(c)) <= restarts' + One(Untold(c))'
  <2>1. CASE TaskDies
    <3>1. Untold(c)' /\ restarts' = restarts
      BY <2>1 DEF TaskDies, flaskVars, Untold, Running
    <3> QED BY <1>n, <3>1 DEF One
  <2>2. CASE Restart
    <3>1. restarts' = restarts + 1
      BY <2>2 DEF Restart
    <3> QED BY <1>n, <3>1 DEF One
  <2> QED BY <2>1, <2>2
<1>5. Active(c)' /\ db'[c] # Missing =>
        posts'[c] + db'[c].retries <= Retries + 1 + restarts' + One(Untold(c))'
  <2>1. One(Untold(c)) \in Nat /\ One(Untold(c))' \in Nat
    BY DEF One
  <2> QED BY <1>n, <1>1, <1>3, <1>4, <2>1 DEF TriesOf
<1>6. posts'[c] <= Retries + 2 + restarts'
  BY <1>n, <1>1, <1>4 DEF TriesOf
<1> QED BY <1>1, <1>2, <1>3, <1>5, <1>6 DEF TriesOf

-----------------------------------------------------------------------------
(* Tries: what follows *)

LEMMA TriesStep ==
  TypeInv /\ CommandsInv /\ PlacesInv /\ TypeInv' /\ PlacesInv' /\ TriesInv /\ [Next]_vars
    => TriesInv'
<1> SUFFICES ASSUME TypeInv, CommandsInv, PlacesInv, TypeInv', PlacesInv', TriesInv,
                    [Next]_vars, NEW c \in Callback
             PROVE  TriesOf(c)'
  BY DEF TriesInv
<1>0. TriesOf(c)
  BY DEF TriesInv
<1>1. CASE FlaskStep
  BY <1>0, <1>1, FlaskTries, SteadyTries
<1>2. CASE DispatchStep
  BY <1>0, <1>2, DispatchTries
<1>3. CASE Running /\ UpdateStep
  BY <1>0, <1>3, UpdateTries
<1>4. ASSUME NEW w \in Worker, Running, WorkerStep(w) PROVE TriesOf(c)'
  BY <1>0, <1>4, WorkerTries
<1>5. CASE Tick
  BY <1>0, <1>5, TickTries, SteadyTries
<1>6. CASE TaskDies \/ Restart
  BY <1>0, <1>6, CrashTries
<1>7. CASE UNCHANGED vars
  <2>1. UNCHANGED <<db, posts, restarts, callbacks, retryQ, sentQ, pendingQ, worker, uid,
                    urec, dpc, did, recovered>>
    BY <1>7 DEF vars, flaskVars, managerVars, dispatchVars, updateVars, poolVars
  <2> QED BY <1>0, <2>1, SameRowKept, SteadyIdle, SteadyTries
<1> QED BY <1>1, <1>2, <1>3, <1>4, <1>5, <1>6, <1>7 DEF Next

LEMMA TriesHold == Spec => []TriesInv
<1>1. Init => TriesInv
  <2> SUFFICES ASSUME Init, NEW c \in Callback PROVE TriesOf(c)
    BY DEF TriesInv
  <2>1. /\ db[c] = Missing /\ posts[c] = 0 /\ restarts = 0 /\ c \notin Live
        /\ ~Somewhere(c) /\ ~Saving(c)
    BY QueueEmpty
       DEF Init, Live, Somewhere, Queued, InHand, Pending, Sending, Sent, Saving,
           IdleWorkers, NoRecords
  <2> QED BY <2>1 DEF TriesOf
<1> QED BY <1>1, TriesStep, PlacesHold, PTL DEF Spec

(* What a restart would recover of a live callback is at most one try      *)
(* behind the table, the one the update thread is about to save.           *)
THEOREM RowFollows == Spec => []RowFollowsRecord
<1>1. TypeInv /\ TriesInv => RowFollowsRecord
  BY TriesTypes DEF TriesInv, TriesOf, One, Saving, RowFollowsRecord, Live
<1> QED BY <1>1, TriesHold, PlacesHold, PTL

(* However often the process is killed between a POST and the save that    *)
(* counts it, and however the threads interleave, a callback is POSTed at  *)
(* most Retries + 2 times and once more per restart.                       *)
THEOREM PostsAreBounded == Spec => []AttemptBound
<1>1. TriesInv => AttemptBound
  BY DEF TriesInv, TriesOf, AttemptBound
<1> QED BY <1>1, TriesHold, PTL

-----------------------------------------------------------------------------
(* Acknowledgements *)

(* The process delivers c, or is about to, and the database has it down as *)
(* acknowledged.                                                           *)
Delivering(c) == Running /\ (c \in Live \/ Entering(c))
RowAcked(c) == db[c] # Missing /\ db[c].acked

Ack(c) == Command("ACK_CALLBACK", c)

AckOnWay(c) == patching = c \/ Ack(c) \in Range(inputQ)

(* The inductive invariant: an ACK_CALLBACK is used up by dropping the     *)
(* record.                                                                 *)
AckInv ==
  /\ \A c \in Callback : Delivering(c) /\ RowAcked(c) => AckOnWay(c)
  /\ dpc = "ack" => did \notin Live

(* A step that takes nothing up and acknowledges nothing. *)
LEMMA AckFrame ==
  ASSUME AckInv, RowsStay,
         \A c \in Callback : Delivering(c)' => Delivering(c),
         \A c \in Callback : c \in Live' => c \in Live,
         \A c \in Callback : Delivering(c)' /\ AckOnWay(c) => AckOnWay(c)',
         dpc' = "ack" => dpc = "ack" /\ did' = did /\ did \in Callback
  PROVE  AckInv'
BY DEF AckInv, RowsStay, RowAcked

(* When the table, the dispatch thread and the commands are left alone. *)
LEMMA AckIdle ==
  ASSUME TypeInv, AckInv, RowsStay, \A c \in Callback : c \in Live' => c \in Live,
         UNCHANGED <<patching, dpc, did, recovered>>,
         Range(inputQ) \subseteq Range(inputQ')
  PROVE  AckInv'
<1>1. \A c \in Callback : /\ Delivering(c)' => Delivering(c)
                          /\ AckOnWay(c) => AckOnWay(c)'
  BY DEF Delivering, Entering, Running, AckOnWay, Ack, Command
<1>2. dpc = "ack" => did \in Callback
  BY DEF TypeInv, HandsOK
<1> QED BY <1>1, <1>2, AckFrame

LEMMA AckFlask == TypeInv /\ AckInv /\ FlaskStep => AckInv'
<1> SUFFICES ASSUME TypeInv, AckInv, FlaskStep PROVE AckInv'
  OBVIOUS
<1>0. /\ UNCHANGED <<callbacks, dpc, did, recovered>>
      /\ inputQ \in Seq(CommandSet) /\ db \in [Callback -> Row \cup {Missing}]
  BY DEF FlaskStep, NewCallback, PatchCallback, SendAck, CloseTask, managerVars,
         dispatchVars, TypeInv, TypeOK
<1>1. \A c \in Callback : (c \in Live' <=> c \in Live) /\ (Delivering(c)' <=> Delivering(c))
  BY <1>0 DEF Live, Delivering, Entering, Running
<1>2. ASSUME NEW m \in CommandSet, Put(m)
      PROVE  Range(inputQ') = Range(inputQ) \cup {m}
  BY <1>0, <1>2, QueueAppend DEF Put
<1>3. ASSUME NEW c \in Callback, NewCallback(c) PROVE AckInv'
  <2>1. Command("NEW_CALLBACK", c) \in CommandSet
    BY DEF Command, CommandSet
  <2> QED BY <1>0, <1>1, <1>2, <1>3, <2>1, AckIdle, SameRowsStay DEF NewCallback
<1>4. CASE CloseTask
  <2>1. Command("EXIT_TASK", NoCallback) \in CommandSet
    BY DEF Command, CommandSet
  <2> QED BY <1>0, <1>1, <1>2, <1>4, <2>1, AckIdle, SameRowsStay DEF CloseTask
<1>5. CASE SendAck
  <2>1. patching \in Callback /\ Ack(patching) \in CommandSet
    BY <1>5 DEF SendAck, Ack, Command, CommandSet, TypeInv, TypeOK
  <2>2. Range(inputQ') = Range(inputQ) \cup {Ack(patching)}
    BY <1>2, <1>5, <2>1 DEF SendAck, Ack
  <2>3. \A c \in Callback : AckOnWay(c) => AckOnWay(c)'
    BY <2>2 DEF AckOnWay, Ack, Command
  <2>4. dpc = "ack" => did \in Callback
    BY DEF TypeInv, HandsOK
  <2>5. RowsStay
    BY <1>5, SameRowsStay DEF SendAck
  <2> QED BY <1>0, <1>1, <2>3, <2>4, <2>5, AckFrame
<1>6. ASSUME NEW c \in Callback, PatchCallback(c) PROVE AckInv'
  <2>1. /\ patching = NoCallback /\ patching' = c /\ inputQ' = inputQ
        /\ \A d \in Callback : d # c => db'[d] = db[d]
    BY <1>0, <1>6 DEF PatchCallback
  <2>2. \A d \in Callback : RowAcked(d)' /\ d # c => RowAcked(d)
    BY <2>1 DEF RowAcked
  <2>3. \A d \in Callback : AckOnWay(d) \/ d = c => AckOnWay(d)'
    BY <2>1 DEF AckOnWay, Ack, Command
  <2>4. dpc = "ack" => did \in Callback
    BY DEF TypeInv, HandsOK
  <2> QED BY <1>0, <1>1, <2>2, <2>3, <2>4 DEF AckInv
<1> QED BY <1>3, <1>4, <1>5, <1>6 DEF FlaskStep

(* Taking a command leaves every ACK_CALLBACK but the one taken. *)
LEMMA AcksStay ==
  ASSUME TypeInv, NEW cmd, GetCommand(cmd)
  PROVE  \A c \in Callback :
           AckOnWay(c) /\ ~(cmd = "ACK_CALLBACK" /\ Head(inputQ).id = c) => AckOnWay(c)'
<1>1. Range(inputQ) = {Head(inputQ)} \cup Range(inputQ') /\ patching' = patching
      /\ Head(inputQ).cmd = cmd
  BY CommandTaken DEF TypeInv, GetCommand
<1>2. \A c \in Callback : Ack(c).cmd = "ACK_CALLBACK" /\ Ack(c).id = c /\ Ack(c)' = Ack(c)
  BY DEF Ack, Command
<1> QED BY <1>1, <1>2 DEF AckOnWay

LEMMA AckDispatch ==
  TypeInv /\ PlacesInv /\ AckInv /\ DispatchStep => AckInv'
<1> SUFFICES ASSUME TypeInv, PlacesInv, AckInv, DispatchStep PROVE AckInv'
  OBVIOUS
<1>0. /\ db \in [Callback -> Row \cup {Missing}]
      /\ callbacks \in [Callback -> Record \cup {Missing}]
      /\ dpc # "reload" => recovered = {}
  BY DEF TypeInv, TypeOK, PlacesInv
<1> USE DEF managerVars, dispatchVars, flaskVars
<1>1. CASE ReadPending
  <2>1. /\ UNCHANGED <<db, patching, inputQ, callbacks>> /\ dpc = "recover"
        /\ dpc' = "reload" /\ recovered' = {c \in Callback : Unfinished(db[c])}
    BY <1>1 DEF ReadPending
  <2>2. \A c \in Callback : c \in Live' <=> c \in Live
    BY <2>1 DEF Live
  <2>3. \A c \in Callback : c \notin Live
    BY <2>1 DEF PlacesInv
  <2>4. \A c \in Callback : Entering(c)' => ~RowAcked(c)'
    BY <2>1 DEF Entering, Unfinished, RowAcked
  <2> QED BY <2>1, <2>2, <2>3, <2>4 DEF AckInv, Delivering
<1>2. CASE AddPending
  <2>1. /\ UNCHANGED <<db, patching, inputQ>> /\ dpc = "reload" /\ dpc' = "idle"
        /\ recovered' = {}
        /\ \A c \in Callback : c \notin recovered => callbacks'[c] = callbacks[c]
    BY <1>2 DEF AddPending
  <2>2. \A c \in Callback : Delivering(c)' => Delivering(c)
    BY <2>1 DEF Delivering, Entering, Live, Running
  <2>3. \A c \in Callback : /\ RowAcked(c)' <=> RowAcked(c)
                            /\ AckOnWay(c)' <=> AckOnWay(c)
    BY <2>1 DEF RowAcked, AckOnWay, Ack, Command
  <2> QED BY <2>1, <2>2, <2>3 DEF AckInv
<1>3. CASE InsertRow
  <2>1. /\ did' \in Callback /\ db' = [db EXCEPT ![did'] = NewRow] /\ dpc = "idle"
        /\ dpc' = "new" /\ UNCHANGED <<callbacks, recovered>> /\ GetCommand("NEW_CALLBACK")
        /\ Head(inputQ).cmd = "NEW_CALLBACK"
    BY <1>3, CommandTaken DEF InsertRow, GetCommand, TypeInv
  <2>2. \A c \in Callback : RowAcked(c)' => c # did' /\ RowAcked(c)
    BY <1>0, <2>1, NewRowType DEF RowAcked
  <2>3. \A c \in Callback : c # did' /\ Delivering(c)' => Delivering(c)
    BY <1>0, <2>1 DEF Delivering, Entering, Live, Running
  <2>4. \A c \in Callback : AckOnWay(c) => AckOnWay(c)'
    BY <2>1, AcksStay
  <2> QED BY <2>1, <2>2, <2>3, <2>4 DEF AckInv
<1>4. CASE AddCallback
  <2>1. /\ UNCHANGED <<db, patching, inputQ, recovered>> /\ dpc = "new" /\ dpc' = "idle"
        /\ did \in Callback /\ did' = NoCallback
        /\ \A c \in Callback : c # did => callbacks'[c] = callbacks[c]
    BY <1>0, <1>4 DEF AddCallback, TypeInv, HandsOK
  <2>2. \A c \in Callback : Delivering(c)' => Delivering(c)
    BY <2>1 DEF Delivering, Entering, Live, Running
  <2>3. \A c \in Callback : /\ RowAcked(c)' <=> RowAcked(c)
                            /\ AckOnWay(c)' <=> AckOnWay(c)
    BY <2>1 DEF RowAcked, AckOnWay, Ack, Command
  <2> QED BY <2>1, <2>2, <2>3 DEF AckInv
<1>5. CASE DropRecord
  <2> DEFINE d == Head(inputQ).id
  <2>1. /\ d \in Callback /\ callbacks' = DropFrom(callbacks, d) /\ dpc = "idle"
        /\ dpc' \in {"idle", "ack"} /\ (dpc' = "ack" => did' = d)
        /\ UNCHANGED <<db, recovered>> /\ GetCommand("ACK_CALLBACK")
    BY <1>5, CommandTaken DEF DropRecord, GetCommand, TypeInv
  <2>2. d \notin Live' /\ \A c \in Callback : c \in Live' => c \in Live
    BY <1>0, <2>1 DEF DropFrom, Live
  <2>3. \A c \in Callback : Delivering(c)' => Delivering(c) /\ c # d
    BY <1>0, <2>1, <2>2 DEF Delivering, Entering, Running
  <2>4. \A c \in Callback : c # d /\ AckOnWay(c) => AckOnWay(c)'
    BY <2>1, AcksStay
  <2>5. \A c \in Callback : RowAcked(c)' <=> RowAcked(c)
    BY <2>1 DEF RowAcked
  <2> QED BY <2>1, <2>2, <2>3, <2>4, <2>5 DEF AckInv
<1>6. CASE SaveAck
  <2>1. /\ UNCHANGED <<patching, inputQ, callbacks, recovered>> /\ dpc = "ack"
        /\ dpc' = "idle" /\ did \in Callback
        /\ \A c \in Callback : c # did => db'[c] = db[c]
    BY <1>0, <1>6 DEF SaveAck, TypeInv, HandsOK
  <2>2. \A c \in Callback : /\ c # did /\ RowAcked(c)' => RowAcked(c)
                            /\ AckOnWay(c)' <=> AckOnWay(c)
    BY <2>1 DEF RowAcked, AckOnWay, Ack, Command
  <2>3. \A c \in Callback : Delivering(c)' => Delivering(c) /\ c # did
    BY <1>0, <2>1 DEF Delivering, Entering, Live, Running, AckInv
  <2> QED BY <2>1, <2>2, <2>3 DEF AckInv
<1>7. CASE GetExitTask
  <2>1. /\ UNCHANGED <<db, callbacks, did, recovered>> /\ dpc = "idle" /\ dpc' = "closing"
        /\ GetCommand("EXIT_TASK") /\ Head(inputQ).cmd = "EXIT_TASK"
    BY <1>7 DEF GetExitTask, GetCommand
  <2>2. \A c \in Callback : /\ Delivering(c)' => Delivering(c)
                            /\ RowAcked(c)' <=> RowAcked(c)
    BY <2>1 DEF Delivering, Entering, Live, Running, RowAcked
  <2>3. \A c \in Callback : AckOnWay(c) => AckOnWay(c)'
    BY <2>1, AcksStay
  <2> QED BY <2>1, <2>2, <2>3 DEF AckInv
<1>8. CASE ClosePool \/ SetCloseFlag \/ JoinUpdate
  <2>1. /\ UNCHANGED <<db, patching, inputQ, callbacks, did, recovered>>
        /\ dpc \in {"closing", "join"} /\ dpc' \in {"closing", "join", "exited"}
    BY <1>8 DEF ClosePool, SetCloseFlag, JoinUpdate
  <2>2. \A c \in Callback : /\ AckOnWay(c)' <=> AckOnWay(c)
                            /\ Delivering(c)' => Delivering(c)
                            /\ RowAcked(c)' <=> RowAcked(c)
    BY <2>1 DEF AckOnWay, Ack, Command, Delivering, Entering, Live, Running, RowAcked
  <2> QED BY <2>1, <2>2 DEF AckInv
<1> QED
  BY <1>1, <1>2, <1>3, <1>4, <1>5, <1>6, <1>7, <1>8 DEF DispatchStep

LEMMA AckUpdate == TypeInv /\ AckInv /\ UpdateStep => AckInv'
<1> SUFFICES ASSUME TypeInv, AckInv, UpdateStep PROVE AckInv'
  OBVIOUS
<1>1. UNCHANGED <<patching, inputQ, dpc, did, recovered>>
  BY DEF UpdateStep, UpdateFrame, CheckClose, TakeReady, NoneReady, LoadRequest,
         UpdateDies, BeginAddJob, RefuseJob, AddJob, JobQueueFull, GiveBack,
         NothingSent, DiscardSent, Requeue, GiveUp, SaveRecord, flaskVars, dispatchVars
<1>2. \A c \in Callback : c \in Live' => c \in Live
  <2>1. CASE Requeue \/ GiveUp
    BY <2>1 DEF Requeue, GiveUp, Live, TypeInv, TypeOK
  <2>2. CASE callbacks' = callbacks
    BY <2>2 DEF Live
  <2> QED
    BY <2>1, <2>2 DEF UpdateStep, UpdateFrame, CheckClose, TakeReady, NoneReady,
       LoadRequest, UpdateDies, BeginAddJob, RefuseJob, AddJob, JobQueueFull, GiveBack,
       NothingSent, DiscardSent, SaveRecord, managerVars
<1>3. RowsStay
  <2>1. CASE SaveRecord
    <3>1. /\ uid \in Callback /\ urec \in Record /\ db[uid] \in Row
          /\ db' = [db EXCEPT ![uid] = SavedRow(db[uid], urec)]
      BY <2>1 DEF SaveRecord, TypeInv, TypeOK, HandsOK
    <3>2. /\ SavedRow(db[uid], urec) # Missing
          /\ SavedRow(db[uid], urec).acked = db[uid].acked
      BY <3>1, SavedRowType DEF SavedRow, Row
    <3> QED BY <3>1, <3>2 DEF RowsStay, TypeInv, TypeOK
  <2>2. CASE db' = db
    BY <2>2, SameRowsStay
  <2> QED
    BY <2>1, <2>2 DEF UpdateStep, UpdateFrame, CheckClose, TakeReady, NoneReady,
       LoadRequest, UpdateDies, BeginAddJob, RefuseJob, AddJob, JobQueueFull, GiveBack,
       NothingSent, DiscardSent, Requeue, GiveUp
<1> QED BY <1>1, <1>2, <1>3, AckIdle

LEMMA AckStep == TypeInv /\ PlacesInv /\ AckInv /\ [Next]_vars => AckInv'
<1> SUFFICES ASSUME TypeInv, PlacesInv, AckInv, [Next]_vars PROVE AckInv'
  OBVIOUS
<1>1. CASE UNCHANGED vars \/ \E w \in Worker : WorkerStep(w)
  <2>1. UNCHANGED <<db, patching, inputQ, callbacks, dpc, did, recovered>>
    BY <1>1 DEF vars, WorkerStep, StartPost, EndPost, EndWorker, flaskVars, managerVars,
                dispatchVars
  <2> QED BY <2>1, AckIdle, SameRowsStay DEF Live
<1>2. CASE Tick
  <2>1. UNCHANGED <<patching, inputQ, dpc, did, recovered>>
    BY <1>2 DEF Tick, flaskVars, dispatchVars
  <2>2. /\ db \in [Callback -> Row \cup {Missing}]
        /\ callbacks \in [Callback -> Record \cup {Missing}]
    BY DEF TypeInv, TypeOK
  <2>3. \A row \in Row : [row EXCEPT !.age = Older(row.age)].acked = row.acked
    BY DEF Row
  <2>4. RowsStay /\ \A c \in Callback : c \in Live' => c \in Live
    BY <1>2, <2>2, <2>3, OlderTypes DEF Tick, RowsStay, Live
  <2> QED BY <2>1, <2>4, AckIdle
<1>3. CASE TaskDies \/ Restart
  <2>1. /\ callbacks' = NoRecords /\ recovered' = {} /\ dpc' \in {"dead", "recover"}
    BY <1>3 DEF TaskDies, Restart, ForgetMemory
  <2>2. \A c \in Callback : ~Delivering(c)'
    BY <2>1 DEF Delivering, Entering, Live, NoRecords
  <2> QED BY <2>1, <2>2 DEF AckInv
<1> QED BY <1>1, <1>2, <1>3, AckFlask, AckDispatch, AckUpdate DEF Next

(* An acknowledgement committed by a PATCH reaches the delivery process:   *)
(* however it interleaves with the insertion of the row, the recovery of   *)
(* the table and the dispatch loop, a callback that is acknowledged in the *)
(* database but still delivered has its ACK_CALLBACK on the way.           *)
THEOREM AcksReachTheTable == Spec => []AckIsOnItsWay
<1>1. Init => AckInv
  BY DEF Init, AckInv, Delivering, Entering, Live, NoRecords
<1>2. AckInv => AckIsOnItsWay
  BY DEF AckInv, AckIsOnItsWay, Delivering, RowAcked, Entering, AckOnWay, Ack
<1> QED BY <1>1, <1>2, AckStep, PlacesHold, PTL DEF Spec

-----------------------------------------------------------------------------
(* No live callback is lost *)

(* The inductive invariant: the queues are only purged once the pool has   *)
(* been told to close.                                                     *)
LiveInv ==
  /\ dpc = "closing" => poolFlag
  /\ ~poolFlag => \A c \in Live : Somewhere(c)

(* A step that takes no id off its way round without dropping it. *)
LEMMA LiveFrame ==
  ASSUME LiveInv, poolFlag' = poolFlag, dpc' = "closing" => dpc = "closing",
         \A c \in Callback : c \in Live' => c \in Live /\ (Somewhere(c) => Somewhere(c)')
  PROVE  LiveInv'
BY DEF LiveInv, Live

LEMMA LiveIdle ==
  ASSUME LiveInv,
         UNCHANGED <<retryQ, sentQ, pendingQ, worker, uid, urec, poolFlag>>,
         dpc' = "closing" => dpc = "closing",
         \A c \in Callback : c \in Live' => c \in Live
  PROVE  LiveInv'
<1>1. \A c \in Callback : Somewhere(c)' <=> Somewhere(c)
  BY DEF Somewhere, Queued, InHand, Pending, Sending, Sent
<1> QED BY <1>1, LiveFrame

LEMMA LiveDispatch == TypeInv /\ LiveInv /\ DispatchStep => LiveInv'
<1> SUFFICES ASSUME TypeInv, LiveInv, DispatchStep PROVE LiveInv'
  OBVIOUS
<1>0. /\ retryQ \in Seq(Callback) /\ recovered \subseteq Callback
      /\ callbacks \in [Callback -> Record \cup {Missing}]
  BY DEF TypeInv, TypeOK
<1> USE DEF managerVars, updateVars, poolVars
<1>1. CASE ReadPending \/ InsertRow \/ SaveAck \/ SetCloseFlag \/ JoinUpdate
  <2>1. /\ UNCHANGED <<retryQ, sentQ, pendingQ, worker, uid, urec, poolFlag, callbacks>>
        /\ dpc' # "closing"
    BY <1>1 DEF ReadPending, InsertRow, SaveAck, SetCloseFlag, JoinUpdate
  <2> QED BY <2>1, LiveIdle DEF Live
<1>2. CASE DropRecord
  <2>1. /\ UNCHANGED <<retryQ, sentQ, pendingQ, worker, uid, urec, poolFlag>>
        /\ dpc' # "closing" /\ callbacks' = DropFrom(callbacks, Head(inputQ).id)
    BY <1>2 DEF DropRecord, GetCommand
  <2>2. \A c \in Callback : c \in Live' => c \in Live
    BY <1>0, <2>1 DEF DropFrom, Live
  <2> QED BY <2>1, <2>2, LiveIdle
<1>3. CASE AddPending
  <2>1. /\ UNCHANGED <<sentQ, pendingQ, worker, uid, urec, poolFlag>> /\ dpc' = "idle"
        /\ \A c \in Callback : c \notin recovered => callbacks'[c] = callbacks[c]
    BY <1>3 DEF AddPending
  <2>2. PICK q \in OldestFirst(recovered) : retryQ' = retryQ \o q
    BY <1>3 DEF AddPending
  <2>3. Range(retryQ') = Range(retryQ) \cup recovered
    BY <1>0, <2>2, OldestFirstType, QueueConcat
  <2>4. \A c \in Callback : Somewhere(c) \/ c \in recovered => Somewhere(c)'
    BY <2>1, <2>3 DEF Somewhere, Queued, InHand, Pending, Sending, Sent
  <2> QED BY <2>1, <2>4 DEF LiveInv, Live
<1>4. CASE AddCallback
  <2>1. /\ UNCHANGED <<sentQ, pendingQ, worker, uid, urec, poolFlag>> /\ dpc' = "idle"
        /\ did \in Callback /\ retryQ' = <<did>> \o retryQ
        /\ \A c \in Callback : c # did => callbacks'[c] = callbacks[c]
    BY <1>0, <1>4 DEF AddCallback, TypeInv, HandsOK
  <2>2. Range(retryQ') = {did} \cup Range(retryQ)
    BY <1>0, <2>1, QueuePush
  <2>3. \A c \in Callback : Somewhere(c) \/ c = did => Somewhere(c)'
    BY <2>1, <2>2 DEF Somewhere, Queued, InHand, Pending, Sending, Sent
  <2> QED BY <2>1, <2>3 DEF LiveInv, Live
<1>5. CASE GetExitTask
  <2>1. poolFlag'
    BY <1>5 DEF GetExitTask, Pool!BeginClose
  <2> QED BY <2>1 DEF LiveInv
<1>6. CASE ClosePool
  <2>1. poolFlag' = poolFlag /\ dpc = "closing"
    BY <1>6 DEF ClosePool, Pool!CloserStep, Pool!PurgeOne, Pool!PurgeDone, Pool!PutExit,
                Pool!ExitsDone, Pool!Join
  <2> QED BY <2>1 DEF LiveInv
<1> QED BY <1>1, <1>2, <1>3, <1>4, <1>5, <1>6 DEF DispatchStep

LEMMA LiveUpdate == TypeInv /\ LiveInv /\ UpdateStep => LiveInv'
<1> SUFFICES ASSUME TypeInv, LiveInv, UpdateStep PROVE LiveInv'
  OBVIOUS
<1>0. /\ retryQ \in Seq(Callback) /\ sentQ \in Seq(Callback)
      /\ pendingQ \in Seq(Callback \cup {MsgExit})
      /\ callbacks \in [Callback -> Record \cup {Missing}]
      /\ adding["update"] = IF upc = "put" THEN uid ELSE NoCallback
      /\ upc \in {"load", "add", "put", "full"} => uid \in Callback /\ urec = Missing
      /\ upc = "save" => urec \in Record
      /\ upc \in {"check", "ready", "sent", "stopped"} => uid = NoCallback /\ urec = Missing
  BY DEF TypeInv, TypeOK, HandsOK, Pool!TypeOK
<1> USE DEF UpdateFrame, managerVars, dispatchVars, updateVars, poolVars
<1>1. CASE \/ CheckClose \/ NoneReady \/ LoadRequest \/ UpdateDies \/ BeginAddJob
           \/ RefuseJob \/ JobQueueFull \/ NothingSent
  <2>1. UNCHANGED <<retryQ, sentQ, pendingQ, worker, uid, urec, poolFlag, dpc, callbacks>>
    BY <1>1 DEF CheckClose, NoneReady, LoadRequest, UpdateDies, BeginAddJob, RefuseJob,
                JobQueueFull, NothingSent, Pool!CheckFlag, Pool!PutFull
  <2> QED BY <2>1, LiveIdle DEF Live
<1>2. CASE TakeReady
  <2>1. /\ retryQ # << >> /\ uid' = Head(retryQ) /\ retryQ' = Tail(retryQ)
        /\ urec = Missing /\ uid = NoCallback
        /\ UNCHANGED <<sentQ, pendingQ, worker, urec, poolFlag, dpc, callbacks>>
    BY <1>0, <1>2 DEF TakeReady, HeadIsDue, Popped
  <2>2. Range(retryQ) = {Head(retryQ)} \cup Range(retryQ')
    BY <1>0, <2>1, QueueTail
  <2>3. \A c \in Callback : Somewhere(c) => Somewhere(c)'
    BY <2>1, <2>2 DEF Somewhere, Queued, InHand, Pending, Sending, Sent
  <2> QED BY <2>1, <2>3, LiveFrame DEF Live
<1>3. CASE AddJob
  <2>1. /\ uid \in Callback /\ pendingQ' = Append(pendingQ, uid)
        /\ UNCHANGED <<retryQ, sentQ, worker, urec, poolFlag, dpc, callbacks>>
    BY <1>0, <1>3 DEF AddJob, Pool!PutJob
  <2>2. Range(pendingQ') = Range(pendingQ) \cup {uid}
    BY <1>0, <2>1, QueueAppend
  <2>3. \A c \in Callback : Somewhere(c) => Somewhere(c)'
    BY <2>1, <2>2 DEF Somewhere, Queued, InHand, Pending, Sending, Sent
  <2> QED BY <2>1, <2>3, LiveFrame DEF Live
<1>4. CASE GiveBack
  <2>1. /\ uid \in Callback /\ retryQ' = <<uid>> \o retryQ
        /\ UNCHANGED <<pendingQ, sentQ, worker, urec, poolFlag, dpc, callbacks>>
    BY <1>0, <1>4 DEF GiveBack, GivenBack
  <2>2. Range(retryQ') = {uid} \cup Range(retryQ)
    BY <1>0, <2>1, QueuePush
  <2>3. \A c \in Callback : Somewhere(c) => Somewhere(c)'
    BY <2>1, <2>2 DEF Somewhere, Queued, InHand, Pending, Sending, Sent
  <2> QED BY <2>1, <2>3, LiveFrame DEF Live
<1>5. CASE DiscardSent \/ Requeue \/ GiveUp
  <2>1. /\ sentQ # << >> /\ sentQ' = Tail(sentQ) /\ uid = NoCallback
        /\ UNCHANGED <<pendingQ, worker, poolFlag, dpc>>
    BY <1>0, <1>5 DEF DiscardSent, Requeue, GiveUp
  <2>2. Range(sentQ) = {Head(sentQ)} \cup Range(sentQ') /\ Head(sentQ) \in Callback
    BY <1>0, <2>1, QueueTail
  <2>3. /\ \A c \in Live' : c = Head(sentQ) => c \in Range(retryQ')
        /\ Range(retryQ) \subseteq Range(retryQ')
        /\ \A c \in Callback : c \in Live' => c \in Live
    <3>1. CASE DiscardSent
      BY <3>1 DEF DiscardSent, Live
    <3>2. CASE Requeue
      <4>1. /\ retryQ' = Append(retryQ, Head(sentQ)) /\ Head(sentQ) \in Live
            /\ \A c \in Callback : c # Head(sentQ) => callbacks'[c] = callbacks[c]
        BY <1>0, <3>2 DEF Requeue, AtBack
      <4> QED BY <1>0, <2>2, <4>1, QueueAppend DEF Live
    <3>3. CASE GiveUp
      BY <1>0, <2>2, <3>3 DEF GiveUp, Live
    <3> QED BY <1>5, <3>1, <3>2, <3>3
  <2>4. \A c \in Callback : Somewhere(c) /\ c # Head(sentQ) => Somewhere(c)'
    BY <2>1, <2>2, <2>3 DEF Somewhere, Queued, InHand, Pending, Sending, Sent
  <2>5. \A c \in Callback : c = Head(sentQ) /\ c \in Live' => Somewhere(c)'
    BY <2>3 DEF Somewhere, Queued
  <2> QED BY <2>1, <2>3, <2>4, <2>5 DEF LiveInv, Live
<1>6. CASE SaveRecord
  <2>1. /\ UNCHANGED <<retryQ, sentQ, pendingQ, worker, poolFlag, dpc, callbacks>>
        /\ urec # Missing
    BY <1>0, <1>6 DEF SaveRecord
  <2>2. \A c \in Callback : Somewhere(c) => Somewhere(c)'
    BY <2>1 DEF Somewhere, Queued, InHand, Pending, Sending, Sent
  <2> QED BY <2>1, <2>2, LiveFrame DEF Live
<1> QED BY <1>1, <1>2, <1>3, <1>4, <1>5, <1>6 DEF UpdateStep

LEMMA LiveWorker ==
  ASSUME TypeInv, LiveInv, NEW w \in Worker, WorkerStep(w) PROVE LiveInv'
<1>0. /\ sentQ \in Seq(Callback)
      /\ pendingQ \in Seq(Callback \cup {MsgExit})
      /\ worker \in [Worker -> Callback \cup {Idle, Gone}]
  BY DEF TypeInv, TypeOK, Pool!TypeOK
<1>1. /\ UNCHANGED <<retryQ, callbacks, uid, urec, poolFlag, dpc>>
  BY DEF WorkerStep, StartPost, EndPost, EndWorker, Pool!GetJob, Pool!FinishJob,
         Pool!GetExit, managerVars, dispatchVars, updateVars
<1>2. ASSUME NEW c \in Callback, Somewhere(c) PROVE Somewhere(c)'
  <2>1. CASE StartPost(w)
    <3>1. /\ worker[w] = Idle /\ worker' = [worker EXCEPT ![w] = Head(pendingQ)]
          /\ pendingQ # << >> /\ pendingQ' = Tail(pendingQ) /\ sentQ' = sentQ
      BY <2>1 DEF StartPost, Pool!GetJob, Pool!Taken, managerVars
    <3>2. Pending(c) => Pending(c)' \/ c = Head(pendingQ)
      BY <1>0, <3>1, QueueTail DEF Pending
    <3>3. Sending(c) \/ c = Head(pendingQ) => Sending(c)'
      BY <1>0, <3>1 DEF Sending
    <3> QED BY <1>1, <1>2, <3>1, <3>2, <3>3 DEF Somewhere, Queued, InHand, Sent
  <2>2. CASE EndPost(w)
    <3>1. /\ worker[w] \in Callback /\ worker' = [worker EXCEPT ![w] = Idle]
          /\ sentQ' = Append(sentQ, worker[w]) /\ pendingQ' = pendingQ
      BY <2>2 DEF EndPost, Pool!FinishJob
    <3>2. Sending(c) => Sending(c)' \/ c = worker[w]
      BY <1>0, <3>1 DEF Sending
    <3>3. Sent(c) \/ c = worker[w] => Sent(c)'
      BY <1>0, <3>1, QueueAppend DEF Sent
    <3> QED BY <1>1, <1>2, <3>1, <3>2, <3>3 DEF Somewhere, Queued, InHand, Pending
  <2>3. CASE EndWorker(w)
    <3>1. /\ worker[w] = Idle /\ worker' = [worker EXCEPT ![w] = Gone]
          /\ pendingQ # << >> /\ pendingQ' = Tail(pendingQ) /\ Head(pendingQ) = MsgExit
          /\ sentQ' = sentQ
      BY <2>3 DEF EndWorker, Pool!GetExit, Pool!IsExit, Pool!Taken, managerVars
    <3>2. Pending(c) => Pending(c)'
      BY <1>0, <3>1, QueueTail DEF Pending
    <3>3. Sending(c) => Sending(c)'
      BY <1>0, <3>1 DEF Sending
    <3> QED BY <1>1, <1>2, <3>1, <3>2, <3>3 DEF Somewhere, Queued, InHand, Sent
  <2> QED BY <2>1, <2>2, <2>3 DEF WorkerStep
<1> QED BY <1>1, <1>2, LiveFrame DEF Live

LEMMA LiveStep == TypeInv /\ LiveInv /\ [Next]_vars => LiveInv'
<1> SUFFICES ASSUME TypeInv, LiveInv, [Next]_vars PROVE LiveInv'
  OBVIOUS
<1>1. CASE FlaskStep \/ UNCHANGED vars
  <2>1. UNCHANGED <<retryQ, sentQ, pendingQ, worker, uid, urec, poolFlag, dpc, callbacks>>
    BY <1>1 DEF FlaskStep, NewCallback, PatchCallback, SendAck, CloseTask, vars,
                managerVars, dispatchVars, updateVars, poolVars
  <2> QED BY <2>1, LiveIdle DEF Live
<1>2. CASE Tick
  <2>1. UNCHANGED <<retryQ, sentQ, pendingQ, worker, uid, poolFlag, dpc>>
    BY <1>2 DEF Tick, dispatchVars, poolVars
  <2>2. /\ urec' = Missing <=> urec = Missing
        /\ \A c \in Callback : c \in Live' => c \in Live
    BY <1>2, OlderTypes DEF Tick, Live, TypeInv, TypeOK
  <2>3. \A c \in Callback : Somewhere(c)' <=> Somewhere(c)
    BY <2>1, <2>2 DEF Somewhere, Queued, InHand, Pending, Sending, Sent
  <2> QED BY <2>1, <2>2, <2>3, LiveFrame
<1>3. CASE TaskDies \/ Restart
  <2>1. callbacks' = NoRecords /\ dpc' # "closing"
    BY <1>3 DEF TaskDies, Restart, ForgetMemory
  <2> QED BY <2>1 DEF LiveInv, Live, NoRecords
<1> QED BY <1>1, <1>2, <1>3, LiveDispatch, LiveUpdate, LiveWorker DEF Next

(* No interleaving of the dispatch thread, the update thread and the       *)
(* workers loses a callback: until the pool is told to close, an id in the *)
(* table is in one of the queues or in a thread's hand.                    *)
THEOREM NoLiveCallbackLost == Spec => []LiveIsSomewhere
<1>1. Init => LiveInv
  BY DEF Init, LiveInv, Live, NoRecords
<1>2. LiveInv => LiveIsSomewhere
  BY DEF LiveInv, LiveIsSomewhere, Somewhere
<1> QED BY <1>1, <1>2, LiveStep, PlacesHold, PTL DEF Spec

-----------------------------------------------------------------------------
(* The order of the retry queue *)

(* In a queue, the live ids ahead of a live one are due or have waited at  *)
(* least as long.                                                          *)
Ordered(q, table) ==
  \A i, k \in DOMAIN q :
    i < k /\ table[q[i]] # Missing /\ table[q[k]] # Missing
      => Due(table[q[i]]) \/ table[q[i]].age >= table[q[k]].age

(* The inductive invariant: what enters the queue at its front is due.     *)
DueInv ==
  /\ Ordered(retryQ, callbacks)
  /\ \A c \in Live : InHand(c) => Due(callbacks[c])
  /\ dpc = "new" => db[did].age >= RetryPeriod

(* A step that leaves the queue alone and ages no record. *)
LEMMA DueFrame ==
  ASSUME TypeInv, DueInv, retryQ' = retryQ,
         \A c \in Callback : c \in Live' => callbacks'[c] = callbacks[c],
         \A c \in Callback : InHand(c)' => InHand(c),
         dpc' = "new" => dpc = "new" /\ did' = did /\ db'[did].age = db[did].age
  PROVE  DueInv'
<1>1. \A i \in DOMAIN retryQ : retryQ[i] \in Callback
  BY RangeOfSeq DEF TypeInv, TypeOK, Range
<1>2. Ordered(retryQ, callbacks)'
  BY <1>1 DEF DueInv, Ordered, Live
<1> QED BY <1>2 DEF DueInv, Live

LEMMA OrderedPush ==
  ASSUME NEW q \in Seq(Callback), NEW c \in Callback, NEW table, Ordered(q, table),
         table[c] # Missing => Due(table[c])
  PROVE  Ordered(<<c>> \o q, table)
<1>1. /\ DOMAIN (<<c>> \o q) = 1..(Len(q) + 1) /\ DOMAIN q = 1..Len(q) /\ Len(q) \in Nat
      /\ (<<c>> \o q)[1] = c
      /\ \A i \in 2..(Len(q) + 1) : (<<c>> \o q)[i] = q[i - 1]
  OBVIOUS
<1>2. SUFFICES ASSUME NEW i \in 1..(Len(q) + 1), NEW k \in 1..(Len(q) + 1), i < k,
                      table[(<<c>> \o q)[i]] # Missing,
                      table[(<<c>> \o q)[k]] # Missing
               PROVE  \/ Due(table[(<<c>> \o q)[i]])
                      \/ table[(<<c>> \o q)[i]].age >= table[(<<c>> \o q)[k]].age
  BY <1>1 DEF Ordered
<1>3. CASE i = 1
  BY <1>1, <1>2, <1>3
<1>4. CASE i # 1
  <2>1. i - 1 \in DOMAIN q /\ k - 1 \in DOMAIN q /\ i - 1 < k - 1
        /\ (<<c>> \o q)[i] = q[i - 1] /\ (<<c>> \o q)[k] = q[k - 1]
    BY <1>1, <1>2, <1>4
  <2> QED BY <1>2, <2>1 DEF Ordered
<1> QED BY <1>3, <1>4

LEMMA OrderedTail ==
  ASSUME NEW q \in Seq(Callback), q # << >>, NEW table, Ordered(q, table)
  PROVE  Ordered(Tail(q), table)
<1>1. /\ DOMAIN Tail(q) = 1..(Len(q) - 1) /\ DOMAIN q = 1..Len(q) /\ Len(q) \in Nat
      /\ \A i \in DOMAIN Tail(q) : Tail(q)[i] = q[i + 1]
  OBVIOUS
<1>2. \A i \in DOMAIN Tail(q) : i \in Int /\ i + 1 \in DOMAIN q
  BY <1>1
<1>3. ASSUME NEW i \in DOMAIN Tail(q), NEW k \in DOMAIN Tail(q), i < k
      PROVE  i + 1 < k + 1
  BY <1>2, <1>3
<1> QED BY <1>1, <1>2, <1>3 DEF Ordered

(* An id that was tried just now is queued behind the others. *)
LEMMA OrderedAppend ==
  ASSUME NEW q \in Seq(Callback), NEW c \in Callback,
         NEW table \in [Callback -> Record \cup {Missing}], Ordered(q, table),
         table[c] # Missing => table[c].age = 0
  PROVE  Ordered(Append(q, c), table)
<1>1. /\ DOMAIN Append(q, c) = 1..(Len(q) + 1) /\ DOMAIN q = 1..Len(q) /\ Len(q) \in Nat
      /\ Append(q, c)[Len(q) + 1] = c
      /\ \A i \in DOMAIN q : Append(q, c)[i] = q[i] /\ q[i] \in Callback
  OBVIOUS
<1>2. SUFFICES ASSUME NEW i \in 1..(Len(q) + 1), NEW k \in 1..(Len(q) + 1), i < k,
                      table[Append(q, c)[i]] # Missing, table[Append(q, c)[k]] # Missing
               PROVE  \/ Due(table[Append(q, c)[i]])
                      \/ table[Append(q, c)[i]].age >= table[Append(q, c)[k]].age
  BY <1>1 DEF Ordered
<1>3. i \in DOMAIN q /\ Append(q, c)[i] = q[i] /\ q[i] \in Callback
  BY <1>1, <1>2
<1>4. CASE k = Len(q) + 1
  <2>1. table[q[i]].age >= 0
    BY <1>2, <1>3 DEF Record
  <2> QED BY <1>1, <1>2, <1>3, <1>4, <2>1
<1>5. CASE k # Len(q) + 1
  <2>1. k \in DOMAIN q /\ Append(q, c)[k] = q[k]
    BY <1>1, <1>5
  <2> QED BY <1>2, <1>3, <2>1 DEF Ordered
<1> QED BY <1>4, <1>5

LEMMA DueDispatch ==
  ASSUME RetryPeriod <= Backdate, TypeInv, PlacesInv, DueInv, DispatchStep
  PROVE  DueInv'
<1>0. /\ retryQ \in Seq(Callback) /\ recovered \subseteq Callback
      /\ callbacks \in [Callback -> Record \cup {Missing}]
      /\ db \in [Callback -> Row \cup {Missing}]
  BY DEF TypeInv, TypeOK
<1> USE DEF managerVars, updateVars, poolVars
<1>1. CASE \/ ReadPending \/ DropRecord \/ SaveAck \/ GetExitTask \/ ClosePool
           \/ SetCloseFlag \/ JoinUpdate
  <2>1. UNCHANGED <<retryQ, uid, urec>> /\ dpc' # "new"
    BY <1>1 DEF ReadPending, DropRecord, SaveAck, GetExitTask, GetCommand, ClosePool,
                SetCloseFlag, JoinUpdate, dispatchVars
  <2>2. \A c \in Callback : c \in Live' => callbacks'[c] = callbacks[c]
    <3>1. CASE DropRecord
      BY <1>0, <3>1 DEF DropRecord, DropFrom, Live
    <3>2. CASE callbacks' = callbacks
      BY <3>2
    <3> QED
      BY <1>1, <3>1, <3>2 DEF ReadPending, SaveAck, GetExitTask, ClosePool, SetCloseFlag,
                              JoinUpdate
  <2> QED BY <2>1, <2>2, DueFrame DEF InHand
<1>2. CASE AddPending
  <2>1. /\ dpc' = "idle" /\ UNCHANGED <<uid, urec, db>> /\ dpc = "reload"
        /\ \A c \in recovered : callbacks'[c] = RecordOf(db[c])
    BY <1>0, <1>2 DEF AddPending
  <2>2. PICK q \in OldestFirst(recovered) : retryQ' = retryQ \o q
    BY <1>2 DEF AddPending
  <2>3. \A c \in Callback : ~Somewhere(c)
    BY <2>1 DEF PlacesInv
  <2>4. retryQ = << >>
    <3>1. retryQ # << >> => Queued(Head(retryQ)) /\ Head(retryQ) \in Callback
      BY <1>0, QueueTail DEF Queued
    <3> QED BY <2>3, <3>1 DEF Somewhere
  <2>5. q \in Seq(Callback) /\ Range(q) = recovered
    BY <1>0, OldestFirstType
  <2>6. retryQ' = q
    BY <2>2, <2>4, <2>5
  <2>7. Ordered(q, callbacks')
    <3>1. \A i \in DOMAIN q : q[i] \in recovered
      BY <2>5 DEF Range
    <3>2. \A i \in DOMAIN q : callbacks'[q[i]].age = db[q[i]].age
      <4>1. \A i \in DOMAIN q : callbacks'[q[i]] = RecordOf(db[q[i]])
        BY <2>1, <3>1
      <4>2. \A row : RecordOf(row).age = row.age
        BY DEF RecordOf
      <4> QED BY <4>1, <4>2
    <3>3. \A i, k \in DOMAIN q : i < k => db[q[i]].age >= db[q[k]].age
      BY DEF OldestFirst
    <3> QED BY <3>2, <3>3 DEF Ordered
  <2>8. \A c \in Callback : ~InHand(c)'
    BY <2>1, <2>3 DEF InHand, Somewhere
  <2> QED BY <2>1, <2>6, <2>7, <2>8 DEF DueInv, Live
<1>3. CASE InsertRow
  <2>1. /\ UNCHANGED <<retryQ, uid, urec, callbacks>> /\ dpc' = "new" /\ did' \in Callback
        /\ db' = [db EXCEPT ![did'] = NewRow]
    BY <1>3, CommandTaken DEF InsertRow, TypeInv
  <2>2. db'[did'].age >= RetryPeriod
    BY <1>0, <2>1 DEF NewRow
  <2> QED BY <2>1, <2>2 DEF DueInv, Live, InHand
<1>4. CASE AddCallback
  <2>1. /\ did \in Callback /\ dpc = "new" /\ dpc' = "idle" /\ UNCHANGED <<uid, urec>>
        /\ callbacks' = [callbacks EXCEPT ![did] = RecordOf(db[did])]
        /\ retryQ' = <<did>> \o retryQ
    BY <1>4 DEF AddCallback, TypeInv, HandsOK
  <2>2. Due(callbacks'[did])
    <3>1. RecordOf(db[did]) # Missing
      <4>1. db[did] \in Row
        BY <1>0, <2>1 DEF TypeInv, HandsOK
      <4> QED BY <4>1, RowFields
    <3>2. RecordOf(db[did]).age >= RetryPeriod
      BY <2>1 DEF DueInv, RecordOf
    <3> QED BY <1>0, <2>1, <3>1, <3>2 DEF Due
  <2>3. \A c \in Callback : c # did => callbacks'[c] = callbacks[c]
    BY <1>0, <2>1
  <2>4. Ordered(retryQ, callbacks')
    <3>1. \A i \in DOMAIN retryQ : retryQ[i] \in Callback /\ retryQ[i] # did
      BY <1>0, <2>1, RangeOfSeq DEF PlacesInv, Somewhere, Queued, Range
    <3> QED BY <2>3, <3>1 DEF DueInv, Ordered
  <2>5. Ordered(retryQ', callbacks')
    BY <1>0, <2>1, <2>2, <2>4, OrderedPush
  <2>6. \A c \in Callback : InHand(c)' => InHand(c) /\ c # did
    BY <2>1 DEF InHand, PlacesInv, Somewhere
  <2> QED BY <2>1, <2>3, <2>5, <2>6 DEF DueInv, Live
<1> QED BY <1>1, <1>2, <1>3, <1>4 DEF DispatchStep

LEMMA DueUpdate ==
  ASSUME TypeInv, PlacesInv, TriesInv, DueInv, UpdateStep PROVE DueInv'
<1>0. /\ retryQ \in Seq(Callback) /\ sentQ \in Seq(Callback)
      /\ callbacks \in [Callback -> Record \cup {Missing}]
      /\ db \in [Callback -> Row \cup {Missing}]
      /\ upc \in {"load", "add", "put", "full"} => uid \in Callback /\ urec = Missing
      /\ upc = "save" => uid \in Callback /\ urec \in Record
  BY DEF TypeInv, TypeOK, HandsOK
<1> USE DEF UpdateFrame, managerVars, dispatchVars, updateVars
<1>1. CASE \/ CheckClose \/ NoneReady \/ LoadRequest \/ UpdateDies \/ BeginAddJob
           \/ RefuseJob \/ JobQueueFull \/ NothingSent \/ DiscardSent
  <2>1. UNCHANGED <<retryQ, uid, urec, callbacks, db, dpc, did>>
    BY <1>1 DEF CheckClose, NoneReady, LoadRequest, UpdateDies, BeginAddJob, RefuseJob,
                JobQueueFull, NothingSent, DiscardSent
  <2> QED BY <2>1, DueFrame DEF InHand
<1>2. CASE AddJob
  <2>1. UNCHANGED <<retryQ, urec, callbacks, db, dpc, did>> /\ uid' = NoCallback
    BY <1>2 DEF AddJob
  <2> QED BY <2>1, DueFrame DEF InHand
<1>3. CASE TakeReady
  <2>1. /\ retryQ # << >> /\ uid' = Head(retryQ) /\ retryQ' = Tail(retryQ)
        /\ Due(callbacks[Head(retryQ)])
        /\ UNCHANGED <<callbacks, db, dpc, did>>
    BY <1>3 DEF TakeReady, HeadIsDue, Popped
  <2>2. Ordered(retryQ', callbacks')
    BY <1>0, <2>1, OrderedTail DEF DueInv
  <2> QED BY <2>1, <2>2 DEF DueInv, Live, InHand
<1>4. CASE GiveBack
  <2>1. /\ uid \in Callback /\ uid' = NoCallback /\ retryQ' = <<uid>> \o retryQ
        /\ InHand(uid) /\ UNCHANGED <<callbacks, db, dpc, did>>
    BY <1>0, <1>4 DEF GiveBack, GivenBack, InHand
  <2>2. callbacks[uid] # Missing => Due(callbacks[uid])
    BY <2>1 DEF DueInv, Live
  <2>3. Ordered(retryQ', callbacks')
    BY <1>0, <2>1, <2>2, OrderedPush DEF DueInv
  <2> QED BY <2>1, <2>3 DEF DueInv, Live, InHand
<1>5. CASE Requeue
  <2>0. PICK d \in Callback : sentQ # << >> /\ d = Head(sentQ)
    BY <1>0, <1>5, QueueTail DEF Requeue
  <2>1. /\ UNCHANGED <<db, dpc, did>> /\ uid' = d /\ d \in Live
        /\ retryQ' = Append(retryQ, d) /\ urec' = AfterTry(callbacks[d])
        /\ callbacks' = [callbacks EXCEPT ![d] = AfterTry(callbacks[d])]
        /\ HasRetries(callbacks[d])
    BY <1>5, <2>0 DEF Requeue, AtBack
  <2>2. /\ AfterTry(callbacks[d]) \in Record /\ AfterTry(callbacks[d]) # Missing
        /\ AfterTry(callbacks[d]).age = 0
    BY <1>0, <2>1, AfterTryType DEF Live
  <2>3. ~Queued(d)
    BY <1>0, <2>0, QueueTail DEF Sent, PlacesInv, OnePlace
  <2>4. Ordered(retryQ, callbacks')
    <3>1. \A i \in DOMAIN retryQ : retryQ[i] \in Callback /\ retryQ[i] # d
      BY <1>0, <2>3, RangeOfSeq DEF Queued, Range
    <3> QED BY <1>0, <2>1, <3>1 DEF DueInv, Ordered
  <2>5. callbacks' \in [Callback -> Record \cup {Missing}] /\ callbacks'[d].age = 0
    BY <1>0, <2>1, <2>2
  <2>6. Ordered(retryQ', callbacks')
    BY <1>0, <2>1, <2>4, <2>5, OrderedAppend
  <2> QED BY <2>1, <2>2, <2>6 DEF DueInv, InHand
<1>6. CASE GiveUp
  <2>1. /\ UNCHANGED <<retryQ, db, dpc, did>> /\ uid' \in Live /\ urec' = callbacks[uid']
        /\ callbacks' = [callbacks EXCEPT ![uid'] = Missing]
    BY <1>6 DEF GiveUp
  <2>2. urec' # Missing /\ \A c \in Callback : c \in Live' => callbacks'[c] = callbacks[c]
    BY <1>0, <2>1 DEF Live
  <2> QED BY <2>1, <2>2, DueFrame DEF InHand
<1>7. CASE SaveRecord
  <2>1. /\ UNCHANGED <<retryQ, callbacks, dpc, did>> /\ uid' = NoCallback
        /\ uid \in Callback /\ Saving(uid)
        /\ \A c \in Callback : c # uid => db'[c] = db[c]
    BY <1>0, <1>7 DEF SaveRecord, Saving
  <2>2. dpc = "new" => did # uid /\ did \in Callback
    <3>1. ~Entering(uid)
      BY <2>1 DEF TriesInv, TriesOf, SavingOK
    <3> QED BY <3>1 DEF Entering, TypeInv, HandsOK
  <2> QED BY <2>1, <2>2, DueFrame DEF InHand
<1> QED BY <1>1, <1>2, <1>3, <1>4, <1>5, <1>6, <1>7 DEF UpdateStep

(* As time passes, what was due stays due and nothing overtakes anything.  *)
LEMMA DueTick == TypeInv /\ DueInv /\ Tick => DueInv'
<1> SUFFICES ASSUME TypeInv, DueInv, Tick PROVE DueInv'
  OBVIOUS
<1>1. UNCHANGED <<retryQ, uid, dpc, did>>
  BY DEF Tick, dispatchVars
<1>2. /\ callbacks \in [Callback -> Record \cup {Missing}] /\ urec \in Record \cup {Missing}
      /\ db \in [Callback -> Row \cup {Missing}]
  BY DEF TypeInv, TypeOK
<1>3. \A rec \in Record : LET r == [rec EXCEPT !.age = Older(rec.age)]
                         IN  r # Missing /\ r.age = Older(rec.age) /\ rec.age \in 0..MaxAge
  BY OlderTypes DEF Record
<1>4. \A a, b \in 0..MaxAge : /\ a >= b => Older(a) >= Older(b)
                              /\ a >= RetryPeriod => Older(a) >= RetryPeriod
  BY DEF Older
<1>5. \A c \in Callback :
        /\ c \in Live' <=> c \in Live
        /\ c \in Live => callbacks'[c].age = Older(callbacks[c].age)
                          /\ callbacks[c].age \in 0..MaxAge
        /\ InHand(c)' => InHand(c)
  BY <1>1, <1>2, <1>3 DEF Tick, Live, InHand
<1>6. \A c \in Live : Due(callbacks[c]) => Due(callbacks'[c])
  BY <1>4, <1>5 DEF Due, Live
<1>7. Ordered(retryQ, callbacks')
  <2>1. \A i \in DOMAIN retryQ : retryQ[i] \in Callback
    BY RangeOfSeq DEF TypeInv, TypeOK, Range
  <2> QED BY <1>4, <1>5, <1>6, <2>1 DEF DueInv, Ordered, Live
<1>8. dpc = "new" => db'[did].age >= RetryPeriod
  <2> SUFFICES ASSUME dpc = "new" PROVE db'[did].age >= RetryPeriod
    OBVIOUS
  <2>1. did \in Callback /\ db[did] \in Row /\ db[did].age >= RetryPeriod
    BY <1>2 DEF DueInv, TypeInv, HandsOK
  <2>2. db'[did].age = Older(db[did].age) /\ db[did].age \in 0..MaxAge
    BY <2>1 DEF Tick, Row
  <2> QED BY <1>4, <2>1, <2>2
<1>9. \A c \in Callback : c \in Live' /\ InHand(c)' => Due(callbacks'[c])
  BY <1>5, <1>6 DEF DueInv
<1> QED BY <1>1, <1>7, <1>8, <1>9 DEF DueInv, Live

LEMMA DueStep ==
  RetryPeriod <= Backdate /\ TypeInv /\ PlacesInv /\ TriesInv /\ DueInv /\ [Next]_vars
    => DueInv'
<1> SUFFICES ASSUME RetryPeriod <= Backdate, TypeInv, PlacesInv, TriesInv, DueInv,
                    [Next]_vars
             PROVE  DueInv'
  OBVIOUS
<1>1. CASE FlaskStep
  <2>1. UNCHANGED <<retryQ, callbacks, uid, urec, dpc, did>>
    BY <1>1 DEF FlaskStep, NewCallback, PatchCallback, SendAck, CloseTask, managerVars,
                dispatchVars, updateVars
  <2>2. \A c \in Callback : db[c] # Missing => db'[c].age = db[c].age
    <3>1. ASSUME NEW d \in Callback, PatchCallback(d)
          PROVE  \A c \in Callback : db[c] # Missing => db'[c].age = db[c].age
      <4>1. db \in [Callback -> Row \cup {Missing}]
        BY DEF TypeInv, TypeOK
      <4>2. db' = [db EXCEPT ![d] = [db[d] EXCEPT !.acked = TRUE]] /\ db[d] \in Row
        BY <3>1, <4>1 DEF PatchCallback
      <4>3. [db[d] EXCEPT !.acked = TRUE].age = db[d].age
        BY <4>2 DEF Row
      <4> QED BY <4>1, <4>2, <4>3
    <3>2. CASE db' = db
      BY <3>2
    <3> QED BY <1>1, <3>1, <3>2 DEF FlaskStep, NewCallback, SendAck, CloseTask
  <2>3. dpc = "new" => did \in Callback /\ db[did] # Missing
    BY DEF TypeInv, HandsOK
  <2> QED BY <2>1, <2>2, <2>3, DueFrame DEF InHand
<1>2. CASE UNCHANGED vars \/ \E w \in Worker : WorkerStep(w)
  <2>1. UNCHANGED <<retryQ, callbacks, uid, urec, dpc, did, db>>
    BY <1>2 DEF vars, WorkerStep, StartPost, EndPost, EndWorker, managerVars,
                dispatchVars, updateVars
  <2> QED BY <2>1, DueFrame DEF InHand
<1>3. CASE TaskDies \/ Restart
  <2>1. retryQ' = << >> /\ callbacks' = NoRecords /\ dpc' # "new"
    BY <1>3 DEF TaskDies, Restart, ForgetMemory
  <2> QED BY <2>1 DEF DueInv, Ordered, Live, NoRecords
<1> QED BY <1>1, <1>2, <1>3, DueDispatch, DueUpdate, DueTick DEF Next

(* With new callbacks backdated by a retry period or more, the due ids are *)
(* always ahead in the queue, so _next_sent, which tests the head alone,   *)
(* overlooks none of them.                                                 *)
THEOREM DueAreAhead ==
  ASSUME RetryPeriod <= Backdate PROVE Spec => []DueFirst
<1>1. Init => DueInv
  BY DEF Init, DueInv, Ordered, Live, NoRecords
<1>2. TypeInv /\ DueInv => DueFirst
  <2> SUFFICES ASSUME TypeInv, DueInv, NEW i \in DOMAIN retryQ, NEW k \in DOMAIN retryQ,
                      i < k, retryQ[i] \in Live, Due(callbacks[retryQ[k]])
               PROVE  Due(callbacks[retryQ[i]])
    BY DEF DueFirst
  <2>1. callbacks[retryQ[i]] \in Record
    BY DEF Live, TypeInv, TypeOK
  <2>2. callbacks[retryQ[k]] \in Record
    BY RangeOfSeq DEF Due, TypeInv, TypeOK, Range
  <2>3. \/ Due(callbacks[retryQ[i]])
        \/ callbacks[retryQ[i]].age >= callbacks[retryQ[k]].age
    BY DEF DueInv, Ordered, Live, Due
  <2> QED BY <2>1, <2>2, <2>3 DEF Due, Record
<1> QED BY <1>1, <1>2, DueStep, TriesHold, PlacesHold, PTL DEF Spec

-----------------------------------------------------------------------------
(* Refinement: retries are only counted for POSTs *)

(* A POST of c was made that its row does not count yet. *)
Uncounted(c) == Sending(c) \/ Sent(c) \/ Saving(c)

(* TriesOf bounds the POSTs of a callback from above. This bounds them     *)
(* from below: each retry that its row has lost was a POST, and so was one *)
(* that is not counted yet. It is what makes GiveUp of Delivery, which     *)
(* asks for MinTries POSTs, a step that the process may take.              *)
FloorOf(c) ==
  db[c] # Missing => posts[c] + db[c].retries >= Retries + 1 + One(Uncounted(c))

(* And ack_callback, which marks the row a second time, finds it marked.   *)
FloorInv ==
  /\ \A c \in Callback : FloorOf(c)
  /\ dpc = "ack" => db[did] # Missing /\ db[did].acked

LEMMA FloorFrame ==
  ASSUME TypeInv, NEW c \in Callback, FloorOf(c), RowKept(c), posts'[c] = posts[c],
         Uncounted(c)' => Uncounted(c)
  PROVE  FloorOf(c)'
<1>1. db[c] # Missing => db[c].retries \in Nat
  BY TriesTypes
<1>2. posts[c] \in Nat /\ Retries \in Nat
  BY TriesTypes
<1> QED BY <1>1, <1>2 DEF FloorOf, RowKept, One

(* A step that changes nothing of what FloorOf speaks of but the row.      *)
LEMMA FloorIdle ==
  ASSUME TypeInv, NEW c \in Callback, FloorOf(c), RowKept(c),
         UNCHANGED <<posts, worker, sentQ, uid, urec>>
  PROVE  FloorOf(c)'
<1>1. Uncounted(c)' <=> Uncounted(c)
  BY DEF Uncounted, Sending, Sent, Saving
<1> QED BY <1>1, FloorFrame


LEMMA FloorUpdate ==
  ASSUME TypeInv, NEW c \in Callback, TriesOf(c), FloorOf(c), UpdateStep
  PROVE  FloorOf(c)'
<1>0. /\ db \in [Callback -> Row \cup {Missing}]
      /\ sentQ \in Seq(Callback)
      /\ upc \in {"load", "add", "put", "full"} => uid \in Callback /\ urec = Missing
      /\ upc = "save" => uid \in Callback /\ urec \in Record
      /\ upc \in {"check", "ready", "sent", "stopped"} => uid = NoCallback /\ urec = Missing
  BY DEF TypeInv, TypeOK, HandsOK
<1> USE DEF UpdateFrame, updateVars
<1>1. CASE \/ CheckClose \/ NoneReady \/ LoadRequest \/ UpdateDies \/ BeginAddJob
           \/ RefuseJob \/ JobQueueFull \/ NothingSent
  <2>1. UNCHANGED <<db, posts, worker, sentQ, uid, urec>>
    BY <1>1 DEF CheckClose, NoneReady, LoadRequest, UpdateDies, BeginAddJob, RefuseJob,
                JobQueueFull, NothingSent, Pool!CheckFlag, Pool!PutFull, managerVars,
                poolVars
  <2> QED BY <2>1, SameRowKept, FloorIdle
<1>2. CASE TakeReady \/ AddJob \/ GiveBack
  <2>1. UNCHANGED <<db, posts, worker, sentQ, urec>> /\ urec = Missing
    BY <1>0, <1>2 DEF TakeReady, AddJob, GiveBack, Pool!PutJob, managerVars, poolVars
  <2>2. Uncounted(c)' => Uncounted(c)
    BY <2>1 DEF Uncounted, Sending, Sent, Saving
  <2> QED BY <2>1, <2>2, SameRowKept, FloorFrame
<1>3. CASE DiscardSent \/ Requeue \/ GiveUp
  <2>1. /\ UNCHANGED <<db, posts, worker>>
        /\ sentQ # << >> /\ sentQ' = Tail(sentQ) /\ urec = Missing
        /\ urec' # Missing => uid' = Head(sentQ)
    BY <1>0, <1>3 DEF DiscardSent, Requeue, GiveUp, poolVars
  <2>2. Range(sentQ) = {Head(sentQ)} \cup Range(sentQ')
    BY <1>0, <2>1, QueueTail
  <2>3. Uncounted(c)' => Uncounted(c)
    BY <2>1, <2>2 DEF Uncounted, Sending, Sent, Saving
  <2> QED BY <2>1, <2>3, SameRowKept, FloorFrame
<1>4. CASE SaveRecord
  <2>1. /\ UNCHANGED <<posts, worker, sentQ>>
        /\ db' = [db EXCEPT ![uid] = SavedRow(db[uid], urec)]
        /\ uid \in Callback /\ urec \in Record /\ urec # Missing /\ urec' = Missing
        /\ db[uid] \in Row
    BY <1>0, <1>4 DEF SaveRecord, TypeInv, HandsOK, managerVars, poolVars
  <2>2. SavedRow(db[uid], urec).retries = urec.retries
    BY <2>1 DEF SavedRow, Row
  <2>3. CASE c = uid
    <3>1. Saving(c) /\ SavingOK(c) /\ Uncounted(c)
      BY <2>1, <2>3 DEF TriesOf, Saving, Uncounted
    <3>2. ~Uncounted(c)'
      BY <2>1, <3>1 DEF SavingOK, Uncounted, Sending, Sent, Saving
    <3>3. db'[c].retries = urec.retries /\ posts'[c] = posts[c] /\ db[c] # Missing
      BY <1>0, <2>1, <2>2, <2>3
    <3>4. db[c].retries = urec.retries + 1 \/ db[c].retries = urec.retries
      BY <3>1 DEF SavingOK
    <3>5. /\ db[c].retries \in Nat /\ urec.retries \in Nat
          /\ posts[c] \in Nat /\ Retries \in Nat
      BY <2>1, <3>3, TriesTypes
    <3> QED BY <3>1, <3>2, <3>3, <3>4, <3>5 DEF FloorOf, One
  <2>4. CASE c # uid
    <3>1. db'[c] = db[c] /\ posts'[c] = posts[c]
      BY <1>0, <2>1, <2>4
    <3>2. Uncounted(c)' => Uncounted(c)
      BY <2>1 DEF Uncounted, Sending, Sent, Saving
    <3> QED BY <3>1, <3>2, FloorFrame DEF RowKept
  <2> QED BY <2>3, <2>4
<1> QED BY <1>1, <1>2, <1>3, <1>4 DEF UpdateStep

LEMMA FloorWorker ==
  ASSUME TypeInv, PlacesInv, NEW c \in Callback, TriesOf(c), FloorOf(c),
         NEW w \in Worker, WorkerStep(w)
  PROVE  FloorOf(c)'
<1>0. /\ sentQ \in Seq(Callback)
      /\ pendingQ \in Seq(Callback \cup {MsgExit})
      /\ worker \in [Worker -> Callback \cup {Idle, Gone}]
      /\ posts \in [Callback -> Nat]
  BY DEF TypeInv, TypeOK, Pool!TypeOK
<1> USE DEF managerVars, updateVars
<1>1. CASE StartPost(w)
  <2>0. PICK d \in Callback : pendingQ # << >> /\ d = Head(pendingQ)
    BY <1>0, <1>1, QueueTail DEF StartPost, Pool!GetJob, Pool!IsExit
  <2>1. /\ worker[w] = Idle /\ worker' = [worker EXCEPT ![w] = d]
        /\ posts' = [posts EXCEPT ![d] = posts[d] + 1]
        /\ UNCHANGED <<db, sentQ, uid, urec>>
    BY <1>1, <2>0 DEF StartPost, Pool!GetJob
  <2>2. CASE c = d
    <3>1. Pending(c)
      BY <1>0, <2>0, <2>2, QueueTail DEF Pending
    <3>2. ~Uncounted(c)
      BY <3>1 DEF PlacesInv, OnePlace, TriesOf, SavingOK, Uncounted
    <3>3. posts'[c] = posts[c] + 1
      BY <1>0, <2>1, <2>2
    <3>4. db[c] # Missing => db[c].retries \in Nat
      BY TriesTypes
    <3>5. posts[c] \in Nat /\ Retries \in Nat
      BY TriesTypes
    <3> QED BY <2>1, <3>2, <3>3, <3>4, <3>5 DEF FloorOf, One
  <2>3. CASE c # d
    <3>1. posts'[c] = posts[c]
      BY <1>0, <2>1, <2>3
    <3>2. Uncounted(c)' => Uncounted(c)
      BY <1>0, <2>1, <2>3 DEF Uncounted, Sending, Sent, Saving
    <3> QED BY <2>1, <3>1, <3>2, SameRowKept, FloorFrame
  <2> QED BY <2>2, <2>3
<1>2. CASE EndPost(w)
  <2>1. /\ worker[w] \in Callback /\ worker' = [worker EXCEPT ![w] = Idle]
        /\ sentQ' = Append(sentQ, worker[w])
        /\ UNCHANGED <<db, posts, uid, urec>>
    BY <1>2 DEF EndPost, Pool!FinishJob
  <2>2. Range(sentQ') = Range(sentQ) \cup {worker[w]}
    BY <1>0, <2>1, QueueAppend
  <2>3. Uncounted(c)' => Uncounted(c)
    BY <1>0, <2>1, <2>2 DEF Uncounted, Sending, Sent, Saving
  <2> QED BY <2>1, <2>3, SameRowKept, FloorFrame
<1>3. CASE EndWorker(w)
  <2>1. /\ worker' = [worker EXCEPT ![w] = Gone]
        /\ UNCHANGED <<db, posts, sentQ, uid, urec>>
    BY <1>3 DEF EndWorker, Pool!GetExit
  <2>2. Uncounted(c)' => Uncounted(c)
    BY <1>0, <2>1 DEF Uncounted, Sending, Sent, Saving
  <2> QED BY <2>1, <2>2, SameRowKept, FloorFrame
<1> QED BY <1>1, <1>2, <1>3 DEF WorkerStep

LEMMA FloorDispatch ==
  ASSUME TypeInv, CommandsInv, PlacesInv, NEW c \in Callback, TriesOf(c), FloorOf(c),
         DispatchStep
  PROVE  FloorOf(c)'
<1>0. db \in [Callback -> Row \cup {Missing}]
  BY DEF TypeInv, TypeOK
<1> USE DEF managerVars, updateVars, poolVars
<1>1. UNCHANGED <<posts, worker, sentQ, uid, urec>>
  BY DEF DispatchStep, ReadPending, AddPending, InsertRow, AddCallback, DropRecord, SaveAck,
         GetExitTask, ClosePool, SetCloseFlag, JoinUpdate, Pool!BeginClose,
         Pool!CloserStep, Pool!PurgeOne, Pool!PurgeDone, Pool!PutExit, Pool!ExitsDone,
         Pool!Join
<1>2. CASE InsertRow
  <2>1. did' \in Callback /\ db' = [db EXCEPT ![did'] = NewRow] /\ db[did'] = Missing
    BY <1>2, CommandTaken DEF InsertRow, GetCommand, TypeInv, CommandsInv
  <2>2. CASE c = did'
    <3>1. db'[c].retries = Retries + 1
      BY <1>0, <2>1, <2>2 DEF NewRow
    <3>2. ~Sending(c) /\ ~Sent(c) /\ ~Saving(c)
      BY <2>1, <2>2 DEF PlacesInv, Somewhere, Saving, TypeInv, HandsOK
    <3>3. ~Uncounted(c)'
      BY <1>1, <3>2 DEF Uncounted, Sending, Sent, Saving
    <3>4. posts'[c] \in Nat /\ Retries \in Nat
      BY <1>1, TriesTypes
    <3> QED BY <3>1, <3>3, <3>4 DEF FloorOf, One
  <2>3. CASE c # did'
    <3>1. db'[c] = db[c]
      BY <1>0, <2>1, <2>3
    <3> QED BY <1>1, <3>1, FloorIdle DEF RowKept
  <2> QED BY <2>2, <2>3
<1>3. CASE SaveAck
  <2>1. /\ db' = [db EXCEPT ![did] = [db[did] EXCEPT !.acked = TRUE]]
        /\ did \in Callback /\ db[did] # Missing
    BY <1>3 DEF SaveAck, TypeInv, HandsOK
  <2> QED BY <1>1, <2>1, AckedRowKept, FloorIdle
<1>4. CASE ~InsertRow /\ ~SaveAck
  <2>1. db' = db
    BY <1>4 DEF DispatchStep, ReadPending, AddPending, AddCallback, DropRecord,
                GetExitTask, ClosePool, SetCloseFlag, JoinUpdate
  <2> QED BY <1>1, <2>1, SameRowKept, FloorIdle
<1> QED BY <1>2, <1>3, <1>4

(* Nothing takes an acknowledgement back. *)
LEMMA AckedStays ==
  ASSUME TypeInv, CommandsInv, TriesInv, [Next]_vars, NEW c \in Callback, RowAcked(c)
  PROVE  RowAcked(c)'
<1>0. db \in [Callback -> Row \cup {Missing}] /\ TriesOf(c)
  BY DEF TypeInv, TypeOK, TriesInv
<1>1. CASE RowKept(c)
  BY <1>1 DEF RowKept, RowAcked
<1>2. CASE FlaskStep \/ Tick
  BY <1>0, <1>1, <1>2, FlaskTries, TickTries DEF Steady
<1>3. CASE InsertRow
  <2>1. did' \in Callback /\ db' = [db EXCEPT ![did'] = NewRow] /\ db[did'] = Missing
    BY <1>3, CommandTaken DEF InsertRow, GetCommand, TypeInv, CommandsInv
  <2> QED BY <1>0, <2>1 DEF RowAcked
<1>4. CASE SaveAck
  <2>1. /\ db' = [db EXCEPT ![did] = [db[did] EXCEPT !.acked = TRUE]]
        /\ did \in Callback /\ db[did] # Missing
    BY <1>4 DEF SaveAck, TypeInv, HandsOK
  <2> QED BY <1>1, <2>1, AckedRowKept
<1>5. CASE SaveRecord
  <2>1. /\ db' = [db EXCEPT ![uid] = SavedRow(db[uid], urec)]
        /\ uid \in Callback /\ urec \in Record /\ db[uid] \in Row
    BY <1>0, <1>5 DEF SaveRecord, TypeInv, HandsOK
  <2>2. SavedRow(db[uid], urec) # Missing /\ SavedRow(db[uid], urec).acked = db[uid].acked
    BY <2>1, SavedRowType DEF SavedRow, Row
  <2> QED BY <1>0, <2>1, <2>2 DEF RowAcked
<1>6. CASE db' = db
  BY <1>1, <1>6, SameRowKept
<1>7. DispatchStep /\ ~InsertRow /\ ~SaveAck => db' = db
  BY DEF DispatchStep, ReadPending, AddPending, AddCallback, DropRecord, GetExitTask,
         ClosePool, SetCloseFlag, JoinUpdate
<1>8. UpdateStep /\ ~SaveRecord => db' = db
  BY DEF UpdateStep, UpdateFrame, CheckClose, TakeReady, NoneReady, LoadRequest,
         UpdateDies, BeginAddJob, RefuseJob, AddJob, JobQueueFull, GiveBack,
         NothingSent, DiscardSent, Requeue, GiveUp
<1>9. (\E w \in Worker : WorkerStep(w)) \/ TaskDies \/ Restart \/ UNCHANGED vars => db' = db
  BY DEF WorkerStep, StartPost, EndPost, EndWorker, TaskDies, Restart, vars
<1> QED BY <1>2, <1>3, <1>4, <1>5, <1>6, <1>7, <1>8, <1>9 DEF Next

LEMMA AckHandStep ==
  ASSUME TypeInv, CommandsInv, TriesInv, [Next]_vars,
         dpc = "ack" => RowAcked(did), dpc' = "ack"
  PROVE  RowAcked(did)'
<1>1. CASE DropRecord
  <2>1. CASE Head(inputQ).id \in Live
    <3>1. /\ did' = Head(inputQ).id /\ did' \in Callback /\ db' = db
          /\ Head(inputQ) \in Range(inputQ) /\ Head(inputQ).cmd = "ACK_CALLBACK"
      BY <1>1, <2>1, CommandTaken DEF DropRecord, GetCommand, TypeInv
    <3> QED BY <3>1 DEF CommandsInv, RowAcked
  <2>2. CASE Head(inputQ).id \notin Live
    BY <1>1, <2>2 DEF DropRecord, GetCommand
  <2> QED BY <2>1, <2>2
<1>2. CASE UNCHANGED <<dpc, did>>
  <2>1. did \in Callback /\ RowAcked(did)
    BY <1>2 DEF TypeInv, HandsOK
  <2>2. \A c \in Callback : RowAcked(c) => RowAcked(c)'
    BY AckedStays
  <2> QED BY <1>2, <2>1, <2>2 DEF RowAcked
<1> USE DEF dispatchVars
<1>3. DispatchStep => DropRecord \/ UNCHANGED <<dpc, did>> \/ dpc' # "ack"
  BY DEF DispatchStep, ReadPending, AddPending, InsertRow, AddCallback, SaveAck, GetExitTask,
         ClosePool, SetCloseFlag, JoinUpdate
<1>4. UpdateStep => UNCHANGED <<dpc, did>>
  BY DEF UpdateStep, UpdateFrame, CheckClose, TakeReady, NoneReady, LoadRequest,
         UpdateDies, BeginAddJob, RefuseJob, AddJob, JobQueueFull, GiveBack,
         NothingSent, DiscardSent, Requeue, GiveUp, SaveRecord
<1>5. (\E w \in Worker : WorkerStep(w)) \/ FlaskStep \/ Tick \/ UNCHANGED vars
        => UNCHANGED <<dpc, did>>
  BY DEF WorkerStep, StartPost, EndPost, EndWorker, FlaskStep, NewCallback, PatchCallback,
         SendAck, CloseTask, Tick, vars
<1>6. TaskDies \/ Restart => dpc' # "ack"
  BY DEF TaskDies, Restart
<1> QED BY <1>1, <1>2, <1>3, <1>4, <1>5, <1>6 DEF Next

(* What the refinement rests on. *)
RefinementInv == TypeInv /\ CommandsInv /\ PlacesInv /\ TriesInv /\ FloorInv

LEMMA FloorStep == RefinementInv /\ [Next]_vars => FloorInv'
<1> SUFFICES ASSUME RefinementInv, [Next]_vars PROVE FloorInv'
  OBVIOUS
<1> USE DEF RefinementInv
<1>1. ASSUME NEW c \in Callback PROVE FloorOf(c)'
  <2>0. TriesOf(c) /\ FloorOf(c)
    BY DEF TriesInv, FloorInv
  <2>1. CASE FlaskStep
    <3>1. RowKept(c)
      BY <2>0, <2>1, FlaskTries DEF Steady
    <3>2. UNCHANGED <<posts, worker, sentQ, uid, urec>>
      BY <2>1 DEF FlaskStep, NewCallback, PatchCallback, SendAck, CloseTask, managerVars,
                  updateVars, poolVars
    <3> QED BY <2>0, <3>1, <3>2, FloorIdle
  <2>2. CASE Tick
    <3>1. Steady(c)
      BY <2>0, <2>2, TickTries
    <3>2. Uncounted(c)' => Uncounted(c)
      BY <2>2, <3>1 DEF Tick, poolVars, Steady, Uncounted, Sending, Sent
    <3> QED BY <2>0, <3>1, <3>2, FloorFrame DEF Steady
  <2>3. CASE TaskDies \/ Restart
    <3>1. /\ UNCHANGED <<db, posts>> /\ sentQ' = << >> /\ worker' = IdleWorkers
          /\ urec' = Missing
      BY <2>3 DEF TaskDies, Restart, ForgetMemory
    <3>2. ~Uncounted(c)'
      BY <3>1, QueueEmpty DEF Uncounted, Sending, Sent, Saving, IdleWorkers
    <3> QED BY <2>0, <3>1, <3>2, SameRowKept, FloorFrame
  <2>4. CASE UNCHANGED vars
    <3>1. UNCHANGED <<db, posts, worker, sentQ, uid, urec>>
      BY <2>4 DEF vars, managerVars, updateVars, poolVars
    <3> QED BY <2>0, <3>1, SameRowKept, FloorIdle
  <2> QED BY <2>0, <2>1, <2>2, <2>3, <2>4, FloorUpdate, FloorWorker, FloorDispatch DEF Next
<1>2. dpc' = "ack" => RowAcked(did)'
  BY AckHandStep DEF FloorInv, RowAcked
<1> QED BY <1>1, <1>2 DEF FloorInv, RowAcked

LEMMA RefinementHolds == Spec => []RefinementInv
<1>1. Init => FloorInv
  BY DEF Init, FloorInv, FloorOf
<1> QED BY <1>1, FloorStep, PlacesHold, TriesHold, PTL DEF Spec, RefinementInv

-----------------------------------------------------------------------------
(* Dropped callbacks stay out *)

(* The row still says so. A record that is being saved when its callback   *)
(* is dropped has no retries left, or the row is acknowledged.             *)
LEMMA DroppedRow ==
  ASSUME RefinementInv, [Next]_vars, NEW c \in Callback, Dropped(c)
  PROVE  db'[c] # Missing /\ (db'[c].acked \/ db'[c].retries = 0)
<1> USE DEF RefinementInv
<1>0. /\ db \in [Callback -> Row \cup {Missing}] /\ TriesOf(c)
      /\ db[c] # Missing /\ (db[c].acked \/ db[c].retries = 0)
  BY DEF TypeInv, TypeOK, TriesInv, Dropped
<1>1. CASE RowAcked(c)
  BY <1>1, AckedStays DEF RowAcked
<1>2. CASE RowKept(c)
  BY <1>0, <1>2 DEF RowKept
<1>3. CASE FlaskStep \/ Tick
  BY <1>0, <1>2, <1>3, FlaskTries, TickTries DEF Steady
<1>4. CASE InsertRow
  <2>1. did' \in Callback /\ db' = [db EXCEPT ![did'] = NewRow] /\ db[did'] = Missing
    BY <1>4, CommandTaken DEF InsertRow, GetCommand, TypeInv, CommandsInv
  <2> QED BY <1>0, <2>1
<1>5. CASE SaveAck
  <2>1. /\ db' = [db EXCEPT ![did] = [db[did] EXCEPT !.acked = TRUE]]
        /\ did \in Callback /\ db[did] # Missing
    BY <1>5 DEF SaveAck, TypeInv, HandsOK
  <2> QED BY <1>2, <2>1, AckedRowKept
<1>6. CASE SaveRecord /\ ~RowAcked(c)
  <2>1. /\ db' = [db EXCEPT ![uid] = SavedRow(db[uid], urec)]
        /\ uid \in Callback /\ urec \in Record /\ db[uid] \in Row
    BY <1>0, <1>6 DEF SaveRecord, TypeInv, HandsOK
  <2>2. /\ SavedRow(db[uid], urec) # Missing
        /\ SavedRow(db[uid], urec).retries = urec.retries
    <3>1. \A row \in Row, rec \in Record : SavedRow(row, rec).retries = rec.retries
      BY DEF SavedRow, Row
    <3> QED BY <2>1, <3>1, SavedRowType
  <2>3. CASE uid # c
    BY <1>0, <2>1, <2>3
  <2>4. CASE uid = c
    <3>1. urec # Missing /\ urec.retries \in Nat /\ db[c].retries = 0
      BY <1>0, <1>6, <2>1 DEF RowAcked, Record
    <3>2. urec.retries = 0
      BY <1>0, <2>4, <3>1 DEF TriesOf, Saving, SavingOK
    <3> QED BY <1>0, <2>1, <2>2, <2>4, <3>2
  <2> QED BY <2>3, <2>4
<1>7. CASE db' = db
  BY <1>2, <1>7, SameRowKept
<1>8. DispatchStep /\ ~InsertRow /\ ~SaveAck => db' = db
  BY DEF DispatchStep, ReadPending, AddPending, AddCallback, DropRecord, GetExitTask,
         ClosePool, SetCloseFlag, JoinUpdate
<1>9. UpdateStep /\ ~SaveRecord => db' = db
  BY DEF UpdateStep, UpdateFrame, CheckClose, TakeReady, NoneReady, LoadRequest,
         UpdateDies, BeginAddJob, RefuseJob, AddJob, JobQueueFull, GiveBack,
         NothingSent, DiscardSent, Requeue, GiveUp
<1>10. (\E w \in Worker : WorkerStep(w)) \/ TaskDies \/ Restart \/ UNCHANGED vars => db' = db
  BY DEF WorkerStep, StartPost, EndPost, EndWorker, TaskDies, Restart, vars
<1> QED BY <1>1, <1>3, <1>4, <1>5, <1>6, <1>7, <1>8, <1>9, <1>10 DEF Next

(* What is not in the table and not about to enter it, and has a row that  *)
(* the recovery passes over, does not come to enter it.                    *)
LEMMA DroppedDoesNotEnter ==
  ASSUME RefinementInv, [Next]_vars, NEW c \in Callback, Dropped(c)
  PROVE  c \notin Live' /\ ~Entering(c)'
<1> USE DEF RefinementInv, managerVars, dispatchVars, updateVars, flaskVars
<1>0. /\ callbacks \in [Callback -> Record \cup {Missing}]
      /\ callbacks[c] = Missing /\ ~Entering(c) /\ db[c] # Missing /\ ~Unfinished(db[c])
  <2>1. db[c] # Missing => db[c].retries \in Nat
    BY TriesTypes
  <2> QED BY <2>1 DEF TypeInv, TypeOK, Dropped, Live, Entering, Unfinished
<1>1. CASE ReadPending
  BY <1>0, <1>1 DEF ReadPending, Live, Entering
<1>2. CASE AddPending
  BY <1>0, <1>2 DEF AddPending, Live, Entering
<1>3. CASE InsertRow
  <2>1. did' \in Callback /\ db[did'] = Missing /\ UNCHANGED <<callbacks, recovered>>
    BY <1>3, CommandTaken DEF InsertRow, GetCommand, TypeInv, CommandsInv
  <2> QED BY <1>0, <2>1 DEF Live, Entering
<1>4. CASE AddCallback
  <2>1. dpc = "new" /\ did # c
    BY <1>0, <1>4 DEF AddCallback, Entering
  <2> QED BY <1>0, <1>4, <2>1 DEF AddCallback, Live, Entering
<1>5. CASE DropRecord
  <2>1. callbacks' = DropFrom(callbacks, Head(inputQ).id) /\ dpc' # "new"
        /\ recovered' = recovered
    BY <1>5 DEF DropRecord, GetCommand
  <2> QED BY <1>0, <2>1 DEF DropFrom, Live, Entering
<1>6. CASE Requeue \/ GiveUp
  <2>1. UNCHANGED <<dpc, did, recovered>>
    BY <1>6 DEF Requeue, GiveUp, UpdateFrame
  <2>2. c \notin Live'
    <3>1. CASE Requeue
      <4>1. uid' # c /\ callbacks' = [callbacks EXCEPT ![uid'] = urec']
        BY <1>0, <3>1 DEF Requeue, Live
      <4> QED BY <1>0, <4>1 DEF Live
    <3>2. CASE GiveUp
      BY <1>0, <3>2 DEF GiveUp, Live
    <3> QED BY <1>6, <3>1, <3>2
  <2> QED BY <1>0, <2>1, <2>2 DEF Entering
<1>7. CASE Tick
  BY <1>0, <1>7 DEF Tick, Live, Entering
<1>8. CASE TaskDies \/ Restart
  BY <1>8 DEF TaskDies, Restart, ForgetMemory, NoRecords, Live, Entering
<1>9. CASE UNCHANGED <<callbacks, recovered, did>> /\ (dpc' = "new" => dpc = "new")
  BY <1>0, <1>9 DEF Live, Entering
<1>10. CASE SaveAck
  BY <1>0, <1>10 DEF SaveAck, Live, Entering
<1>11. \/ FlaskStep \/ GetExitTask \/ ClosePool \/ SetCloseFlag \/ JoinUpdate
       \/ \E w \in Worker : WorkerStep(w)
       \/ UNCHANGED vars
       => UNCHANGED <<callbacks, recovered, did>> /\ (dpc' = "new" => dpc = "new")
  BY DEF FlaskStep, NewCallback, PatchCallback, SendAck, CloseTask, GetExitTask,
         ClosePool, SetCloseFlag, JoinUpdate, WorkerStep, StartPost, EndPost, EndWorker, vars
<1>12. UpdateStep /\ ~Requeue /\ ~GiveUp
       => UNCHANGED <<callbacks, recovered, did>> /\ (dpc' = "new" => dpc = "new")
  BY DEF UpdateStep, UpdateFrame, CheckClose, TakeReady, NoneReady, LoadRequest,
         UpdateDies, BeginAddJob, RefuseJob, AddJob, JobQueueFull, GiveBack,
         NothingSent, DiscardSent, SaveRecord
<1> QED
  BY <1>1, <1>2, <1>3, <1>4, <1>5, <1>6, <1>7, <1>8, <1>9, <1>10, <1>11, <1>12
  DEF Next, DispatchStep

(* A callback leaves the table of a running process acknowledged, or after *)
(* its last try.                                                           *)
LEMMA LeavesDropped ==
  ASSUME RefinementInv, [Next]_vars, NEW c \in Callback,
         c \in Live, c \notin Live', Running, Running'
  PROVE  Dropped(c)'
<1> USE DEF RefinementInv, managerVars, dispatchVars, updateVars, flaskVars
<1>0. /\ callbacks \in [Callback -> Record \cup {Missing}] /\ callbacks[c] # Missing
      /\ db[c] # Missing /\ TriesOf(c)
  BY DEF TypeInv, TypeOK, HandsOK, TriesInv, Live
<1>1. ~Entering(c)
  BY DEF PlacesInv, Entering
<1>2. CASE DropRecord
  <2>1. /\ callbacks' = DropFrom(callbacks, Head(inputQ).id) /\ UNCHANGED <<db, recovered>>
        /\ dpc' # "new" /\ Head(inputQ).cmd = "ACK_CALLBACK"
    BY <1>2 DEF DropRecord, GetCommand
  <2>2. Head(inputQ).id = c
    BY <1>0, <2>1 DEF DropFrom, Live
  <2>3. Head(inputQ) \in Range(inputQ)
    BY <1>2, CommandTaken DEF DropRecord, TypeInv
  <2>4. db[c].acked
    BY <2>1, <2>2, <2>3 DEF CommandsInv
  <2> QED BY <1>0, <1>1, <2>1, <2>4 DEF Dropped, Entering
<1>3. CASE GiveUp
  <2>1. /\ upc = "sent" /\ uid' \in Live /\ ~HasRetries(callbacks[uid'])
        /\ callbacks' = [callbacks EXCEPT ![uid'] = Missing]
        /\ UNCHANGED <<db, dpc, did, recovered>>
    BY <1>3 DEF GiveUp, UpdateFrame
  <2>2. uid' = c
    BY <1>0, <2>1 DEF Live
  <2>3. ~Saving(c)
    BY <2>1 DEF TypeInv, HandsOK, Saving
  <2>4. callbacks[c].retries \in Nat
    BY TriesTypes
  <2>5. db[c].retries = 0
    BY <1>0, <2>1, <2>2, <2>3, <2>4, TriesTypes DEF TriesOf, One, HasRetries
  <2> QED BY <1>0, <1>1, <2>1, <2>5 DEF Dropped, Entering
<1>4. CASE Tick
  BY <1>0, <1>4, OlderTypes DEF Tick, Live
<1>5. CASE AddPending
  <2>1. \A d \in recovered : d \in Callback /\ db[d] \in Row
    BY DEF TypeInv, TypeOK, HandsOK
  <2>2. c \in recovered => callbacks'[c] = RecordOf(db[c]) /\ RecordOf(db[c]) # Missing
    BY <1>5, <2>1, RowFields DEF AddPending
  <2> QED BY <1>0, <1>5, <2>2 DEF AddPending, Live
<1>6. CASE AddCallback
  <2>1. did \in Callback /\ db[did] \in Row
    BY <1>6 DEF AddCallback, TypeInv, TypeOK, HandsOK
  <2> QED BY <1>0, <1>6, <2>1, RowFields DEF AddCallback, Live
<1>7. CASE Requeue
  <2>1. uid' \in Live /\ urec' = AfterTry(callbacks[uid']) /\ HasRetries(callbacks[uid'])
        /\ callbacks' = [callbacks EXCEPT ![uid'] = urec']
    BY <1>7 DEF Requeue
  <2>2. urec' # Missing
    BY <1>0, <2>1, AfterTryType DEF Live
  <2> QED BY <1>0, <2>1, <2>2 DEF Live
<1>8. CASE TaskDies \/ Restart
  BY <1>8 DEF TaskDies, Restart, Running
<1>9. CASE callbacks' = callbacks
  BY <1>9 DEF Live
<1>10. /\ DispatchStep => DropRecord \/ AddPending \/ AddCallback \/ callbacks' = callbacks
       /\ UpdateStep => GiveUp \/ Requeue \/ callbacks' = callbacks
  BY DEF DispatchStep, ReadPending, InsertRow, SaveAck, GetExitTask, ClosePool,
         SetCloseFlag, JoinUpdate, UpdateStep, UpdateFrame, CheckClose, TakeReady,
         NoneReady, LoadRequest, UpdateDies, BeginAddJob, RefuseJob, AddJob,
         JobQueueFull, GiveBack, NothingSent, DiscardSent, SaveRecord
<1>11. FlaskStep \/ (\E w \in Worker : WorkerStep(w)) \/ UNCHANGED vars
         => callbacks' = callbacks
  BY DEF FlaskStep, NewCallback, PatchCallback, SendAck, CloseTask, WorkerStep, StartPost,
         EndPost, EndWorker, vars
<1> QED
  BY <1>2, <1>3, <1>4, <1>5, <1>6, <1>7, <1>8, <1>9, <1>10, <1>11 DEF Next

(* A callback that is not in the table is POSTed only if it was in a job   *)
(* or in the hand that makes one, and then it no longer is.                *)
LEMMA SendsAreNumbered ==
  ASSUME RefinementInv, [Next]_vars, NEW c \in Callback, c \notin Live
  PROVE  posts'[c] + SendsLeft(c)' <= posts[c] + SendsLeft(c)
<1> USE DEF RefinementInv, managerVars, dispatchVars, updateVars, flaskVars
<1>0. /\ pendingQ \in Seq(Callback \cup {MsgExit}) /\ posts \in [Callback -> Nat]
      /\ retryQ \in Seq(Callback) /\ posts[c] \in Nat
      /\ urec \in Record \cup {Missing}
  BY DEF TypeInv, TypeOK, Pool!TypeOK
<1>1. CASE /\ posts' = posts
           /\ Pending(c)' => Pending(c) \/ InHand(c)
           /\ InHand(c)' => InHand(c)
  BY <1>0, <1>1 DEF SendsLeft
<1>2. CASE UNCHANGED <<posts, pendingQ, uid, urec>>
  BY <1>1, <1>2 DEF Pending, InHand
<1>3. ASSUME NEW w \in Worker, StartPost(w)
      PROVE  posts'[c] + SendsLeft(c)' <= posts[c] + SendsLeft(c)
  <2>0. PICK d \in Callback : pendingQ # << >> /\ d = Head(pendingQ)
    BY <1>0, <1>3, QueueTail DEF StartPost, Pool!GetJob, Pool!IsExit
  <2>1. /\ pendingQ' = Tail(pendingQ) /\ posts' = [posts EXCEPT ![d] = @ + 1]
        /\ UNCHANGED <<uid, urec>>
    BY <1>3, <2>0 DEF StartPost, Pool!GetJob, Pool!Taken
  <2>2. /\ Range(pendingQ) = {d} \cup Range(pendingQ')
        /\ NoneTwiceBut(pendingQ, MsgExit) => d \notin Range(pendingQ')
    BY <1>0, <2>0, <2>1, QueueTail
  <2>3. (InHand(c)' <=> InHand(c)) /\ (Pending(c) <=> Pending(c)' \/ c = d)
    BY <2>1, <2>2 DEF InHand, Pending
  <2>4. CASE c = d
    <3>1. Pending(c) /\ ~Pending(c)' /\ ~InHand(c)'
      BY <2>2, <2>3, <2>4, OnePlaceParts DEF Pending, PlacesInv
    <3>2. SendsLeft(c) = 1 /\ SendsLeft(c)' = 0
      BY <3>1 DEF SendsLeft
    <3> QED BY <1>0, <2>1, <2>4, <3>2
  <2>5. CASE c # d
    <3>1. posts'[c] = posts[c] /\ SendsLeft(c)' = SendsLeft(c)
      BY <1>0, <2>1, <2>3, <2>5 DEF SendsLeft
    <3> QED BY <1>0, <3>1 DEF SendsLeft
  <2> QED BY <2>4, <2>5
<1>4. ASSUME NEW w \in Worker, EndPost(w) \/ EndWorker(w)
      PROVE  posts'[c] + SendsLeft(c)' <= posts[c] + SendsLeft(c)
  <2>1. UNCHANGED <<posts, uid, urec>>
        /\ (pendingQ' = pendingQ \/ (pendingQ # << >> /\ pendingQ' = Tail(pendingQ)))
    BY <1>4 DEF EndPost, EndWorker, Pool!FinishJob, Pool!GetExit, Pool!Taken
  <2>2. pendingQ # << >> => Range(Tail(pendingQ)) \subseteq Range(pendingQ)
    BY <1>0, QueueTail
  <2> QED BY <1>1, <2>1, <2>2 DEF Pending, InHand
<1>5. CASE TakeReady
  <2>1. uid' \in Live /\ UNCHANGED <<posts, pendingQ>>
    BY <1>0, <1>5, QueueTail DEF TakeReady, HeadIsDue, Due, Live, UpdateFrame, poolVars
  <2> QED BY <1>1, <2>1 DEF Pending, InHand
<1>6. CASE AddJob
  <2>1. adding["update"] = uid /\ uid \in Callback /\ urec = Missing
    BY <1>6 DEF AddJob, TypeInv, HandsOK
  <2>2. pendingQ' = Append(pendingQ, uid) /\ uid' = NoCallback /\ UNCHANGED posts
    BY <1>6, <2>1 DEF AddJob, Pool!PutJob
  <2>3. Range(pendingQ') = Range(pendingQ) \cup {uid}
    <3>1. uid \in Callback \cup {MsgExit}
      BY <2>1
    <3> QED BY <1>0, <2>2, <3>1, QueueAppend
  <2>4. /\ Pending(c)' => Pending(c) \/ InHand(c)
        /\ ~InHand(c)'
    BY <2>1, <2>2, <2>3 DEF Pending, InHand
  <2> QED BY <1>1, <2>2, <2>4
<1>7. CASE Requeue \/ GiveUp
  <2>1. uid' \in Live /\ UNCHANGED <<posts, pendingQ>>
    BY <1>7 DEF Requeue, GiveUp, UpdateFrame, poolVars
  <2> QED BY <1>1, <2>1 DEF Pending, InHand
<1>8. CASE GiveBack \/ SaveRecord
  BY <1>1, <1>8 DEF GiveBack, SaveRecord, UpdateFrame, poolVars, Pending, InHand
<1>9. CASE Tick
  BY <1>0, <1>1, <1>9, OlderTypes DEF Tick, poolVars, Pending, InHand
<1>10. CASE TaskDies \/ Restart
  BY <1>1, <1>10, QueueEmpty DEF TaskDies, Restart, ForgetMemory, Pending, InHand
<1>11. CASE GetExitTask
  BY <1>2, <1>11 DEF GetExitTask, Pool!BeginClose
<1>12. CASE ClosePool
  <2>1. /\ UNCHANGED <<posts, uid, urec>>
        /\ \/ pendingQ' = pendingQ
           \/ pendingQ # << >> /\ pendingQ' = Tail(pendingQ)
           \/ pendingQ' = Append(pendingQ, MsgExit)
    BY <1>12 DEF ClosePool, Pool!CloserStep, Pool!PurgeOne, Pool!PurgeDone, Pool!PutExit,
                Pool!WithExit, Pool!ExitsDone, Pool!Join
  <2>2. Range(pendingQ') \subseteq Range(pendingQ) \cup {MsgExit}
    <3>1. MsgExit \in Callback \cup {MsgExit}
      OBVIOUS
    <3>2. Range(Append(pendingQ, MsgExit)) = Range(pendingQ) \cup {MsgExit}
      BY <1>0, <3>1, QueueAppend
    <3>3. pendingQ # << >> => Range(Tail(pendingQ)) \subseteq Range(pendingQ)
      BY <1>0, QueueTail
    <3> QED BY <2>1, <3>2, <3>3
  <2>3. c # MsgExit
    OBVIOUS
  <2> QED BY <1>1, <2>1, <2>2, <2>3 DEF Pending, InHand
<1>13. DispatchStep /\ ~GetExitTask /\ ~ClosePool => UNCHANGED <<posts, pendingQ, uid, urec>>
  BY DEF DispatchStep, ReadPending, AddPending, InsertRow, AddCallback, DropRecord, SaveAck,
         SetCloseFlag, JoinUpdate, poolVars
<1>14. FlaskStep \/ UNCHANGED vars => UNCHANGED <<posts, pendingQ, uid, urec>>
  BY DEF FlaskStep, NewCallback, PatchCallback, SendAck, CloseTask, vars, poolVars
<1>15. \/ CheckClose \/ NoneReady \/ LoadRequest \/ UpdateDies \/ BeginAddJob
       \/ RefuseJob \/ JobQueueFull \/ NothingSent \/ DiscardSent
       => UNCHANGED <<posts, pendingQ, uid, urec>>
  BY DEF CheckClose, NoneReady, LoadRequest, UpdateDies, BeginAddJob, RefuseJob,
         JobQueueFull, NothingSent, DiscardSent, UpdateFrame, poolVars, Pool!CheckFlag,
         Pool!PutFull
<1> QED
  BY <1>2, <1>3, <1>4, <1>5, <1>6, <1>7, <1>8, <1>9, <1>10, <1>11, <1>12, <1>13, <1>14,
     <1>15 DEF Next, UpdateStep, WorkerStep

(* A callback that was acknowledged, or has had its tries, leaves the      *)
(* table for good: whatever the dispatch thread, the update thread, the    *)
(* workers, a crash and a recovery do with the copies of its id and its    *)
(* record, it comes back neither in memory nor in its row, and is POSTed   *)
(* no more, but for the one job that may be on its way to a worker.        *)
THEOREM DroppedStaysOut == Spec => DroppedForGood
<1> DEFINE DropStep ==
      \A c \in Callback :
        /\ c \in Live /\ c \notin Live' /\ Running /\ Running' => Dropped(c)'
        /\ Dropped(c) =>
             /\ Dropped(c)'
             /\ posts'[c] + SendsLeft(c)' <= posts[c] + SendsLeft(c)
<1>1. RefinementInv /\ [Next]_vars => [DropStep]_vars
  <2> SUFFICES ASSUME RefinementInv, [Next]_vars, NEW c \in Callback
               PROVE  /\ c \in Live /\ c \notin Live' /\ Running /\ Running' => Dropped(c)'
                      /\ Dropped(c) =>
                           /\ Dropped(c)'
                           /\ posts'[c] + SendsLeft(c)' <= posts[c] + SendsLeft(c)
    OBVIOUS
  <2>1. ASSUME Dropped(c)
        PROVE  Dropped(c)' /\ posts'[c] + SendsLeft(c)' <= posts[c] + SendsLeft(c)
    <3>1. db'[c] # Missing /\ (db'[c].acked \/ db'[c].retries = 0)
      BY <2>1, DroppedRow
    <3>2. c \notin Live' /\ ~Entering(c)'
      BY <2>1, DroppedDoesNotEnter
    <3>3. c \notin Live
      BY <2>1 DEF Dropped
    <3> QED BY <3>1, <3>2, <3>3, SendsAreNumbered DEF Dropped, Entering
  <2> QED BY <2>1, LeavesDropped
<1> QED BY <1>1, RefinementHolds, PTL DEF Spec, DroppedForGood

-----------------------------------------------------------------------------
(* Refinement: the mapping, step by step *)

(* What the rows show of the callbacks. *)
Shown == [c \in Callback |-> StateOf(db[c])]

SameShown == \A c \in Callback : StateOf(db'[c]) = StateOf(db[c])

LEMMA ProcessValues ==
  /\ \A pc \in {"recover", "reload", "idle", "new", "ack"} : ProcessOf(pc) = "up"
  /\ ProcessOf("closing") = "closing" /\ ProcessOf("join") = "closing"
  /\ ProcessOf("exited") = "ended" /\ ProcessOf("dead") = "dead"
BY DEF ProcessOf

(* What Delivery assumes of its constants. *)
LEMMA DeliveryAssumed == Abstract!DeliveryAssumption
BY DEF Abstract!DeliveryAssumption

LEMMA RunningShown == TypeInv => (Running <=> ProcessOf(dpc) \in {"up", "closing"})
BY ProcessValues DEF TypeInv, TypeOK, DispatchPC, Running

LEMMA ShownKept == SameShown => Shown' = Shown
BY DEF SameShown, Shown

LEMMA ShownChanges ==
  ASSUME NEW c \in Callback, NEW s, StateOf(db'[c]) = s,
         \A d \in Callback : d # c => StateOf(db'[d]) = StateOf(db[d])
  PROVE  Shown' = [Shown EXCEPT ![c] = s]
BY DEF Shown

(* A step that does not show. *)
LEMMA Unseen ==
  ASSUME SameShown, UNCHANGED <<posts, app, patching, inputQ, restarts>>,
         ProcessOf(dpc') = ProcessOf(dpc)
  PROVE  UNCHANGED Abstract!vars
<1>1. Shown' = Shown
  BY ShownKept
<1> QED BY <1>1 DEF Abstract!vars, Abstract!rowVars, Shown

LEMMA FlaskRefines ==
  ASSUME TypeInv, FlaskStep PROVE Abstract!FlaskStep
<1>0. /\ db \in [Callback -> Row \cup {Missing}]
      /\ \A row \in Row : row.acked \in BOOLEAN
  BY RowFields DEF TypeInv, TypeOK
<1> USE DEF managerVars, dispatchVars, updateVars, poolVars, Abstract!rowVars
<1>1. ASSUME NEW c \in Callback, NewCallback(c) PROVE Abstract!NewCallback(c)
  <2>1. /\ app = "up" /\ db[c] = Missing /\ Put(Command("NEW_CALLBACK", c))
        /\ \A i \in DOMAIN inputQ : inputQ[i].id # c
        /\ UNCHANGED <<db, posts, app, patching, restarts, dpc>>
    BY <1>1 DEF NewCallback
  <2>2. Shown[c] = "none" /\ Shown' = Shown
    BY <2>1 DEF Shown, StateOf
  <2>3. ~Abstract!OnItsWay(c)
    BY <2>1 DEF Abstract!OnItsWay, Abstract!Command
  <2>4. Abstract!Put(Abstract!Command("NEW_CALLBACK", c))
    BY <2>1 DEF Put, Command, Abstract!Put, Abstract!Command
  <2> QED
    BY <2>1, <2>2, <2>3, <2>4 DEF Abstract!NewCallback, Abstract!PutCallback, Shown
<1>2. ASSUME NEW c \in Callback, PatchCallback(c) PROVE Abstract!PatchCallback(c)
  <2>1. /\ app = "up" /\ patching = NoCallback /\ patching' = c
        /\ db[c] # Missing /\ ~db[c].acked
        /\ db' = [db EXCEPT ![c] = [db[c] EXCEPT !.acked = TRUE]]
        /\ UNCHANGED <<posts, app, inputQ, restarts, dpc>>
    BY <1>2 DEF PatchCallback
  <2>2. Shown[c] \in {"open", "over"}
    BY <2>1 DEF Shown, StateOf
  <2>3. db'[c] # Missing /\ db'[c].acked
    <3>1. db[c] \in Row
      BY <1>0, <2>1
    <3>2. [db[c] EXCEPT !.acked = TRUE].acked
      BY <3>1 DEF Row
    <3> QED BY <1>0, <2>1, <3>1, <3>2, RowFields
  <2>4. Shown' = [Shown EXCEPT ![c] = "acked"]
    <3>1. StateOf(db'[c]) = "acked"
      BY <2>3 DEF StateOf
    <3>2. \A d \in Callback : d # c => db'[d] = db[d]
      BY <1>0, <2>1
    <3> QED BY <3>1, <3>2, ShownChanges
  <2> QED BY <2>1, <2>2, <2>4 DEF Abstract!PatchCallback, Shown
<1>3. CASE SendAck
  <2>1. Shown' = Shown
    BY <1>3 DEF SendAck, Shown
  <2> QED BY <1>3, <2>1
          DEF SendAck, Put, Command, Abstract!SendAck, Abstract!Put, Abstract!Command,
              Abstract!FlaskStep, Shown
<1>4. CASE CloseTask
  <2>1. Shown' = Shown
    BY <1>4 DEF CloseTask, Shown
  <2> QED BY <1>4, <2>1
          DEF CloseTask, Put, Command, Abstract!CloseTask, Abstract!Put, Abstract!Command,
              Abstract!FlaskStep, Shown
<1> QED BY <1>1, <1>2, <1>3, <1>4 DEF FlaskStep, Abstract!FlaskStep

LEMMA DispatchRefines ==
  ASSUME RefinementInv, DispatchStep
  PROVE  Abstract!Next \/ UNCHANGED Abstract!vars
<1>0. /\ db \in [Callback -> Row \cup {Missing}]
      /\ inputQ \in Seq(CommandSet)
  BY DEF RefinementInv, TypeInv, TypeOK
<1> USE DEF managerVars, updateVars, poolVars, flaskVars
<1>1. CASE ReadPending \/ AddPending \/ AddCallback \/ ClosePool \/ SetCloseFlag
  <2>1. UNCHANGED <<db, posts, app, patching, inputQ, restarts>>
    BY <1>1 DEF ReadPending, AddPending, AddCallback, ClosePool, SetCloseFlag,
                Pool!CloserStep, Pool!PurgeOne, Pool!PurgeDone, Pool!PutExit,
                Pool!ExitsDone, Pool!Join
  <2>2. ProcessOf(dpc') = ProcessOf(dpc)
    BY <1>1, ProcessValues
       DEF ReadPending, AddPending, AddCallback, ClosePool, SetCloseFlag, dispatchVars
  <2> QED BY <2>1, <2>2, Unseen DEF SameShown
<1>2. CASE InsertRow
  <2>1. /\ dpc = "idle" /\ dpc' = "new" /\ did' = Head(inputQ).id /\ did' \in Callback
        /\ db' = [db EXCEPT ![did'] = NewRow] /\ db[did'] = Missing
        /\ inputQ # << >> /\ Head(inputQ).cmd = "NEW_CALLBACK" /\ inputQ' = Tail(inputQ)
        /\ UNCHANGED <<posts, app, patching, restarts>>
    BY <1>2, CommandTaken DEF InsertRow, GetCommand, RefinementInv, TypeInv, CommandsInv
  <2>2. ProcessOf(dpc) = "up" /\ ProcessOf(dpc') = "up"
    BY <2>1, ProcessValues
  <2>3. Shown' = [Shown EXCEPT ![did'] = "open"]
    <3>1. db'[did'] = NewRow
      BY <1>0, <2>1
    <3>2. StateOf(NewRow) = "open"
      <4>1. NewRow # Missing /\ ~NewRow.acked
        BY NewRowType
      <4>2. NewRow.retries # 0
        BY DEF NewRow
      <4> QED BY <4>1, <4>2 DEF StateOf
    <3>3. \A d \in Callback : d # did' => db'[d] = db[d]
      BY <1>0, <2>1
    <3>4. \A d \in Callback : StateOf(db'[d]) = IF d = did' THEN "open" ELSE StateOf(db[d])
      BY <3>1, <3>2, <3>3
    <3> QED BY <3>4 DEF Shown
  <2>4. Abstract!TakeNew
    BY <2>1, <2>2, <2>3 DEF Abstract!TakeNew, Abstract!Take, Shown
  <2> QED BY <2>4 DEF Abstract!Next, Abstract!ProcessStep, Abstract!TakeStep
<1>3. CASE DropRecord
  <2>1. /\ dpc = "idle" /\ dpc' \in {"idle", "ack"}
        /\ inputQ # << >> /\ Head(inputQ).cmd = "ACK_CALLBACK" /\ inputQ' = Tail(inputQ)
        /\ UNCHANGED <<db, posts, app, patching, restarts>>
    BY <1>3 DEF DropRecord, GetCommand
  <2>2. ProcessOf(dpc) = "up" /\ ProcessOf(dpc') = "up"
    BY <2>1, ProcessValues
  <2>3. Abstract!TakeAck
    BY <2>1, <2>2 DEF Abstract!TakeAck, Abstract!Take
  <2> QED BY <2>3 DEF Abstract!Next, Abstract!ProcessStep, Abstract!TakeStep
<1>4. CASE SaveAck
  <2>1. /\ dpc = "ack" /\ dpc' = "idle" /\ did \in Callback
        /\ db' = [db EXCEPT ![did] = [db[did] EXCEPT !.acked = TRUE]]
        /\ UNCHANGED <<posts, app, patching, inputQ, restarts>>
    BY <1>4 DEF SaveAck, RefinementInv, TypeInv, HandsOK
  <2>2. db[did] \in Row /\ db[did] # Missing /\ db[did].acked
    BY <1>0, <2>1 DEF RefinementInv, FloorInv
  <2>3. db'[did] # Missing /\ db'[did].acked
    <3>1. [db[did] EXCEPT !.acked = TRUE].acked
      BY <2>2 DEF Row
    <3> QED BY <1>0, <2>1, <2>2, <3>1, RowFields
  <2>4. SameShown
    <3>1. StateOf(db'[did]) = "acked" /\ StateOf(db[did]) = "acked"
      BY <2>2, <2>3 DEF StateOf
    <3>2. \A d \in Callback : d # did => db'[d] = db[d]
      BY <1>0, <2>1
    <3> QED BY <3>1, <3>2 DEF SameShown
  <2>5. ProcessOf(dpc') = ProcessOf(dpc)
    BY <2>1, ProcessValues
  <2> QED BY <2>1, <2>4, <2>5, Unseen
<1>5. CASE GetExitTask
  <2>1. /\ dpc = "idle" /\ dpc' = "closing"
        /\ inputQ # << >> /\ Head(inputQ).cmd = "EXIT_TASK" /\ inputQ' = Tail(inputQ)
        /\ UNCHANGED <<db, posts, app, patching, restarts>>
    BY <1>5 DEF GetExitTask, GetCommand, Pool!BeginClose
  <2>2. ProcessOf(dpc) = "up" /\ ProcessOf(dpc') = "closing"
    BY <2>1, ProcessValues
  <2>3. Abstract!TakeExit
    BY <2>1, <2>2 DEF Abstract!TakeExit, Abstract!Take
  <2> QED BY <2>3 DEF Abstract!Next, Abstract!ProcessStep, Abstract!TakeStep
<1>6. CASE JoinUpdate
  <2>1. /\ dpc = "join" /\ dpc' = "exited"
        /\ UNCHANGED <<db, posts, app, patching, inputQ, restarts>>
    BY <1>6 DEF JoinUpdate
  <2>2. ProcessOf(dpc) = "closing" /\ ProcessOf(dpc') = "ended"
    BY <2>1, ProcessValues
  <2>3. Abstract!End
    BY <2>1, <2>2 DEF Abstract!End, Abstract!rowVars
  <2> QED BY <2>3 DEF Abstract!Next, Abstract!ProcessStep
<1> QED BY <1>1, <1>2, <1>3, <1>4, <1>5, <1>6 DEF DispatchStep

(* Saving a record that had its last retry is giving the callback up.      *)
LEMMA UpdateRefines ==
  ASSUME RefinementInv, Running, UpdateStep
  PROVE  Abstract!Next \/ UNCHANGED Abstract!vars
<1>0. /\ db \in [Callback -> Row \cup {Missing}]
      /\ upc = "save" => uid \in Callback /\ urec \in Record
  BY DEF RefinementInv, TypeInv, TypeOK, HandsOK
<1>1. UNCHANGED <<posts, app, patching, inputQ, restarts, dpc>>
  BY DEF UpdateStep, UpdateFrame, CheckClose, TakeReady, NoneReady, LoadRequest,
         UpdateDies, BeginAddJob, RefuseJob, AddJob, JobQueueFull, GiveBack,
         NothingSent, DiscardSent, Requeue, GiveUp, SaveRecord, Pool!CheckFlag,
         Pool!PutJob, Pool!PutFull, flaskVars, dispatchVars, poolVars
<1>2. CASE ~SaveRecord
  <2>1. db' = db
    BY <1>2 DEF UpdateStep, UpdateFrame, CheckClose, TakeReady, NoneReady, LoadRequest,
                UpdateDies, BeginAddJob, RefuseJob, AddJob, JobQueueFull, GiveBack,
                NothingSent, DiscardSent, Requeue, GiveUp
  <2> QED BY <1>1, <2>1, Unseen DEF SameShown
<1>3. CASE SaveRecord
  <2>1. /\ db' = [db EXCEPT ![uid] = SavedRow(db[uid], urec)]
        /\ uid \in Callback /\ urec \in Record /\ urec # Missing
        /\ db[uid] # Missing /\ db[uid] \in Row
    BY <1>0, <1>3 DEF SaveRecord, RefinementInv, TypeInv, HandsOK
  <2>2. /\ SavedRow(db[uid], urec) # Missing
        /\ SavedRow(db[uid], urec).retries = urec.retries
        /\ SavedRow(db[uid], urec).acked = db[uid].acked
    BY <2>1, SavedRowType DEF SavedRow, Row
  <2>3. /\ db'[uid] # Missing /\ db'[uid].retries = urec.retries
        /\ db'[uid].acked = db[uid].acked
        /\ \A d \in Callback : d # uid => db'[d] = db[d]
    BY <1>0, <2>1, <2>2
  <2>4. Saving(uid) /\ SavingOK(uid)
    BY <2>1 DEF Saving, RefinementInv, TriesInv, TriesOf
  <2>5. /\ urec.retries \in Nat /\ db[uid].retries \in Nat
        /\ posts[uid] \in Nat /\ Retries \in Nat
    BY <2>1, TriesTypes DEF RefinementInv
  <2>6. posts[uid] + db[uid].retries >= Retries + 2
    <3>1. posts[uid] + db[uid].retries >= Retries + 1 + One(Uncounted(uid))
      BY <2>1 DEF RefinementInv, FloorInv, FloorOf
    <3>2. Uncounted(uid)
      BY <2>4 DEF Uncounted
    <3> QED BY <2>5, <3>1, <3>2 DEF One
  <2>7. CASE ~db[uid].acked /\ urec.retries = 0 /\ db[uid].retries # 0
    <3>1. db[uid].retries = 1
      BY <2>4, <2>5, <2>7 DEF SavingOK
    <3>2. posts[uid] >= Retries + 1
      BY <2>5, <2>6, <3>1
    <3>3. Shown[uid] = "open"
      BY <2>1, <2>7 DEF Shown, StateOf
    <3>4. Shown' = [Shown EXCEPT ![uid] = "over"]
      <4>1. StateOf(db'[uid]) = "over"
        BY <2>3, <2>7 DEF StateOf
      <4> QED BY <2>1, <2>3, <4>1, ShownChanges
    <3>5. Abstract!Running
      BY RunningShown DEF RefinementInv, Abstract!Running
    <3>6. Abstract!GiveUp(uid)
      BY <1>1, <3>2, <3>3, <3>4, <3>5 DEF Abstract!GiveUp, Shown
    <3> QED BY <2>1, <3>6 DEF Abstract!Next, Abstract!ProcessStep
  <2>8. CASE ~(~db[uid].acked /\ urec.retries = 0 /\ db[uid].retries # 0)
    <3>1. db[uid].acked \/ (urec.retries = 0 <=> db[uid].retries = 0)
      BY <2>4, <2>5, <2>8 DEF SavingOK
    <3>2. StateOf(db'[uid]) = StateOf(db[uid])
      BY <2>1, <2>3, <3>1 DEF StateOf
    <3> QED BY <1>1, <2>3, <3>2, Unseen DEF SameShown
  <2> QED BY <2>7, <2>8
<1> QED BY <1>2, <1>3

LEMMA WorkerRefines ==
  ASSUME RefinementInv, TriesInv', Running, NEW w \in Worker, WorkerStep(w)
  PROVE  Abstract!Next \/ UNCHANGED Abstract!vars
<1>0. /\ pendingQ \in Seq(Callback \cup {MsgExit})
      /\ posts \in [Callback -> Nat]
  BY DEF RefinementInv, TypeInv, TypeOK, Pool!TypeOK
<1> USE DEF flaskVars, dispatchVars
<1>1. CASE StartPost(w)
  <2>0. PICK c \in Callback : pendingQ # << >> /\ c = Head(pendingQ)
    BY <1>0, <1>1, QueueTail DEF StartPost, Pool!GetJob, Pool!IsExit
  <2>1. /\ posts' = [posts EXCEPT ![c] = posts[c] + 1]
        /\ UNCHANGED <<db, app, patching, inputQ, restarts, dpc>>
    BY <1>1, <2>0 DEF StartPost, Pool!GetJob
  <2>2. db[c] # Missing
    <3>1. Pending(c)
      BY <1>0, <2>0, QueueTail DEF Pending
    <3> QED BY <3>1 DEF RefinementInv, PlacesInv, Somewhere
  <2>3. Shown[c] # "none"
    BY <2>2 DEF Shown, StateOf
  <2>4. posts[c] < Retries + 2 + restarts
    <3>1. posts'[c] <= Retries + 2 + restarts'
      BY DEF TriesInv, TriesOf
    <3>2. posts[c] \in Nat /\ restarts \in Nat /\ Retries \in Nat
      BY TriesTypes DEF RefinementInv
    <3> QED BY <1>0, <2>1, <3>1, <3>2
  <2>5. Abstract!Running
    BY RunningShown DEF RefinementInv, Abstract!Running
  <2>6. Abstract!Post(c)
    BY <2>1, <2>3, <2>4, <2>5 DEF Abstract!Post, Shown
  <2> QED BY <2>6 DEF Abstract!Next, Abstract!ProcessStep
<1>2. CASE EndPost(w) \/ EndWorker(w)
  <2>1. UNCHANGED <<db, posts, app, patching, inputQ, restarts, dpc>>
    BY <1>2 DEF EndPost, EndWorker, Pool!FinishJob, Pool!GetExit
  <2> QED BY <2>1, Unseen DEF SameShown
<1> QED BY <1>1, <1>2 DEF WorkerStep

LEMMA TickRefines == TypeInv /\ Tick => UNCHANGED Abstract!vars
<1> SUFFICES ASSUME TypeInv, Tick PROVE UNCHANGED Abstract!vars
  OBVIOUS
<1>0. db \in [Callback -> Row \cup {Missing}]
  BY DEF TypeInv, TypeOK
<1>1. UNCHANGED <<posts, app, patching, inputQ, restarts, dpc>>
  BY DEF Tick, flaskVars, dispatchVars
<1>2. \A row \in Row : LET r == [row EXCEPT !.age = Older(row.age)]
                      IN  r # Missing /\ r.acked = row.acked /\ r.retries = row.retries
  BY OlderTypes DEF Row
<1>3. \A c \in Callback :
        /\ db'[c] = Missing <=> db[c] = Missing
        /\ db[c] # Missing => db'[c].acked = db[c].acked /\ db'[c].retries = db[c].retries
  BY <1>0, <1>2 DEF Tick
<1>4. SameShown
  BY <1>3 DEF SameShown, StateOf
<1> QED BY <1>1, <1>4, Unseen

LEMMA CrashRefines ==
  TypeInv /\ (TaskDies \/ Restart) => Abstract!Dies \/ Abstract!Restart
<1> SUFFICES ASSUME TypeInv, TaskDies \/ Restart PROVE Abstract!Dies \/ Abstract!Restart
  OBVIOUS
<1> USE DEF flaskVars, Abstract!rowVars
<1>1. Abstract!Running <=> Running
  BY RunningShown DEF Abstract!Running
<1>2. CASE TaskDies
  <2>1. ProcessOf(dpc') = "dead"
    BY <1>2, ProcessValues DEF TaskDies
  <2> QED BY <1>1, <1>2, <2>1 DEF TaskDies, Abstract!Dies
<1>3. CASE Restart
  <2>1. ProcessOf(dpc') = "up"
    BY <1>3, ProcessValues DEF Restart
  <2> QED BY <1>1, <1>3, <2>1 DEF Restart, Abstract!Restart
<1> QED BY <1>2, <1>3

LEMMA StepRefines ==
  RefinementInv /\ TriesInv' /\ [Next]_vars => [Abstract!Next]_(Abstract!vars)
<1> SUFFICES ASSUME RefinementInv, TriesInv', [Next]_vars
             PROVE  Abstract!Next \/ UNCHANGED Abstract!vars
  OBVIOUS
<1>1. TypeInv
  BY DEF RefinementInv
<1>2. CASE UNCHANGED vars
  BY <1>2, Unseen DEF vars, flaskVars, dispatchVars, SameShown
<1>3. CASE FlaskStep
  BY <1>1, <1>3, FlaskRefines DEF Abstract!Next
<1>4. CASE TaskDies \/ Restart
  BY <1>1, <1>4, CrashRefines DEF Abstract!Next
<1> QED
  BY <1>1, <1>2, <1>3, <1>4, DispatchRefines, UpdateRefines, WorkerRefines, TickRefines
  DEF Next

(* Whatever the threads of the process do between each other's steps, and  *)
(* wherever it is killed, the delivery of callbacks is what Delivery says: *)
(* a row is created by its command only, a callback is given up only after *)
(* its first send and all of its retries and is never taken back from      *)
(* acknowledged, no callback is POSTed more often than promised, and a     *)
(* restart forgets the commands in the queue and nothing else.             *)
THEOREM DeliveryImplemented == Spec => ImplementsDelivery
<1>1. Init => Abstract!Init
  BY ProcessValues DEF Init, Abstract!Init, StateOf
<1>2. Spec => [](RefinementInv /\ TriesInv)
  BY RefinementHolds, TriesHold, PTL
<1>3. RefinementInv /\ TriesInv' /\ [Next]_vars => [Abstract!Next]_(Abstract!vars)
  BY StepRefines
<1> QED BY <1>1, <1>2, <1>3, PTL DEF Spec, ImplementsDelivery, Abstract!Spec

===============================================================================
