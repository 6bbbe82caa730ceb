---------------------------- MODULE ThreadPoolProofs ----------------------------
(***************************************************************************)
(* Proofs about ThreadPool, for any number of workers, producers and jobs  *)
(* and any queue length.                                                   *)
(***************************************************************************)
EXTENDS ThreadPool, SequenceTheorems, FiniteSetTheorems, TLAPS

USE PoolAssumption

-----------------------------------------------------------------------------
(* Type correctness *)

LEMMA ExitMessagesType == ExitMessages \in Nat
<1>1. Cardinality(Worker) \in Nat
  BY FS_CardinalityType
<1> QED BY <1>1 DEF ExitMessages

(* Every step of the pool keeps the types of its variables: the queue only *)
(* ever holds jobs and exit messages, and exitsLeft never goes below zero. *)
LEMMA TypeStep == TypeOK /\ [Next]_poolVars => TypeOK'
<1> SUFFICES ASSUME TypeOK, [Next]_poolVars PROVE TypeOK'
  OBVIOUS
<1> USE DEF TypeOK
<1>1. ASSUME NEW p \in Producer, NEW j \in Job, CheckFlag(p, j) PROVE TypeOK'
  BY <1>1 DEF CheckFlag
<1>2. ASSUME NEW p \in Producer, PutJob(p) PROVE TypeOK'
  <2>1. adding[p] \in Job
    BY <1>2 DEF PutJob
  <2> QED BY <1>2, <2>1 DEF PutJob
<1>3. ASSUME NEW p \in Producer, PutFull(p) PROVE TypeOK'
  BY <1>3 DEF PutFull
<1>4. ASSUME NEW w \in Worker, GetJob(w) PROVE TypeOK'
  <2>1. Head(pendingQ) \in Job
    BY <1>4 DEF GetJob, IsExit
  <2>2. runs[Head(pendingQ)] + 1 \in Nat
    BY <2>1
  <2> QED BY <1>4, <2>1, <2>2 DEF GetJob, Taken
<1>5. ASSUME NEW w \in Worker, GetExit(w) PROVE TypeOK'
  BY <1>5 DEF GetExit, Taken
<1>6. ASSUME NEW w \in Worker, FinishJob(w) PROVE TypeOK'
  BY <1>6 DEF FinishJob
<1>7. ASSUME NEW w \in Worker, RaiseJob(w) PROVE TypeOK'
  BY <1>7 DEF RaiseJob
<1>8. ASSUME NEW now \in BOOLEAN, BeginClose(now) PROVE TypeOK'
  BY <1>8, ExitMessagesType DEF BeginClose
<1>9. CASE PurgeOne
  BY <1>9 DEF PurgeOne
<1>10. CASE PurgeDone
  BY <1>10 DEF PurgeDone
<1>11. CASE PutExit
  BY <1>11 DEF PutExit, WithExit
<1>12. CASE ExitsDone
  BY <1>12 DEF ExitsDone
<1>13. CASE Join
  BY <1>13 DEF Join
<1>14. CASE UNCHANGED poolVars
  BY <1>14 DEF poolVars
<1> QED
  BY <1>1, <1>2, <1>3, <1>4, <1>5, <1>6, <1>7, <1>8, <1>9, <1>10, <1>11, <1>12,
     <1>13, <1>14 DEF Next, WorkerStep, CloserStep

LEMMA PoolStarts == Init => TypeOK
<1> SUFFICES ASSUME Init PROVE TypeOK
  OBVIOUS
<1>1. pendingQ \in Seq(Job \cup {MsgExit})
  <2>1. << >> \in Seq(Job \cup {MsgExit})
    BY EmptySeq
  <2> QED BY <2>1 DEF Init
<1>2. worker \in [Worker -> Job \cup {Idle, Gone}]
  BY DEF Init
<1>3. adding \in [Producer -> Job \cup {NoJob}]
  BY DEF Init
<1>4. runs \in [Job -> Nat]
  BY DEF Init
<1> QED BY <1>1, <1>2, <1>3, <1>4 DEF Init, TypeOK

(* The type invariant holds in every behaviour of the pool. *)
THEOREM PoolTypeCorrect == Spec => []TypeOK
<1>1. Init => TypeOK
  BY PoolStarts
<1> QED BY <1>1, TypeStep, PTL DEF Spec

-----------------------------------------------------------------------------
(* A submitted job is run at most once *)

(* No element of q but x is in q twice. *)
NoneTwiceBut(q, x) ==
  \A i, k \in DOMAIN q : q[i] = q[k] /\ q[i] # x => i = k

(* The inductive invariant: a job has its run behind it, or is in the      *)
(* queue (once), or with one producer that has checked the flag; never two *)
(* of these.                                                               *)
JobIsOnce ==
  /\ NoneTwiceBut(pendingQ, MsgExit)
  /\ \A p, q \in Producer : adding[p] = adding[q] /\ adding[p] \in Job => p = q
  /\ \A p \in Producer : adding[p] \in Job =>
       ~InQueue(adding[p]) /\ runs[adding[p]] = 0
  /\ \A j \in Job : runs[j] <= 1
  /\ \A j \in Job : InQueue(j) => runs[j] = 0

(* A message leaves the queue: the rest is in it once. *)
LEMMA TakenLeavesOnce ==
  ASSUME TypeOK, NoneTwiceBut(pendingQ, MsgExit), pendingQ # << >>
  PROVE  /\ NoneTwiceBut(Tail(pendingQ), MsgExit)
         /\ Range(Tail(pendingQ)) \subseteq Range(pendingQ)
         /\ Head(pendingQ) \in Range(pendingQ)
         /\ Head(pendingQ) # MsgExit => Head(pendingQ) \notin Range(Tail(pendingQ))
<1> DEFINE q == pendingQ
           rest == Tail(pendingQ)
<1>1. q \in Seq(Job \cup {MsgExit})
  BY DEF TypeOK
<1>2. /\ Len(q) \in Nat \ {0} /\ DOMAIN q = 1..Len(q) /\ Head(q) = q[1]
      /\ DOMAIN rest = 1..(Len(q) - 1)
      /\ \A i \in DOMAIN rest : rest[i] = q[i + 1]
  BY <1>1, EmptySeq, LenProperties, HeadTailProperties
<1> HIDE DEF q, rest
<1>3. 1 \in DOMAIN q /\ \A i \in DOMAIN rest : i + 1 \in DOMAIN q /\ i + 1 # 1 /\ i \in Int
  BY <1>2
<1>4. /\ NoneTwiceBut(rest, MsgExit)
      /\ Range(rest) \subseteq Range(q) /\ Head(q) \in Range(q)
      /\ Head(q) # MsgExit => Head(q) \notin Range(rest)
  BY <1>2, <1>3 DEF NoneTwiceBut, Range, q
<1> QED BY <1>4 DEF q, rest

(* A message is put that the queue does not have, or an exit message. *)
LEMMA PutKeepsOnce ==
  ASSUME TypeOK, NoneTwiceBut(pendingQ, MsgExit), NEW msg \in Job \cup {MsgExit},
         msg = MsgExit \/ ~InQueue(msg)
  PROVE  /\ NoneTwiceBut(Append(pendingQ, msg), MsgExit)
         /\ Range(Append(pendingQ, msg)) = Range(pendingQ) \cup {msg}
<1> DEFINE q == pendingQ
           more == Append(pendingQ, msg)
<1>1. /\ Len(q) \in Nat /\ DOMAIN q = 1..Len(q) /\ DOMAIN more = 1..(Len(q) + 1)
      /\ \A i \in DOMAIN q : more[i] = q[i]
      /\ more[Len(q) + 1] = msg
  BY AppendProperties, LenProperties DEF TypeOK
<1> HIDE DEF more
<1>2. /\ \A i \in DOMAIN more :
           (i \in DOMAIN q /\ more[i] = q[i]) \/ (i = Len(q) + 1 /\ more[i] = msg)
      /\ \A i \in DOMAIN q : i \in DOMAIN more
      /\ Len(q) + 1 \in DOMAIN more
  BY <1>1
<1>3. /\ NoneTwiceBut(more, MsgExit)
      /\ Range(more) = Range(q) \cup {msg}
  BY <1>1, <1>2 DEF NoneTwiceBut, Range, InQueue
<1> QED BY <1>3 DEF more

LEMMA JobIsOnceStep == TypeOK /\ JobIsOnce /\ [Next]_poolVars => JobIsOnce'
<1> SUFFICES ASSUME TypeOK, JobIsOnce, [Next]_poolVars PROVE JobIsOnce'
  OBVIOUS
<1>0. pendingQ \in Seq(Job \cup {MsgExit})
  BY DEF TypeOK
<1> USE DEF JobIsOnce, InQueue
<1>1. ASSUME NEW p \in Producer, NEW j \in Job, Fresh(j), CheckFlag(p, j)
      PROVE JobIsOnce'
  BY <1>1 DEF CheckFlag, Fresh, TypeOK
<1>2. ASSUME NEW p \in Producer, PutJob(p) PROVE JobIsOnce'
  <2>1. adding[p] \in Job /\ pendingQ' = Append(pendingQ, adding[p])
    BY <1>2 DEF PutJob, TypeOK
  <2>2. /\ Range(pendingQ') = Range(pendingQ) \cup {adding[p]}
        /\ NoneTwiceBut(pendingQ', MsgExit)
    BY <1>2, <2>1, PutKeepsOnce
  <2> QED BY <1>2, <2>1, <2>2 DEF PutJob, TypeOK
<1>3. ASSUME NEW p \in Producer, PutFull(p) PROVE JobIsOnce'
  BY <1>3 DEF PutFull, TypeOK
<1>4. ASSUME NEW w \in Worker, GetJob(w) PROVE JobIsOnce'
  <2> DEFINE j == Head(pendingQ)
  <2>1. j \in Job /\ j # MsgExit /\ pendingQ' = Tail(pendingQ)
    BY <1>0, <1>4, HeadTailProperties DEF GetJob, IsExit, Taken
  <2>2. /\ NoneTwiceBut(pendingQ', MsgExit)
        /\ Range(pendingQ') \subseteq Range(pendingQ)
        /\ j \in Range(pendingQ) /\ j \notin Range(pendingQ')
    BY <1>4, <2>1, TakenLeavesOnce DEF GetJob
  <2>3. runs[j] = 0 /\ runs' = [runs EXCEPT ![j] = 1]
    <3>1. runs[j] = 0 /\ runs \in [Job -> Nat]
      BY <2>1, <2>2 DEF TypeOK
    <3>2. runs' = [runs EXCEPT ![j] = runs[j] + 1]
      BY <1>4 DEF GetJob
    <3> HIDE DEF j
    <3> QED BY <3>1, <3>2
  <2>4. adding' = adding
    BY <1>4 DEF GetJob
  <2> HIDE DEF j
  <2> QED BY <2>1, <2>2, <2>3, <2>4 DEF TypeOK
<1>5. ASSUME NEW w \in Worker, GetExit(w) PROVE JobIsOnce'
  BY <1>5, TakenLeavesOnce DEF GetExit, Taken
<1>6. ASSUME NEW w \in Worker, FinishJob(w) PROVE JobIsOnce'
  BY <1>6 DEF FinishJob
<1>7. ASSUME NEW w \in Worker, RaiseJob(w) PROVE JobIsOnce'
  BY <1>7 DEF RaiseJob
<1>8. ASSUME NEW now \in BOOLEAN, BeginClose(now) PROVE JobIsOnce'
  BY <1>8 DEF BeginClose
<1>9. CASE PurgeOne
  BY <1>9, TakenLeavesOnce DEF PurgeOne
<1>10. CASE PurgeDone
  BY <1>10 DEF PurgeDone
<1>11. CASE PutExit
  <2>1. /\ Range(pendingQ') = Range(pendingQ) \cup {MsgExit}
        /\ NoneTwiceBut(pendingQ', MsgExit)
    BY <1>11, PutKeepsOnce DEF PutExit, WithExit
  <2> QED BY <1>11, <2>1 DEF PutExit, TypeOK
<1>12. CASE ExitsDone
  BY <1>12 DEF ExitsDone
<1>13. CASE Join
  BY <1>13 DEF Join
<1>14. CASE UNCHANGED poolVars
  BY <1>14 DEF poolVars
<1> QED
  BY <1>1, <1>2, <1>3, <1>4, <1>5, <1>6, <1>7, <1>8, <1>9, <1>10, <1>11, <1>12,
     <1>13, <1>14 DEF Next, WorkerStep, CloserStep

(* However add_job, the workers and close interleave, every submitted job  *)
(* is handed to the pool's function at most once.                          *)
THEOREM PoolRunsOnce == Spec => []EachJobRunsAtMostOnce
<1>1. Init => TypeOK /\ JobIsOnce
  <2> SUFFICES ASSUME Init PROVE TypeOK /\ JobIsOnce
    OBVIOUS
  <2>1. DOMAIN pendingQ = {} /\ TypeOK
    BY PoolStarts DEF Init
  <2> QED BY <2>1 DEF Init, JobIsOnce, InQueue, NoneTwiceBut, Range
<1>2. JobIsOnce => EachJobRunsAtMostOnce
  BY DEF JobIsOnce, EachJobRunsAtMostOnce
<1>3. TypeOK /\ JobIsOnce /\ [Next]_poolVars => (TypeOK /\ JobIsOnce)'
  BY TypeStep, JobIsOnceStep
<1> QED BY <1>1, <1>2, <1>3, PTL DEF Spec

=============================================================================
