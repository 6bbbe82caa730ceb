------------------------------ MODULE SystemProofs ------------------------------
(***************************************************************************)
(* Proofs about System: what the two processes, their queues and clean_up  *)
(* promise together, for any number of callbacks, subscriptions, restarts  *)
(* and kills, and queues of any length. The first half is about the queue  *)
(* of the delivery process. The second uses what is proved of BitmonTask   *)
(* alone, of which the application is shown to be an implementation.       *)
(***************************************************************************)
EXTENDS System, Functions, SequenceTheorems, FiniteSetTheorems, TLAPS

-----------------------------------------------------------------------------
(* The queue of the delivery process *)

(* A sequence is one of its elements. *)
LEMMA AppendedLast ==
  ASSUME NEW q, q \in Seq(Range(q)), NEW e
  PROVE  /\ Append(q, e) \in Seq(Range(Append(q, e)))
         /\ Len(q) \in Nat /\ DOMAIN q = 1..Len(q)
         /\ DOMAIN Append(q, e) = 1..Len(q) + 1
         /\ \A i \in DOMAIN q : Append(q, e)[i] = q[i]
         /\ Append(q, e)[Len(q) + 1] = e
<1> DEFINE S == Range(q) \cup {e}
           r == Append(q, e)
<1>1. q \in Seq(S)
  BY SeqMonotonic
<1>2. e \in S
  OBVIOUS
<1> HIDE DEF S
<1>3. /\ r \in Seq(S) /\ Len(r) = Len(q) + 1
      /\ \A i \in 1..Len(q) : r[i] = q[i]
      /\ r[Len(q) + 1] = e
  BY <1>1, <1>2, AppendProperties
<1>4. Len(q) \in Nat /\ DOMAIN q = 1..Len(q)
  BY <1>1, LenProperties
<1>5. DOMAIN r = 1..Len(r)
  BY <1>3, LenProperties
<1>6. r \in Seq(Range(r))
  BY <1>3, SeqOfRange
<1> QED BY <1>3, <1>4, <1>5, <1>6

(* The tail of a queue has the elements behind the first. *)
LEMMA HeadTaken ==
  ASSUME NEW q, q \in Seq(Range(q)), q # << >>
  PROVE  /\ Tail(q) \in Seq(Range(Tail(q)))
         /\ Len(q) \in Nat \ {0} /\ DOMAIN q = 1..Len(q)
         /\ Head(q) = q[1]
         /\ DOMAIN Tail(q) = 1..Len(q) - 1
         /\ \A i \in DOMAIN Tail(q) : Tail(q)[i] = q[i + 1]
<1> DEFINE S == Range(q)
           r == Tail(q)
<1> HIDE DEF S
<1>1. q \in Seq(S)
  BY DEF S
<1>2. /\ r \in Seq(S) /\ Len(r) = Len(q) - 1
      /\ \A i \in 1..Len(r) : r[i] = q[i + 1]
  BY <1>1, HeadTailProperties
<1>3. Len(q) \in Nat \ {0} /\ DOMAIN q = 1..Len(q)
  BY <1>1, LenProperties, EmptySeq
<1>4. DOMAIN r = 1..Len(r)
  BY <1>2, LenProperties
<1>5. r \in Seq(Range(r))
  BY <1>2, SeqOfRange
<1>6. Head(q) = q[1]
  BY <1>1
<1> QED BY <1>2, <1>3, <1>4, <1>5, <1>6

(* What survives of a queue was in it. *)
LEMMA SurvivorsWereThere ==
  ASSUME NEW q, q \in Seq(Range(q)), NEW r \in Surviving(q)
  PROVE  r \in Seq(Range(r)) /\ \A i \in DOMAIN r : r[i] \in Range(q)
<1>0. PICK n \in {0} \cup Callback :
        r \in {[i \in DOMAIN f |-> q[f[i]]] : f \in InOrder(Kept(q, n))}
  BY DEF Surviving
<1>1. PICK f \in InOrder(Kept(q, n)) : r = [i \in DOMAIN f |-> q[f[i]]]
  BY <1>0
<1> DEFINE K == Kept(q, n)
           m == Cardinality(K)
<1>2. K \subseteq DOMAIN q /\ DOMAIN q = 1..Len(q) /\ Len(q) \in Nat
  BY LenProperties DEF Kept
<1>3. IsFiniteSet(1..Len(q))
  BY <1>2, FS_Interval
<1>4. m \in Nat
  BY <1>2, <1>3, FS_Subset, FS_CardinalityType
<1>5. f \in [1..m -> K]
  BY <1>1 DEF InOrder
<1> HIDE DEF K, m
<1>6. \A i \in 1..m : q[f[i]] \in Range(q)
  BY <1>2, <1>5 DEF Range
<1>7. r \in [1..m -> Range(q)]
  BY <1>1, <1>5, <1>6
<1>8. r \in Seq(Range(q))
  BY <1>4, <1>7
<1> QED BY <1>7, <1>8, SeqOfRange

(* clean_up is done with bitmon. *)
Closing == phase \in {"joining delivery", "closed"}

IsNew(msg) == msg.cmd = "NEW_CALLBACK"

(* EXIT_TASK is put when bitmon has ended, so that no callback is behind   *)
(* it, and none is left when the delivery process has taken it.            *)
QueueInv ==
  /\ inputQ \in Seq(Range(inputQ))
  /\ about \in Seq(Range(about))
  /\ DOMAIN state = Callback
  /\ process \in {"up", "closing", "ended", "dead"}
  /\ \A i \in DOMAIN inputQ :
       inputQ[i].cmd = "EXIT_TASK" =>
         Closing /\ \A j \in DOMAIN inputQ : j > i => ~IsNew(inputQ[j])
  /\ process \in {"closing", "ended"} =>
       Closing /\ \A i \in DOMAIN inputQ : ~IsNew(inputQ[i])
  /\ Closing => ~Bitmon!Running

(* Bitmon does a step of its own only while it runs, and the others leave  *)
(* it where it is.                                                         *)
LEMMA BitmonStays ==
  ASSUME [Next]_vars
  PROVE  \/ Bitmon!Running
         \/ bpc' = bpc
         \/ Restart
<1>1. CASE Request
  BY <1>1 DEF Request, DeliveryFrame, bitmonVars, Bitmon!Requests, Bitmon!PostSubscription,
              Bitmon!TestSubscription, Bitmon!PatchSubscription, Bitmon!Handler,
              Bitmon!taskVars
<1>2. CASE TellBitmon
  BY <1>2 DEF TellBitmon, Bitmon!SendCommand, Bitmon!taskVars
<1>3. CASE TellDelivery \/ DeliveryStep \/ DeliveryDies \/ BeginCleanUp
  BY <1>3 DEF TellDelivery, DeliveryStep, DeliveryDies, BeginCleanUp, DeliveryFrame, bitmonVars
<1>4. CASE BitmonStep
  BY <1>4 DEF BitmonStep, Bitmon!Running, Bitmon!CommandStep, Bitmon!GetNew, Bitmon!GetCancel,
              Bitmon!GetExit, Bitmon!GetCommand, Bitmon!LocalStep, Bitmon!LoadState,
              Bitmon!RemoveExpired, Bitmon!SaveExpired, Bitmon!AskHeight, Bitmon!LoadBlock,
              Bitmon!SaveBlock, Bitmon!BeginStep, Bitmon!Connect, Bitmon!BeginPoll,
              Bitmon!PollFails, Bitmon!SavesBlock
<1>5. CASE \E cback \in out : SendCallback(cback)
  BY <1>5 DEF SendCallback, Bitmon!SendCallback
<1>6. CASE WorldStep
  BY <1>6 DEF WorldStep, Bitmon!WorldStep, Bitmon!taskVars
<1>7. CASE CleanUpStep
  BY <1>7 DEF CleanUpStep, CloseBitmon, CloseDelivery, JoinDelivery, bitmonVars,
              Bitmon!CloseTask, Bitmon!taskVars
<1>8. CASE BitmonDies
  BY <1>8 DEF BitmonDies, Bitmon!TaskDies
<1>9. CASE UNCHANGED vars
  BY <1>9 DEF vars, bitmonVars
<1> QED BY <1>1, <1>2, <1>3, <1>4, <1>5, <1>6, <1>7, <1>8, <1>9 DEF Next

(* When the queue stays, or a message is put that is no callback.          *)
LEMMA QuietQueueKept ==
  ASSUME QueueInv, UNCHANGED <<inputQ, process, about>>, DOMAIN state' = Callback,
         Closing => Closing', Closing' => ~Bitmon!Running'
  PROVE  QueueInv'
BY DEF QueueInv, IsNew, Range

(* A message is put at the end. *)
LEMMA PutKept ==
  ASSUME QueueInv, NEW msg, inputQ' = Append(inputQ, msg), UNCHANGED <<process, state>>,
         about' \in Seq(Range(about')), Closing => Closing', Closing' => ~Bitmon!Running',
         msg.cmd = "EXIT_TASK" => Closing',
         IsNew(msg) => ~Closing
  PROVE  QueueInv'
<1> DEFINE n == Len(inputQ)
           more == Append(inputQ, msg)
<1>1. /\ more \in Seq(Range(more)) /\ n \in Nat /\ DOMAIN inputQ = 1..n
      /\ DOMAIN more = 1..n + 1
      /\ \A i \in DOMAIN inputQ : more[i] = inputQ[i]
      /\ more[n + 1] = msg
  BY AppendedLast DEF QueueInv
<1>2. inputQ' = more
  OBVIOUS
<1> HIDE DEF n, more
<1>3. \A i \in DOMAIN more :
        (i \in DOMAIN inputQ /\ more[i] = inputQ[i]) \/ (i = n + 1 /\ more[i] = msg)
  BY <1>1
<1>4. \A i \in DOMAIN inputQ : i < n + 1 /\ i \in Int
  BY <1>1
<1>5. ASSUME NEW i \in DOMAIN more, more[i].cmd = "EXIT_TASK"
      PROVE  Closing' /\ \A j \in DOMAIN more : j > i => ~IsNew(more[j])
  <2>1. CASE i \in DOMAIN inputQ /\ more[i] = inputQ[i]
    <3>1. Closing /\ \A j \in DOMAIN inputQ : j > i => ~IsNew(inputQ[j])
      BY <1>5, <2>1 DEF QueueInv
    <3> QED BY <1>3, <3>1
  <2>2. CASE i = n + 1 /\ more[i] = msg
    <3>1. \A j \in DOMAIN more : ~(j > i)
      BY <1>1, <2>2
    <3> QED BY <1>5, <2>2, <3>1
  <2> QED BY <1>3, <2>1, <2>2
<1>6. ASSUME process' \in {"closing", "ended"}
      PROVE  Closing' /\ \A i \in DOMAIN more : ~IsNew(more[i])
  <2>1. Closing /\ \A i \in DOMAIN inputQ : ~IsNew(inputQ[i])
    BY <1>6 DEF QueueInv
  <2> QED BY <1>3, <2>1
<1> QED BY <1>1, <1>2, <1>5, <1>6 DEF QueueInv, IsNew

(* The process takes its first message. *)
LEMMA TakeKept ==
  ASSUME QueueInv, inputQ # << >>, inputQ' = Tail(inputQ), UNCHANGED <<about, phase, bpc>>,
         process = "up", DOMAIN state' = Callback,
         process' = "up" \/ (process' = "closing" /\ Head(inputQ).cmd = "EXIT_TASK")
  PROVE  QueueInv'
<1> DEFINE n == Len(inputQ)
           rest == Tail(inputQ)
<1>1. /\ rest \in Seq(Range(rest)) /\ n \in Nat \ {0} /\ DOMAIN inputQ = 1..n
      /\ Head(inputQ) = inputQ[1]
      /\ DOMAIN rest = 1..n - 1
      /\ \A i \in DOMAIN rest : rest[i] = inputQ[i + 1]
  BY HeadTaken DEF QueueInv
<1>2. inputQ' = rest
  OBVIOUS
<1> HIDE DEF n, rest
<1>3. \A i \in DOMAIN rest : i + 1 \in DOMAIN inputQ /\ i + 1 > 1 /\ i \in Int
  BY <1>1
<1>4. ASSUME NEW i \in DOMAIN rest, rest[i].cmd = "EXIT_TASK"
      PROVE  Closing /\ \A j \in DOMAIN rest : j > i => ~IsNew(rest[j])
  <2>1. Closing /\ \A j \in DOMAIN inputQ : j > i + 1 => ~IsNew(inputQ[j])
    BY <1>1, <1>3, <1>4 DEF QueueInv
  <2>2. \A j \in DOMAIN rest : j > i => j + 1 > i + 1
    BY <1>3
  <2> QED BY <1>1, <1>3, <2>1, <2>2
<1>5. ASSUME process' = "closing"
      PROVE  Closing /\ \A i \in DOMAIN rest : ~IsNew(rest[i])
  <2>1. 1 \in DOMAIN inputQ /\ inputQ[1].cmd = "EXIT_TASK"
    BY <1>1, <1>5
  <2>2. Closing /\ \A j \in DOMAIN inputQ : j > 1 => ~IsNew(inputQ[j])
    BY <2>1 DEF QueueInv
  <2> QED BY <1>1, <1>3, <2>2
<1>6. (Closing' <=> Closing) /\ (Bitmon!Running' <=> Bitmon!Running)
  BY DEF Closing, Bitmon!Running
<1> QED BY <1>1, <1>2, <1>4, <1>5, <1>6 DEF QueueInv, IsNew

(* Where bitmon may be when clean_up is done with it. *)
LEMMA BitmonStaysEnded ==
  ASSUME QueueInv, [Next]_vars, Closing, phase' # "serving"
  PROVE  ~Bitmon!Running'
BY BitmonStays DEF QueueInv, Bitmon!Running, Restart

(* The steps of the delivery process and of the handlers that write to it. *)
LEMMA DeliveryKeepsQueue ==
  ASSUME QueueInv, DeliveryFrame,
         \/ Deliv!SendAck \/ Deliv!ProcessStep \/ Deliv!Dies
         \/ \E c \in Callback : Deliv!PatchCallback(c)
  PROVE  QueueInv'
<1>1. /\ UNCHANGED <<about, phase, bpc>>
      /\ (Closing' <=> Closing) /\ (Bitmon!Running' <=> Bitmon!Running)
  BY DEF DeliveryFrame, bitmonVars, Closing, Bitmon!Running
<1>2. DOMAIN state = Callback /\ (Closing => ~Bitmon!Running) /\ about \in Seq(Range(about))
  BY DEF QueueInv
<1>3. CASE Deliv!SendAck
  <2> DEFINE msg == Deliv!Command("ACK_CALLBACK", patching)
  <2>1. inputQ' = Append(inputQ, msg) /\ UNCHANGED <<process, state>>
    BY <1>3 DEF Deliv!SendAck, Deliv!Put, Deliv!rowVars
  <2>2. msg.cmd # "EXIT_TASK" /\ ~IsNew(msg)
    BY DEF Deliv!Command, IsNew
  <2>3. about' \in Seq(Range(about'))
    BY <1>1, <1>2
  <2> HIDE DEF msg
  <2> QED BY <1>1, <1>2, <2>1, <2>2, <2>3, PutKept
<1>4. ASSUME NEW c \in Callback, Deliv!PatchCallback(c) \/ Deliv!Post(c) \/ Deliv!GiveUp(c)
      PROVE  QueueInv'
  <2>1. UNCHANGED <<inputQ, process>> /\ DOMAIN state' = Callback
    BY <1>2, <1>4 DEF Deliv!PatchCallback, Deliv!Post, Deliv!GiveUp
  <2> QED BY <1>1, <1>2, <2>1, QuietQueueKept
<1>5. CASE Deliv!TakeStep
  <2>1. inputQ # << >> /\ inputQ' = Tail(inputQ) /\ process = "up"
    BY <1>5 DEF Deliv!TakeStep, Deliv!TakeNew, Deliv!TakeAck, Deliv!TakeExit, Deliv!Take
  <2>2. /\ DOMAIN state' = Callback
        /\ process' = "up" \/ (process' = "closing" /\ Head(inputQ).cmd = "EXIT_TASK")
    BY <1>2, <1>5 DEF Deliv!TakeStep, Deliv!TakeNew, Deliv!TakeAck, Deliv!TakeExit, Deliv!Take
  <2> QED BY <1>1, <2>1, <2>2, TakeKept
<1>6. CASE Deliv!End
  <2>1. process = "closing" /\ process' = "ended" /\ UNCHANGED <<inputQ, state>>
    BY <1>6 DEF Deliv!End, Deliv!rowVars
  <2> QED BY <1>1, <2>1 DEF QueueInv, IsNew
<1>7. CASE Deliv!Dies
  <2>1. process' = "dead" /\ UNCHANGED <<inputQ, state>>
    BY <1>7 DEF Deliv!Dies, Deliv!rowVars
  <2> QED BY <1>1, <2>1 DEF QueueInv, IsNew
<1> QED BY <1>3, <1>4, <1>5, <1>6, <1>7 DEF Deliv!ProcessStep

LEMMA QueueKept ==
  ASSUME QueueInv, [Next]_vars
  PROVE  QueueInv'
<1>1. DOMAIN state = Callback /\ (Closing => ~Bitmon!Running) /\ about \in Seq(Range(about))
  BY DEF QueueInv
<1>2. Closing /\ phase' # "serving" => ~Bitmon!Running'
  BY BitmonStaysEnded
<1>3. ASSUME BitmonFrame
      PROVE  QueueInv'
  <2>1. UNCHANGED <<inputQ, process, about, phase, state>>
    BY <1>3 DEF BitmonFrame, deliveryVars
  <2>2. (Closing' <=> Closing) /\ (Closing => phase' # "serving")
    BY <2>1 DEF Closing
  <2> QED BY <1>1, <1>2, <2>1, <2>2, QuietQueueKept
<1>4. CASE Request
  <2>1. CASE DeliveryFrame /\ \E c \in Callback : Deliv!PatchCallback(c)
    BY <2>1, DeliveryKeepsQueue
  <2> QED BY <1>3, <1>4, <2>1 DEF Request
<1>5. CASE TellBitmon \/ BitmonStep \/ WorldStep
  BY <1>3, <1>5 DEF TellBitmon, BitmonStep, WorldStep
<1>6. CASE TellDelivery \/ DeliveryDies
  BY <1>6, DeliveryKeepsQueue DEF TellDelivery, DeliveryDies
<1>7. CASE DeliveryStep
  BY <1>7, DeliveryKeepsQueue DEF DeliveryStep
<1>8. ASSUME NEW cback \in out, SendCallback(cback)
      PROVE  QueueInv'
  <2> DEFINE new == [sub |-> cback[1], height |-> cback[2], run |-> restarts]
             msg == Deliv!Command("NEW_CALLBACK", Len(about'))
  <2>1. /\ about' = Append(about, new) /\ UNCHANGED <<phase, bpc>> /\ bpc = "send"
        /\ inputQ' = Append(inputQ, msg) /\ UNCHANGED <<process, state>>
    BY <1>8 DEF SendCallback, Bitmon!SendCallback, Deliv!PutCallback, Deliv!Put, Deliv!rowVars
  <2>2. ~Closing /\ ~Closing'
    <3>1. Bitmon!Running
      BY <2>1 DEF Bitmon!Running
    <3> QED BY <1>1, <2>1, <3>1 DEF Closing
  <2>3. about' \in Seq(Range(about'))
    <3> HIDE DEF new
    <3> QED BY <1>1, <2>1, AppendedLast
  <2>4. msg.cmd # "EXIT_TASK"
    BY DEF Deliv!Command
  <2> HIDE DEF msg, new
  <2> QED BY <2>1, <2>2, <2>3, <2>4, PutKept
<1>9. CASE BeginCleanUp \/ CloseBitmon \/ JoinDelivery
  <2>1. /\ UNCHANGED <<inputQ, process, about, state, bpc>>
        /\ phase' # "serving"
        /\ Closing' <=> Closing
    BY <1>9 DEF BeginCleanUp, CloseBitmon, JoinDelivery, deliveryVars, bitmonVars, Closing,
                Bitmon!CloseTask, Bitmon!taskVars
  <2> QED BY <1>1, <1>2, <2>1, QuietQueueKept
<1>10. CASE CloseDelivery
  <2> DEFINE msg == Deliv!Command("EXIT_TASK", NoCallback)
  <2>1. /\ UNCHANGED <<about, bpc>> /\ ~Bitmon!Running /\ Closing' /\ ~Closing
        /\ inputQ' = Append(inputQ, msg) /\ UNCHANGED <<process, state>>
    BY <1>10 DEF CloseDelivery, bitmonVars, BitmonJoined, Closing, Deliv!CloseTask, Deliv!Put,
                 Deliv!rowVars
  <2>2. ~Bitmon!Running' /\ ~IsNew(msg)
    BY <2>1 DEF Bitmon!Running, IsNew, Deliv!Command
  <2>3. about' \in Seq(Range(about'))
    BY <1>1, <2>1
  <2> HIDE DEF msg
  <2> QED BY <2>1, <2>2, <2>3, PutKept
<1>11. CASE BitmonDies
  <2>1. /\ inputQ' \in Surviving(inputQ) /\ UNCHANGED <<state, process, phase, about>>
        /\ Bitmon!Running
    BY <1>11 DEF BitmonDies, Bitmon!TaskDies
  <2>2. ~Closing /\ ~Closing'
    BY <1>1, <2>1 DEF Closing
  <2>3. process \notin {"closing", "ended"} /\ \A i \in DOMAIN inputQ : inputQ[i].cmd # "EXIT_TASK"
    BY <2>2 DEF QueueInv
  <2>4. \A msg \in Range(inputQ) : msg.cmd # "EXIT_TASK"
    BY <2>3 DEF Range
  <2>5. inputQ' \in Seq(Range(inputQ')) /\ \A i \in DOMAIN inputQ' : inputQ'[i] \in Range(inputQ)
    BY <2>1, SurvivorsWereThere DEF QueueInv
  <2>6. \A i \in DOMAIN inputQ' : inputQ'[i].cmd # "EXIT_TASK"
    BY <2>4, <2>5
  <2>7. about' \in Seq(Range(about')) /\ DOMAIN state' = Callback
    BY <1>1, <2>1
  <2> QED BY <2>1, <2>2, <2>3, <2>5, <2>6, <2>7 DEF QueueInv
<1>12. CASE Restart
  <2>1. /\ phase' = "serving" /\ UNCHANGED <<about, state>> /\ process' = "up" /\ inputQ' = << >>
    BY <1>12 DEF Restart, Deliv!Restart, Deliv!rowVars
  <2>2. ~Closing' /\ inputQ' \in Seq(Range(inputQ')) /\ DOMAIN inputQ' = {}
    BY <2>1, EmptySeq DEF Closing
  <2>3. about' \in Seq(Range(about')) /\ DOMAIN state' = Callback
    BY <1>1, <2>1
  <2> QED BY <2>1, <2>2, <2>3 DEF QueueInv
<1>13. CASE UNCHANGED vars
  <2>1. UNCHANGED <<inputQ, process, about, phase, state, bpc>>
    BY <1>13 DEF vars, deliveryVars, bitmonVars
  <2>2. (Closing' <=> Closing) /\ (Bitmon!Running' <=> Bitmon!Running)
    BY <2>1 DEF Closing, Bitmon!Running
  <2> QED BY <1>1, <2>1, <2>2, QuietQueueKept
<1> QED
  BY <1>4, <1>5, <1>6, <1>7, <1>8, <1>9, <1>10, <1>11, <1>12, <1>13 DEF Next, CleanUpStep

LEMMA QueueStarts == Init => QueueInv
<1> SUFFICES ASSUME Init PROVE QueueInv
  OBVIOUS
<1>1. /\ phase = "serving" /\ about = << >> /\ inputQ = << >> /\ process = "up"
      /\ state = [c \in Callback |-> "none"]
  BY DEF Init, Deliv!Init
<1>2. ~Closing /\ inputQ \in Seq(Range(inputQ)) /\ about \in Seq(Range(about)) /\ DOMAIN inputQ = {}
  BY <1>1, EmptySeq DEF Closing
<1> QED BY <1>1, <1>2 DEF QueueInv

(* A callback handed on gets its row, unless a process is killed: nothing  *)
(* follows EXIT_TASK in the queue, so that the delivery process does not   *)
(* end before it has taken every callback.                                 *)
THEOREM HandedOnKept == Spec => HandedOnIsKept
<1>1. ASSUME QueueInv, Next
      PROVE  \A c \in Callback :
               Deliv!OnItsWay(c) /\ ~Deliv!OnItsWay(c)'
                 => state'[c] # "none" \/ process = "dead" \/ BitmonDies
  <2> SUFFICES ASSUME NEW c \in Callback, Deliv!OnItsWay(c), ~Deliv!OnItsWay(c)',
                      process # "dead", ~BitmonDies
               PROVE  state'[c] # "none"
    OBVIOUS
  <2> DEFINE msg == Deliv!Command("NEW_CALLBACK", c)
  <2>1. PICK i \in DOMAIN inputQ : inputQ[i] = msg
    BY DEF Deliv!OnItsWay
  <2>2. \A j \in DOMAIN inputQ' : inputQ'[j] # msg
    BY DEF Deliv!OnItsWay, Deliv!Command
  <2>3. ASSUME NEW e, inputQ' = Append(inputQ, e)
        PROVE  FALSE
    <3>1. i \in DOMAIN inputQ' /\ inputQ'[i] = inputQ[i]
      BY <1>1, <2>3, AppendedLast DEF QueueInv
    <3> QED BY <2>1, <2>2, <3>1
  <2>4. inputQ' # inputQ
    BY <2>1, <2>2
  <2>5. CASE Request
    BY <2>4, <2>5 DEF Request, BitmonFrame, deliveryVars, Deliv!PatchCallback
  <2>6. CASE TellBitmon \/ BitmonStep \/ WorldStep
    BY <2>4, <2>6 DEF TellBitmon, BitmonStep, WorldStep, BitmonFrame, deliveryVars
  <2>7. CASE TellDelivery
    BY <2>3, <2>7 DEF TellDelivery, Deliv!SendAck, Deliv!Put
  <2>8. CASE \E cback \in out : SendCallback(cback)
    BY <2>3, <2>8 DEF SendCallback, Deliv!PutCallback, Deliv!Put
  <2>9. CASE DeliveryStep
    <3>1. CASE Deliv!TakeStep
      <4>1. /\ Deliv!Take(Head(inputQ).cmd) /\ inputQ # << >> /\ inputQ' = Tail(inputQ)
            /\ Head(inputQ).cmd = "NEW_CALLBACK" =>
                 state' = [state EXCEPT ![Head(inputQ).id] = "open"]
        BY <3>1 DEF Deliv!TakeStep, Deliv!TakeNew, Deliv!TakeAck, Deliv!TakeExit, Deliv!Take
      <4>2. /\ inputQ[1] = Head(inputQ)
            /\ i # 1 => i - 1 \in DOMAIN inputQ' /\ inputQ'[i - 1] = inputQ[i]
        <5> DEFINE n == Len(inputQ)
        <5>1. /\ n \in Nat \ {0} /\ DOMAIN inputQ = 1..n
              /\ Head(inputQ) = inputQ[1]
              /\ DOMAIN inputQ' = 1..n - 1
              /\ \A j \in DOMAIN inputQ' : inputQ'[j] = inputQ[j + 1]
          BY <1>1, <4>1, HeadTaken DEF QueueInv
        <5> HIDE DEF n
        <5>2. i # 1 => i - 1 \in 1..n - 1 /\ (i - 1) + 1 = i
          BY <2>1, <5>1
        <5> QED BY <5>1, <5>2
      <4>3. i = 1
        BY <2>1, <2>2, <4>2
      <4>4. Head(inputQ) = msg
        BY <2>1, <4>2, <4>3
      <4>5. msg.cmd = "NEW_CALLBACK" /\ msg.id = c
        BY DEF Deliv!Command
      <4>6. state' = [state EXCEPT ![c] = "open"] /\ DOMAIN state = Callback
        BY <1>1, <4>1, <4>4, <4>5 DEF QueueInv
      <4> QED BY <4>6
    <3>2. CASE Deliv!End \/ \E d \in Callback : Deliv!Post(d) \/ Deliv!GiveUp(d)
      BY <2>4, <3>2 DEF Deliv!End, Deliv!Post, Deliv!GiveUp
    <3> QED BY <2>9, <3>1, <3>2 DEF DeliveryStep, Deliv!ProcessStep
  <2>10. CASE BeginCleanUp \/ CloseBitmon \/ JoinDelivery
    BY <2>4, <2>10 DEF BeginCleanUp, CloseBitmon, JoinDelivery, deliveryVars
  <2>11. CASE CloseDelivery
    BY <2>3, <2>11 DEF CloseDelivery, Deliv!CloseTask, Deliv!Put
  <2>12. CASE DeliveryDies
    BY <2>4, <2>12 DEF DeliveryDies, Deliv!Dies
  <2>13. CASE Restart
    <3>1. process \in {"closing", "ended"}
      BY <1>1, <2>13 DEF Restart, Deliv!Restart, Deliv!Running, QueueInv
    <3>2. ~IsNew(msg)
      BY <1>1, <2>1, <3>1 DEF QueueInv
    <3> QED BY <3>2 DEF IsNew, Deliv!Command
  <2> QED
    BY <1>1, <2>5, <2>6, <2>7, <2>8, <2>9, <2>10, <2>11, <2>12, <2>13 DEF Next, CleanUpStep
<1> QED BY <1>1, QueueStarts, QueueKept, PTL DEF Spec, HandedOnIsKept

-----------------------------------------------------------------------------
(* Bitmon as a part of the application *)

(* What is proved of BitmonTask on its own, of the bitmon of the           *)
(* application.                                                            *)
BP == INSTANCE BitmonTaskProofs WITH
  app <- IF phase \in {"serving", "exiting"} THEN "up" ELSE "closing",
  sent <- {<<about[c].sub, about[c].height>> : c \in DOMAIN about}

LEMMA BitmonAssumed == BP!BitmonAssumption
BY SystemAssumption
   DEF Bitmon!BitmonAssumption, BP!BitmonAssumption,
       Bitmon!Monitor!MonitorAssumption, BP!Monitor!MonitorAssumption,
       Bitmon!Subs!SubscriptionAssumption, BP!Subs!SubscriptionAssumption,
       Bitmon!Subs!IsFiniteSet, BP!Subs!IsFiniteSet

(* The operations of bitmon are those that the proofs speak of. *)
LEMMA SameBitmon ==
  /\ Bitmon!Requests <=> BP!Requests
  /\ Bitmon!SendCommand <=> BP!SendCommand
  /\ Bitmon!CloseTask <=> BP!CloseTask
  /\ Bitmon!LoadState <=> BP!LoadState
  /\ Bitmon!TaskDies <=> BP!TaskDies
  /\ Bitmon!Restart <=> BP!Restart
  /\ Bitmon!GetNew <=> BP!GetNew
  /\ Bitmon!GetCancel <=> BP!GetCancel
  /\ Bitmon!GetExit <=> BP!GetExit
  /\ Bitmon!Connect <=> BP!Connect
  /\ Bitmon!BeginPoll <=> BP!BeginPoll
  /\ Bitmon!RemoveExpired <=> BP!RemoveExpired
  /\ Bitmon!SaveExpired <=> BP!SaveExpired
  /\ Bitmon!AskHeight <=> BP!AskHeight
  /\ Bitmon!LoadBlock <=> BP!LoadBlock
  /\ Bitmon!PollFails <=> BP!PollFails
  /\ Bitmon!SaveBlock <=> BP!SaveBlock
  /\ \A cback : Bitmon!SendCallback(cback) <=> BP!SendCallback(cback)
  /\ Bitmon!WorldStep <=> BP!WorldStep
<1> USE DEF Bitmon!dbVars, BP!dbVars, Bitmon!flaskVars, BP!flaskVars, Bitmon!taskVars,
            BP!taskVars, Bitmon!subsVars, BP!subsVars, Bitmon!monitorVars, BP!monitorVars,
            Bitmon!chainVars, BP!chainVars, Bitmon!Subs!tableVars, BP!Subs!tableVars,
            Bitmon!Subs!monitorVars, BP!Subs!monitorVars
<1>1. Bitmon!Requests <=> BP!Requests
  BY DEF Bitmon!Requests, BP!Requests, Bitmon!PostSubscription, BP!PostSubscription,
         Bitmon!TestSubscription, BP!TestSubscription, Bitmon!PatchSubscription,
         BP!PatchSubscription, Bitmon!Handler, BP!Handler, Bitmon!Announcement,
         BP!Announcement, Bitmon!Command, BP!Command
<1>2. Bitmon!SendCommand <=> BP!SendCommand
  BY DEF Bitmon!SendCommand, BP!SendCommand, Bitmon!Put, BP!Put
<1>3. Bitmon!CloseTask <=> BP!CloseTask
  BY DEF Bitmon!CloseTask, BP!CloseTask, Bitmon!Put, BP!Put, Bitmon!Command, BP!Command
<1>4. Bitmon!LoadState <=> BP!LoadState
  BY DEF Bitmon!LoadState, BP!LoadState, Bitmon!StartBlock, BP!StartBlock,
         Bitmon!Subs!Reload, BP!Subs!Reload, Bitmon!Subs!AddAll, BP!Subs!AddAll,
         Bitmon!Subs!Reloadable, BP!Subs!Reloadable, Bitmon!Subs!Subscribers,
         BP!Subs!Subscribers, Bitmon!Subs!Pushed, BP!Subs!Pushed, Bitmon!Subs!AddressesOf,
         BP!Subs!AddressesOf
<1>5. Bitmon!TaskDies <=> BP!TaskDies
  BY DEF Bitmon!TaskDies, BP!TaskDies, Bitmon!Dies, BP!Dies, Bitmon!ForgetMemory,
         BP!ForgetMemory, Bitmon!Running, BP!Running, Bitmon!Subs!ClearTables,
         BP!Subs!ClearTables
<1>6. Bitmon!Restart <=> BP!Restart
  BY DEF Bitmon!Restart, BP!Restart, Bitmon!Running, BP!Running, Bitmon!ForgetMemory,
         BP!ForgetMemory, Bitmon!Subs!ClearTables, BP!Subs!ClearTables
<1>7. Bitmon!GetNew <=> BP!GetNew
  BY DEF Bitmon!GetNew, BP!GetNew, Bitmon!GetCommand, BP!GetCommand,
         Bitmon!Subs!AddSubscription, BP!Subs!AddSubscription, Bitmon!Subs!AddAll,
         BP!Subs!AddAll, Bitmon!Subs!Subscribers, BP!Subs!Subscribers, Bitmon!Subs!Pushed,
         BP!Subs!Pushed, Bitmon!Subs!AddressesOf, BP!Subs!AddressesOf
<1>8. Bitmon!GetCancel <=> BP!GetCancel
  BY DEF Bitmon!GetCancel, BP!GetCancel, Bitmon!GetCommand, BP!GetCommand, Bitmon!Dies,
         BP!Dies, Bitmon!ForgetMemory, BP!ForgetMemory, Bitmon!Subs!ClearTables,
         BP!Subs!ClearTables
<1>9. Bitmon!GetExit <=> BP!GetExit
  BY DEF Bitmon!GetExit, BP!GetExit, Bitmon!GetCommand, BP!GetCommand
<1>10. Bitmon!Connect <=> BP!Connect
  BY DEF Bitmon!Connect, BP!Connect, Bitmon!PollFrame, BP!PollFrame,
         Bitmon!Monitor!Connect, BP!Monitor!Connect, Bitmon!Monitor!tip, BP!Monitor!tip,
         Bitmon!Subs!SetMonitor, BP!Subs!SetMonitor, Bitmon!Subs!AllKeys, BP!Subs!AllKeys
<1>11. Bitmon!BeginPoll <=> BP!BeginPoll
  BY DEF Bitmon!BeginPoll, BP!BeginPoll, Bitmon!PollFrame, BP!PollFrame
<1>12. Bitmon!RemoveExpired <=> BP!RemoveExpired
  BY DEF Bitmon!RemoveExpired, BP!RemoveExpired, Bitmon!PollFrame, BP!PollFrame,
         Bitmon!Subs!RemoveExpired, BP!Subs!RemoveExpired, Bitmon!Subs!CancelAll,
         BP!Subs!CancelAll, Bitmon!Subs!LeftEmpty, BP!Subs!LeftEmpty,
         Bitmon!Subs!Restrict, BP!Subs!Restrict, Bitmon!Subs!DueEntries,
         BP!Subs!DueEntries, Bitmon!Subs!StillServed, BP!Subs!StillServed
<1>13. Bitmon!SaveExpired <=> BP!SaveExpired
  BY DEF Bitmon!SaveExpired, BP!SaveExpired, Bitmon!PollFrame, BP!PollFrame,
         Bitmon!Subs!SaveExpired, BP!Subs!SaveExpired
<1>14. Bitmon!AskHeight <=> BP!AskHeight
  BY DEF Bitmon!AskHeight, BP!AskHeight, Bitmon!PollFrame, BP!PollFrame,
         Bitmon!Monitor!NothingNew, BP!Monitor!NothingNew, Bitmon!Monitor!NewHeight,
         BP!Monitor!NewHeight, Bitmon!Monitor!tip, BP!Monitor!tip, Bitmon!Monitor!vars,
         BP!Monitor!vars
<1>15. Bitmon!LoadBlock <=> BP!LoadBlock
  BY DEF Bitmon!LoadBlock, BP!LoadBlock, Bitmon!PollFrame, BP!PollFrame,
         Bitmon!Monitor!LoadBlock, BP!Monitor!LoadBlock, Bitmon!Monitor!MonitoredBlock,
         BP!Monitor!MonitoredBlock, Bitmon!Monitor!NextHeight, BP!Monitor!NextHeight,
         Bitmon!Subs!Notified, BP!Subs!Notified
<1>16. Bitmon!PollFails <=> BP!PollFails
  BY DEF Bitmon!PollFails, BP!PollFails, Bitmon!SavesBlock, BP!SavesBlock,
         Bitmon!Unsent, BP!Unsent, Bitmon!Dies, BP!Dies, Bitmon!ForgetMemory,
         BP!ForgetMemory, Bitmon!Subs!ClearTables, BP!Subs!ClearTables
<1>17. Bitmon!SaveBlock <=> BP!SaveBlock
  BY DEF Bitmon!SaveBlock, BP!SaveBlock, Bitmon!SavesBlock, BP!SavesBlock,
         Bitmon!PollFrame, BP!PollFrame, Bitmon!Unsent, BP!Unsent
<1>18. \A cback : Bitmon!SendCallback(cback) <=> BP!SendCallback(cback)
  BY DEF Bitmon!SendCallback, BP!SendCallback, Bitmon!PollFrame, BP!PollFrame
<1>19. Bitmon!WorldStep <=> BP!WorldStep
  BY DEF Bitmon!WorldStep, BP!WorldStep, Bitmon!Monitor!NodeStep, BP!Monitor!NodeStep,
         Bitmon!Monitor!NewBlock, BP!Monitor!NewBlock, Bitmon!Monitor!Reorganise,
         BP!Monitor!Reorganise, Bitmon!Monitor!tip, BP!Monitor!tip
<1> QED
  BY <1>1, <1>2, <1>3, <1>4, <1>5, <1>6, <1>7, <1>8, <1>9, <1>10, <1>11, <1>12, <1>13,
     <1>14, <1>15, <1>16, <1>17, <1>18, <1>19

(* Whatever the application does is to bitmon nothing, or one of the steps *)
(* of its own specification.                                               *)
LEMMA StepOfBitmon ==
  ASSUME [Next]_vars
  PROVE  [Bitmon!Next]_(Bitmon!vars)
<1> USE DEF bitmonVars, deliveryVars, BitmonFrame, DeliveryFrame
<1>1. ASSUME UNCHANGED <<bitmonVars, restarts, about>>,
             phase' \in {"serving", "exiting"} <=> phase \in {"serving", "exiting"}
      PROVE  UNCHANGED Bitmon!vars
  BY <1>1 DEF Bitmon!vars, Bitmon!dbVars, Bitmon!flaskVars, Bitmon!taskVars,
              Bitmon!subsVars, Bitmon!monitorVars, Bitmon!chainVars
<1>2. CASE Request
  <2>1. CASE DeliveryFrame /\ \E c \in Callback : Deliv!PatchCallback(c)
    BY <1>1, <2>1 DEF Deliv!PatchCallback
  <2> QED BY <1>2, <2>1 DEF Request, Bitmon!Next
<1>3. CASE TellBitmon \/ BitmonStep \/ WorldStep
  BY <1>3 DEF TellBitmon, BitmonStep, WorldStep, Bitmon!Next, Bitmon!BeginStep
<1>4. CASE TellDelivery \/ DeliveryStep \/ DeliveryDies
  <2>1. DeliveryFrame /\ restarts' = restarts
    BY <1>4 DEF TellDelivery, DeliveryStep, DeliveryDies, Deliv!SendAck, Deliv!ProcessStep,
                Deliv!TakeStep, Deliv!TakeNew, Deliv!TakeAck, Deliv!TakeExit, Deliv!Take,
                Deliv!End, Deliv!Post, Deliv!GiveUp, Deliv!Dies
  <2> QED BY <1>1, <2>1
<1>5. CASE \E cback \in out : SendCallback(cback)
  BY <1>5 DEF SendCallback, Bitmon!Next, Bitmon!SendStep
<1>6. CASE BeginCleanUp
  BY <1>1, <1>6 DEF BeginCleanUp
<1>7. CASE CloseBitmon
  BY <1>7 DEF CloseBitmon, Bitmon!Next
<1>8. CASE CloseDelivery \/ JoinDelivery
  BY <1>1, <1>8 DEF CloseDelivery, JoinDelivery, Deliv!CloseTask
<1>9. CASE BitmonDies \/ Restart
  BY <1>9 DEF BitmonDies, Restart, Bitmon!Next
<1>10. CASE UNCHANGED vars
  BY <1>1, <1>10 DEF vars
<1> QED
  BY <1>2, <1>3, <1>4, <1>5, <1>6, <1>7, <1>8, <1>9, <1>10 DEF Next, CleanUpStep

(* The application implements the specification of bitmon, in which the    *)
(* delivery process is only a place where callbacks go, and a put of one   *)
(* of them never waits.                                                    *)
THEOREM BitmonInside == Spec => Bitmon!Spec
<1>1. Init => Bitmon!Init
  BY DEF Init
<1>2. [Next]_vars => [Bitmon!Next]_(Bitmon!vars)
  BY StepOfBitmon
<1> QED BY <1>1, <1>2, PTL DEF Spec, Bitmon!Spec

(* So that what always holds of bitmon holds here.                         *)
LEMMA ProcessKeptHere ==
  ASSUME BP!ProcessInv, [Next]_vars
  PROVE  BP!ProcessInv'
<1>1. Bitmon!Next => BP!Next
  BY SameBitmon DEF Bitmon!Next, BP!Next, Bitmon!CommandStep, BP!CommandStep,
        Bitmon!BeginStep, BP!BeginStep, Bitmon!LocalStep, BP!LocalStep,
        Bitmon!SendStep, BP!SendStep
<1>2. UNCHANGED Bitmon!vars => UNCHANGED BP!vars
  BY DEF Bitmon!vars, Bitmon!dbVars, Bitmon!flaskVars, Bitmon!taskVars, Bitmon!subsVars,
         Bitmon!monitorVars, Bitmon!chainVars, BP!vars, BP!dbVars, BP!flaskVars, BP!taskVars,
         BP!subsVars, BP!monitorVars, BP!chainVars
<1>3. [BP!Next]_(BP!vars)
  BY <1>1, <1>2, StepOfBitmon
<1> QED BY <1>3, BitmonAssumed, BP!ProcessKept

LEMMA ProcessStartsHere == Init => BP!ProcessInv
<1>1. Bitmon!Init => BP!Init
  BY DEF Bitmon!Init, BP!Init, Bitmon!Monitor!Init, BP!Monitor!Init,
         Bitmon!Subs!EmptyTables, BP!Subs!EmptyTables
<1> QED BY <1>1, BitmonAssumed, BP!ProcessStarts DEF Init

-----------------------------------------------------------------------------
(* Callbacks about the same block *)

(* What bitmon has handed on in this run lies below the block it handles   *)
(* next and is not handed on again; what it has still to hand on is about  *)
(* the block handled last, the number of which is not saved yet.           *)
RunInv ==
  /\ restarts \in Nat
  /\ out # {} /\ blockRow # NoBlock => blockRow < current
  /\ \A cback \in out : cback[2] = current - Confirmations
  /\ \A b \in DOMAIN about :
       /\ about[b].run \in Nat /\ about[b].run <= restarts
       /\ about[b].run = restarts /\ Bitmon!Running =>
            /\ bpc # "init" /\ current # Offline
            /\ about[b].height < current - Confirmations + 1
            /\ <<about[b].sub, about[b].height>> \notin out

(* A step that starts nothing and ends nothing. *)
Quiet ==
  /\ UNCHANGED <<about, restarts, out, current>>
  /\ blockRow' = blockRow \/ out = {}
  /\ Bitmon!Running' => Bitmon!Running
  /\ bpc' = "init" => bpc = "init"

(* What a step is to the callbacks of this run.                            *)
LEMMA StepOfRun ==
  ASSUME [Next]_vars
  PROVE  \/ Quiet
         \/ UNCHANGED <<about, restarts>> /\ ~Bitmon!Running' /\ out' = {}
         \/ /\ Bitmon!Connect
            /\ UNCHANGED <<about, restarts, out, blockRow>>
         \/ Bitmon!LoadBlock /\ UNCHANGED <<about, restarts>>
         \/ \E cback \in out : SendCallback(cback)
         \/ /\ UNCHANGED about /\ restarts' = restarts + 1 /\ out' = {}
            /\ ~Bitmon!Running
<1> USE DEF bitmonVars, Bitmon!dbVars, Bitmon!flaskVars, Bitmon!taskVars, Bitmon!monitorVars
<1>1. ASSUME UNCHANGED <<about, restarts, out, current, blockRow, bpc>>
      PROVE  Quiet
  BY <1>1 DEF Quiet, Bitmon!Running
<1>2. CASE Request
  <2>1. CASE DeliveryFrame /\ \E c \in Callback : Deliv!PatchCallback(c)
    BY <1>1, <2>1 DEF DeliveryFrame, Deliv!PatchCallback
  <2>2. CASE BitmonFrame /\ Bitmon!Requests
    BY <1>1, <2>2 DEF BitmonFrame, Bitmon!Requests, Bitmon!PostSubscription,
                      Bitmon!TestSubscription, Bitmon!PatchSubscription, Bitmon!Handler
  <2> QED BY <1>2, <2>1, <2>2 DEF Request
<1>3. CASE TellBitmon \/ WorldStep
  BY <1>1, <1>3 DEF TellBitmon, WorldStep, BitmonFrame, Bitmon!SendCommand, Bitmon!WorldStep,
                    Bitmon!Monitor!NodeStep, Bitmon!Monitor!NewBlock, Bitmon!Monitor!Reorganise
<1>4. CASE TellDelivery \/ DeliveryStep \/ DeliveryDies
  <2>1. DeliveryFrame /\ restarts' = restarts
    BY <1>4 DEF TellDelivery, DeliveryStep, DeliveryDies, Deliv!SendAck, Deliv!ProcessStep,
                Deliv!TakeStep, Deliv!TakeNew, Deliv!TakeAck, Deliv!TakeExit, Deliv!Take,
                Deliv!End, Deliv!Post, Deliv!GiveUp, Deliv!Dies
  <2> QED BY <1>1, <2>1 DEF DeliveryFrame
<1>5. CASE BitmonStep
  <2>0. UNCHANGED about
    BY <1>5 DEF BitmonStep, BitmonFrame
  <2>1. CASE Bitmon!GetNew
    BY <1>1, <2>0, <2>1 DEF Bitmon!GetNew, Bitmon!GetCommand
  <2>2. CASE Bitmon!GetCancel
    BY <2>0, <2>2 DEF Bitmon!GetCancel, Bitmon!GetCommand, Bitmon!Dies, Bitmon!ForgetMemory,
                      Bitmon!Running
  <2>3. CASE Bitmon!GetExit
    BY <2>0, <2>3 DEF Bitmon!GetExit, Bitmon!GetCommand, Bitmon!Running, Quiet
  <2>4. CASE Bitmon!PollFails
    BY <2>0, <2>4 DEF Bitmon!PollFails, Bitmon!Dies, Bitmon!ForgetMemory, Bitmon!Running
  <2>5. CASE Bitmon!LoadState
    BY <2>0, <2>5 DEF Bitmon!LoadState, Bitmon!Running, Quiet
  <2>6. CASE Bitmon!RemoveExpired \/ Bitmon!SaveExpired \/ Bitmon!BeginPoll
    BY <2>0, <2>6 DEF Bitmon!RemoveExpired, Bitmon!SaveExpired, Bitmon!BeginPoll,
                      Bitmon!PollFrame, Bitmon!Running, Quiet
  <2>7. CASE Bitmon!AskHeight
    BY <2>0, <2>7 DEF Bitmon!AskHeight, Bitmon!PollFrame, Bitmon!Running, Quiet,
                      Bitmon!Monitor!NothingNew, Bitmon!Monitor!NewHeight, Bitmon!Monitor!vars
  <2>8. CASE Bitmon!SaveBlock
    BY <2>0, <2>8 DEF Bitmon!SaveBlock, Bitmon!PollFrame, Bitmon!Unsent, Bitmon!Running, Quiet
  <2>9. CASE Bitmon!LoadBlock \/ Bitmon!Connect
    BY <2>0, <2>9 DEF Bitmon!LoadBlock, Bitmon!Connect, Bitmon!PollFrame
  <2> QED
    BY <1>5, <2>1, <2>2, <2>3, <2>4, <2>5, <2>6, <2>7, <2>8, <2>9
       DEF BitmonStep, Bitmon!CommandStep, Bitmon!LocalStep, Bitmon!BeginStep
<1>6. CASE BeginCleanUp
  BY <1>1, <1>6 DEF BeginCleanUp
<1>7. CASE CleanUpStep
  BY <1>1, <1>7 DEF CleanUpStep, CloseBitmon, CloseDelivery, JoinDelivery, Bitmon!CloseTask,
                    Deliv!CloseTask
<1>8. CASE BitmonDies
  BY <1>8 DEF BitmonDies, Bitmon!TaskDies, Bitmon!Dies, Bitmon!ForgetMemory, Bitmon!Running
<1>9. CASE Restart
  BY <1>9 DEF Restart, Bitmon!Restart, Bitmon!ForgetMemory
<1>10. CASE UNCHANGED vars
  BY <1>1, <1>10 DEF vars, deliveryVars, Deliv!rowVars
<1> QED
  BY <1>2, <1>3, <1>4, <1>5, <1>6, <1>7, <1>8, <1>9, <1>10 DEF Next

(* What bitmon's own invariant says here. *)
LEMMA ProcessFacts ==
  ASSUME BP!ProcessInv
  PROVE  /\ Confirmations \in Nat \ {0} /\ Offline \notin Int
         /\ current # Offline => current \in Nat
         /\ blockRow # NoBlock => blockRow \in Nat
         /\ current # Offline /\ blockRow # NoBlock => blockRow <= current
         /\ out \subseteq Sub \X Nat
         /\ bpc # "send" => out = {}
         /\ bpc \in {"load", "send"} => current # Offline
         /\ \A b \in DOMAIN about : about[b].height \in Nat
<1>1. Confirmations \in Nat \ {0} /\ Offline \notin Int
  BY BitmonAssumed DEF BP!BitmonAssumption, BP!Monitor!MonitorAssumption
<1>2. \A b \in DOMAIN about : <<about[b].sub, about[b].height>> \in Sub \X Nat
  BY DEF BP!ProcessInv, BP!PollOK
<1> QED BY <1>1, <1>2 DEF BP!ProcessInv, BP!SavedOK, BP!PollOK

LEMMA RunKept ==
  ASSUME BP!ProcessInv, QueueInv, RunInv, [Next]_vars
  PROVE  RunInv'
<1>0. /\ restarts \in Nat
      /\ \A b \in DOMAIN about : about[b].run \in Nat /\ about[b].run <= restarts
  BY DEF RunInv
<1>1. CASE Quiet
  <2>1. Bitmon!Running' => Bitmon!Running
    BY <1>1 DEF Quiet
  <2> QED BY <1>1, <2>1 DEF Quiet, RunInv
<1>2. CASE UNCHANGED <<about, restarts>> /\ ~Bitmon!Running' /\ out' = {}
  BY <1>0, <1>2 DEF RunInv
<1>3. CASE Bitmon!Connect /\ UNCHANGED <<about, restarts, out, blockRow>>
  <2>1. bpc = "idle" /\ current = Offline /\ Bitmon!Running
    BY <1>3 DEF Bitmon!Connect, Bitmon!Monitor!Connect, Bitmon!Running
  <2>2. out' = {} /\ \A b \in DOMAIN about' : about'[b].run # restarts'
    BY <1>3, <2>1, ProcessFacts DEF RunInv
  <2> QED BY <1>0, <1>3, <2>2 DEF RunInv
<1>4. CASE Bitmon!LoadBlock /\ UNCHANGED <<about, restarts>>
  <2> DEFINE h == BP!Monitor!MonitoredBlock(current)
  <2>1. BP!LoadBlock
    BY <1>4, SameBitmon
  <2>2. /\ h = current - Confirmations + 1 /\ current \in Nat
        /\ current' = current + 1 /\ bpc = "load" /\ bpc' = "send" /\ blockRow' = blockRow
        /\ \A cback \in out' : cback[2] = h
    <3>1. /\ h = current - Confirmations + 1 /\ current \in Nat
          /\ current' = current + 1 /\ bpc = "load" /\ bpc' = "send"
          /\ out' = {s \in subsById : AddrOf[s] \in chain[h].has} \X {h}
          /\ UNCHANGED BP!dbVars
      <4> HIDE DEF h
      <4>1. h = BP!Monitor!MonitoredBlock(current)
        BY DEF h
      <4> QED BY <2>1, <4>1, BitmonAssumed, BP!LoadedBlock DEF BP!ProcessInv
    <3> QED BY <3>1 DEF BP!dbVars
  <2> HIDE DEF h
  <2>3. Confirmations \in Nat /\ h = current' - Confirmations /\ h < current' - Confirmations + 1
    BY <2>2, ProcessFacts
  <2>4. blockRow' # NoBlock => blockRow' < current'
    BY <2>2, ProcessFacts
  <2>5. current' # Offline
    BY <2>2, ProcessFacts
  <2>6. ASSUME NEW b \in DOMAIN about, about[b].run = restarts
        PROVE  /\ about[b].height < current' - Confirmations + 1
               /\ <<about[b].sub, about[b].height>> \notin out'
    <3>1. Bitmon!Running
      BY <2>2 DEF Bitmon!Running
    <3>2. about[b].height < h /\ about[b].height \in Nat
      BY <2>2, <2>6, <3>1, ProcessFacts DEF RunInv
    <3>3. about[b].height # h
      BY <2>2, <2>3, <3>2
    <3> QED BY <2>2, <2>3, <3>2, <3>3
  <2> QED BY <1>0, <1>4, <2>2, <2>3, <2>4, <2>5, <2>6 DEF RunInv
<1>5. ASSUME NEW cback \in out, SendCallback(cback)
      PROVE  RunInv'
  <2> DEFINE new == [sub |-> cback[1], height |-> cback[2], run |-> restarts]
             n == Len(about)
  <2>1. /\ about' = Append(about, new) /\ out' = out \ {cback} /\ bpc = "send"
        /\ UNCHANGED <<restarts, current, blockRow, bpc>>
    BY <1>5 DEF SendCallback, Bitmon!SendCallback, Bitmon!PollFrame, Bitmon!flaskVars,
                Bitmon!dbVars, Bitmon!monitorVars
  <2>2. /\ \A b \in DOMAIN about : about'[b] = about[b]
        /\ \A b \in DOMAIN about' : b \in DOMAIN about \/ about'[b] = new
    <3> HIDE DEF new
    <3>1. about \in Seq(Range(about))
      BY DEF QueueInv
    <3>2. /\ n \in Nat /\ DOMAIN about = 1..n /\ DOMAIN Append(about, new) = 1..n + 1
          /\ \A i \in DOMAIN about : Append(about, new)[i] = about[i]
          /\ Append(about, new)[n + 1] = new
      BY <3>1, AppendedLast
    <3> HIDE DEF n
    <3> QED BY <2>1, <3>2
  <2>3. /\ cback \in Sub \X Nat /\ cback[2] = current - Confirmations
        /\ current \in Nat /\ Confirmations \in Nat /\ current # Offline
    BY <2>1, ProcessFacts DEF RunInv
  <2>4. /\ new.run = restarts /\ new.height = cback[2]
        /\ <<new.sub, new.height>> = cback
    BY <2>3
  <2> HIDE DEF new, n
  <2>5. new.height < current - Confirmations + 1 /\ <<new.sub, new.height>> \notin out'
    BY <2>1, <2>3, <2>4
  <2>6. Bitmon!Running' <=> Bitmon!Running
    BY <2>1 DEF Bitmon!Running
  <2>7. ASSUME NEW b \in DOMAIN about'
        PROVE  /\ about'[b].run \in Nat /\ about'[b].run <= restarts'
               /\ about'[b].run = restarts' /\ Bitmon!Running' =>
                    /\ bpc' # "init" /\ current' # Offline
                    /\ about'[b].height < current' - Confirmations + 1
                    /\ <<about'[b].sub, about'[b].height>> \notin out'
    <3>1. CASE b \in DOMAIN about
      BY <2>1, <2>2, <2>6, <3>1 DEF RunInv
    <3>2. CASE about'[b] = new
      BY <1>0, <2>1, <2>3, <2>4, <2>5, <3>2
    <3> QED BY <2>2, <3>1, <3>2
  <2> QED BY <1>0, <2>1, <2>7 DEF RunInv
<1>6. CASE /\ UNCHANGED about /\ restarts' = restarts + 1 /\ out' = {}
           /\ ~Bitmon!Running
  <2>1. restarts' \in Nat /\ \A b \in DOMAIN about : about[b].run < restarts'
    BY <1>0, <1>6
  <2>2. \A b \in DOMAIN about : about[b].run \in Nat /\ about[b].run # restarts'
                                /\ about[b].run <= restarts'
    BY <1>0, <2>1
  <2> QED BY <1>6, <2>1, <2>2 DEF RunInv
<1> QED BY <1>1, <1>2, <1>3, <1>4, <1>5, <1>6, StepOfRun

LEMMA RunStarts == Init => RunInv
<1> SUFFICES ASSUME Init PROVE RunInv
  OBVIOUS
<1>1. about = << >> /\ out = {} /\ restarts = 0
  BY DEF Init, Bitmon!Init
<1>2. DOMAIN about = {}
  BY <1>1
<1> QED BY <1>1, <1>2 DEF RunInv

(* A block is handled again, and its callbacks created a second time, only *)
(* by a run that begins at or below a number saved before: within a run    *)
(* the heights go up, and whatever is created lies above the saved number. *)
THEOREM RepeatsAreUnsaved == Spec => RepeatedOnlyUnsaved
<1>1. ASSUME BP!ProcessInv, QueueInv, RunInv, Next
      PROVE  \A c \in DOMAIN about' \ DOMAIN about :
               /\ blockRow # NoBlock =>
                    about'[c].height >= Bitmon!Monitor!MonitoredBlock(blockRow)
               /\ \A b \in DOMAIN about :
                    about[b].sub = about'[c].sub /\ about[b].height = about'[c].height
                      => about[b].run < about'[c].run
  <2> SUFFICES ASSUME NEW c \in DOMAIN about' \ DOMAIN about
               PROVE  /\ blockRow # NoBlock =>
                           about'[c].height >= Bitmon!Monitor!MonitoredBlock(blockRow)
                      /\ \A b \in DOMAIN about :
                           about[b].sub = about'[c].sub /\ about[b].height = about'[c].height
                             => about[b].run < about'[c].run
    OBVIOUS
  <2>1. about' # about
    OBVIOUS
  <2>2. PICK cback \in out : SendCallback(cback)
    BY <1>1, <2>1, StepOfRun DEF Quiet
  <2> DEFINE new == [sub |-> cback[1], height |-> cback[2], run |-> restarts]
             n == Len(about)
  <2>3. about' = Append(about, new) /\ bpc = "send"
    BY <2>2 DEF SendCallback, Bitmon!SendCallback
  <2>4. about'[c] = new
    <3> HIDE DEF new
    <3>1. about \in Seq(Range(about))
      BY <1>1 DEF QueueInv
    <3>2. /\ n \in Nat /\ DOMAIN about = 1..n /\ DOMAIN Append(about, new) = 1..n + 1
          /\ Append(about, new)[n + 1] = new
      BY <3>1, AppendedLast
    <3> HIDE DEF n
    <3> QED BY <2>3, <3>2
  <2>5. /\ cback \in Sub \X Nat /\ cback[2] = current - Confirmations
        /\ current \in Nat /\ Confirmations \in Nat
        /\ blockRow # NoBlock => blockRow \in Nat /\ blockRow < current
    BY <1>1, <2>2, <2>3, ProcessFacts DEF RunInv
  <2>6. /\ new.run = restarts /\ new.height = cback[2] /\ new.sub = cback[1]
        /\ cback = <<cback[1], cback[2]>>
    BY <2>5
  <2> HIDE DEF new, n
  <2>7. blockRow # NoBlock => about'[c].height >= Bitmon!Monitor!MonitoredBlock(blockRow)
    BY <2>4, <2>5, <2>6 DEF Bitmon!Monitor!MonitoredBlock
  <2>8. ASSUME NEW b \in DOMAIN about, about[b].sub = cback[1], about[b].height = cback[2]
        PROVE  about[b].run < restarts
    <3>1. Bitmon!Running
      BY <2>3 DEF Bitmon!Running
    <3>2. <<about[b].sub, about[b].height>> \in out
      BY <2>2, <2>6, <2>8
    <3>3. /\ about[b].run \in Nat /\ about[b].run <= restarts /\ restarts \in Nat
          /\ about[b].run # restarts
      BY <1>1, <3>1, <3>2 DEF RunInv
    <3> QED BY <3>3
  <2> QED BY <2>4, <2>6, <2>7, <2>8
<1> QED
  BY <1>1, QueueStarts, QueueKept, ProcessStartsHere, ProcessKeptHere, RunStarts, RunKept, PTL
     DEF Spec, RepeatedOnlyUnsaved
=============================================================================
