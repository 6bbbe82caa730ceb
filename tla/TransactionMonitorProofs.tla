------------------------ MODULE TransactionMonitorProofs ------------------------
(***************************************************************************)
(* Proofs about TransactionMonitor, for chains of any length, any number   *)
(* of reorganisations and any number of confirmations.                     *)
(***************************************************************************)
EXTENDS TransactionMonitor, SequenceTheorems, TLAPS

USE MonitorAssumption

-----------------------------------------------------------------------------
(* The chain *)

(* The chain has a block at every height from 0 to the tip. *)
ChainOK ==
  /\ tip \in FirstTip..MaxTip /\ DOMAIN chain = 0..tip
  /\ \A h \in 0..tip : chain[h] \in Block /\ chain[h].fork <= forks
  /\ forks \in 0..MaxForks

LEMMA TipOfChain ==
  ASSUME NEW n \in Nat
  PROVE  (DOMAIN chain = 0..n => tip = n) /\ (DOMAIN chain' = 0..n => tip' = n)
<1>1. /\ n \in 0..n /\ n + 1 \notin 0..n
      /\ \A h \in 0..n : h + 1 \notin 0..n => h = n
  OBVIOUS
<1>2. DOMAIN chain = 0..n => tip = n
  BY <1>1 DEF tip
<1>3. DOMAIN chain' = 0..n => tip' = n
  BY <1>1 DEF tip
<1> QED BY <1>2, <1>3

(* What the node may do to the chain: it gets one block higher, and what   *)
(* lies deeper than the deepest reorganisation stays as it was.            *)
Buried(h) == h <= tip - MaxReorg

LEMMA ChainGrows ==
  ASSUME ChainOK, NodeStep
  PROVE  /\ ChainOK'
         /\ tip' = tip + 1
         /\ \A h \in 0..tip : Buried(h) => chain'[h] = chain[h]
<1>0. tip \in Nat
  BY DEF ChainOK
<1>1. ASSUME NewBlock
      PROVE  /\ ChainOK' /\ tip' = tip + 1
             /\ \A h \in 0..tip : chain'[h] = chain[h]
  <2>1. PICK has \in Contents :
          chain' = [h \in 0..tip + 1 |->
                      IF h \in DOMAIN chain THEN chain[h] ELSE [fork |-> forks, has |-> has]]
    BY <1>1 DEF NewBlock
  <2>2. DOMAIN chain' = 0..tip + 1 /\ tip + 1 \in Nat /\ tip < MaxTip /\ forks' = forks
    BY <1>0, <1>1, <2>1 DEF NewBlock
  <2>3. tip' = tip + 1
    BY <2>2, TipOfChain
  <2>4. [fork |-> forks, has |-> has] \in Block
    BY DEF Block, ChainOK
  <2>5. \A h \in 0..tip + 1 : chain'[h] \in Block /\ chain'[h].fork <= forks
    BY <2>1, <2>4 DEF ChainOK
  <2> QED BY <2>1, <2>2, <2>3, <2>5 DEF ChainOK
<1>2. ASSUME NEW d \in 1..MaxReorg, Reorganise(d)
      PROVE  /\ ChainOK' /\ tip' = tip + 1
             /\ \A h \in 0..tip : Buried(h) => chain'[h] = chain[h]
  <2>1. PICK has \in [tip - d + 1..tip + 1 -> Contents] :
          chain' = [h \in 0..tip + 1 |->
                      IF h \in DOMAIN has THEN [fork |-> forks', has |-> has[h]] ELSE chain[h]]
    BY <1>2 DEF Reorganise
  <2>2. /\ DOMAIN chain' = 0..tip + 1 /\ tip + 1 \in Nat /\ tip < MaxTip
        /\ forks' = forks + 1 /\ forks < MaxForks /\ d <= tip /\ d \in Nat
    BY <1>0, <1>2, <2>1 DEF Reorganise
  <2>3. tip' = tip + 1
    BY <2>2, TipOfChain
  <2>4. DOMAIN has = tip - d + 1..tip + 1
    BY <2>1
  <2>5. \A h \in 0..tip + 1 :
          IF h > tip - d
            THEN chain'[h] = [fork |-> forks', has |-> has[h]] /\ has[h] \in Contents
            ELSE chain'[h] = chain[h]
    BY <1>0, <2>1, <2>2, <2>4
  <2>6. forks \in Nat /\ forks' \in Nat
    BY <2>2 DEF ChainOK
  <2>7. \A h \in 0..tip + 1 : chain'[h] \in Block /\ chain'[h].fork <= forks'
    <3> SUFFICES ASSUME NEW h \in 0..tip + 1
                 PROVE  chain'[h] \in Block /\ chain'[h].fork <= forks'
      OBVIOUS
    <3>1. CASE h > tip - d
      <4>1. chain'[h] = [fork |-> forks', has |-> has[h]] /\ has[h] \in Contents
        BY <2>5, <3>1
      <4> QED BY <2>6, <4>1 DEF Block
    <3>2. CASE ~(h > tip - d)
      <4>1. h \in 0..tip /\ chain'[h] = chain[h]
        BY <1>0, <2>2, <2>5, <3>2
      <4>2. chain[h] \in Block /\ chain[h].fork <= forks /\ chain[h].fork \in Nat
        BY <4>1 DEF ChainOK, Block
      <4> QED BY <2>2, <2>6, <4>1, <4>2
    <3> QED BY <3>1, <3>2
  <2>8. ChainOK'
    BY <2>2, <2>3, <2>7 DEF ChainOK
  <2>9. \A h \in 0..tip : Buried(h) => chain'[h] = chain[h]
    BY <1>0, <2>2, <2>5 DEF Buried
  <2> QED BY <2>3, <2>8, <2>9
<1> QED BY <1>1, <1>2 DEF NodeStep

-----------------------------------------------------------------------------
(* Type correctness *)

Handled == [height : Nat, block : Block]

LEMMA TypeParts ==
  ASSUME TypeOK
  PROVE  /\ ChainOK
         /\ current \in Int \cup {Offline} /\ (current # Offline => current <= tip)
         /\ behind \in BOOLEAN
         /\ accepted \in Seq(Handled)
<1>1. PICK n \in FirstTip..MaxTip : DOMAIN chain = 0..n
  BY DEF TypeOK
<1>2. tip = n
  BY <1>1, TipOfChain
<1> QED BY <1>1, <1>2 DEF TypeOK, ChainOK, Handled

LEMMA PartsType ==
  ASSUME ChainOK', current' \in Int \cup {Offline}, current' # Offline => current' <= tip',
         behind' \in BOOLEAN, accepted' \in Seq(Handled)
  PROVE  TypeOK'
<1>1. DOMAIN chain' \in {0..h : h \in FirstTip..MaxTip}
  BY DEF ChainOK
<1>2. \A h \in DOMAIN chain' : chain'[h] \in Block' /\ chain'[h].fork <= forks'
  BY DEF ChainOK
<1>3. forks' \in 0..MaxForks
  BY DEF ChainOK
<1> QED BY <1>1, <1>2, <1>3 DEF TypeOK, Handled

(* The type invariant, with what makes the monitor stop at the tip: having *)
(* been told of a new height it is below the tip, and stays below it       *)
(* whatever the node does before the block is loaded.                      *)
ReaderInv ==
  /\ TypeOK
  /\ behind => current # Offline /\ current < tip

(* Starting at any height of the chain, or at a number of blocks from its  *)
(* end (BitmonTask starts where it stopped).                               *)
StartAt(start) == start \in Int /\ start <= tip /\ Connect(start)

LEMMA ReaderStep ==
  ASSUME ReaderInv,
         NodeStep \/ NothingNew \/ Poll \/ CallFails \/ \E start \in Int : StartAt(start)
  PROVE  ReaderInv'
<1>1. /\ ChainOK /\ tip \in Nat
      /\ current \in Int \cup {Offline} /\ (current # Offline => current <= tip)
      /\ accepted \in Seq(Handled)
      /\ behind \in BOOLEAN /\ (behind => current # Offline /\ current < tip)
  BY TypeParts DEF ReaderInv, ChainOK
<1>2. CASE NodeStep
  <2>1. ChainOK' /\ tip' = tip + 1 /\ UNCHANGED <<current, behind, accepted>>
    BY <1>1, <1>2, ChainGrows DEF NodeStep, NewBlock, Reorganise
  <2>2. current # Offline => current <= tip + 1 /\ (current < tip => current < tip + 1)
    BY <1>1
  <2>3. TypeOK'
    BY <1>1, <2>1, <2>2, PartsType
  <2> QED BY <1>1, <2>1, <2>2, <2>3 DEF ReaderInv
<1>4. CASE LoadBlock
  <2>1. /\ UNCHANGED chainVars /\ current \in Int /\ current' = current + 1 /\ current < tip
        /\ behind' = FALSE
        /\ accepted' = Append(accepted, [height |-> MonitoredBlock(current),
                                         block |-> chain[MonitoredBlock(current)]])
        /\ MonitoredBlock(current) \in 0..tip
    BY <1>1, <1>4 DEF LoadBlock, NextHeight, ChainOK, chainVars
  <2>2. [height |-> MonitoredBlock(current), block |-> chain[MonitoredBlock(current)]] \in Handled
    <3> DEFINE h == MonitoredBlock(current)
    <3>1. h \in 0..tip /\ chain[h] \in Block
      BY <1>1, <2>1 DEF ChainOK
    <3> HIDE DEF h
    <3>2. h \in Nat
      BY <1>1, <3>1
    <3>3. [height |-> h, block |-> chain[h]] \in Handled
      BY <3>1, <3>2 DEF Handled
    <3> QED BY <3>3 DEF h
  <2>3. accepted' \in Seq(Handled)
    BY <1>1, <2>1, <2>2, AppendProperties
  <2>4. ChainOK' /\ tip' = tip
    BY <1>1, <2>1 DEF chainVars, ChainOK, tip, Block
  <2>5. current' \in Int /\ current' <= tip'
    BY <1>1, <2>1, <2>4
  <2>6. TypeOK'
    BY <2>1, <2>3, <2>4, <2>5, PartsType
  <2> QED BY <2>1, <2>6 DEF ReaderInv
<1>5. CASE NothingNew \/ NewHeight \/ CallFails
  <2>1. /\ UNCHANGED <<chain, forks, current, accepted>>
        /\ behind' \in BOOLEAN
        /\ behind' => current # Offline /\ current < tip
    <3>1. CASE NothingNew
      BY <1>1, <3>1 DEF NothingNew, vars
    <3>2. CASE NewHeight
      BY <3>2 DEF NewHeight
    <3>3. CASE CallFails
      BY <3>3 DEF CallFails
    <3> QED BY <1>5, <3>1, <3>2, <3>3
  <2>2. ChainOK' /\ tip' = tip
    BY <1>1, <2>1 DEF ChainOK, tip, Block
  <2>3. TypeOK'
    BY <1>1, <2>1, <2>2, PartsType
  <2> QED BY <1>1, <2>1, <2>2, <2>3 DEF ReaderInv
<1>6. ASSUME NEW start \in Int, StartAt(start) PROVE ReaderInv'
  <2>1. /\ UNCHANGED <<chain, forks, behind, accepted>>
        /\ current = Offline
        /\ current' = IF start < 0 THEN tip + start + 1 ELSE start
        /\ start <= tip
    BY <1>6 DEF StartAt, Connect
  <2>2. ~behind /\ current' \in Int /\ current' <= tip
    BY <1>1, <2>1
  <2>3. ChainOK' /\ tip' = tip
    BY <1>1, <2>1 DEF ChainOK, tip, Block
  <2>4. TypeOK'
    BY <1>1, <2>1, <2>2, <2>3, PartsType
  <2> QED BY <2>1, <2>2, <2>4 DEF ReaderInv
<1> QED BY <1>2, <1>4, <1>5, <1>6 DEF Poll

(* The process that polls may do something else, or end and start again.   *)
LEMMA ReaderRests ==
  ASSUME ReaderInv, UNCHANGED vars \/ /\ current' = Offline /\ behind' = FALSE
                                      /\ UNCHANGED <<chain, forks, accepted>>
  PROVE  ReaderInv'
<1>1. CASE UNCHANGED vars
  BY <1>1 DEF vars, ReaderInv, TypeOK, tip, Block
<1>2. CASE current' = Offline /\ behind' = FALSE /\ UNCHANGED <<chain, forks, accepted>>
  <2>1. ChainOK' /\ accepted' \in Seq(Handled)
    BY <1>2, TypeParts DEF ReaderInv, ChainOK, tip, Block
  <2>2. TypeOK'
    BY <1>2, <2>1, PartsType
  <2> QED BY <1>2, <2>2 DEF ReaderInv
<1> QED BY <1>1, <1>2

LEMMA ReaderKept == ReaderInv /\ [Next]_vars => ReaderInv'
<1> SUFFICES ASSUME ReaderInv, [Next]_vars PROVE ReaderInv'
  OBVIOUS
<1>1. ASSUME NEW start \in -1..FirstTip, Connect(start) PROVE ReaderInv'
  <2>1. start \in Int /\ start <= tip
    BY TypeParts DEF ReaderInv, ChainOK
  <2> QED BY <1>1, <2>1, ReaderStep DEF StartAt
<1>2. CASE UNCHANGED vars
  BY <1>2, ReaderRests
<1> QED BY <1>1, <1>2, ReaderStep DEF Next

LEMMA ReaderStarts == Init => ReaderInv
<1> SUFFICES ASSUME Init PROVE ReaderInv
  OBVIOUS
<1>1. DOMAIN chain = 0..FirstTip /\ FirstTip \in Nat
  BY DEF Init
<1>2. tip = FirstTip
  BY <1>1, TipOfChain
<1>3. \A h \in DOMAIN chain : chain[h] \in Block /\ chain[h].fork <= forks
  BY DEF Init, Block
<1>4. << >> \in Seq([height : Nat, block : Block])
  BY EmptySeq
<1>5. DOMAIN chain \in {0..h : h \in FirstTip..MaxTip} /\ forks \in 0..MaxForks
  BY <1>1 DEF Init
<1> QED BY <1>3, <1>4, <1>5 DEF Init, ReaderInv, TypeOK

(* The monitor is never ahead of the chain, whatever the node does between *)
(* its answer to getblockcount and the loading of the block.               *)
THEOREM MonitorTypeCorrect == Spec => []TypeOK
<1>1. ReaderInv => TypeOK
  BY DEF ReaderInv
<1> QED BY <1>1, ReaderStarts, ReaderKept, PTL DEF Spec

-----------------------------------------------------------------------------
(* One block after another, and for good *)

(* Where the monitor is in the list of the blocks it has handled: the last *)
(* one lies CONFIRMATIONS below current.                                   *)
OrderInv ==
  /\ current = Offline => accepted = << >>
  /\ accepted # << >> => accepted[Len(accepted)].height = current - Confirmations
  /\ OneAfterAnother

(* A handled block lies at least CONFIRMATIONS below current, and is on    *)
(* the chain.                                                              *)
FinalInv ==
  \A i \in DOMAIN accepted :
    /\ current # Offline
    /\ accepted[i].height \in 0..current - Confirmations
    /\ chain[accepted[i].height] = accepted[i].block

LEMMA LoadAppends ==
  ASSUME ReaderInv, LoadBlock
  PROVE  LET h == MonitoredBlock(current) IN
         /\ h \in 0..tip /\ h = current' - Confirmations
         /\ current \in Int /\ current' = current + 1 /\ UNCHANGED chain
         /\ Len(accepted) \in Nat /\ Len(accepted') = Len(accepted) + 1
         /\ \A i \in 1..Len(accepted) : accepted'[i] = accepted[i]
         /\ accepted'[Len(accepted')] = [height |-> h, block |-> chain[h]]
<1>1. /\ current \in Int /\ accepted \in Seq(Handled) /\ DOMAIN chain = 0..tip
      /\ \A h \in 0..tip : chain[h] \in Block
  BY TypeParts DEF ReaderInv, ChainOK, LoadBlock
<1> DEFINE h == MonitoredBlock(current)
           b == [height |-> h, block |-> chain[h]]
<1>2. /\ h \in 0..tip /\ current' = current + 1 /\ UNCHANGED chain
      /\ accepted' = Append(accepted, b)
  BY <1>1 DEF LoadBlock, NextHeight
<1>3. h = current' - Confirmations
  BY <1>1, <1>2 DEF MonitoredBlock
<1>4. b \in Handled
  <2> HIDE DEF h
  <2> QED BY <1>1, <1>2 DEF Handled, ChainOK
<1> HIDE DEF b
<1>5. /\ Len(accepted') = Len(accepted) + 1
      /\ \A i \in 1..Len(accepted) : accepted'[i] = accepted[i]
      /\ accepted'[Len(accepted) + 1] = b
      /\ Len(accepted) \in Nat
  BY <1>1, <1>2, <1>4, AppendProperties, LenProperties
<1> QED BY <1>1, <1>2, <1>3, <1>5 DEF b

LEMMA OrderKept == ReaderInv /\ OrderInv /\ [Next]_vars => OrderInv'
<1> SUFFICES ASSUME ReaderInv, OrderInv, [Next]_vars PROVE OrderInv'
  OBVIOUS
<1>1. CASE LoadBlock
  <2> DEFINE n == Len(accepted)
  <2>1. /\ current \in Int /\ current' = current + 1 /\ n \in Nat
        /\ Len(accepted') = n + 1 /\ \A i \in 1..n : accepted'[i] = accepted[i]
        /\ accepted'[n + 1].height = current' - Confirmations
    BY <1>1, LoadAppends
  <2>2. current' # Offline
    BY <2>1
  <2>3. n > 0 => accepted[n].height = current - Confirmations
    BY <2>1 DEF OrderInv
  <2>4. \A i \in 2..n : accepted[i].height = accepted[i - 1].height + 1
    BY DEF OrderInv, OneAfterAnother
  <2>5. \A i \in 2..n + 1 : accepted'[i].height = accepted'[i - 1].height + 1
    <3> SUFFICES ASSUME NEW i \in 2..n + 1
                 PROVE  accepted'[i].height = accepted'[i - 1].height + 1
      OBVIOUS
    <3>1. CASE i = n + 1
      <4>1. n > 0 /\ i - 1 = n /\ accepted'[n] = accepted[n]
        BY <2>1, <3>1
      <4> QED BY <2>1, <2>3, <3>1, <4>1
    <3>2. CASE i # n + 1
      <4>1. i \in 2..n /\ i - 1 \in 1..n /\ i \in 1..n
        BY <2>1, <3>2
      <4> QED BY <2>1, <2>4, <4>1
    <3> QED BY <3>1, <3>2
  <2> QED BY <2>1, <2>2, <2>5 DEF OrderInv, OneAfterAnother
<1>2. ASSUME NEW start, Connect(start) PROVE OrderInv'
  <2>1. accepted' = << >>
    BY <1>2 DEF Connect, OrderInv
  <2> QED BY <2>1 DEF OrderInv, OneAfterAnother
<1>3. CASE UNCHANGED <<current, accepted>>
  BY <1>3 DEF OrderInv, OneAfterAnother
<1> QED
  BY <1>1, <1>2, <1>3 DEF Next, NodeStep, NewBlock, Reorganise, Poll, NewHeight,
                          NothingNew, CallFails, vars

LEMMA FinalKept ==
  MaxReorg <= Confirmations /\ ReaderInv /\ OrderInv /\ FinalInv /\ [Next]_vars => FinalInv'
<1> SUFFICES ASSUME MaxReorg <= Confirmations, ReaderInv, OrderInv, FinalInv, [Next]_vars
             PROVE  FinalInv'
  OBVIOUS
<1>0. /\ ChainOK /\ tip \in Nat /\ current \in Int \cup {Offline}
      /\ current # Offline => current <= tip
  BY TypeParts DEF ReaderInv, ChainOK
<1>1. CASE NodeStep
  <2>1. UNCHANGED <<current, accepted>>
    BY <1>1 DEF NodeStep, NewBlock, Reorganise
  <2>2. \A h \in 0..tip : h <= tip - MaxReorg => chain'[h] = chain[h]
    BY <1>0, <1>1, ChainGrows DEF Buried
  <2>3. ASSUME NEW h \in 0..current - Confirmations, current # Offline
        PROVE  h \in 0..tip /\ h <= tip - MaxReorg
    BY <1>0, <2>3
  <2> QED BY <2>1, <2>2, <2>3 DEF FinalInv
<1>2. CASE LoadBlock
  <2> DEFINE n == Len(accepted)
             h == MonitoredBlock(current)
  <2>1. /\ current \in Int /\ current' = current + 1 /\ n \in Nat /\ UNCHANGED chain
        /\ Len(accepted') = n + 1 /\ \A i \in 1..n : accepted'[i] = accepted[i]
        /\ accepted'[n + 1] = [height |-> h, block |-> chain[h]]
        /\ h \in 0..tip /\ h = current' - Confirmations
    BY <1>2, LoadAppends
  <2>2. DOMAIN accepted = 1..n /\ DOMAIN accepted' = 1..n + 1
    <3>1. accepted \in Seq(Handled) /\ accepted' \in Seq(Handled)
      <4>1. ReaderInv'
        BY <1>2, ReaderStep DEF Poll
      <4> QED BY <4>1, TypeParts DEF ReaderInv, TypeOK, Handled, Block
    <3> QED BY <2>1, <3>1, LenProperties
  <2> HIDE DEF n, h
  <2>3. accepted'[n + 1].height = h /\ accepted'[n + 1].block = chain[h]
    BY <2>1
  <2>4. ASSUME NEW i \in 1..n
        PROVE  /\ accepted'[i].height \in 0..current' - Confirmations
               /\ chain'[accepted'[i].height] = accepted'[i].block
    <3>1. accepted'[i] = accepted[i] /\ i \in DOMAIN accepted
      BY <2>1, <2>2
    <3>2. /\ accepted[i].height \in 0..current - Confirmations
          /\ chain[accepted[i].height] = accepted[i].block
      BY <3>1 DEF FinalInv
    <3> QED BY <2>1, <3>1, <3>2
  <2>5. /\ h \in 0..current' - Confirmations /\ current' # Offline
        /\ \A i \in 1..n + 1 : i \in 1..n \/ i = n + 1
    BY <1>0, <2>1
  <2> QED BY <2>1, <2>2, <2>3, <2>4, <2>5 DEF FinalInv
<1>3. ASSUME NEW start, Connect(start) PROVE FinalInv'
  <2>1. accepted' = << >>
    BY <1>3 DEF Connect, OrderInv
  <2> QED BY <2>1 DEF FinalInv
<1>4. CASE UNCHANGED <<current, accepted, chain>>
  BY <1>4 DEF FinalInv
<1> QED
  BY <1>1, <1>2, <1>3, <1>4 DEF Next, Poll, NewHeight, NothingNew, CallFails, vars

(* No height is skipped or handled twice, for any number of confirmations  *)
(* and reorganisations of any depth.                                       *)
THEOREM BlocksInOrder == Spec => []OneAfterAnother
<1>1. Init => OrderInv
  BY DEF Init, OrderInv, OneAfterAnother
<1>2. OrderInv => OneAfterAnother
  BY DEF OrderInv
<1> QED BY <1>1, <1>2, ReaderStarts, ReaderKept, OrderKept, PTL DEF Spec

(* A handled block is never undone, as long as reorganisations replace at  *)
(* most CONFIRMATIONS blocks.                                              *)
THEOREM HandledForGood ==
  ASSUME MaxReorg <= Confirmations PROVE Spec => []AcceptedIsFinal
<1>1. Init => OrderInv /\ FinalInv
  BY DEF Init, OrderInv, OneAfterAnother, FinalInv
<1>2. FinalInv => AcceptedIsFinal
  BY DEF FinalInv, AcceptedIsFinal
<1>3. ReaderInv /\ OrderInv /\ FinalInv /\ [Next]_vars => FinalInv'
  BY FinalKept
<1> QED BY <1>1, <1>2, <1>3, ReaderStarts, ReaderKept, OrderKept, PTL DEF Spec

=============================================================================
