--------------------------- MODULE SealingProofs ---------------------------
(***************************************************************************)
(* The miner never drops a block that would extend the chain for want of   *)
(* its pending task, for any transactions and any number of blocks.        *)
(*                                                                         *)
(* A block passes from taskLoop over the event queue, the core and         *)
(* commitCh to resultLoop.  The inductive invariant says at every station  *)
(* of this way that a block above the head, if it is not empty, has its    *)
(* task, and that only blocks with transactions get into commitCh.         *)
(***************************************************************************)
EXTENDS Sealing, SequenceTheorems, NaturalsInduction, WellFoundedInduction, TLAPS

CoreType ==
    [started : BOOLEAN, sequence : Nat, first : BOOLEAN,
     lastView : [sequence : Nat, first : BOOLEAN], proposing : BOOLEAN,
     waiting : BOOLEAN, roundChange : BOOLEAN,
     pc : {"idle", "clear", "send"}, arg : Block \cup {None, Nil}]

\* With the head h, the block b is not above it, or it is empty, or resultLoop
\* knows its task.
Tracked(b, h, tasks) == ~Empty(b) /\ b.number > h => b \in tasks

\* What Commit may send: nil, or a block with transactions.
Sendable(b, h, tasks) == b = Nil \/ (b \in Block /\ ~Empty(b) /\ Tracked(b, h, tasks))

CoreOK ==
    /\ core \in CoreType
    /\ core.pc = "clear" => core.arg \in Block /\ Tracked(core.arg, head, pendingTasks)
    /\ core.pc = "send" => Sendable(core.arg, head, pendingTasks)

ChannelOK ==
    /\ commitCh \in Seq(Block \cup {Nil})
    /\ \A i \in DOMAIN commitCh : Sendable(commitCh[i], head, pendingTasks)

BlocksTracked ==
    /\ miner.task # None => Tracked(miner.task, head, pendingTasks)
    /\ \A b \in posted : Tracked(b, head, pendingTasks)
    /\ \A b \in results : ~Empty(b) /\ Tracked(b, head, pendingTasks)

\* The inductive invariant.
SealInv == TypeOK /\ CoreOK /\ ChannelOK /\ BlocksTracked

-----------------------------------------------------------------------------
\* A non-empty set of natural numbers has a least element.
LEMMA LeastNumber ==
  ASSUME NEW S \in SUBSET Nat, S # {}
  PROVE  \E n \in S : \A m \in S : n <= m
  <1>1. PICK n \in S : \A m \in S : <<m, n>> \notin OpToRel(<, Nat)
    BY NatLessThanWellFounded, WFMin
  <1>2. \A m \in S : ~(m < n)
    BY <1>1 DEF OpToRel
  <1> QED
    BY <1>2

LEMMA NewIdType == Free # {} => NewId \in Ids
  <1> SUFFICES ASSUME Free # {} PROVE NewId \in Ids
    OBVIOUS
  <1>1. Free \in SUBSET Nat /\ Free \subseteq Ids
    BY IdsAssumption DEF Free
  <1>2. \E id \in Free : \A i \in Free : id <= i
    BY <1>1, LeastNumber
  <1> QED
    BY <1>1, <1>2 DEF NewId

\* A block stays tracked when the head does not fall and tasks of blocks above
\* it are not forgotten.
LEMMA TrackedStays ==
  ASSUME head \in Nat, head' \in Nat, head <= head',
         \A b \in pendingTasks : b.number > head' => b \in pendingTasks',
         NEW b \in Block, Tracked(b, head, pendingTasks)
  PROVE  Tracked(b, head', pendingTasks')
  <1>1. b.number \in Nat
    BY DEF Block
  <1>2. b.number > head' => b.number > head
    BY <1>1
  <1> QED
    BY <1>2 DEF Tracked, Empty

\* What every step leaves true of a block that goes on.
Forward ==
    /\ head \in Nat /\ head' \in Nat /\ head <= head'
    /\ \A b \in pendingTasks : b.number > head' => b \in pendingTasks'

LEMMA ForwardKeeps ==
  ASSUME SealInv, Forward
  PROVE  /\ \A b \in Block : Tracked(b, head, pendingTasks) => Tracked(b, head', pendingTasks')
         /\ \A b : Sendable(b, head, pendingTasks) => Sendable(b, head', pendingTasks')
  <1>1. \A b \in Block : Tracked(b, head, pendingTasks) => Tracked(b, head', pendingTasks')
    BY TrackedStays DEF Forward
  <1> QED
    BY <1>1 DEF Sendable, Empty

LEMMA SealInit == Init => SealInv
  <1> SUFFICES ASSUME Init PROVE SealInv
    OBVIOUS
  <1>1. TypeOK
    BY DEF Init, TypeOK
  <1>2. CoreOK
    BY DEF Init, CoreOK, CoreType
  <1>3. ChannelOK
    BY DEF Init, ChannelOK
  <1>4. BlocksTracked
    BY DEF Init, BlocksTracked
  <1> QED
    BY <1>1, <1>2, <1>3, <1>4 DEF SealInv

-----------------------------------------------------------------------------
(* Types.                                                                  *)

\* The core's state after its own operations.
LEMMA CoreOperations ==
  ASSUME head \in Nat, NEW c \in CoreType, c.sequence \in 1 .. head + 1
  PROVE  /\ StartNewRoundWhenEmpty(c) \in CoreType
         /\ StartNewRoundWhenEmpty(c).pc = c.pc
         /\ StartNewRoundWhenEmpty(c).arg = c.arg
         /\ StartNewRoundWhenEmpty(c).sequence \in 1 .. head + 1
         /\ StartNewSequence(c) \in CoreType
         /\ StartNewSequence(c).pc = c.pc
         /\ StartNewSequence(c).arg = c.arg
         /\ StartNewSequence(c).sequence \in 1 .. head + 1
  <1>1. /\ StartNewRoundWhenEmpty(c) \in CoreType
        /\ StartNewRoundWhenEmpty(c).pc = c.pc /\ StartNewRoundWhenEmpty(c).arg = c.arg
        /\ StartNewRoundWhenEmpty(c).sequence = c.sequence
    BY DEF StartNewRoundWhenEmpty, CoreType
  <1>2. CASE head < c.sequence
    BY <1>1, <1>2 DEF StartNewSequence
  <1>3. CASE ~(head < c.sequence)
    <2>1. head + 1 \in Nat
      OBVIOUS
    <2>2. StartNewSequence(c) =
             [c EXCEPT !.sequence = head + 1, !.first = TRUE, !.proposing = FALSE,
                       !.waiting = FALSE, !.roundChange = FALSE]
      BY <1>3 DEF StartNewSequence
    <2>3. /\ StartNewSequence(c) \in CoreType
          /\ StartNewSequence(c).pc = c.pc /\ StartNewSequence(c).arg = c.arg
          /\ StartNewSequence(c).sequence = head + 1
      BY <2>1, <2>2 DEF CoreType
    <2> QED
      BY <1>1, <2>3
  <1> QED
    BY <1>2, <1>3

LEMMA MinerType ==
  ASSUME TypeOK, core \in CoreType, MinerStep
  PROVE  TypeOK'
  <1> USE DEF TypeOK, chainVars, engineVars, outVars, countVars
  <1>1. CASE StartEvent
    BY <1>1 DEF StartEvent, RequestWork, clearPending
  <1>2. CASE TimerEvent
    <2>1. core'.pc = core.pc /\ core'.sequence = core.sequence
      BY <1>2 DEF TimerEvent, CoreType
    <2> QED
      BY <1>2, <2>1 DEF TimerEvent, RequestWork
  <1>3. CASE TimerIdle
    BY <1>3 DEF TimerIdle
  <1>4. CASE ChainHead
    BY <1>4 DEF ChainHead, clearPending
  <1>5. CASE CommitNewWork
    <2>1. [id |-> NewId, number |-> head + 1, txs |-> pool] \in Block
      BY <1>5, NewIdType DEF CommitNewWork, Block
    <2> QED
      BY <1>5, <2>1 DEF CommitNewWork
  <1>6. CASE DropWork
    BY <1>6 DEF DropWork
  <1>7. CASE Seal
    <2>1. miner.task \in Block
      BY <1>7 DEF Seal
    <2>2. posted' \subseteq posted \cup {miner.task}
      BY <1>7 DEF Seal
    <2>3. sealing' \subseteq [block : Block, stopped : BOOLEAN]
      <3>1. [block |-> miner.task, stopped |-> FALSE] \in [block : Block, stopped : BOOLEAN]
        BY <2>1
      <3> QED
        BY <1>7, <3>1 DEF Seal
    <2> QED
      BY <1>7, <2>1, <2>2, <2>3 DEF Seal
  <1>8. ASSUME NEW txs \in SUBSET Txs, PassTask(txs)
        PROVE  TypeOK'
    <2>1. [miner.building EXCEPT !.txs = txs] \in Block
      BY <1>8 DEF PassTask, Block
    <2>2. Interrupt \subseteq [block : Block, stopped : BOOLEAN]
      <3>1. \A g \in sealing : [g EXCEPT !.stopped = TRUE] \in [block : Block, stopped : BOOLEAN]
        OBVIOUS
      <3> QED
        BY <3>1 DEF Interrupt
    <2> QED
      BY <1>8, <2>1, <2>2 DEF PassTask
  <1> QED
    BY <1>1, <1>2, <1>3, <1>4, <1>5, <1>6, <1>7, <1>8 DEF MinerStep

LEMMA CoreTypeKept ==
  ASSUME SealInv, CoreStep \/ Timeout \/ StartEngine \/ StopEngine \/ TimerEvent
  PROVE  core' \in CoreType /\ core'.sequence \in 1 .. head + 1
  <1>0. /\ head \in Nat /\ core \in CoreType /\ core.sequence \in 1 .. head + 1
        /\ core.sequence \in Nat /\ posted \subseteq Block
    BY DEF SealInv, TypeOK, CoreOK
  <1>1. /\ StartNewRoundWhenEmpty(core) \in CoreType
        /\ StartNewRoundWhenEmpty(core).sequence \in 1 .. head + 1
        /\ StartNewSequence(core) \in CoreType
        /\ StartNewSequence(core).sequence \in 1 .. head + 1
    BY <1>0, CoreOperations
  <1>2. CASE core' = core
    BY <1>0, <1>2
  <1>3. ASSUME NEW b \in posted, CommitProposed(b) \/ CommitOther(b)
        PROVE  core' \in CoreType /\ core'.sequence \in 1 .. head + 1
    <2>1. CASE CommitProposed(b)
      BY <1>0, <2>1 DEF CommitProposed, CoreType
    <2>2. CASE CommitOther(b)
      BY <1>0, <1>1, <2>2 DEF CommitOther
    <2> QED
      BY <1>3, <2>1, <2>2
  <1>4. CASE ClearProposed
    BY <1>0, <1>4 DEF ClearProposed, CoreType
  <1>5. CASE SendResult
    <2> DEFINE c == [core EXCEPT !.pc = "idle", !.arg = None]
    <2>1. c \in CoreType /\ c.sequence \in 1 .. head + 1
      BY <1>0 DEF CoreType
    <2>2. core' = c \/ core' = StartNewRoundWhenEmpty(c)
      BY <1>5 DEF SendResult
    <2> HIDE DEF c
    <2> QED
      BY <1>0, <2>1, <2>2, CoreOperations
  <1>6. CASE FinalCommitted
    BY <1>1, <1>6 DEF FinalCommitted
  <1>7. CASE RoundChange
    <2> DEFINE d == [core EXCEPT !.roundChange = FALSE]
               c == StartNewSequence(d)
    <2>1. d \in CoreType /\ d.sequence \in 1 .. head + 1
      BY <1>0 DEF CoreType
    <2> HIDE DEF d
    <2>2. c \in CoreType /\ c.sequence \in 1 .. head + 1
      BY <1>0, <2>1, CoreOperations
    <2>3. core' = [c EXCEPT !.waiting = FALSE] \/ core' = StartNewRoundWhenEmpty(c)
      BY <1>7 DEF RoundChange, d
    <2> HIDE DEF c
    <2>4. CASE core' = [c EXCEPT !.waiting = FALSE]
      BY <2>2, <2>4 DEF CoreType
    <2> QED
      BY <1>0, <2>2, <2>3, <2>4, CoreOperations
  <1>8. CASE Timeout
    <2>1. CASE core' = [core EXCEPT !.first = FALSE, !.proposing = FALSE,
                                    !.waiting = TRUE, !.roundChange = TRUE]
      BY <1>0, <2>1 DEF CoreType
    <2> QED
      BY <1>1, <1>8, <2>1 DEF Timeout
  <1>9. CASE StartEngine
    <2> DEFINE p == core.lastView = [sequence |-> head + 1, first |-> TRUE]
    <2>1. PICK rc \in {FALSE, core.roundChange /\ core.sequence = head + 1} :
             core' = [core EXCEPT !.started = TRUE, !.sequence = head + 1, !.first = TRUE,
                                  !.proposing = p, !.waiting = FALSE, !.roundChange = rc]
      BY <1>9 DEF StartEngine
    <2>2. rc \in BOOLEAN /\ p \in BOOLEAN
      BY <1>0, <2>1 DEF CoreType
    <2> HIDE DEF p
    <2>3. head + 1 \in Nat
      BY <1>0
    <2>4. core' \in CoreType
      BY <1>0, <2>1, <2>2, <2>3 DEF CoreType
    <2>5. core'.sequence = head + 1
      BY <1>0, <2>1 DEF CoreType
    <2> QED
      BY <1>0, <2>4, <2>5
  <1>10. CASE StopEngine
    BY <1>0, <1>10 DEF StopEngine, CoreType
  <1>11. CASE TimerEvent
    <2>1. core' = [core EXCEPT !.proposing = TRUE,
                            !.lastView = [sequence |-> core.sequence, first |-> core.first]]
      BY <1>11 DEF TimerEvent
    <2>2. [sequence |-> core.sequence, first |-> core.first]
             \in [sequence : Nat, first : BOOLEAN]
      BY <1>0 DEF CoreType
    <2> QED
      BY <1>0, <2>1, <2>2 DEF CoreType
  <1> QED
    BY <1>3, <1>4, <1>5, <1>6, <1>7, <1>8, <1>9, <1>10, <1>11 DEF CoreStep

-----------------------------------------------------------------------------
(* The invariant is inductive: one lemma for each group of goroutines.     *)

LEMMA MinerKeeps ==
  ASSUME SealInv, MinerStep
  PROVE  SealInv'
  <1>0. /\ TypeOK /\ CoreOK /\ ChannelOK /\ BlocksTracked
        /\ head \in Nat /\ pendingTasks \subseteq Block /\ core \in CoreType
        /\ posted \subseteq Block /\ results \subseteq Block
        /\ miner.task \in Block \cup {None}
    BY DEF SealInv, TypeOK, CoreOK
  <1>1. TypeOK'
    BY <1>0, MinerType
  <1>2. /\ head' = head /\ commitCh' = commitCh /\ results' = results
        /\ core' = core \/ TimerEvent
    BY DEF MinerStep, StartEvent, TimerEvent, TimerIdle, ChainHead, CommitNewWork,
           DropWork, Seal, PassTask, chainVars, engineVars, outVars
  <1>3. Forward
    <2>1. \A b \in pendingTasks : b.number > head => b \in clearPending(head)
      <3>1. \A b \in pendingTasks : b.number \in Nat
        BY <1>0 DEF Block
      <3> QED
        BY <1>0, <3>1 DEF clearPending, staleThreshold
    <2>2. \/ pendingTasks' = clearPending(head)
          \/ pendingTasks \subseteq pendingTasks'
      BY DEF MinerStep, StartEvent, TimerEvent, TimerIdle, ChainHead, CommitNewWork,
             DropWork, Seal, PassTask
    <2>3. head' <= head /\ head <= head'
      BY <1>0, <1>2
    <2> QED
      BY <1>0, <1>2, <2>1, <2>2, <2>3 DEF Forward
  <1>4. /\ \A b \in Block : Tracked(b, head, pendingTasks) => Tracked(b, head', pendingTasks')
        /\ \A b : Sendable(b, head, pendingTasks) => Sendable(b, head', pendingTasks')
    BY <1>3, ForwardKeeps
  <1>5. CoreOK'
    <2>1. core' \in CoreType /\ core'.pc = core.pc /\ core'.arg = core.arg
      <3>1. CASE TimerEvent
        BY <1>0, <3>1, CoreTypeKept DEF TimerEvent, CoreType
      <3> QED
        BY <1>0, <1>2, <3>1
    <2>2. core'.pc = "clear" => core'.arg \in Block /\ Tracked(core.arg, head', pendingTasks')
      BY <1>0, <1>4, <2>1 DEF CoreOK
    <2>3. core'.pc = "send" => Sendable(core.arg, head', pendingTasks')
      BY <1>0, <1>4, <2>1 DEF CoreOK
    <2> QED
      BY <2>1, <2>2, <2>3 DEF CoreOK
  <1>6. ChannelOK'
    BY <1>0, <1>2, <1>4 DEF ChannelOK
  <1>7. BlocksTracked'
    <2>1. \A b \in results' : ~Empty(b) /\ Tracked(b, head', pendingTasks')
      BY <1>0, <1>2, <1>4 DEF BlocksTracked
    <2>2. CASE Seal
      <3>1. posted' \subseteq posted \cup {miner.task} /\ miner'.task = None
            /\ miner.task \in Block /\ Tracked(miner.task, head, pendingTasks)
        BY <1>0, <2>2 DEF Seal, BlocksTracked, TypeOK
      <3>2. \A b \in posted' : Tracked(b, head', pendingTasks')
        BY <1>0, <1>4, <3>1 DEF BlocksTracked
      <3> QED
        BY <2>1, <3>1, <3>2 DEF BlocksTracked
    <2>3. ASSUME NEW txs \in SUBSET Txs, PassTask(txs) PROVE BlocksTracked'
      <3> DEFINE b == [miner.building EXCEPT !.txs = txs]
      <3>1. /\ miner' = [miner EXCEPT !.building = None, !.signal = "none", !.task = b]
            /\ pendingTasks' = pendingTasks \cup (IF Empty(b) THEN {} ELSE {b})
            /\ posted' = posted
        BY <2>3 DEF PassTask
      <3> HIDE DEF b
      <3>2. miner'.task = b
        BY <1>0, <3>1 DEF TypeOK
      <3>3. Tracked(b, head', pendingTasks')
        BY <3>1 DEF Tracked, Empty
      <3>4. \A c \in posted' : Tracked(c, head', pendingTasks')
        BY <1>0, <1>4, <3>1 DEF BlocksTracked
      <3> QED
        BY <2>1, <3>2, <3>3, <3>4 DEF BlocksTracked
    <2>4. CASE miner'.task = miner.task /\ posted' = posted
      <3>1. \A b \in posted' : Tracked(b, head', pendingTasks')
        BY <1>0, <1>4, <2>4 DEF BlocksTracked
      <3>2. miner.task # None => Tracked(miner.task, head', pendingTasks')
        BY <1>0, <1>4 DEF BlocksTracked
      <3> QED
        BY <2>1, <2>4, <3>1, <3>2 DEF BlocksTracked
    <2>5. CASE StartEvent \/ TimerEvent \/ TimerIdle \/ ChainHead \/ CommitNewWork \/ DropWork
      <3>1. miner'.task = miner.task /\ posted' = posted
        BY <1>0, <2>5 DEF TypeOK, StartEvent, TimerEvent, TimerIdle, ChainHead,
              CommitNewWork, DropWork, RequestWork, engineVars
      <3> QED
        BY <2>4, <3>1
    <2> QED
      BY <2>2, <2>3, <2>5 DEF MinerStep
  <1> QED
    BY <1>1, <1>5, <1>6, <1>7 DEF SealInv

LEMMA CoreKeeps ==
  ASSUME SealInv, CoreStep \/ Timeout \/ StartEngine \/ StopEngine
  PROVE  SealInv'
  <1>0. /\ TypeOK /\ CoreOK /\ ChannelOK /\ BlocksTracked
        /\ head \in Nat /\ core \in CoreType /\ posted \subseteq Block
        /\ commitCh \in Seq(Block \cup {Nil}) /\ fetched \subseteq Block
    BY DEF SealInv, TypeOK, CoreOK, ChannelOK
  <1> USE DEF chainVars, engineVars, outVars, countVars
  <1>1. /\ head' = head /\ included' = included /\ pool' = pool /\ miner' = miner
        /\ pendingTasks' = pendingTasks /\ results' = results
        /\ posted' \subseteq posted /\ sealing' \subseteq sealing
        /\ events' \subseteq events /\ proposed' \in {proposed, None}
    BY DEF CoreStep, CommitProposed, CommitOther, ClearProposed, SendResult,
           FinalCommitted, RoundChange, Timeout, StartEngine, StopEngine
  <1>2. core' \in CoreType /\ core'.sequence \in 1 .. head + 1
    BY CoreTypeKept
  <1>3. fetched' \subseteq Block
    BY <1>0 DEF CoreStep, CommitProposed, CommitOther, ClearProposed, SendResult,
           FinalCommitted, RoundChange, Timeout, StartEngine, StopEngine
  <1>4. ChannelOK' /\ Len(commitCh') <= 1
    <2>1. CASE commitCh' = commitCh
      BY <1>0, <1>1, <2>1 DEF TypeOK, ChannelOK
    <2>2. CASE commitCh' = << >>
      BY <2>2 DEF ChannelOK
    <2>3. CASE SendResult
      <3>1. /\ commitCh' = Append(commitCh, core.arg) /\ Len(commitCh) < 1
            /\ Sendable(core.arg, head, pendingTasks)
        BY <1>0, <2>3 DEF SendResult, HasPlace, CoreOK
      <3>2. core.arg \in Block \cup {Nil}
        BY <3>1 DEF Sendable
      <3>3. Len(commitCh) = 0
        BY <1>0, <3>1
      <3>4. /\ commitCh' \in Seq(Block \cup {Nil}) /\ Len(commitCh') = 1
            /\ commitCh'[1] = core.arg
        BY <1>0, <3>1, <3>2, <3>3
      <3>5. DOMAIN commitCh' = {1}
        BY <3>4
      <3> QED
        BY <1>1, <3>1, <3>4, <3>5 DEF ChannelOK
    <2> QED
      BY <2>1, <2>2, <2>3
      DEF CoreStep, CommitProposed, CommitOther, ClearProposed, FinalCommitted,
          RoundChange, Timeout, StartEngine, StopEngine
  <1>5. TypeOK'
    BY <1>0, <1>1, <1>2, <1>3, <1>4 DEF TypeOK, CoreType
  <1>6. CoreOK'
    <2>1. ASSUME NEW b \in posted, CommitProposed(b) PROVE CoreOK'
      <3>1. core'.pc = "clear" /\ core'.arg = b
        BY <1>0, <2>1 DEF CommitProposed, CoreType
      <3>2. b \in Block /\ Tracked(b, head, pendingTasks)
        BY <1>0 DEF BlocksTracked
      <3> QED
        BY <1>1, <1>2, <3>1, <3>2 DEF CoreOK
    <2>2. CASE ClearProposed
      <3>1. core.arg \in Block /\ Tracked(core.arg, head, pendingTasks)
        BY <1>0, <2>2 DEF ClearProposed, CoreOK
      <3>2. core'.pc = "send" /\ core'.arg = IF Empty(core.arg) THEN Nil ELSE core.arg
        BY <1>0, <2>2 DEF ClearProposed, CoreType
      <3>3. Sendable(core'.arg, head, pendingTasks)
        BY <3>1, <3>2 DEF Sendable
      <3> QED
        BY <1>1, <1>2, <3>2, <3>3 DEF CoreOK
    <2>3. CASE SendResult
      <3> DEFINE c == [core EXCEPT !.pc = "idle", !.arg = None]
      <3>1. c \in CoreType /\ c.pc = "idle" /\ c.sequence \in 1 .. head + 1
        BY <1>0 DEF CoreType, TypeOK
      <3>2. core' = c \/ core' = StartNewRoundWhenEmpty(c)
        BY <2>3 DEF SendResult
      <3> HIDE DEF c
      <3>3. core'.pc = "idle"
        BY <1>0, <3>1, <3>2, CoreOperations
      <3> QED
        BY <1>2, <3>3 DEF CoreOK
    <2>4. CASE CoreIdle \/ StartEngine
      <3>1. CASE core'.pc = core.pc /\ core'.arg = core.arg
        BY <1>0, <1>1, <1>2, <3>1 DEF CoreOK
      <3>2. core.sequence \in 1 .. head + 1
        BY <1>0 DEF TypeOK
      <3>3. /\ StartNewRoundWhenEmpty(core).pc = core.pc
            /\ StartNewRoundWhenEmpty(core).arg = core.arg
            /\ StartNewSequence(core).pc = core.pc
            /\ StartNewSequence(core).arg = core.arg
        BY <1>0, <3>2, CoreOperations
      <3>4. CASE RoundChange
        <4> DEFINE d == [core EXCEPT !.roundChange = FALSE]
                   c == StartNewSequence(d)
        <4>1. /\ d \in CoreType /\ d.sequence \in 1 .. head + 1
              /\ d.pc = core.pc /\ d.arg = core.arg
          BY <1>0, <3>2 DEF CoreType
        <4> HIDE DEF d
        <4>2. /\ c \in CoreType /\ c.sequence \in 1 .. head + 1
              /\ c.pc = core.pc /\ c.arg = core.arg
          BY <1>0, <4>1, CoreOperations
        <4>3. core' = [c EXCEPT !.waiting = FALSE] \/ core' = StartNewRoundWhenEmpty(c)
          BY <3>4 DEF RoundChange, d
        <4> HIDE DEF c
        <4>4. core'.pc = core.pc /\ core'.arg = core.arg
          <5>1. CASE core' = [c EXCEPT !.waiting = FALSE]
            BY <4>2, <5>1 DEF CoreType
          <5> QED
            BY <1>0, <4>2, <4>3, <5>1, CoreOperations
        <4> QED
          BY <3>1, <4>4
      <3>5. CASE Timeout \/ StartEngine \/ StopEngine
        <4>1. core'.pc = core.pc /\ core'.arg = core.arg
          BY <1>0, <3>3, <3>5 DEF Timeout, StartEngine, StopEngine, CoreType
        <4> QED
          BY <3>1, <4>1
      <3>6. ASSUME NEW b \in posted, CommitOther(b) PROVE CoreOK'
        BY <3>1, <3>3, <3>6 DEF CommitOther
      <3>7. CASE FinalCommitted
        BY <3>1, <3>3, <3>7 DEF FinalCommitted
      <3> QED
        BY <2>1, <2>2, <2>3, <3>4, <3>5, <3>6, <3>7 DEF CoreStep
    <2> QED
      BY <2>1, <2>2, <2>3, <2>4
      DEF CoreStep, CommitOther, FinalCommitted, RoundChange, Timeout, StopEngine
  <1>7. BlocksTracked'
    BY <1>0, <1>1 DEF BlocksTracked
  <1> QED
    BY <1>4, <1>5, <1>6, <1>7 DEF SealInv

LEMMA ResultKeeps ==
  ASSUME SealInv, ResultStep
  PROVE  SealInv'
  <1>0. /\ TypeOK /\ CoreOK /\ ChannelOK /\ BlocksTracked
        /\ head \in Nat /\ results \subseteq Block /\ fetched \subseteq Block
        /\ commitCh \in Seq(Block \cup {Nil})
        /\ sealing \subseteq [block : Block, stopped : BOOLEAN]
    BY DEF SealInv, TypeOK, CoreOK, ChannelOK
  <1> USE DEF chainVars, engineVars, outVars, countVars
  <1>1. /\ miner' = miner /\ pendingTasks' = pendingTasks /\ core' = core
        /\ proposed' = proposed /\ posted' = posted
        /\ sealing' \subseteq sealing /\ fetched' \subseteq fetched
    BY DEF ResultStep, TakeResult, StopSealing, Result, Import
  <1>2. /\ head' \in Nat /\ head <= head'
        /\ included' \subseteq Txs /\ pool' \subseteq Txs /\ pool' \cap included' = {}
        /\ events' \subseteq {"head", "final"}
    <2>1. ASSUME NEW b \in Block, WriteBlock(b) PROVE <1>2
      <3>1. b.number \in Nat /\ b.txs \subseteq Txs
        BY DEF Block
      <3>2. CASE b.number <= head
        BY <1>0, <2>1, <3>2 DEF WriteBlock, TypeOK
      <3>3. CASE ~(b.number <= head)
        <4>1. /\ head' = b.number /\ included' = included \cup b.txs
              /\ pool' = pool \ b.txs /\ events' = events \cup {"head"}
          BY <2>1, <3>3 DEF WriteBlock
        <4>2. head' \in Nat /\ head <= head'
          BY <1>0, <3>1, <3>3, <4>1
        <4>3. /\ included \subseteq Txs /\ pool \subseteq Txs /\ pool \cap included = {}
              /\ events \subseteq {"head", "final"}
          BY <1>0 DEF TypeOK
        <4>4. /\ included' \subseteq Txs /\ pool' \subseteq Txs /\ pool' \cap included' = {}
              /\ events' \subseteq {"head", "final"}
          BY <3>1, <4>1, <4>3
        <4> QED
          BY <4>2, <4>4
      <3> QED
        BY <3>2, <3>3
    <2>2. CASE UNCHANGED <<chainVars, events>>
      BY <1>0, <2>2 DEF TypeOK
    <2> QED
      BY <1>0, <2>1, <2>2 DEF ResultStep, TakeResult, StopSealing, Result, Import
  <1>3. /\ \A b \in Block : Tracked(b, head, pendingTasks) => Tracked(b, head', pendingTasks')
        /\ \A b : Sendable(b, head, pendingTasks) => Sendable(b, head', pendingTasks')
    BY <1>0, <1>1, <1>2, ForwardKeeps DEF Forward
  <1>4. /\ ChannelOK' /\ Len(commitCh') <= 1
        /\ \A b \in results' : b \in Block /\ ~Empty(b) /\ Tracked(b, head', pendingTasks')
    <2>1. CASE commitCh' = commitCh /\ results' \subseteq results
      <3>1. ChannelOK' /\ Len(commitCh') <= 1
        BY <1>0, <1>3, <2>1 DEF ChannelOK, TypeOK
      <3>2. \A b \in results' : b \in Block /\ ~Empty(b) /\ Tracked(b, head', pendingTasks')
        BY <1>0, <1>3, <2>1 DEF BlocksTracked
      <3> QED
        BY <3>1, <3>2
    <2>2. ASSUME NEW g \in sealing, TakeResult(g) PROVE <1>4
      <3>1. /\ commitCh # << >> /\ commitCh' = Tail(commitCh)
            /\ results' \subseteq results \cup (IF commitCh[1] = g.block THEN {g.block} ELSE {})
        BY <2>2 DEF TakeResult
      <3>2. Len(commitCh) = 1 /\ DOMAIN commitCh = {1}
        <4>1. Len(commitCh) \in Nat \ {0} /\ DOMAIN commitCh = 1 .. Len(commitCh)
          BY <1>0, <3>1, EmptySeq, LenProperties
        <4> QED
          BY <1>0, <4>1 DEF TypeOK
      <3>3. /\ commitCh' \in Seq(Block \cup {Nil}) /\ Len(commitCh') = 0
            /\ DOMAIN commitCh' = {}
        <4>1. commitCh' \in Seq(Block \cup {Nil}) /\ Len(commitCh') = 0
          BY <1>0, <3>1, <3>2, HeadTailProperties
        <4> QED
          BY <4>1, LenProperties
      <3>4. Sendable(commitCh[1], head, pendingTasks)
        BY <1>0, <3>2 DEF ChannelOK
      <3>5. g.block \in Block
        BY <1>0
      <3>6. commitCh[1] = g.block =>
               ~Empty(g.block) /\ Tracked(g.block, head, pendingTasks)
        BY <3>4, <3>5, NoBlockAssumption DEF Sendable
      <3>7. \A b \in results' : b \in Block /\ ~Empty(b) /\ Tracked(b, head, pendingTasks)
        BY <1>0, <3>1, <3>5, <3>6 DEF BlocksTracked
      <3> QED
        BY <1>3, <3>3, <3>7 DEF ChannelOK
    <2> QED
      BY <2>1, <2>2 DEF ResultStep, StopSealing, Result, Import
  <1>5. TypeOK'
    BY <1>0, <1>1, <1>2, <1>4 DEF TypeOK
  <1>6. CoreOK'
    BY <1>0, <1>1, <1>3 DEF CoreOK
  <1>7. BlocksTracked'
    <2>1. miner'.task # None => miner.task \in Block
      BY <1>0, <1>1 DEF TypeOK
    <2> QED
      BY <1>0, <1>1, <1>3, <1>4, <2>1 DEF BlocksTracked, TypeOK
  <1> QED
    BY <1>4, <1>5, <1>6, <1>7 DEF SealInv

\* Start, Stop and a new transaction.
LEMMA OutsideKeeps ==
  ASSUME SealInv, Start \/ Stop \/ \E t \in Txs : Arrive(t)
  PROVE  SealInv'
  <1> USE DEF chainVars, engineVars, outVars, countVars
  <1>0. TypeOK /\ CoreOK /\ ChannelOK /\ BlocksTracked
    BY DEF SealInv
  <1>1. /\ head' = head /\ pendingTasks' = pendingTasks /\ core' = core
        /\ posted' = posted /\ commitCh' = commitCh /\ results' = results
        /\ miner'.task = miner.task
    BY <1>0 DEF Start, Stop, Arrive, TypeOK
  <1>2. TypeOK'
    BY <1>0 DEF Start, Stop, Arrive, TypeOK
  <1> QED
    BY <1>0, <1>1, <1>2 DEF SealInv, CoreOK, ChannelOK, BlocksTracked

LEMMA SealStep == ASSUME SealInv, [Next]_vars PROVE SealInv'
  <1>1. CASE UNCHANGED vars
    BY <1>1 DEF vars, chainVars, engineVars, outVars, SealInv, TypeOK, CoreOK, ChannelOK,
                BlocksTracked
  <1>2. CASE Next
    BY <1>2, MinerKeeps, CoreKeeps, ResultKeeps, OutsideKeeps DEF Next
  <1> QED
    BY <1>1, <1>2

LEMMA SealInvariance == Spec => []SealInv
  BY SealInit, SealStep, PTL DEF Spec

-----------------------------------------------------------------------------
(* The invariants of Sealing.                                              *)

\* Every goroutine's state and every channel is of its type: commitCh holds at
\* most one result, no transaction is pending and included, and the core is
\* not ahead of the chain.
THEOREM SealingTyped == Spec => []TypeOK
  BY SealInvariance, PTL DEF SealInv

\* resultLoop knows the task of every block that would extend the chain, however
\* the goroutines interleave: clearing stale tasks never removes one that is on
\* its way.
THEOREM PendingIsKnown == Spec => []PendingKnown
  <1>1. SealInv => PendingKnown
    BY DEF SealInv, BlocksTracked, PendingKnown, Tracked
  <1> QED
    BY <1>1, SealInvariance, PTL
=============================================================================
