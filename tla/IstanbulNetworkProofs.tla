----------------------- MODULE IstanbulNetworkProofs -----------------------
(***************************************************************************)
(* What holds of the engine as a network, for any number of validators,    *)
(* any blocks, any last round and any environment that keeps to            *)
(* EnvAssumption.  The inductive invariant is that every running validator *)
(* is Good with respect to the messages sent so far, and that what         *)
(* ProofOfLock says holds of them.                                         *)
(***************************************************************************)
EXTENDS IstanbulHandlerProofs

\* The inductive invariant.
NetInv ==
    /\ DOMAIN node = Running
    /\ \A n \in Running :
           Good(node[n], n, msgs) /\ node[n].out = {} /\ node[n].round \in Rounds
    /\ msgs \subseteq Messages(Rounds)
    /\ \A m \in msgs : LocksEarlier(m)
    /\ ProvesLocks(msgs)
    /\ sealed \subseteq Blocks

-----------------------------------------------------------------------------
(* Sending.                                                                *)

\* What others send disturbs nothing.
LEMMA GoodDespiteOthers ==
  ASSUME NEW c, NEW n, NEW M, Good(c, n, M), NEW S \in SUBSET Messages(Nat),
         \A m \in S : m.src # n
  PROVE  Good(c, n, M \cup S)
  <1>1. \A m \in S : ~IsVoteOf(m, n)
    BY DEF IsVoteOf
  <1>2. MessagesSent(c, M \cup S) /\ OutFits(c, n, M \cup S) /\ OldInChain(c, n, M \cup S)
    BY DEF Good, Sound, MessagesSent, OutFits, OldInChain
  <1>3. n \notin Restarting
        => VotesFit(c, n, M \cup S) /\ VotesOnce((M \cup S) \cup c.out, n)
    BY <1>1 DEF Good, Sound, VotesFit, VotesOnce
  <1>4. Idle(c) => Fresh(c, n, M \cup S)
    BY <1>1 DEF Good, Fresh, NotVoted
  <1> QED
    BY <1>2, <1>3, <1>4 DEF Good, Sound

\* What a handler has broadcast is sent.
LEMMA GoodSends ==
  ASSUME NEW c, NEW n, NEW M, Good(c, n, M)
  PROVE  LET d == [c EXCEPT !.out = {}] IN
         /\ Good(d, n, M \cup c.out) /\ Frame(c, d, {"out"}) /\ d.out = {}
  <1> DEFINE d == [c EXCEPT !.out = {}]
             S == M \cup c.out
  <1> USE DEF Frame, Fields, HasFields
  <1>0. Typed(c) /\ HasFields(c) /\ S \subseteq Messages(Nat)
    BY DEF Good, Sound, Typed, OutFits
  <1>1. Frame(c, d, {"out"}) /\ d.out = {} /\ S \cup d.out = M \cup c.out
    BY <1>0
  <1> HIDE DEF d
  <1>2. Typed(d)
    BY <1>0, <1>1 DEF Typed, RoundTyped, IsCore, BackendTyped, Positioned, LastNumber
  <1>3. LockFits(d) /\ MessagesSent(d, S) /\ OutFits(d, n, S)
    BY <1>1 DEF Good, Sound, LockFits, MessagesSent, OutFits, IsHashLocked
  <1>4. OldInChain(d, n, S)
    BY <1>1 DEF Good, Sound, OldInChain, HasProposal
  <1>5. n \notin Restarting => VotesFit(d, n, S) /\ VotesOnce(S \cup d.out, n)
    BY <1>1 DEF Good, Sound, VotesFit, View
  <1>6. Idle(d) => Fresh(d, n, S)
    BY <1>1 DEF Good, Idle, Fresh, NothingCounted, NotVoted, View, IsHashLocked
  <1>7. ~Idle(d) => d.preprepare \in Blocks
    BY <1>1 DEF Good, Idle
  <1> QED
    BY <1>0, <1>1, <1>2, <1>3, <1>4, <1>5, <1>6, <1>7 DEF Good, Sound, d

\* A step in which n goes to a good state and sends what it broadcast.
LEMMA SendingStep ==
  ASSUME NetInv, NEW n \in Running, NEW c, Good(c, n, msgs), Becomes(n, c),
         sealed' \subseteq Blocks
  PROVE  NetInv'
  <1> DEFINE d == [c EXCEPT !.out = {}]
  <1>1. /\ node' = [node EXCEPT ![n] = d] /\ msgs' = msgs \cup c.out
        /\ c.round <= MaxRound /\ DOMAIN node = Running
        /\ msgs \subseteq Messages(Rounds)
    BY Zenon DEF Becomes, NetInv
  <1>2. Good(d, n, msgs') /\ Frame(c, d, {"out"}) /\ d.out = {}
    BY <1>1, GoodSends
  <1> HIDE DEF d
  <1>3. c.round \in Nat /\ OutFits(c, n, msgs)
    BY DEF Good, Sound, Typed, RoundTyped
  <1>4. d.round \in Rounds
    BY <1>1, <1>2, <1>3, MaxRoundAssumption DEF Frame, Fields, Rounds
  <1>5. \A m \in c.out : /\ m \in Messages(Nat) /\ m.src = n /\ LocksEarlier(m)
                         /\ m.round \in Rounds
    <2> SUFFICES ASSUME NEW m \in c.out
                 PROVE  /\ m \in Messages(Nat) /\ m.src = n /\ LocksEarlier(m)
                        /\ m.round \in Rounds
      OBVIOUS
    <2>1. /\ m \in Messages(Nat) /\ m.src = n /\ LocksEarlier(m)
          /\ m.round <= c.round \/ m.round \in Rounds
      BY <1>3 DEF OutFits
    <2>2. m.round \in Nat
      BY <2>1, MessageFacts
    <2> QED BY <1>1, <1>3, <2>1, <2>2, MaxRoundAssumption DEF Rounds
  <1>6. c.out \subseteq Messages(Rounds)
    <2> SUFFICES ASSUME NEW m \in c.out PROVE m \in Messages(Rounds)
      OBVIOUS
    <2>1. m \in Messages(Nat) /\ LocksEarlier(m) /\ m.round \in Rounds
      BY <1>5
    <2>2. m.type = "PREPREPARE" => m.lockedRound \in Rounds
      <3>1. m.type = "PREPREPARE" => m.lockedRound \in Nat
        BY <2>1, MessageFacts
      <3> QED BY <2>1, <3>1, MaxRoundAssumption DEF LocksEarlier, Rounds
    <2> QED BY <2>1, <2>2 DEF Messages
  <1>7. ASSUME NEW k \in Running
        PROVE  Good(node'[k], k, msgs') /\ node'[k].out = {} /\ node'[k].round \in Rounds
    <2>1. CASE k = n
      <3>1. node'[k] = d
        BY <1>1, <2>1
      <3> QED BY <1>2, <1>4, <2>1, <3>1
    <2>2. CASE k # n
      <3>1. node'[k] = node[k]
        BY <1>1, <2>2
      <3>2. Good(node[k], k, msgs) /\ node[k].out = {} /\ node[k].round \in Rounds
        BY DEF NetInv
      <3>3. c.out \in SUBSET Messages(Nat) /\ \A m \in c.out : m.src # k
        BY <1>5, <2>2
      <3>4. Good(node[k], k, msgs')
        BY <1>1, <3>2, <3>3, GoodDespiteOthers
      <3> QED BY <3>1, <3>2, <3>4
    <2> QED BY <2>1, <2>2
  <1>8. ProvesLocks(msgs')
    <2> SUFFICES ASSUME NEW m \in msgs \cup c.out, m.type = "PREPREPARE",
                        NEW v \in m.lockedPrepares
                 PROVE  PrepareOf(v, m.sequence, m.lockedRound, m.lockedHash) \in msgs
      BY <1>1 DEF ProvesLocks, PrepareOf
    <2> QED BY <1>3 DEF OutFits, NetInv, ProvesLocks, PrepareOf
  <1>9. DOMAIN node' = Running
    BY <1>1
  <1>10. msgs' \subseteq Messages(Rounds) /\ \A m \in msgs' : LocksEarlier(m)
    BY <1>1, <1>5, <1>6 DEF NetInv
  <1> QED
    BY <1>7, <1>8, <1>9, <1>10 DEF NetInv

\* A step in which n goes to a good state and sends nothing.
LEMMA SilentStep ==
  ASSUME NetInv, NEW n \in Running, NEW d, Good(d, n, msgs), d.out = {},
         d.round \in Rounds, node' = [node EXCEPT ![n] = d], UNCHANGED msgs,
         sealed' \subseteq Blocks
  PROVE  NetInv'
  <1>1. DOMAIN node' = Running
    BY DEF NetInv
  <1>2. ASSUME NEW k \in Running
        PROVE  Good(node'[k], k, msgs) /\ node'[k].out = {} /\ node'[k].round \in Rounds
    BY DEF NetInv
  <1>3. /\ msgs \subseteq Messages(Rounds) /\ \A m \in msgs : LocksEarlier(m)
        /\ ProvesLocks(msgs)
    BY DEF NetInv
  <1> QED
    BY <1>1, <1>2, <1>3 DEF NetInv

-----------------------------------------------------------------------------
(* What a step of validator n, from state c to state d, may do.            *)

Progress(c, d, n) ==
    /\ n \notin Restarting => Advances(c, d)
    /\ n \notin Restarting \cup Failing =>
           \/ KeepsLocked(c, d) \/ c.lockedHash \in EmptyBlocks
           \/ \E m \in msgs : Releases(c, m)
    /\ EmptyBlocks = {} /\ StoredLater(c) => StoredLater(d)

StepOf(n) ==
    /\ \A k \in Running \ {n} : node'[k] = node[k]
    /\ Progress(node[n], node'[n], n)

LEMMA ProceedsProgress ==
  ASSUME NEW c, NEW d, NEW n, Proceeds(c, d)
  PROVE  Progress(c, d, n)
  BY DEF Proceeds, Progress

\* The fields that Progress looks at.
LEMMA SameProgress ==
  ASSUME NEW c, NEW d, NEW e, NEW n, Progress(c, d, n),
         e.sequence = d.sequence, e.round = d.round, e.waiting = d.waiting,
         e.pendingRequests = d.pendingRequests, e.lockedHash = d.lockedHash
  PROVE  Progress(c, e, n)
  BY DEF Progress, Advances, KeepsLocked, StoredLater, View

LEMMA BecomesStep ==
  ASSUME NetInv, NEW n \in Running, NEW c, Good(c, n, msgs), Becomes(n, c),
         sealed' \subseteq Blocks, Progress(node[n], c, n)
  PROVE  NetInv' /\ StepOf(n)
  <1> DEFINE d == [c EXCEPT !.out = {}]
  <1>1. node' = [node EXCEPT ![n] = d] /\ DOMAIN node = Running
    BY Zenon DEF Becomes, NetInv
  <1>2. Frame(c, d, {"out"})
    BY GoodSends
  <1> HIDE DEF d
  <1>3. node'[n] = d /\ \A k \in Running \ {n} : node'[k] = node[k]
    BY <1>1
  <1>4. /\ d.sequence = c.sequence /\ d.round = c.round /\ d.waiting = c.waiting
        /\ d.pendingRequests = c.pendingRequests /\ d.lockedHash = c.lockedHash
    BY <1>2 DEF Frame, Fields
  <1>5. Progress(node[n], d, n)
    BY <1>4, SameProgress
  <1> QED
    BY <1>3, <1>5, SendingStep DEF StepOf

LEMMA HandlesStep ==
  ASSUME NetInv, NEW n \in Running, NEW m \in msgs, NEW c, Good(c, n, msgs),
         Progress(node[n], c, n), Handles(n, m, c)
  PROVE  NetInv' /\ StepOf(n)
  <1> DEFINE e == [c EXCEPT !.known = @ \cup {m}]
             d == MarkKnown(n, m, c)
  <1> USE DEF Frame, Fields, HasFields
  <1>0. Typed(c) /\ HasFields(c)
    BY DEF Good, Sound, Typed
  <1>1. d = c \/ d = e
    BY DEF MarkKnown
  <1>2. Becomes(n, d) /\ sealed' \subseteq Blocks
    BY DEF Handles, NetInv
  <1>3. Frame(c, e, {"known"}) /\ e.known = c.known \cup {m}
    BY <1>0
  <1> HIDE DEF e, d
  <1>4. Typed(e)
    BY <1>0, <1>3 DEF Typed, RoundTyped, IsCore, BackendTyped, Positioned, LastNumber
  <1>5. LockFits(e) /\ MessagesSent(e, msgs) /\ OutFits(e, n, msgs) /\ OldInChain(e, n, msgs)
    BY <1>3 DEF Good, Sound, LockFits, MessagesSent, OutFits, OldInChain,
         IsHashLocked, HasProposal
  <1>6. n \notin Restarting => VotesFit(e, n, msgs) /\ VotesOnce(msgs \cup e.out, n)
    BY <1>3 DEF Good, Sound, VotesFit, View
  <1>7. Idle(e) => Fresh(e, n, msgs)
    BY <1>3 DEF Good, Idle, Fresh, NothingCounted, NotVoted, View, IsHashLocked
  <1>8. ~Idle(e) => e.preprepare \in Blocks
    BY <1>3 DEF Good, Idle
  <1>9. Good(e, n, msgs)
    BY <1>4, <1>5, <1>6, <1>7, <1>8 DEF Good, Sound
  <1>10. Progress(node[n], e, n)
    BY <1>3, SameProgress
  <1> QED
    BY <1>1, <1>2, <1>9, <1>10, BecomesStep

-----------------------------------------------------------------------------
(* Starting.                                                               *)

Started(n, chain) == Start(n, chain, Rounds, n \in Eager)

LEMMA StartFields ==
  ASSUME NEW n, NEW chain \in Seq(SealedBlocks)
  PROVE  LET d == Started(n, chain) IN
         /\ HasFields(d) /\ d.sequence = Len(chain) + 1 /\ d.round = 0
         /\ d.state = AcceptRequest /\ d.waiting = FALSE
         /\ d.proposer \in Validators /\ d.lastView = <<0, 0>>
         /\ d.preprepare = NoBlock /\ d.prepares = {} /\ d.commits = << >>
         /\ d.lockedHash = NoBlock /\ d.lockedRound = 0 /\ d.lockedPrepares = {}
         /\ d.pendingRequest = NoBlock /\ d.pendingRequests = {}
         /\ d.roundChanges \in [Rounds -> SUBSET Validators]
         /\ d.proposedBlockHash = NoBlock /\ d.executed = NoBlock
         /\ d.working \in BOOLEAN /\ d.requests = {} /\ d.sealResults = {}
         /\ d.fetcher = {} /\ d.chain = chain /\ d.known = {} /\ d.out = {}
  <1> DEFINE eager == n \in Eager
             c == [sequence |-> Len(chain) + 1, round |-> 0,
                   state |-> AcceptRequest, waiting |-> FALSE,
                   proposer |-> EmptyAddress, lastView |-> <<0, 0>>,
                   preprepare |-> NoBlock, prepares |-> {}, commits |-> << >>,
                   lockedHash |-> NoBlock, lockedRound |-> 0,
                   lockedPrepares |-> {}, pendingRequest |-> NoBlock,
                   pendingRequests |-> {},
                   roundChanges |-> [r \in Rounds |-> {}],
                   proposedBlockHash |-> NoBlock, executed |-> NoBlock,
                   working |-> eager, requests |-> {}, sealResults |-> {},
                   fetcher |-> {}, chain |-> chain, known |-> {}, out |-> {}]
             d == EnterRound(c)
  <1>1. Started(n, chain) = d
    BY Zenon DEF Started, Start
  <1>2. c.working = eager /\ eager \in BOOLEAN
    OBVIOUS
  <1>3. /\ HasFields(c) /\ c.sequence = Len(chain) + 1 /\ c.round = 0
        /\ c.lastView = <<0, 0>>
        /\ c.preprepare = NoBlock /\ c.prepares = {} /\ c.commits = << >>
        /\ c.lockedHash = NoBlock /\ c.lockedRound = 0 /\ c.lockedPrepares = {}
        /\ c.pendingRequest = NoBlock /\ c.pendingRequests = {}
        /\ c.roundChanges = [r \in Rounds |-> {}]
        /\ c.proposedBlockHash = NoBlock /\ c.executed = NoBlock
        /\ c.requests = {} /\ c.sealResults = {}
        /\ c.fetcher = {} /\ c.chain = chain /\ c.known = {} /\ c.out = {}
    BY DEF HasFields, Fields
  <1> HIDE DEF c
  <1>4. /\ Frame(c, d, {"roundChanges", "proposer", "waiting", "state"})
        /\ d.roundChanges = [r \in DOMAIN c.roundChanges |-> {}]
        /\ d.proposer = CalcProposer(Policy, Validators,
                                     GetProposer(c, LastNumber(c)), c.round)
        /\ d.waiting = FALSE /\ d.state = AcceptRequest
    BY <1>3, EnterRoundFields
  <1>5. d.proposer \in Validators
    <2>1. IsValidatorSet(Validators) /\ c.round \in Nat
      BY <1>3, CoreValidators DEF IsValidatorSet
    <2> QED BY <1>4, <2>1, CalcProposerType
  <1>6. d.roundChanges \in [Rounds -> SUBSET Validators]
    <2>1. DOMAIN c.roundChanges = Rounds
      BY <1>3
    <2> QED BY <1>4, <2>1
  <1> HIDE DEF d, eager
  <1>7. d.working \in BOOLEAN
    BY <1>2, <1>4 DEF Frame, Fields
  <1> QED
    BY <1>1, <1>3, <1>4, <1>5, <1>6, <1>7 DEF Frame, Fields

\* A validator starts with nothing but its chain.
LEMMA StartGood ==
  ASSUME NEW n, NEW chain \in Seq(SealedBlocks),
         \A h \in DOMAIN chain : chain[h].block.number = h,
         NEW M \in SUBSET Messages(Nat),
         \A m \in M : m.type = "COMMIT" /\ m.src = n /\ m.old =>
             \E h \in DOMAIN chain : chain[h].block = m.block,
         n \notin Restarting => \A m \in M : ~IsVoteOf(m, n)
  PROVE  LET d == Started(n, chain) IN
         /\ Good(d, n, M) /\ d.out = {} /\ d.round \in Rounds /\ StoredLater(d)
  <1> DEFINE d == Started(n, chain)
  <1>1. /\ HasFields(d) /\ d.sequence = Len(chain) + 1 /\ d.round = 0
        /\ d.state = AcceptRequest /\ d.waiting = FALSE
        /\ d.proposer \in Validators /\ d.lastView = <<0, 0>>
        /\ d.preprepare = NoBlock /\ d.prepares = {} /\ d.commits = << >>
        /\ d.lockedHash = NoBlock /\ d.lockedRound = 0 /\ d.lockedPrepares = {}
        /\ d.pendingRequest = NoBlock /\ d.pendingRequests = {}
        /\ d.roundChanges \in [Rounds -> SUBSET Validators]
        /\ d.proposedBlockHash = NoBlock /\ d.executed = NoBlock
        /\ d.working \in BOOLEAN /\ d.requests = {} /\ d.sealResults = {}
        /\ d.fetcher = {} /\ d.chain = chain /\ d.known = {} /\ d.out = {}
    BY StartFields
  <1> HIDE DEF d
  <1>2. BackendTyped(d)
    BY <1>1 DEF BackendTyped, Hashes
  <1>3. 0 \in Rounds
    BY MaxRoundAssumption DEF Rounds
  <1>4. IsCore(d)
    <2>1. d.lastView \in (Heights \cup {0}) \X Rounds
      BY <1>1, <1>3
    <2> QED BY <1>1, <2>1 DEF IsCore
  <1>5. d.sequence \in Heights
    <2>1. CASE Len(chain) = 0
      BY <1>1, <2>1, HeightsNat
    <2>2. CASE Len(chain) # 0
      <3>1. Len(chain) \in DOMAIN chain
        BY <2>2
      <3>2. chain[Len(chain)] \in SealedBlocks
        BY <3>1
      <3>3. chain[Len(chain)].block \in Blocks
        BY <3>2 DEF SealedBlocks
      <3> QED BY <1>1, <3>1, <3>3 DEF Heights
    <2> QED BY <2>1, <2>2
  <1>6. RoundTyped(d)
    BY <1>1, <1>5, NoSeals DEF RoundTyped, Hashes
  <1>7. Positioned(d)
    BY <1>1 DEF Positioned, LastNumber
  <1>8. Typed(d)
    BY <1>1, <1>2, <1>4, <1>6, <1>7 DEF Typed
  <1>9. LockFits(d) /\ MessagesSent(d, M) /\ OutFits(d, n, M) /\ OldInChain(d, n, M)
    BY <1>1 DEF LockFits, MessagesSent, OutFits, OldInChain, IsHashLocked, HasProposal
  <1>10. n \notin Restarting =>
             VotesFit(d, n, M) /\ VotesOnce(M \cup d.out, n) /\ NotVoted(d, n, M)
    BY <1>1 DEF VotesFit, VotesOnce, NotVoted
  <1>11. Fresh(d, n, M) /\ Idle(d)
    BY <1>1, <1>10 DEF Fresh, NothingCounted, IsHashLocked, Idle
  <1>12. StoredLater(d)
    BY <1>1 DEF StoredLater
  <1> QED
    BY <1>1, <1>3, <1>8, <1>9, <1>10, <1>11, <1>12 DEF Good, Sound, d

LEMMA InitInv ==
  ASSUME Init
  PROVE  NetInv
  <1>1. /\ node = [n \in Running |-> Started(n, << >>)]
        /\ msgs \in EnvMsgs /\ sealed = {}
    BY Zenon DEF Init, Started
  <1>2. /\ \A m \in msgs : /\ m \in Messages(Rounds) /\ LocksEarlier(m)
                           /\ m.src \notin Running
        /\ ProvesLocks(msgs)
    BY <1>1, EnvAssumption
  <1>3. msgs \in SUBSET Messages(Nat)
    BY <1>2, RoundsNat DEF Messages
  <1>4. ASSUME NEW n \in Running
        PROVE  Good(node[n], n, msgs) /\ node[n].out = {} /\ node[n].round \in Rounds
    <2>1. \A m \in msgs : m.src # n /\ ~IsVoteOf(m, n)
      BY <1>2 DEF IsVoteOf
    <2>2. << >> \in Seq(SealedBlocks) /\ \A h \in DOMAIN << >> : << >>[h].block.number = h
      OBVIOUS
    <2>3. /\ Good(Started(n, << >>), n, msgs) /\ Started(n, << >>).out = {}
          /\ Started(n, << >>).round \in Rounds
      BY <1>3, <2>1, <2>2, StartGood
    <2>4. node[n] = Started(n, << >>)
      BY <1>1
    <2> QED BY <2>3, <2>4
  <1> QED
    BY <1>1, <1>2, <1>4 DEF NetInv

-----------------------------------------------------------------------------
(* The actions.                                                            *)

\* The node of a running validator.
LEMMA RunningGood ==
  ASSUME NetInv, NEW n \in Running
  PROVE  /\ n \in Validators /\ Good(node[n], n, msgs) /\ node[n].out = {}
         /\ Typed(node[n]) /\ HasFields(node[n]) /\ node[n].round \in Rounds
         /\ node[n].sequence \in Nat /\ node[n].sequence \in Heights
  BY RunningAssumption, HeightsNat DEF NetInv, Good, Sound, Typed, RoundTyped

\* A step that changes neutral fields of n only.
LEMMA NeutralStep ==
  ASSUME NetInv, NEW n \in Running, NEW d, node' = [node EXCEPT ![n] = d],
         Typed(d), Frame(node[n], d, Neutral \ {"pendingRequests"}),
         UNCHANGED msgs, sealed' \subseteq Blocks
  PROVE  NetInv' /\ StepOf(n)
  <1> USE DEF Frame, Fields, HasFields, Neutral
  <1>1. /\ Good(node[n], n, msgs) /\ node[n].out = {} /\ Typed(node[n])
        /\ node[n].round \in Rounds /\ DOMAIN node = Running
    BY RunningGood DEF NetInv
  <1>2. Good(d, n, msgs)
    BY <1>1, NeutralGood
  <1>3. Proceeds(node[n], d)
    BY <1>1, ProceedsInView
  <1>4. Progress(node[n], d, n)
    BY <1>3, ProceedsProgress
  <1>5. d.out = {} /\ d.round \in Rounds
    BY <1>1
  <1>6. node'[n] = d /\ \A k \in Running \ {n} : node'[k] = node[k]
    BY <1>1
  <1> QED
    BY <1>2, <1>4, <1>5, <1>6, SilentStep DEF StepOf

LEMMA ShouldSealStep ==
  ASSUME NetInv, NEW n \in Running, ShouldSeal(n)
  PROVE  NetInv' /\ StepOf(n)
  <1> DEFINE c == node[n]
             d == [c EXCEPT !.lastView = View(c), !.working = TRUE]
  <1> USE DEF Frame, Fields, HasFields, Neutral
  <1>1. /\ Typed(c) /\ HasFields(c) /\ c.sequence \in Heights /\ c.round \in Rounds
        /\ DOMAIN node = Running
    BY RunningGood DEF NetInv
  <1>2. node' = [node EXCEPT ![n] = d] /\ UNCHANGED <<msgs, sealed>>
    BY <1>1 DEF ShouldSeal
  <1> HIDE DEF c
  <1>3. /\ Frame(c, d, {"lastView", "working"})
        /\ d.lastView = View(c) /\ d.working \in BOOLEAN
    BY <1>1
  <1> HIDE DEF d
  <1>4. View(c) \in (Heights \cup {0}) \X Rounds
    BY <1>1 DEF View
  <1>5. Typed(d)
    BY <1>1, <1>3, <1>4 DEF Typed, RoundTyped, IsCore, BackendTyped, Positioned, LastNumber
  <1>6. sealed' \subseteq Blocks /\ UNCHANGED msgs
    BY <1>2 DEF NetInv
  <1>7. Frame(node[n], d, Neutral \ {"pendingRequests"})
    BY <1>3 DEF c
  <1> QED
    BY <1>2, <1>5, <1>6, <1>7, NeutralStep

LEMMA SealStep ==
  ASSUME NetInv, NEW n \in Running, NEW b \in Blocks, Seal(n, b)
  PROVE  NetInv' /\ StepOf(n)
  <1> DEFINE c == node[n]
             d == [c EXCEPT !.working = FALSE, !.proposedBlockHash = b,
                            !.requests = @ \cup {b}]
  <1> USE DEF Frame, Fields, HasFields, Neutral
  <1>1. Typed(c) /\ HasFields(c) /\ DOMAIN node = Running
    BY RunningGood DEF NetInv
  <1>2. node' = [node EXCEPT ![n] = d] /\ UNCHANGED msgs /\ sealed' = sealed \cup {b}
    BY <1>1 DEF Seal
  <1> HIDE DEF c
  <1>3. /\ Frame(c, d, {"working", "proposedBlockHash", "requests"})
        /\ d.working \in BOOLEAN /\ d.proposedBlockHash = b
        /\ d.requests = c.requests \cup {b}
    BY <1>1
  <1> HIDE DEF d
  <1>5. Typed(d)
    BY <1>1, <1>3 DEF Typed, RoundTyped, IsCore, BackendTyped, Positioned, LastNumber,
         Hashes
  <1>6. sealed' \subseteq Blocks
    BY <1>2 DEF NetInv
  <1>7. Frame(node[n], d, Neutral \ {"pendingRequests"})
    BY <1>3 DEF c
  <1> QED
    BY <1>2, <1>5, <1>6, <1>7, NeutralStep

\* A block enters the chain of n; what it came from is a neutral field.
LEMMA WrittenStep ==
  ASSUME NetInv, NEW n \in Running, NEW s \in SealedBlocks, NEW d,
         node' = [node EXCEPT ![n] = d], Typed(d),
         Frame(WriteBlock(node[n], s), d, {"sealResults", "fetcher"}),
         UNCHANGED <<msgs, sealed>>
  PROVE  NetInv' /\ StepOf(n)
  <1> DEFINE c == node[n]
             w == WriteBlock(c, s)
  <1> USE DEF Frame, Fields, HasFields, Neutral
  <1>1. /\ Good(c, n, msgs) /\ c.out = {} /\ c.round \in Rounds
        /\ DOMAIN node = Running
    BY RunningGood DEF NetInv
  <1>2. Good(w, n, msgs) /\ Frame(c, w, {"chain"}) /\ Proceeds(c, w)
    BY <1>1, WriteBlockGood
  <1>3. Frame(w, d, {"sealResults", "fetcher"})
    OBVIOUS
  <1> HIDE DEF w
  <1>4. Good(d, n, msgs)
    BY <1>2, <1>3, NeutralGood
  <1>5. d.out = {} /\ d.round \in Rounds
    BY <1>1, <1>2, <1>3
  <1>6. Progress(c, w, n)
    BY <1>2, ProceedsProgress
  <1>7. Progress(c, d, n)
    BY <1>3, <1>6, SameProgress
  <1>8. node'[n] = d /\ \A k \in Running \ {n} : node'[k] = node[k]
    BY <1>1
  <1>9. sealed' \subseteq Blocks /\ UNCHANGED msgs
    BY DEF NetInv
  <1> QED
    BY <1>4, <1>5, <1>7, <1>8, <1>9, SilentStep DEF StepOf

LEMMA WriteSealedStep ==
  ASSUME NetInv, NEW n \in Running, NEW s \in node[n].sealResults, WriteSealed(n, s)
  PROVE  NetInv' /\ StepOf(n)
  <1> DEFINE w == WriteBlock(node[n], s)
             d == [w EXCEPT !.sealResults = @ \ {s}]
  <1> USE DEF Frame, Fields, HasFields
  <1>1. /\ Typed(node[n]) /\ Good(node[n], n, msgs) /\ DOMAIN node = Running
    BY RunningGood DEF NetInv
  <1>2. s \in SealedBlocks
    BY <1>1 DEF Typed, BackendTyped
  <1>3. Typed(w) /\ HasFields(w)
    BY <1>1, <1>2, WriteBlockGood DEF Good, Sound, Typed
  <1>4. node' = [node EXCEPT ![n] = d] /\ UNCHANGED <<msgs, sealed>>
    BY Zenon DEF WriteSealed
  <1> HIDE DEF w
  <1>5. Frame(w, d, {"sealResults"}) /\ d.sealResults = w.sealResults \ {s}
    BY <1>3
  <1> HIDE DEF d
  <1>6. Typed(d)
    BY <1>3, <1>5 DEF Typed, RoundTyped, IsCore, BackendTyped, Positioned, LastNumber
  <1>7. Frame(WriteBlock(node[n], s), d, {"sealResults", "fetcher"})
    BY <1>5 DEF w
  <1> QED
    BY <1>2, <1>4, <1>6, <1>7, WrittenStep

LEMMA ImportStep ==
  ASSUME NetInv, NEW n \in Running, NEW s, Import(n, s)
  PROVE  NetInv' /\ StepOf(n)
  <1> DEFINE w == WriteBlock(node[n], s)
             d == [w EXCEPT !.fetcher = @ \ {s}]
  <1> USE DEF Frame, Fields, HasFields
  <1>1. /\ Typed(node[n]) /\ Good(node[n], n, msgs) /\ DOMAIN node = Running
    BY RunningGood DEF NetInv
  <1>2. s \in SealedBlocks
    <2>1. CASE s \in node[n].fetcher
      BY <1>1, <2>1 DEF Typed, BackendTyped
    <2>2. ASSUME NEW m \in Running, NEW h \in DOMAIN node[m].chain,
                 s = node[m].chain[h]
          PROVE  s \in SealedBlocks
      <3>1. node[m].chain \in Seq(SealedBlocks)
        BY RunningGood DEF Typed, BackendTyped
      <3> QED BY <2>2, <3>1
    <2> QED BY <2>1, <2>2 DEF Import
  <1>3. Typed(w) /\ HasFields(w)
    BY <1>1, <1>2, WriteBlockGood DEF Good, Sound, Typed
  <1>4. node' = [node EXCEPT ![n] = d] /\ UNCHANGED <<msgs, sealed>>
    BY Zenon DEF Import
  <1> HIDE DEF w
  <1>5. Frame(w, d, {"fetcher"}) /\ d.fetcher = w.fetcher \ {s}
    BY <1>3
  <1> HIDE DEF d
  <1>6. Typed(d)
    BY <1>3, <1>5 DEF Typed, RoundTyped, IsCore, BackendTyped, Positioned, LastNumber
  <1>7. Frame(WriteBlock(node[n], s), d, {"sealResults", "fetcher"})
    BY <1>5 DEF w
  <1> QED
    BY <1>2, <1>4, <1>6, <1>7, WrittenStep

LEMMA RestartStep ==
  ASSUME NetInv, NEW n \in Running, Restart(n)
  PROVE  NetInv' /\ StepOf(n)
  <1> DEFINE c == node[n]
             d == Started(n, c.chain)
  <1>1. Typed(c) /\ Good(c, n, msgs) /\ DOMAIN node = Running
    BY RunningGood DEF NetInv
  <1>2. /\ c.chain \in Seq(SealedBlocks) /\ msgs \in SUBSET Messages(Nat)
        /\ \A h \in DOMAIN c.chain : c.chain[h].block.number = h
        /\ \A m \in msgs : m.type = "COMMIT" /\ m.src = n /\ m.old =>
               \E h \in DOMAIN c.chain : c.chain[h].block = m.block
    BY <1>1 DEF Good, Sound, Typed, BackendTyped, OldInChain, HasProposal
  <1>3. /\ n \in Restarting /\ UNCHANGED <<msgs, sealed>>
        /\ node' = [node EXCEPT ![n] = d]
    <2>1. d = Start(n, c.chain, Rounds, n \in Eager)
      BY Zenon DEF Started
    <2> HIDE DEF d
    <2> QED BY <1>1, <2>1 DEF Restart
  <1> HIDE DEF d
  <1>4. Good(d, n, msgs) /\ d.out = {} /\ d.round \in Rounds /\ StoredLater(d)
    BY <1>2, <1>3, StartGood DEF d
  <1>5. Progress(c, d, n)
    BY <1>3, <1>4 DEF Progress
  <1>6. node'[n] = d /\ \A k \in Running \ {n} : node'[k] = node[k]
    BY <1>1, <1>3
  <1>7. sealed' \subseteq Blocks /\ UNCHANGED msgs
    BY <1>3 DEF NetInv
  <1> QED
    BY <1>3, <1>4, <1>5, <1>6, <1>7, SilentStep DEF StepOf

LEMMA RequestStep ==
  ASSUME NetInv, NEW n \in Running, NEW b \in node[n].requests, Request(n, b)
  PROVE  NetInv' /\ StepOf(n)
  <1> DEFINE c == node[n]
             r == [c EXCEPT !.requests = @ \ {b}]
             d == HandleRequest(r, n, b)
  <1> USE DEF Frame, Fields, HasFields, Neutral
  <1>1. /\ Typed(c) /\ Good(c, n, msgs) /\ HasFields(c) /\ c.round \in Rounds
        /\ n \in Validators
    BY RunningGood
  <1>2. b \in Blocks
    BY <1>1 DEF Typed, BackendTyped
  <1>3. Becomes(n, d) /\ sealed' \subseteq Blocks
    BY DEF Request, NetInv
  <1> HIDE DEF c
  <1>4. Frame(c, r, {"requests"}) /\ r.requests = c.requests \ {b}
    BY <1>1
  <1> HIDE DEF r
  <1>5. Typed(r)
    BY <1>1, <1>4 DEF Typed, RoundTyped, IsCore, BackendTyped, Positioned, LastNumber
  <1>6. Good(r, n, msgs) /\ r.round \in Rounds
    BY <1>1, <1>4, <1>5, NeutralGood
  <1>7. Good(d, n, msgs) /\ Proceeds(r, d)
    BY <1>1, <1>2, <1>6, HandleRequestGood
  <1> HIDE DEF d
  <1>8. Proceeds(c, d)
    BY <1>4, <1>7 DEF Proceeds, Advances, KeepsLocked, StoredLater, IsHashLocked, View
  <1>9. Progress(node[n], d, n)
    BY <1>8, ProceedsProgress DEF c
  <1> QED
    BY <1>3, <1>7, <1>9, BecomesStep

LEMMA TimeoutStep ==
  ASSUME NetInv, NEW n \in Running, Timeout(n)
  PROVE  NetInv' /\ StepOf(n)
  <1> DEFINE d == HandleTimeout(node[n], n)
  <1>1. Good(node[n], n, msgs) /\ node[n].out = {} /\ n \in Validators
    BY RunningGood
  <1>2. Good(d, n, msgs) /\ Proceeds(node[n], d)
    BY <1>1, HandleTimeoutGood
  <1>3. Becomes(n, d) /\ sealed' \subseteq Blocks
    BY DEF Timeout, NetInv
  <1> HIDE DEF d
  <1> QED
    BY <1>2, <1>3, ProceedsProgress, BecomesStep

LEMMA FinalCommittedStep ==
  ASSUME NetInv, NEW n \in Running, FinalCommitted(n)
  PROVE  NetInv' /\ StepOf(n)
  <1> DEFINE d == StartNewRound(node[n], n, 0)
  <1>1. Good(node[n], n, msgs) /\ node[n].out = {} /\ n \in Validators
    BY RunningGood
  <1>2. Good(d, n, msgs) /\ Proceeds(node[n], d)
    BY <1>1, StartNewRoundGood
  <1>3. Becomes(n, d) /\ sealed' \subseteq Blocks
    BY DEF FinalCommitted, NetInv
  <1> HIDE DEF d
  <1> QED
    BY <1>2, <1>3, ProceedsProgress, BecomesStep

\* The messages that are handled are of their types.
LEMMA MessageTyped ==
  ASSUME NetInv, NEW m \in msgs
  PROVE  m \in Messages(Rounds)
  BY DEF NetInv

LEMMA PreprepareStep ==
  ASSUME NetInv, NEW n \in Running, NEW m \in msgs, Preprepare(n, m)
  PROVE  NetInv' /\ StepOf(n)
  <1> DEFINE c == node[n]
             d == HandlePreprepare(c, n, m)
  <1>1. Good(c, n, msgs) /\ n \in Validators /\ m \in Messages(Rounds)
    BY RunningGood, MessageTyped
  <1>2. m.type = "PREPREPARE" /\ Handles(n, m, d)
    BY DEF Preprepare
  <1>3. /\ Good(d, n, msgs) /\ Advances(c, d) /\ (StoredLater(c) => StoredLater(d))
        /\ KeepsLocked(c, d) \/ Releases(c, m)
    BY <1>1, <1>2, HandlePreprepareGood
  <1> HIDE DEF d
  <1>4. Progress(c, d, n)
    BY <1>3 DEF Progress
  <1> QED
    BY <1>2, <1>3, <1>4, HandlesStep

LEMMA PrepareStep ==
  ASSUME NetInv, NEW n \in Running, NEW m \in msgs, Prepare(n, m)
  PROVE  NetInv' /\ StepOf(n)
  <1> DEFINE d == HandlePrepare(node[n], n, m)
  <1>1. Good(node[n], n, msgs) /\ n \in Validators /\ m \in Messages(Rounds)
    BY RunningGood, MessageTyped
  <1>2. m.type = "PREPARE" /\ Handles(n, m, d)
    BY DEF Prepare
  <1>3. Good(d, n, msgs) /\ Proceeds(node[n], d)
    BY <1>1, <1>2, HandlePrepareGood
  <1> HIDE DEF d
  <1> QED
    BY <1>2, <1>3, ProceedsProgress, HandlesStep

LEMMA CommitMsgStep ==
  ASSUME NetInv, NEW n \in Running, NEW m \in msgs, NEW o \in CommitOutcomes,
         CommitMsg(n, m, o)
  PROVE  NetInv' /\ StepOf(n)
  <1> DEFINE c == node[n]
             d == HandleCommit(c, n, m, o)
  <1>1. Good(c, n, msgs) /\ n \in Validators /\ m \in Messages(Rounds) /\ c.out = {}
    BY RunningGood, MessageTyped
  <1>2. m.type = "COMMIT" /\ Handles(n, m, d) /\ (o = "ok" \/ n \in Failing)
    BY DEF CommitMsg
  <1>3. /\ Good(d, n, msgs) /\ Advances(c, d)
        /\ o = "ok" /\ c.lockedHash \notin EmptyBlocks => KeepsLocked(c, d)
        /\ EmptyBlocks = {} /\ StoredLater(c) => StoredLater(d)
    BY <1>1, <1>2, HandleCommitGood
  <1> HIDE DEF d
  <1>4. Progress(c, d, n)
    BY <1>2, <1>3 DEF Progress
  <1> QED
    BY <1>2, <1>3, <1>4, HandlesStep

LEMMA RoundChangeStep ==
  ASSUME NetInv, NEW n \in Running, NEW m \in msgs, RoundChange(n, m)
  PROVE  NetInv' /\ StepOf(n)
  <1> DEFINE d == HandleRoundChange(node[n], n, m)
  <1>1. /\ Good(node[n], n, msgs) /\ n \in Validators /\ m \in Messages(Rounds)
        /\ node[n].out = {}
    BY RunningGood, MessageTyped
  <1>2. Handles(n, m, d)
    BY DEF RoundChange
  <1>3. Good(d, n, msgs) /\ Proceeds(node[n], d)
    BY <1>1, HandleRoundChangeGood
  <1> HIDE DEF d
  <1> QED
    BY <1>2, <1>3, ProceedsProgress, HandlesStep

\* Every step of the network is a step of one validator and keeps the invariant.
LEMMA NextStep ==
  ASSUME NetInv, Next
  PROVE  NetInv' /\ \E n \in Running : StepOf(n)
  <1> SUFFICES ASSUME NEW n \in Running,
                      \/ ShouldSeal(n) \/ Timeout(n) \/ FinalCommitted(n) \/ Restart(n)
                      \/ \E b \in Blocks : Seal(n, b)
                      \/ \E b \in node[n].requests : Request(n, b)
                      \/ \E s \in node[n].sealResults : WriteSealed(n, s)
                      \/ \E s \in Stored(n) : Import(n, s)
                      \/ \E m \in msgs : Preprepare(n, m) \/ Prepare(n, m) \/ RoundChange(n, m)
                      \/ \E m \in msgs, o \in CommitOutcomes : CommitMsg(n, m, o)
               PROVE  NetInv' /\ StepOf(n)
    BY DEF Next
  <1>1. CASE ShouldSeal(n)
    BY <1>1, ShouldSealStep
  <1>2. CASE Timeout(n)
    BY <1>2, TimeoutStep
  <1>3. CASE FinalCommitted(n)
    BY <1>3, FinalCommittedStep
  <1>4. CASE Restart(n)
    BY <1>4, RestartStep
  <1>5. CASE \E b \in Blocks : Seal(n, b)
    BY <1>5, SealStep
  <1>6. CASE \E b \in node[n].requests : Request(n, b)
    BY <1>6, RequestStep
  <1>7. CASE \E s \in node[n].sealResults : WriteSealed(n, s)
    BY <1>7, WriteSealedStep
  <1>8. CASE \E s \in Stored(n) : Import(n, s)
    BY <1>8, ImportStep
  <1>9. CASE \E m \in msgs : Preprepare(n, m) \/ Prepare(n, m) \/ RoundChange(n, m)
    BY <1>9, PreprepareStep, PrepareStep, RoundChangeStep
  <1>10. CASE \E m \in msgs, o \in CommitOutcomes : CommitMsg(n, m, o)
    BY <1>10, CommitMsgStep
  <1> QED
    BY <1>1, <1>2, <1>3, <1>4, <1>5, <1>6, <1>7, <1>8, <1>9, <1>10

LEMMA NetInvHolds == Spec => []NetInv
  <1>1. Init => NetInv
    BY InitInv
  <1>2. NetInv /\ [Next]_vars => NetInv'
    <2> SUFFICES ASSUME NetInv, [Next]_vars PROVE NetInv'
      OBVIOUS
    <2>1. CASE Next
      BY <2>1, NextStep
    <2>2. CASE UNCHANGED vars
      BY <2>2 DEF vars, NetInv
    <2> QED BY <2>1, <2>2
  <1> QED
    BY <1>1, <1>2, PTL DEF Spec

-----------------------------------------------------------------------------
(* The properties.                                                         *)

LEMMA SealingFacts ==
  ASSUME NEW f \in Sealings
  PROVE  IsSealing(f)
  BY DEF Sealings, IsSealing

LEMMA SealedBlockFacts ==
  ASSUME NEW s \in SealedBlocks
  PROVE  IsSealedBlock(s)
  BY SealingFacts DEF SealedBlocks, IsSealedBlock

\* Every validator and every message are of their types, whatever arrives in
\* whatever order: the handlers of core.go never store a vote without a
\* proposal, a lock of a later round, or two blocks of one number.
THEOREM NetworkTyped == Spec => []TypeOK
  <1>1. NetInv => TypeOK
    <2> SUFFICES ASSUME NetInv PROVE TypeOK
      OBVIOUS
    <2>1. ASSUME NEW n \in Running
          PROVE  IsRoundState(node[n]) /\ IsCore(node[n]) /\ IsBackend(node[n])
      <3> DEFINE c == node[n]
      <3>1. /\ Typed(c) /\ Good(c, n, msgs) /\ c.round \in Rounds /\ c.out = {}
        BY RunningGood
      <3> HIDE DEF c
      <3>2. IsRoundState(c)
        BY <3>1, SealingFacts DEF Typed, RoundTyped, IsRoundState
      <3>3. ASSUME NEW h \in DOMAIN c.chain
            PROVE  IsSealedBlock(c.chain[h]) /\ c.chain[h].block.number = h
        <4>1. /\ c.chain \in Seq(SealedBlocks)
              /\ \A k \in DOMAIN c.chain : c.chain[k].block.number = k
          BY <3>1 DEF Typed, BackendTyped
        <4>2. c.chain[h] \in SealedBlocks
          BY <4>1
        <4> QED BY <4>1, <4>2, SealedBlockFacts
      <3>4. \A s \in c.sealResults \cup c.fetcher : IsSealedBlock(s)
        BY <3>1, SealedBlockFacts DEF Typed, BackendTyped
      <3>5. IsBackend(c)
        BY <3>1, <3>3, <3>4 DEF Typed, BackendTyped, IsBackend, Good, Sound, MessagesSent
      <3> QED BY <3>1, <3>2, <3>5 DEF Typed, c
    <2> QED BY <2>1 DEF NetInv, TypeOK
  <1> QED
    BY <1>1, NetInvHolds, PTL

\* A locked validator still has the proposal it is locked on (core.go:373 and
\* roundstate.go:31), through every round change, catch-up and commit failure.
THEOREM LockedKeepProposal == Spec => []LockedProposal
  <1>1. NetInv => LockedProposal
    BY DEF NetInv, Good, Sound, LockFits, LockedProposal
  <1> QED
    BY <1>1, NetInvHolds, PTL

\* The PREPAREs that a PRE-PREPARE carries were sent, in its locked round and
\* for its locked hash, although handlePOLPreprepare only counts them.
THEOREM LocksAreProved == Spec => []ProofOfLock
  <1>1. NetInv => ProofOfLock
    BY DEF NetInv, ProofOfLock
  <1> QED
    BY <1>1, NetInvHolds, PTL

\* A validator that does not restart votes for one block in a view, PREPARE and
\* COMMIT together, and its COMMITs for old proposals are for blocks of its
\* chain.
THEOREM VotesOncePerView == Spec => []OneVote
  <1>1. NetInv => OneVote
    <2> SUFFICES ASSUME NetInv, NEW n \in Running
                 PROVE  /\ n \notin Restarting => VotesOnce(msgs, n)
                        /\ \A m \in msgs : m.type = "COMMIT" /\ m.src = n /\ m.old
                               => HasProposal(node[n], m.block)
      BY DEF OneVote, VotesOnce
    <2>1. Good(node[n], n, msgs)
      BY RunningGood
    <2> QED BY <2>1 DEF Good, Sound, VotesOnce, OldInChain
  <1> QED
    BY <1>1, NetInvHolds, PTL

\* From the round of a validator on each validator proposes in one of the next
\* Size rounds (CalcProposer), whatever the last block and the policy are.
THEOREM EveryoneProposes == Spec => []EachProposesOnce
  <1>1. NetInv => EachProposesOnce
    <2> SUFFICES ASSUME NetInv, NEW n \in Running, NEW v \in Validators,
                        NEW policy \in {"RoundRobin", "Sticky"}
                 PROVE  \E r \in node[n].round .. node[n].round + Size(Validators) - 1 :
                            CalcProposer(policy, Validators,
                                GetProposer(node[n], LastNumber(node[n])), r) = v
      BY DEF EachProposesOnce
    <2>1. node[n].round \in Nat
      BY RunningGood, RoundsNat
    <2>2. IsValidatorSet(Validators)
      BY CoreValidators DEF IsValidatorSet
    <2>3. ProposesIn(policy, Validators, GetProposer(node[n], LastNumber(node[n])),
                     node[n].round, v)
      BY <2>1, <2>2, ProposerRotation
    <2> QED BY <2>3 DEF ProposesIn
  <1> QED
    BY <1>1, NetInvHolds, PTL

\* Every step of the network under the invariant.
LEMMA StepUnderInv ==
  ASSUME NetInv, [Next]_vars
  PROVE  \/ UNCHANGED vars
         \/ NetInv' /\ \E n \in Running : StepOf(n)
  BY NextStep

\* The view of a validator never goes back, except by a restart: neither a
\* late timeout, nor an old ROUND CHANGE, nor a block from another validator
\* takes it to an earlier round or height.
THEOREM ViewsOnlyAdvance == Spec => ViewsAdvance
  <1>1. NetInv /\ [Next]_vars =>
          [\A n \in Running \ Restarting : ~Before(View(node'[n]), View(node[n]))]_vars
    <2> SUFFICES ASSUME NetInv, NetInv', NEW n \in Running, StepOf(n),
                        NEW k \in Running \ Restarting
                 PROVE  ~Before(View(node'[k]), View(node[k]))
      BY StepUnderInv
    <2>1. /\ node[k].sequence \in Nat /\ node[k].round \in Nat
          /\ node'[k].sequence \in Nat /\ node'[k].round \in Nat
      BY HeightsNat DEF NetInv, Good, Sound, Typed, RoundTyped
    <2>2. k # n => node'[k] = node[k]
      BY DEF StepOf
    <2>3. k = n => Advances(node[k], node'[k])
      BY DEF StepOf, Progress
    <2> QED BY <2>1, <2>2, <2>3 DEF Before, View, Advances
  <1> QED
    BY <1>1, NetInvHolds, PTL DEF Spec, ViewsAdvance

\* More validators are a quorum as well.
LEMMA QuorumGrows ==
  ASSUME NEW S, NEW T \in SUBSET Validators, S \subseteq T, IsQuorum(Validators, S)
  PROVE  IsQuorum(Validators, T)
  <1>1. /\ IsFiniteSet(T) /\ Cardinality(T) \in Nat /\ Cardinality(Validators) \in Nat
    BY CoreValidators, FS_Subset, FS_CardinalityType
  <1>2. IsFiniteSet(S) /\ Cardinality(S) <= Cardinality(T) /\ Cardinality(S) \in Nat
    BY <1>1, FS_Subset, FS_CardinalityType
  <1> QED
    BY <1>1, <1>2 DEF IsQuorum, Threshold, F, Size

\* Within a height a validator gives up its lock on a block that can be stored
\* only when a quorum sent PREPARE for another block in the round of the lock
\* or in a later one before its own (handlePOLPreprepare, updateRoundState).
THEOREM LocksAreReleased == Spec => LockReleased
  <1> DEFINE Released(n) ==
        LET c == node[n] IN
        /\ IsHashLocked(c) /\ c.lockedHash \notin EmptyBlocks
        /\ node'[n].sequence = c.sequence
        /\ node'[n].lockedHash # c.lockedHash
        => \E r \in c.lockedRound .. c.round - 1, b \in Blocks \ {c.lockedHash} :
               IsQuorum(Validators, PreparedBy(c.sequence, r, b))
  <1>1. NetInv /\ [Next]_vars =>
          [\A n \in Running \ (Restarting \cup Failing) : Released(n)]_vars
    <2> SUFFICES ASSUME NetInv, NEW k \in Running, StepOf(k),
                        NEW n \in Running \ (Restarting \cup Failing),
                        IsHashLocked(node[n]), node[n].lockedHash \notin EmptyBlocks,
                        node'[n].sequence = node[n].sequence,
                        node'[n].lockedHash # node[n].lockedHash
                 PROVE  \E r \in node[n].lockedRound .. node[n].round - 1,
                           b \in Blocks \ {node[n].lockedHash} :
                            IsQuorum(Validators, PreparedBy(node[n].sequence, r, b))
      BY StepUnderInv
    <2>1. n = k
      BY DEF StepOf
    <2>2. PICK m \in msgs : Releases(node[n], m)
      BY <2>1 DEF StepOf, Progress, KeepsLocked
    <2>3. /\ m \in Messages(Rounds) /\ LocksEarlier(m) /\ m.type = "PREPREPARE"
          /\ m.sequence = node[n].sequence /\ m.round = node[n].round
          /\ m.lockedRound >= node[n].lockedRound /\ m.lockedHash = m.block
          /\ m.block # node[n].lockedHash
          /\ IsQuorum(Validators, m.lockedPrepares)
      BY <2>2 DEF NetInv, Releases, CarriesLock
    <2>4. /\ m.block \in Blocks /\ m.lockedRound \in Nat /\ m.round \in Nat
          /\ m.lockedPrepares \subseteq Validators /\ m.lockedRound < m.round
      BY <2>3, RoundsNat, MessageFacts, CoreBlocks DEF LocksEarlier
    <2>5. node[n].lockedRound \in Nat
      BY RunningGood DEF Typed, RoundTyped
    <2>6. m.lockedRound \in node[n].lockedRound .. node[n].round - 1
      BY <2>3, <2>4, <2>5
    <2>7. m.lockedPrepares \subseteq PreparedBy(m.sequence, m.lockedRound, m.block)
      BY <2>3, <2>4 DEF NetInv, ProvesLocks, PreparedBy
    <2>8. PreparedBy(m.sequence, m.lockedRound, m.block) \in SUBSET Validators
      BY DEF PreparedBy
    <2>9. IsQuorum(Validators, PreparedBy(m.sequence, m.lockedRound, m.block))
      BY <2>3, <2>7, <2>8, QuorumGrows
    <2> QED BY <2>3, <2>4, <2>6, <2>9
  <1> QED
    BY <1>1, NetInvHolds, PTL DEF Spec, LockReleased

\* A stored request is one of a later view than the validator's, or the queue
\* holds it back behind one for the same number that is, unless the validator
\* waits for its round to start: startNewRound posts those whose view has come
\* (processPendingRequests).  Where a block may be empty this is false, since
\* startNewRoundWhenEmpty does not post them.
THEOREM RequestsStoredLater == Spec => [](EmptyBlocks = {} => StoredRequestsLater)
  <1> DEFINE Later == (EmptyBlocks = {}) => \A n \in Running : StoredLater(node[n])
  <1>1. Init => Later
    <2> SUFFICES ASSUME Init, NEW n \in Running PROVE StoredLater(node[n])
      OBVIOUS
    <2>1. node[n] = Started(n, << >>)
      BY Zenon DEF Init, Started
    <2>2. << >> \in Seq(SealedBlocks)
      OBVIOUS
    <2>3. Started(n, << >>).pendingRequests = {}
      BY <2>2, StartFields
    <2> QED BY <2>1, <2>3 DEF StoredLater
  <1>2. NetInv /\ Later /\ [Next]_vars => Later'
    <2>1. ASSUME NetInv, Later, NEW k \in Running, StepOf(k) PROVE Later'
      BY <2>1 DEF StepOf, Progress
    <2>2. ASSUME Later, UNCHANGED vars PROVE Later'
      BY <2>2 DEF vars
    <2> QED BY <2>1, <2>2, StepUnderInv
  <1>3. Later => (EmptyBlocks = {} => StoredRequestsLater)
    BY DEF StoredLater, StoredRequestsLater
  <1> QED
    BY <1>1, <1>2, <1>3, NetInvHolds, PTL DEF Spec
=============================================================================
