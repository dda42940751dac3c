----------------------- MODULE IstanbulHandlerProofs -----------------------
(***************************************************************************)
(* What every handler of the engine preserves, for any validators, blocks, *)
(* rounds and environment.  The handlers of IstanbulCore are functions on  *)
(* the state of one validator, so the invariant is stated of such a state, *)
(* Good(c, n, M): validator n is in state c and the messages M were sent.  *)
(* One lemma for each operator of IstanbulCore shows what it preserves,    *)
(* and the lemmas are put together the way the operators are.              *)
(* IstanbulNetworkProofs goes on from there to the steps of the network.   *)
(***************************************************************************)
EXTENDS IstanbulNetwork, FiniteSetTheorems, SequenceTheorems,
        NaturalsInduction, WellFoundedInduction, TLAPS

(* Validator sets of any size: the sorted list of validators is a          *)
(* bijection with the indices, so that the proposer of every round is a    *)
(* validator, and that each validator is the proposer of one of any Size   *)
(* successive rounds.                                                      *)

IsValidatorSet(V) == V \subseteq Nat \ {0} /\ V # {} /\ IsFiniteSet(V)

LEMMA SizePositive ==
  ASSUME NEW V, IsValidatorSet(V)
  PROVE  Size(V) \in Nat \ {0}
  BY FS_CardinalityType, FS_EmptySet DEF Size, IsValidatorSet

\* The index of a validator grows with its address.
LEMMA IndexGrows ==
  ASSUME NEW V, IsValidatorSet(V), NEW v \in V, NEW w \in V, v < w
  PROVE  /\ IndexOf(V, v) \in Nat /\ IndexOf(V, w) \in Nat
         /\ IndexOf(V, v) < IndexOf(V, w)
  <1> DEFINE Below(x) == {u \in V : u < x}
  <1>1. Below(v) \in SUBSET V /\ Below(w) \in SUBSET V /\ IsFiniteSet(V)
    BY DEF IsValidatorSet
  <1>2. IsFiniteSet(Below(v)) /\ IsFiniteSet(Below(w))
    BY <1>1, FS_Subset
  <1>0. \A u \in V : u \in Int
    BY DEF IsValidatorSet
  <1>3. Below(v) \in SUBSET Below(w) /\ v \in Below(w) /\ v \notin Below(v)
    BY <1>0
  <1>4. Below(v) # Below(w)
    BY <1>3
  <1> HIDE DEF Below
  <1>5. /\ Cardinality(Below(v)) <= Cardinality(Below(w))
        /\ Cardinality(Below(v)) # Cardinality(Below(w))
    BY <1>2, <1>3, <1>4, FS_Subset
  <1>6. Cardinality(Below(v)) \in Nat /\ Cardinality(Below(w)) \in Nat
    BY <1>2, FS_CardinalityType
  <1> QED
    BY <1>5, <1>6 DEF Below, IndexOf

LEMMA IndexInRange ==
  ASSUME NEW V, IsValidatorSet(V), NEW v \in V
  PROVE  IndexOf(V, v) \in 0 .. Size(V) - 1
  <1> DEFINE Below == {u \in V : u < v}
  <1>1. Below \in SUBSET V /\ IsFiniteSet(V) /\ v \in V /\ v \notin Below
    BY DEF IsValidatorSet
  <1>2. Below # V
    BY <1>1
  <1> HIDE DEF Below
  <1>3. IsFiniteSet(Below) /\ Cardinality(Below) <= Cardinality(V)
        /\ Cardinality(Below) # Cardinality(V)
    BY <1>1, <1>2, FS_Subset
  <1>4. Cardinality(Below) \in Nat /\ Cardinality(V) \in Nat
    BY <1>1, <1>3, FS_CardinalityType
  <1> QED
    BY <1>3, <1>4 DEF Below, IndexOf, Size

\* Every index is the index of one validator.
LEMMA IndexBijective ==
  ASSUME NEW V, IsValidatorSet(V)
  PROVE  /\ \A v, w \in V : IndexOf(V, v) = IndexOf(V, w) => v = w
         /\ \A i \in 0 .. Size(V) - 1 : \E v \in V : IndexOf(V, v) = i
  <1> DEFINE N == Size(V)
             f == [v \in V |-> IndexOf(V, v)]
  <1>1. N \in Nat \ {0} /\ V \subseteq Nat /\ IsFiniteSet(V)
    BY SizePositive DEF IsValidatorSet
  <1>2. \A v, w \in V : IndexOf(V, v) = IndexOf(V, w) => v = w
    <2> SUFFICES ASSUME NEW v \in V, NEW w \in V, v # w
                 PROVE  IndexOf(V, v) # IndexOf(V, w)
      OBVIOUS
    <2>1. v < w \/ w < v
      BY <1>1
    <2> QED
      BY <2>1, IndexGrows
  <1>3. \A v \in V : IndexOf(V, v) \in 0 .. N - 1
    BY IndexInRange
  <1>4. f \in Injection(V, 0 .. N - 1)
    BY <1>2, <1>3 DEF Injection, IsInjective
  <1>5. IsFiniteSet(0 .. N - 1) /\ Cardinality(0 .. N - 1) = Cardinality(V)
    <2> HIDE DEF N
    <2>1. 0 \in Int /\ N - 1 \in Int /\ 0 <= N - 1
      BY <1>1
    <2>2. IsFiniteSet(0 .. N - 1) /\ Cardinality(0 .. N - 1) = N - 1 - 0 + 1
      BY <2>1, FS_Interval
    <2> QED
      BY <1>1, <2>2 DEF N, Size
  <1>6. f \in Surjection(V, 0 .. N - 1)
    <2> HIDE DEF f, N
    <2> QED BY <1>4, <1>5, FS_Injection
  <1>7. \A i \in 0 .. N - 1 : \E v \in V : f[v] = i
    <2> HIDE DEF f, N
    <2> QED BY <1>6 DEF Surjection
  <1> QED
    BY <1>2, <1>7

LEMMA GetByIndexType ==
  ASSUME NEW V, IsValidatorSet(V), NEW i \in 0 .. Size(V) - 1
  PROVE  GetByIndex(V, i) \in V /\ IndexOf(V, GetByIndex(V, i)) = i
  BY IndexBijective DEF GetByIndex

LEMMA GetByIndexOf ==
  ASSUME NEW V, IsValidatorSet(V), NEW v \in V
  PROVE  GetByIndex(V, IndexOf(V, v)) = v
  BY IndexInRange, GetByIndexType, IndexBijective

-----------------------------------------------------------------------------
LEMMA ModuloRange ==
  ASSUME NEW k \in Nat, NEW N \in Nat \ {0}
  PROVE  k % N \in 0 .. N - 1
  OBVIOUS

LEMMA ModuloUnique ==
  ASSUME NEW N \in Nat \ {0}, NEW q \in Nat, NEW i \in 0 .. N - 1
  PROVE  (N * q + i) % N = i
  <1> DEFINE x == N * q + i
             p == x \div N
             s == x % N
  <1>1. x \in Nat
    OBVIOUS
  <1>2. p \in Nat /\ s \in 0 .. N - 1 /\ x = N * p + s
    BY <1>1
  <1> HIDE DEF p, s
  <1>3. \A a, b \in Nat : a < b => N * a + N <= N * b
    <2> SUFFICES ASSUME NEW a \in Nat, NEW b \in Nat, a < b
                 PROVE  N * a + N <= N * b
      OBVIOUS
    <2>1. N * (b - a) >= N
      OBVIOUS
    <2>2. N * (b - a) = N * b - N * a
      OBVIOUS
    <2> QED
      BY <2>1, <2>2
  <1>4. N * p \in Nat /\ N * q \in Nat
    BY <1>2
  <1>5. p = q
    BY <1>2, <1>3, <1>4
  <1>6. s = i
    BY <1>2, <1>4, <1>5
  <1> QED
    BY <1>6 DEF s

\* N successive numbers have all remainders.
LEMMA ModuloCovers ==
  ASSUME NEW k \in Nat, NEW N \in Nat \ {0}, NEW i \in 0 .. N - 1
  PROVE  \E j \in k .. k + N - 1 : j % N = i
  <1> DEFINE q == k \div N
             r == k % N
             j == IF r <= i THEN k + (i - r) ELSE k + (N + i - r)
  <1>1. q \in Nat /\ r \in 0 .. N - 1 /\ k = N * q + r
    OBVIOUS
  <1>2. j \in k .. k + N - 1
    BY <1>1
  <1>3. j = N * q + i \/ j = N * (q + 1) + i
    BY <1>1
  <1> HIDE DEF j, q, r
  <1>4. (N * q + i) % N = i /\ (N * (q + 1) + i) % N = i
    <2>1. q \in Nat /\ q + 1 \in Nat
      BY <1>1
    <2> QED
      BY ONLY <2>1, N \in Nat \ {0}, i \in 0 .. N - 1, ModuloUnique
  <1>5. j % N = i
    BY ONLY <1>3, <1>4
  <1> QED
    BY <1>2, <1>5

\* The proposer of a round is a validator (CalcProposer).
LEMMA CalcProposerType ==
  ASSUME NEW V, IsValidatorSet(V), NEW policy, NEW last, NEW round \in Nat
  PROVE  CalcProposer(policy, V, last, round) \in V
  <1>1. CalcSeed(V, last, round) \in Nat
    BY IndexInRange, SizePositive DEF CalcSeed
  <1>2. \A seed \in Nat : GetByIndex(V, seed % Size(V)) \in V
    BY ModuloRange, SizePositive, GetByIndexType
  <1> QED
    BY <1>1, <1>2 DEF CalcProposer, StickyProposer, RoundRobinProposer

\* v is the proposer of one of the Size rounds from round on.
ProposesIn(policy, V, last, round, v) ==
    \E r \in round .. round + Size(V) - 1 : CalcProposer(policy, V, last, r) = v

\* Whoever made the last block and whatever the round is, each validator is
\* the proposer of one of the next Size rounds, under both policies.
THEOREM ProposerRotation ==
  ASSUME NEW V, IsValidatorSet(V), NEW policy \in {"RoundRobin", "Sticky"},
         NEW last, NEW round \in Nat, NEW v \in V
  PROVE  ProposesIn(policy, V, last, round, v)
  <1> DEFINE N == Size(V)
             index == IF last \in V THEN IndexOf(V, last) ELSE 0
             base == IF last = EmptyAddress THEN 0
                     ELSE IF policy = "Sticky" THEN index ELSE index + 1
  <1>1. N \in Nat \ {0} /\ base \in Nat /\ index \in Nat
    BY SizePositive, IndexInRange
  <1>2. ASSUME NEW r \in Nat
        PROVE  CalcProposer(policy, V, last, r) = GetByIndex(V, (base + r) % N)
    <2>1. base + r = IF last = EmptyAddress THEN r
                     ELSE IF policy = "Sticky" THEN index + r
                     ELSE index + r + 1
      BY <1>1
    <2> QED
      BY <2>1 DEF CalcProposer, StickyProposer, RoundRobinProposer, CalcSeed
  <1> HIDE DEF base, N
  <1>3. base + round \in Nat /\ IndexOf(V, v) \in 0 .. N - 1
    BY <1>1, IndexInRange DEF N
  <1>4. PICK j \in base + round .. base + round + N - 1 : j % N = IndexOf(V, v)
    BY <1>1, <1>3, ModuloCovers
  <1>5. /\ j - base \in round .. round + N - 1 /\ j - base \in Nat
        /\ base + (j - base) = j
    BY <1>1, <1>4
  <1>6. CalcProposer(policy, V, last, j - base) = v
    BY <1>2, <1>4, <1>5, GetByIndexOf
  <1> QED
    BY <1>5, <1>6 DEF N, ProposesIn

-----------------------------------------------------------------------------
(* The fields of a state.                                                  *)

Fields ==
    {"sequence", "round", "state", "waiting", "proposer", "lastView",
     "preprepare", "prepares", "commits", "lockedHash", "lockedRound",
     "lockedPrepares", "pendingRequest", "pendingRequests", "roundChanges",
     "proposedBlockHash", "executed", "working", "requests", "sealResults",
     "fetcher", "chain", "known", "out"}

HasFields(c) == DOMAIN c = Fields

\* State d is state c but for the fields in S.
Frame(c, d, S) == HasFields(d) /\ \A f \in Fields \ S : d[f] = c[f]

-----------------------------------------------------------------------------
(* The invariant of one validator.                                         *)

Sealings == UNION {[S -> Hashes] : S \in SUBSET Validators}
SealedBlocks == [block : Blocks, seals : Sealings]

\* A handler may go beyond the last round; Becomes then disables the step.
RoundTyped(c) ==
    /\ c.sequence \in Heights /\ c.round \in Nat
    /\ c.preprepare \in Hashes /\ c.pendingRequest \in Hashes
    /\ c.lockedHash \in Hashes
    /\ c.prepares \subseteq Validators /\ c.commits \in Sealings
    /\ c.lockedRound \in Nat /\ c.lockedRound <= c.round
    /\ c.lockedPrepares \subseteq Validators

BackendTyped(c) ==
    /\ c.proposedBlockHash \in Hashes /\ c.executed \in Hashes
    /\ c.working \in BOOLEAN /\ c.requests \subseteq Blocks
    /\ c.sealResults \subseteq SealedBlocks /\ c.fetcher \subseteq SealedBlocks
    /\ c.chain \in Seq(SealedBlocks)
    /\ \A h \in DOMAIN c.chain : c.chain[h].block.number = h

\* A validator is never ahead of its chain, and no request is stored for the
\* first height.
Positioned(c) ==
    /\ c.sequence <= LastNumber(c) + 1
    /\ \A p \in c.pendingRequests : p.block.number > 1

Typed(c) ==
    /\ HasFields(c) /\ RoundTyped(c) /\ IsCore(c) /\ BackendTyped(c)
    /\ Positioned(c)

\* A locked validator keeps the proposal; without a lock nothing is left of it.
LockFits(c) ==
    /\ IsHashLocked(c) => c.preprepare = c.lockedHash
    /\ ~IsHashLocked(c) => c.lockedRound = 0 /\ c.lockedPrepares = {}

PrepareOf(v, h, r, b) ==
    [type |-> "PREPARE", src |-> v, sequence |-> h, round |-> r, block |-> b]

\* The PREPAREs that a validator counts, and those of its lock, were sent, and
\* so were the messages it knows.
MessagesSent(c, M) ==
    /\ c.known \subseteq M
    /\ \A v \in c.prepares : PrepareOf(v, c.sequence, c.round, c.preprepare) \in M
    /\ \A v \in c.lockedPrepares :
           PrepareOf(v, c.sequence, c.lockedRound, c.lockedHash) \in M

\* What a handler broadcasts is of its type and signed by n, and a PRE-PREPARE
\* carries PREPAREs that were sent.
OutFits(c, n, M) ==
    \A m \in c.out :
        /\ m \in Messages(Nat) /\ m.src = n /\ LocksEarlier(m)
        /\ m.round <= c.round \/ m.round \in Rounds
        /\ m.type = "PREPREPARE" => \A v \in m.lockedPrepares :
               PrepareOf(v, m.sequence, m.lockedRound, m.lockedHash) \in M

\* An old PRE-PREPARE is answered for a block of the chain.
OldInChain(c, n, M) ==
    \A m \in M \cup c.out :
        m.type = "COMMIT" /\ m.src = n /\ m.old => HasProposal(c, m.block)

ViewOf(m) == <<m.sequence, m.round>>

\* No vote of n is of a later view, and one of this view is for the proposal.
VotesFit(c, n, M) ==
    \A m \in M \cup c.out : IsVoteOf(m, n) =>
        \/ Before(ViewOf(m), View(c))
        \/ ViewOf(m) = View(c) /\ m.block = c.preprepare

VotesOnce(S, n) ==
    \A m, p \in S : /\ IsVoteOf(m, n) /\ IsVoteOf(p, n)
                    /\ m.sequence = p.sequence /\ m.round = p.round
                    => m.block = p.block

\* Nothing counted and nothing locked in this round.
NothingCounted(c) ==
    /\ c.prepares = {} /\ c.commits = << >>
    /\ IsHashLocked(c) => c.lockedRound < c.round

NotVoted(c, n, M) ==
    \A m \in M \cup c.out : IsVoteOf(m, n) => Before(ViewOf(m), View(c))

Fresh(c, n, M) ==
    NothingCounted(c) /\ (n \notin Restarting => NotVoted(c, n, M))

\* The validator has not accepted a proposal in its view.
Idle(c) == c.waiting \/ c.state = AcceptRequest

\* What holds whether or not the state fits the view.
Sound(c, n, M) ==
    /\ M \subseteq Messages(Nat)
    /\ Typed(c) /\ LockFits(c) /\ MessagesSent(c, M)
    /\ OutFits(c, n, M) /\ OldInChain(c, n, M)
    /\ n \notin Restarting => VotesFit(c, n, M) /\ VotesOnce(M \cup c.out, n)

Good(c, n, M) ==
    /\ Sound(c, n, M)
    /\ Idle(c) => Fresh(c, n, M)
    /\ ~Idle(c) => c.preprepare \in Blocks

-----------------------------------------------------------------------------
(* The operators that change fields.                                       *)

\* The empty list of COMMITs.
LEMMA NoSeals == << >> \in Sealings /\ DOMAIN << >> = {}
  <1>1. << >> \in [{} -> Hashes] /\ DOMAIN << >> = {}
    OBVIOUS
  <1> QED
    BY <1>1 DEF Sealings

LEMMA HeightsNat == Heights \subseteq Nat \ {0} /\ 1 \in Heights
  BY CoreBlocks DEF Heights

LEMMA ViewFacts ==
  ASSUME NEW c, NEW d
  PROVE  Before(View(c), View(d)) <=>
             \/ c.sequence < d.sequence
             \/ c.sequence = d.sequence /\ c.round < d.round
  BY DEF Before, View

LEMMA MessageFacts ==
  ASSUME NEW R \in SUBSET Nat, NEW m \in Messages(R)
  PROVE  /\ m.src \in Validators /\ m.sequence \in Nat \ {0} /\ m.round \in R
         /\ m.sequence \in Heights
         /\ m.type # "ROUNDCHANGE" => m.block \in Blocks
         /\ m.type = "PREPREPARE" =>
                /\ m.lockedRound \in R /\ m.lockedHash \in Hashes
                /\ m.lockedPrepares \subseteq Validators
         /\ m.type = "PREPARE" =>
                m = PrepareOf(m.src, m.sequence, m.round, m.block)
         /\ m.type = "COMMIT" => m.seal \in Hashes /\ m.old \in BOOLEAN
  BY HeightsNat DEF Messages, PrepareOf

LEMMA UnlockHashFields ==
  ASSUME NEW c, HasFields(c)
  PROVE  LET d == UnlockHash(c) IN
         /\ Frame(c, d, {"lockedHash", "lockedRound", "lockedPrepares"})
         /\ d.lockedHash = NoBlock /\ d.lockedRound = 0 /\ d.lockedPrepares = {}
  BY DEF HasFields, Fields, Frame, UnlockHash

\* Giving up the lock disturbs nothing else.
LEMMA UnlockHashGood ==
  ASSUME NEW c, NEW n, NEW M, Good(c, n, M)
  PROVE  Good(UnlockHash(c), n, M)
  <1> DEFINE d == UnlockHash(c)
  <1>0. Typed(c) /\ HasFields(c)
    BY DEF Good, Sound, Typed
  <1>1. /\ Frame(c, d, {"lockedHash", "lockedRound", "lockedPrepares"})
        /\ d.lockedHash = NoBlock /\ d.lockedRound = 0 /\ d.lockedPrepares = {}
    BY <1>0, UnlockHashFields
  <1> HIDE DEF d
  <1>2. Typed(d)
    BY <1>0, <1>1 DEF Typed, RoundTyped, IsCore, BackendTyped, Positioned,
         LastNumber, Frame, Fields, HasFields, Hashes
  <1>3. LockFits(d) /\ MessagesSent(d, M) /\ OutFits(d, n, M) /\ OldInChain(d, n, M)
    BY <1>1 DEF Good, Sound, LockFits, MessagesSent, OutFits, OldInChain, Frame,
         Fields, HasFields, IsHashLocked, HasProposal
  <1>4. n \notin Restarting => VotesFit(d, n, M) /\ VotesOnce(M \cup d.out, n)
    BY <1>1 DEF Good, Sound, VotesFit, Frame, Fields, HasFields, View
  <1>5. Idle(d) => Fresh(d, n, M)
    BY <1>1 DEF Good, Idle, Fresh, NothingCounted, NotVoted, Frame, Fields, HasFields,
       View, IsHashLocked
  <1>6. ~Idle(d) => d.preprepare \in Blocks
    BY <1>1 DEF Good, Idle, Frame, Fields, HasFields
  <1> QED
    BY <1>2, <1>3, <1>4, <1>5, <1>6 DEF Good, Sound, d

SameLock(c, d) ==
    /\ d.lockedHash = c.lockedHash /\ d.lockedRound = c.lockedRound
    /\ d.lockedPrepares = c.lockedPrepares /\ d.preprepare = c.preprepare

NoLock(d) ==
    /\ d.lockedHash = NoBlock /\ d.preprepare = NoBlock
    /\ d.lockedRound = 0 /\ d.lockedPrepares = {}

\* State d is what updateRoundState leaves of c in view <<s, r>>.
Updated(c, d, s, r) ==
    /\ Frame(c, d, {"sequence", "round", "prepares", "commits", "pendingRequest",
                    "preprepare", "lockedHash", "lockedRound", "lockedPrepares"})
    /\ d.sequence = s /\ d.round = r /\ d.prepares = {} /\ d.commits = << >>
    /\ d.pendingRequest \in {c.pendingRequest, NoBlock}
    /\ (SameLock(c, d) /\ s = c.sequence) \/ NoLock(d)

\* The two ways in which updateRoundState is called.
ToRound(c, r) == UpdateRoundState(c, c.sequence, r, TRUE)
ToView(c, s, r) == UpdateRoundState(c, s, r, FALSE)

LEMMA ToRoundFields ==
  ASSUME NEW c, HasFields(c), NEW r
  PROVE  LET d == ToRound(c, r) IN
         /\ Updated(c, d, c.sequence, r) /\ d.pendingRequest = c.pendingRequest
         /\ IsHashLocked(c) => SameLock(c, d)
         /\ ~IsHashLocked(c) => NoLock(d)
  BY DEF HasFields, Fields, Frame, ToRound, ToView, UpdateRoundState, NewRoundState, UnlockHash,
         KeepsLock, Updated, SameLock, NoLock

LEMMA ToViewFields ==
  ASSUME NEW c, HasFields(c), NEW s, NEW r
  PROVE  LET d == ToView(c, s, r) IN
         Updated(c, d, s, r) /\ NoLock(d)
  BY DEF HasFields, Fields, Frame, ToRound, ToView, UpdateRoundState, NewRoundState, UnlockHash,
         KeepsLock, Updated, NoLock

\* A later view, or the view that the validator waits to start, is fresh.
LEMMA UpdatedFresh ==
  ASSUME NEW c, NEW n, NEW M, Good(c, n, M),
         NEW s \in Heights, NEW r \in Nat, NEW d, Updated(c, d, s, r),
         s <= LastNumber(c) + 1,
         c.out = {} \/ c.round <= r,
         \/ c.sequence < s \/ (c.sequence = s /\ c.round < r)
         \/ c.sequence = s /\ c.round = r /\ c.waiting
  PROVE  Sound(d, n, M) /\ Fresh(d, n, M)
  <1> USE DEF Frame, Fields, HasFields
  <1>0. Typed(c) /\ HasFields(c) /\ M \subseteq Messages(Nat)
    BY DEF Good, Sound, Typed
  <1>1. /\ Frame(c, d, {"sequence", "round", "prepares", "commits",
                         "pendingRequest", "preprepare", "lockedHash",
                         "lockedRound", "lockedPrepares"})
        /\ d.sequence = s /\ d.round = r /\ d.prepares = {} /\ d.commits = << >>
        /\ d.pendingRequest \in {c.pendingRequest, NoBlock}
        /\ \/ /\ s = c.sequence
              /\ d.lockedHash = c.lockedHash /\ d.preprepare = c.preprepare
              /\ d.lockedRound = c.lockedRound
              /\ d.lockedPrepares = c.lockedPrepares
           \/ /\ d.lockedHash = NoBlock /\ d.preprepare = NoBlock
              /\ d.lockedRound = 0 /\ d.lockedPrepares = {}
    BY DEF Updated, SameLock, NoLock
  <1>2. /\ c.round \in Nat /\ c.lockedRound \in Nat /\ c.lockedRound <= c.round
        /\ c.sequence \in Nat /\ s \in Nat
    BY <1>0, HeightsNat DEF Typed, RoundTyped
  <1>3. \A m \in M \cup c.out : m.sequence \in Nat /\ m.round \in Nat
    BY MessageFacts DEF Good, Sound, OutFits
  <1>4. Typed(d)
    <2>1. RoundTyped(d)
      BY <1>0, <1>1, <1>2, NoSeals DEF Typed, RoundTyped, Hashes
    <2>2. IsCore(d) /\ BackendTyped(d)
      BY <1>0, <1>1 DEF Typed, IsCore, BackendTyped
    <2>3. Positioned(d)
      BY <1>0, <1>1 DEF Typed, Positioned, LastNumber
    <2> QED BY <1>1, <2>1, <2>2, <2>3 DEF Typed
  <1>5. LockFits(d) /\ MessagesSent(d, M)
    BY <1>1 DEF Good, Sound, LockFits, MessagesSent, IsHashLocked
  <1>6. OutFits(d, n, M) /\ OldInChain(d, n, M)
    BY <1>1, <1>2, <1>3 DEF Good, Sound, OutFits, OldInChain, HasProposal
  <1>7. NothingCounted(d)
    <2>1. c.lockedHash # NoBlock => c.lockedRound < r \/ c.sequence # s
      BY <1>2 DEF Good, Idle, Fresh, NothingCounted, IsHashLocked
    <2> QED
      BY <1>1, <1>2, <2>1 DEF NothingCounted, IsHashLocked
  <1>8. n \notin Restarting => NotVoted(d, n, M)
    <2> SUFFICES ASSUME n \notin Restarting, NEW m \in M \cup c.out, IsVoteOf(m, n)
                 PROVE  Before(ViewOf(m), View(d))
      BY <1>1 DEF NotVoted
    <2>1. m.sequence \in Nat /\ m.round \in Nat
      BY <1>3
    <2>2. Before(ViewOf(m), View(c)) \/ (ViewOf(m) = View(c) /\ ~c.waiting)
      BY DEF Good, Sound, VotesFit, Idle, Fresh, NotVoted
    <2>3. \/ m.sequence < c.sequence
          \/ m.sequence = c.sequence /\ m.round < c.round
          \/ m.sequence = c.sequence /\ m.round = c.round /\ ~c.waiting
      BY <2>2 DEF Before, View, ViewOf
    <2> QED
      BY <1>1, <1>2, <2>1, <2>3 DEF Before, View, ViewOf
  <1>9. n \notin Restarting => VotesFit(d, n, M) /\ VotesOnce(M \cup d.out, n)
    BY <1>1, <1>8 DEF Good, Sound, VotesFit, NotVoted
  <1> QED
    BY <1>0, <1>4, <1>5, <1>6, <1>7, <1>8, <1>9 DEF Sound, Fresh

LEMMA EnterRoundFields ==
  ASSUME NEW c, HasFields(c)
  PROVE  LET d == EnterRound(c) IN
         /\ Frame(c, d, {"roundChanges", "proposer", "waiting", "state"})
         /\ d.roundChanges = [r \in DOMAIN c.roundChanges |-> {}]
         /\ d.proposer = CalcProposer(Policy, Validators,
                                      GetProposer(c, LastNumber(c)), c.round)
         /\ d.waiting = FALSE /\ d.state = AcceptRequest
  BY DEF HasFields, Fields, Frame, EnterRound

LEMMA EnterRoundGood ==
  ASSUME NEW c, NEW n, NEW M, Sound(c, n, M), Fresh(c, n, M)
  PROVE  Good(EnterRound(c), n, M)
  <1> DEFINE d == EnterRound(c)
  <1> USE DEF Frame, Fields, HasFields
  <1>0. Typed(c) /\ HasFields(c)
    BY DEF Sound, Typed
  <1>1. /\ Frame(c, d, {"roundChanges", "proposer", "waiting", "state"})
        /\ d.roundChanges = [r \in DOMAIN c.roundChanges |-> {}]
        /\ d.proposer = CalcProposer(Policy, Validators,
                                     GetProposer(c, LastNumber(c)), c.round)
        /\ d.waiting = FALSE /\ d.state = AcceptRequest
    BY <1>0, EnterRoundFields
  <1> HIDE DEF d
  <1>2. d.proposer \in Validators
    <2>1. c.round \in Nat /\ IsValidatorSet(Validators)
      BY <1>0, CoreValidators DEF Typed, RoundTyped, IsValidatorSet
    <2> QED BY <1>1, <2>1, CalcProposerType
  <1>3. Typed(d)
    <2>1. RoundTyped(d) /\ BackendTyped(d) /\ Positioned(d)
      BY <1>0, <1>1 DEF Typed, RoundTyped, BackendTyped, Positioned, LastNumber
    <2>2. d.roundChanges \in [Rounds -> SUBSET Validators]
      BY <1>0, <1>1 DEF Typed, IsCore
    <2>3. IsCore(d)
      BY <1>0, <1>1, <1>2, <2>2 DEF Typed, IsCore
    <2> QED BY <1>1, <2>1, <2>3 DEF Typed
  <1>4. LockFits(d) /\ MessagesSent(d, M) /\ OutFits(d, n, M) /\ OldInChain(d, n, M)
    BY <1>1 DEF Sound, LockFits, MessagesSent, OutFits, OldInChain, IsHashLocked,
         HasProposal
  <1>5. n \notin Restarting => VotesFit(d, n, M) /\ VotesOnce(M \cup d.out, n)
    BY <1>1 DEF Sound, VotesFit, View
  <1>6. Fresh(d, n, M)
    BY <1>1 DEF Fresh, NothingCounted, NotVoted, View, IsHashLocked
  <1>7. Idle(d)
    BY <1>1 DEF Idle
  <1> QED
    BY <1>3, <1>4, <1>5, <1>6, <1>7 DEF Sound, Good, d

LEMMA CatchUpRoundFields ==
  ASSUME NEW c, HasFields(c), NEW r
  PROVE  LET u == ToRound(c, r)
             d == CatchUpRound(c, r)
         IN  /\ Frame(u, d, {"waiting", "roundChanges"})
             /\ d.waiting = TRUE
             /\ d.roundChanges = [s \in DOMAIN c.roundChanges |->
                                    IF s < r THEN {} ELSE c.roundChanges[s]]
  <1> DEFINE u == ToRound(c, r)
  <1>1. HasFields(u) /\ u.roundChanges = c.roundChanges
    BY ToRoundFields DEF Updated, Frame, Fields
  <1> DEFINE asked == [s \in DOMAIN u.roundChanges |->
                         IF s < r THEN {} ELSE u.roundChanges[s]]
  <1>2. CatchUpRound(c, r) =
          [u EXCEPT !.waiting = TRUE, !.roundChanges = asked]
    BY <1>1 DEF CatchUpRound, ToRound, HasFields, Fields
  <1> HIDE DEF u, asked
  <1>3. /\ Frame(u, CatchUpRound(c, r), {"waiting", "roundChanges"})
        /\ CatchUpRound(c, r).waiting = TRUE
        /\ CatchUpRound(c, r).roundChanges = asked
    BY <1>1, <1>2 DEF HasFields, Fields, Frame
  <1>4. asked = [s \in DOMAIN c.roundChanges |->
                   IF s < r THEN {} ELSE c.roundChanges[s]]
    BY <1>1 DEF asked
  <1> QED
    BY <1>3, <1>4 DEF u

\* A validator that asks for a later round waits for it in a fresh view.
LEMMA CatchUpRoundGood ==
  ASSUME NEW c, NEW n, NEW M, Good(c, n, M), NEW r \in Nat, c.round < r
  PROVE  Good(CatchUpRound(c, r), n, M)
  <1> DEFINE u == ToRound(c, r)
             d == CatchUpRound(c, r)
  <1> USE DEF Frame, Fields, HasFields
  <1>0. /\ Typed(c) /\ HasFields(c) /\ c.round \in Nat /\ c.sequence \in Heights
        /\ c.sequence <= LastNumber(c) + 1
    BY DEF Good, Sound, Typed, RoundTyped, Positioned
  <1>1. Sound(u, n, M) /\ Fresh(u, n, M)
    BY <1>0, ToRoundFields, UpdatedFresh
  <1>2. /\ Frame(u, d, {"waiting", "roundChanges"})
        /\ d.waiting = TRUE
        /\ d.roundChanges = [s \in DOMAIN c.roundChanges |->
                               IF s < r THEN {} ELSE c.roundChanges[s]]
    BY <1>0, CatchUpRoundFields
  <1> HIDE DEF d, u
  <1>3. Typed(d)
    <2>1. RoundTyped(d) /\ BackendTyped(d) /\ Positioned(d)
      BY <1>1, <1>2 DEF Sound, Typed, RoundTyped, BackendTyped, Positioned,
                        LastNumber
    <2>2. d.roundChanges \in [Rounds -> SUBSET Validators]
      BY <1>0, <1>2 DEF Typed, IsCore
    <2>3. IsCore(d)
      BY <1>1, <1>2, <2>2 DEF Sound, Typed, IsCore
    <2> QED BY <1>2, <2>1, <2>3 DEF Typed
  <1>4. LockFits(d) /\ MessagesSent(d, M) /\ OutFits(d, n, M) /\ OldInChain(d, n, M)
    BY <1>1, <1>2 DEF Sound, LockFits, MessagesSent, OutFits, OldInChain,
         IsHashLocked, HasProposal
  <1>5. n \notin Restarting => VotesFit(d, n, M) /\ VotesOnce(M \cup d.out, n)
    BY <1>1, <1>2 DEF Sound, VotesFit, View
  <1>6. Fresh(d, n, M)
    BY <1>1, <1>2 DEF Fresh, NothingCounted, NotVoted, View, IsHashLocked
  <1>7. Idle(d)
    BY <1>2 DEF Idle
  <1> QED
    BY <1>1, <1>3, <1>4, <1>5, <1>6, <1>7 DEF Sound, Good, d

LEMMA BroadcastFields ==
  ASSUME NEW c, HasFields(c), NEW m
  PROVE  Frame(c, Broadcast(c, m), {"out"}) /\ Broadcast(c, m).out = c.out \cup {m}
  BY DEF HasFields, Fields, Frame, Broadcast

\* A vote is for the accepted proposal in the current view.
LEMMA BroadcastGood ==
  ASSUME NEW c, NEW n, NEW M, Good(c, n, M),
         NEW m \in Messages(Nat), m.src = n, LocksEarlier(m),
         m.round <= c.round \/ m.round \in Rounds,
         m.type = "PREPREPARE" => \A v \in m.lockedPrepares :
             PrepareOf(v, m.sequence, m.lockedRound, m.lockedHash) \in M,
         m.type = "COMMIT" /\ m.old => HasProposal(c, m.block),
         IsVoteOf(m, n) => /\ ~Idle(c) /\ ViewOf(m) = View(c)
                           /\ m.block = c.preprepare
  PROVE  Good(Broadcast(c, m), n, M)
  <1> DEFINE d == Broadcast(c, m)
  <1> USE DEF Frame, Fields, HasFields
  <1>0. Typed(c) /\ HasFields(c) /\ M \subseteq Messages(Nat)
    BY DEF Good, Sound, Typed
  <1>1. Frame(c, d, {"out"}) /\ d.out = c.out \cup {m}
    BY <1>0, BroadcastFields
  <1> HIDE DEF d
  <1>2. Typed(d)
    BY <1>0, <1>1 DEF Typed, RoundTyped, IsCore, BackendTyped, Positioned, LastNumber
  <1>3. LockFits(d) /\ MessagesSent(d, M)
    BY <1>1 DEF Good, Sound, LockFits, MessagesSent, IsHashLocked
  <1>4. OutFits(d, n, M)
    BY <1>1 DEF Good, Sound, OutFits
  <1>5. OldInChain(d, n, M)
    BY <1>1 DEF Good, Sound, OldInChain, HasProposal
  <1>6. ASSUME n \notin Restarting
        PROVE  VotesFit(d, n, M) /\ VotesOnce(M \cup d.out, n)
    <2>1. VotesFit(d, n, M)
      BY <1>1, <1>6 DEF Good, Sound, VotesFit, View
    <2>2. ASSUME NEW p \in M \cup c.out, IsVoteOf(p, n), IsVoteOf(m, n),
                 m.sequence = p.sequence, m.round = p.round
          PROVE  m.block = p.block
      <3>1. p.sequence \in Nat /\ p.round \in Nat
        BY MessageFacts DEF Good, Sound, OutFits
      <3>2. ViewOf(p) = View(c)
        BY <2>2 DEF ViewOf
      <3>3. ~Before(ViewOf(p), View(c))
        BY <3>1, <3>2 DEF Before, ViewOf
      <3> QED
        BY <1>6, <2>2, <3>3 DEF Good, Sound, VotesFit
    <2>3. VotesOnce(M \cup c.out, n)
      BY <1>6 DEF Good, Sound
    <2>4. VotesOnce(M \cup d.out, n)
      BY <1>1, <2>2, <2>3 DEF VotesOnce
    <2> QED BY <2>1, <2>4
  <1>7. Idle(d) => Fresh(d, n, M)
    BY <1>1 DEF Good, Idle, Fresh, NothingCounted, NotVoted, View, IsHashLocked
  <1>8. ~Idle(d) => d.preprepare \in Blocks
    BY <1>1 DEF Good, Idle
  <1> QED
    BY <1>0, <1>2, <1>3, <1>4, <1>5, <1>6, <1>7, <1>8 DEF Good, Sound, d

-----------------------------------------------------------------------------
(* What a handler does to the view, the lock and the stored requests.      *)

Advances(c, d) ==
    c.sequence < d.sequence \/ (c.sequence = d.sequence /\ c.round <= d.round)

KeepsLocked(c, d) ==
    IsHashLocked(c) /\ d.sequence = c.sequence => d.lockedHash = c.lockedHash

StoredLater(c) ==
    ~c.waiting => \A p \in c.pendingRequests : \E q \in c.pendingRequests :
        q.block.number = p.block.number /\ Before(View(c), <<q.block.number, q.round>>)

\* The requests are stored for later views again if they were before.
Proceeds(c, d) ==
    Advances(c, d) /\ KeepsLocked(c, d) /\ (StoredLater(c) => StoredLater(d))

LEMMA StoredInView ==
  ASSUME NEW c, NEW d, d.sequence = c.sequence, d.round = c.round,
         d.waiting = c.waiting, d.pendingRequests = c.pendingRequests
  PROVE  StoredLater(c) => StoredLater(d)
  <1>1. View(d) = View(c)
    BY DEF View
  <1> QED
    BY Zenon, <1>1 DEF StoredLater

LEMMA ProceedsStays ==
  ASSUME NEW c, Typed(c)
  PROVE  Proceeds(c, c)
  BY HeightsNat DEF Proceeds, Advances, KeepsLocked, Typed, RoundTyped

\* The height after the head of the chain.
LEMMA HeadHeight ==
  ASSUME NEW c, Typed(c)
  PROVE  LastNumber(c) \in Nat /\ LastNumber(c) + 1 \in Heights
  <1>1. /\ c.chain \in Seq(SealedBlocks) /\ LastNumber(c) \in Nat
        /\ \A h \in DOMAIN c.chain : c.chain[h].block.number = h
    BY DEF Typed, BackendTyped, LastNumber
  <1>2. CASE LastNumber(c) = 0
    BY <1>2, HeightsNat
  <1>3. CASE LastNumber(c) # 0
    <2>1. LastNumber(c) \in DOMAIN c.chain
      BY <1>1, <1>3 DEF LastNumber
    <2>2. c.chain[LastNumber(c)] \in SealedBlocks
      BY <1>1, <2>1
    <2>3. c.chain[LastNumber(c)].block \in Blocks
      BY <2>2 DEF SealedBlocks
    <2> QED
      BY <1>1, <2>1, <2>3 DEF Heights
  <1> QED
    BY <1>1, <1>2, <1>3

LEMMA SendRoundChangeGood ==
  ASSUME NEW c, NEW n \in Validators, NEW M, Good(c, n, M), NEW r \in Nat
  PROVE  LET d == SendRoundChange(c, n, r) IN
         /\ Good(d, n, M) /\ Proceeds(c, d) /\ d.chain = c.chain
         /\ d = c \/ (c.round < r /\ d.round = r /\ d.sequence = c.sequence /\ d.waiting)
  <1> DEFINE u == ToRound(c, r)
             e == CatchUpRound(c, r)
             m == [type |-> "ROUNDCHANGE", src |-> n, sequence |-> c.sequence,
                   round |-> r]
  <1> USE DEF Frame, Fields, HasFields
  <1>0. /\ Typed(c) /\ HasFields(c) /\ c.round \in Nat /\ c.sequence \in Heights
        /\ c.sequence \in Nat
    BY HeightsNat DEF Good, Sound, Typed, RoundTyped
  <1>1. CASE c.round >= r
    BY <1>0, <1>1, ProceedsStays DEF SendRoundChange
  <1>2. CASE c.round < r
    <2>0. ~(c.round >= r)
      BY <1>0, <1>2
    <2>1. SendRoundChange(c, n, r) = Broadcast(e, m)
      BY <2>0, Zenon DEF SendRoundChange
    <2>2. Good(e, n, M)
      BY <1>2, CatchUpRoundGood
    <2>3. /\ Updated(c, u, c.sequence, r)
          /\ IsHashLocked(c) => SameLock(c, u)
      BY <1>0, ToRoundFields
    <2>9. /\ Frame(u, e, {"waiting", "roundChanges"})
          /\ e.waiting = TRUE
          /\ e.roundChanges = [s \in DOMAIN c.roundChanges |->
                                 IF s < r THEN {} ELSE c.roundChanges[s]]
      BY <1>0, CatchUpRoundFields
    <2>4. /\ m \in Messages(Nat) /\ m.src = n /\ m.round = r
          /\ m.type = "ROUNDCHANGE"
      BY <1>0 DEF Messages
    <2> HIDE DEF e, u, m
    <2>5. /\ HasFields(e) /\ e.round = r /\ e.sequence = c.sequence
          /\ IsHashLocked(c) => e.lockedHash = c.lockedHash
          /\ e.chain = c.chain
      BY <2>3, <2>9 DEF Updated, SameLock
    <2>6. Good(Broadcast(e, m), n, M)
      <3>1. e.round \in Nat /\ m.round <= e.round
        BY <2>4, <2>5
      <3>2. /\ m.type # "PREPREPARE" /\ m.type # "COMMIT" /\ ~IsVoteOf(m, n)
            /\ LocksEarlier(m)
        BY <2>4 DEF LocksEarlier, IsVoteOf
      <3> QED
        BY ONLY <2>2, <2>4, <3>1, <3>2, BroadcastGood
    <2>7. Frame(e, Broadcast(e, m), {"out"})
      BY <2>5, BroadcastFields
    <2>8. Proceeds(c, Broadcast(e, m))
      BY <1>0, <1>2, <2>9, <2>5, <2>7
         DEF Proceeds, Advances, KeepsLocked, StoredLater
    <2> QED
      BY <1>2, <2>1, <2>5, <2>6, <2>7, <2>8, <2>9
  <1> QED
    BY <1>0, <1>1, <1>2

LEMMA ProcessPendingFields ==
  ASSUME NEW c, HasFields(c)
  PROVE  LET d == ProcessPendingRequests(c)
             view(p) == <<p.block.number, p.round>>
             stop == {p \in c.pendingRequests : Before(View(c), view(p))}
             kept == {p \in c.pendingRequests :
                        \E q \in stop : q = p \/ Popped(q, p)}
             posted == {p \in c.pendingRequests \ kept : view(p) = View(c)}
         IN  /\ Frame(c, d, {"pendingRequests", "requests"})
             /\ d.pendingRequests = kept
             /\ d.requests = c.requests \cup {p.block : p \in posted}
  BY DEF HasFields, Fields, Frame, ProcessPendingRequests

\* Only requests of later views stay stored.
LEMMA ProcessPendingGood ==
  ASSUME NEW c, NEW n, NEW M, Good(c, n, M)
  PROVE  LET d == ProcessPendingRequests(c) IN
         /\ Good(d, n, M) /\ StoredLater(d)
         /\ Frame(c, d, {"pendingRequests", "requests"})
  <1> DEFINE d == ProcessPendingRequests(c)
             view(p) == <<p.block.number, p.round>>
             stop == {p \in c.pendingRequests : Before(View(c), view(p))}
             kept == {p \in c.pendingRequests :
                        \E q \in stop : q = p \/ Popped(q, p)}
             posted == {p \in c.pendingRequests \ kept : view(p) = View(c)}
  <1> USE DEF Frame, Fields, HasFields
  <1>0. /\ Typed(c) /\ HasFields(c) /\ M \subseteq Messages(Nat)
        /\ c.sequence \in Nat /\ c.round \in Nat
    BY HeightsNat DEF Good, Sound, Typed, RoundTyped
  <1>1. /\ Frame(c, d, {"pendingRequests", "requests"})
        /\ d.pendingRequests = kept
        /\ d.requests = c.requests \cup {p.block : p \in posted}
    BY <1>0, ProcessPendingFields
  <1> HIDE DEF d
  <1>2. \A p \in c.pendingRequests :
            p.block \in Blocks /\ p.round \in Rounds /\ p.block.number \in Nat
    BY <1>0, CoreBlocks DEF Typed, IsCore
  <1>3. kept \subseteq c.pendingRequests /\ d.requests \subseteq Blocks
    BY <1>0, <1>1, <1>2 DEF Typed, BackendTyped
  <1>4. \A p \in kept : \E q \in kept :
            q.block.number = p.block.number /\ Before(View(c), view(q))
    <2> SUFFICES ASSUME NEW p \in kept
                 PROVE  \E q \in kept : q.block.number = p.block.number
                                        /\ Before(View(c), view(q))
      OBVIOUS
    <2>1. PICK q \in stop : q = p \/ Popped(q, p)
      OBVIOUS
    <2>2. /\ p.block.number \in Nat /\ q.block.number \in Nat
          /\ Before(View(c), view(q)) /\ q \in kept
      BY <1>2
    <2>3. CASE q.block.number = p.block.number
      BY <2>2, <2>3
    <2>4. CASE q.block.number < p.block.number
      BY <1>0, <2>2, <2>4 DEF Before, View
    <2> QED
      BY <2>1, <2>3, <2>4 DEF Popped
  <1> HIDE DEF kept
  <1>5. Typed(d)
    <2>1. RoundTyped(d) /\ BackendTyped(d) /\ Positioned(d)
      BY <1>0, <1>1, <1>3 DEF Typed, RoundTyped, BackendTyped, Positioned, LastNumber
    <2>2. \A p \in d.pendingRequests : p.block \in Blocks /\ p.round \in Rounds
      BY <1>1, <1>2, <1>3
    <2>3. IsCore(d)
      BY <1>0, <1>1, <2>2 DEF Typed, IsCore
    <2> QED BY <1>1, <2>1, <2>3 DEF Typed
  <1>6. LockFits(d) /\ MessagesSent(d, M) /\ OutFits(d, n, M) /\ OldInChain(d, n, M)
    BY <1>1 DEF Good, Sound, LockFits, MessagesSent, OutFits, OldInChain,
         IsHashLocked, HasProposal
  <1>7. n \notin Restarting => VotesFit(d, n, M) /\ VotesOnce(M \cup d.out, n)
    BY <1>1 DEF Good, Sound, VotesFit, View
  <1>8. Idle(d) => Fresh(d, n, M)
    BY <1>1 DEF Good, Idle, Fresh, NothingCounted, NotVoted, View, IsHashLocked
  <1>9. ~Idle(d) => d.preprepare \in Blocks
    BY <1>1 DEF Good, Idle
  <1>10. View(d) = View(c)
    BY <1>1 DEF View
  <1>11. StoredLater(d)
    BY <1>1, <1>4, <1>10 DEF StoredLater
  <1> QED
    BY <1>0, <1>1, <1>5, <1>6, <1>7, <1>8, <1>9, <1>11 DEF Good, Sound, d

\* A PRE-PREPARE carries the lock of its proposer, taken in an earlier round.
LEMMA SendPreprepareGood ==
  ASSUME NEW c, NEW n \in Validators, NEW M, Good(c, n, M), Idle(c),
         NEW b \in Blocks
  PROVE  LET d == SendPreprepare(c, n, b) IN
         Good(d, n, M) /\ Frame(c, d, {"out"})
  <1> DEFINE m == [type |-> "PREPREPARE", src |-> n, sequence |-> c.sequence,
                   round |-> c.round, block |-> b,
                   lockedRound |-> c.lockedRound, lockedHash |-> c.lockedHash,
                   lockedPrepares |-> c.lockedPrepares]
  <1>0. /\ Typed(c) /\ HasFields(c) /\ c.round \in Nat /\ c.sequence \in Heights
        /\ c.lockedRound \in Nat /\ c.lockedRound <= c.round
        /\ c.lockedHash \in Hashes /\ c.lockedPrepares \in SUBSET Validators
    BY DEF Good, Sound, Typed, RoundTyped
  <1>1. CASE b.number # c.sequence \/ ~IsProposer(c, n)
    BY <1>0, <1>1 DEF SendPreprepare, Frame
  <1>2. CASE ~(b.number # c.sequence \/ ~IsProposer(c, n))
    <2>1. SendPreprepare(c, n, b) = Broadcast(c, m)
      BY <1>2, Zenon DEF SendPreprepare, LockedRoundSent
    <2>2. m \in Messages(Nat)
      BY <1>0 DEF Messages
    <2>3. LocksEarlier(m)
      BY <1>0 DEF Good, Fresh, NothingCounted, IsHashLocked, LocksEarlier
    <2>4. \A v \in m.lockedPrepares :
              PrepareOf(v, m.sequence, m.lockedRound, m.lockedHash) \in M
      BY DEF Good, Sound, MessagesSent
    <2>5. /\ m.src = n /\ m.round <= c.round /\ m.type = "PREPREPARE"
          /\ m.type # "COMMIT" /\ ~IsVoteOf(m, n)
      BY <1>0 DEF IsVoteOf
    <2> HIDE DEF m
    <2>6. Good(Broadcast(c, m), n, M)
      BY <2>2, <2>3, <2>4, <2>5, BroadcastGood
    <2> QED
      BY <1>0, <2>1, <2>6, BroadcastFields
  <1> QED
    BY <1>1, <1>2

\* What startNewRound does before the proposer proposes.
LEMMA EnteredGood ==
  ASSUME NEW c, NEW n, NEW M, Good(c, n, M), NEW s \in Heights, NEW r \in Nat,
         s <= LastNumber(c) + 1, NEW u, Updated(c, u, s, r), c.out = {} \/ c.round <= r,
         \/ c.sequence < s \/ (c.sequence = s /\ c.round < r)
         \/ c.sequence = s /\ c.round = r /\ c.waiting,
         IsHashLocked(c) /\ s = c.sequence => SameLock(c, u)
  PROVE  LET d == ProcessPendingRequests(EnterRound(u)) IN
         /\ Good(d, n, M) /\ Idle(d) /\ Proceeds(c, d)
         /\ d.sequence = s /\ d.round = r /\ d.chain = c.chain
         /\ ~d.waiting
  <1> DEFINE e == EnterRound(u)
             d == ProcessPendingRequests(e)
  <1> USE DEF Frame, Fields, HasFields
  <1>0. Typed(c) /\ c.sequence \in Nat /\ c.round \in Nat /\ s \in Nat
    BY HeightsNat DEF Good, Sound, Typed, RoundTyped
  <1>1. Sound(u, n, M) /\ Fresh(u, n, M)
    BY UpdatedFresh
  <1>2. Good(e, n, M)
    BY <1>1, EnterRoundGood
  <1>3. HasFields(u)
    BY <1>1 DEF Sound, Typed
  <1>4. /\ Frame(u, e, {"roundChanges", "proposer", "waiting", "state"})
        /\ e.roundChanges = [x \in DOMAIN u.roundChanges |-> {}]
        /\ e.proposer = CalcProposer(Policy, Validators,
                                     GetProposer(u, LastNumber(u)), u.round)
        /\ e.waiting = FALSE /\ e.state = AcceptRequest
    BY <1>3, EnterRoundFields
  <1> HIDE DEF e
  <1>5. /\ Good(d, n, M) /\ StoredLater(d)
        /\ Frame(e, d, {"pendingRequests", "requests"})
    BY <1>2, ProcessPendingGood
  <1> HIDE DEF d
  <1>6. /\ d.sequence = s /\ d.round = r /\ d.chain = c.chain
        /\ d.waiting = FALSE /\ d.state = AcceptRequest
    BY <1>4, <1>5 DEF Updated
  <1>7. KeepsLocked(c, d)
    BY <1>4, <1>5, <1>6 DEF SameLock, KeepsLocked
  <1>8. Advances(c, d)
    BY <1>0, <1>6 DEF Advances
  <1> QED
    BY <1>5, <1>6, <1>7, <1>8 DEF Proceeds, Idle, d, e

LEMMA StartNewRoundGood ==
  ASSUME NEW c, NEW n \in Validators, NEW M, Good(c, n, M), c.out = {},
         NEW r \in Nat, r = 0 \/ c.waiting \/ c.round < r
  PROVE  LET d == StartNewRound(c, n, r) IN
         Good(d, n, M) /\ Proceeds(c, d) /\ d.chain = c.chain
  <1>0. /\ Typed(c) /\ HasFields(c) /\ c.round \in Nat /\ c.sequence \in Heights
        /\ c.sequence \in Nat /\ LastNumber(c) \in Nat /\ LastNumber(c) + 1 \in Heights
        /\ c.sequence <= LastNumber(c) + 1
    BY HeightsNat, HeadHeight DEF Good, Sound, Typed, RoundTyped, Positioned
  <1>1. CASE LastNumber(c) >= c.sequence
    <2> DEFINE u == ToView(c, LastNumber(c) + 1, 0)
    <2>1. Updated(c, u, LastNumber(c) + 1, 0)
      BY <1>0, ToViewFields
    <2>2. StartNewRound(c, n, r) = ProcessPendingRequests(EnterRound(u))
      BY <1>1, Zenon DEF StartNewRound, ToView
    <2> HIDE DEF u
    <2>3. c.sequence < LastNumber(c) + 1 /\ LastNumber(c) + 1 <= LastNumber(c) + 1
      BY <1>0, <1>1
    <2> QED
      BY <1>0, <2>1, <2>2, <2>3, EnteredGood
  <1>2. CASE ~(LastNumber(c) >= c.sequence) /\ RefusesRound(c, r)
    <2>1. StartNewRound(c, n, r) = c
      BY <1>2, Zenon DEF StartNewRound
    <2> QED
      BY <1>0, <2>1, ProceedsStays
  <1>3. CASE ~(LastNumber(c) >= c.sequence) /\ ~RefusesRound(c, r)
    <2> DEFINE u == ToRound(c, r)
               e == ProcessPendingRequests(EnterRound(u))
    <2>0. c.round < r \/ (c.round = r /\ c.waiting)
      BY <1>0, <1>3 DEF RefusesRound
    <2>1. /\ Updated(c, u, c.sequence, r)
          /\ IsHashLocked(c) => SameLock(c, u)
      BY <1>0, ToRoundFields
    <2>2. /\ Good(e, n, M) /\ Idle(e) /\ Proceeds(c, e)
          /\ e.sequence = c.sequence /\ e.round = r /\ e.chain = c.chain
          /\ ~e.waiting
      <3> HIDE DEF u
      <3> QED BY <1>0, <2>0, <2>1, EnteredGood
    <2>3. StartNewRound(c, n, r) =
            IF ~IsProposer(e, n) THEN e
            ELSE IF IsHashLocked(e) THEN SendPreprepare(e, n, e.preprepare)
            ELSE IF e.pendingRequest # NoBlock
                 THEN SendPreprepare(e, n, e.pendingRequest)
            ELSE e
      BY <1>3, Zenon DEF StartNewRound, ToRound
    <2> HIDE DEF e
    <2>4. HasFields(e) /\ e.preprepare \in Hashes /\ e.pendingRequest \in Hashes
      BY <2>2 DEF Good, Sound, Typed, RoundTyped
    <2>5. IsHashLocked(e) => e.preprepare \in Blocks
      BY <2>2, <2>4 DEF Good, Sound, LockFits, IsHashLocked, Hashes
    <2>6. e.pendingRequest # NoBlock => e.pendingRequest \in Blocks
      BY <2>4 DEF Hashes
    <2>7. \/ StartNewRound(c, n, r) = e
          \/ \E b \in Blocks : StartNewRound(c, n, r) = SendPreprepare(e, n, b)
      BY <2>3, <2>5, <2>6
    <2>8. ASSUME NEW d, Good(d, n, M), Frame(e, d, {"out"})
          PROVE  Proceeds(c, d) /\ d.chain = c.chain
      <3>1. /\ d.sequence = e.sequence /\ d.round = e.round
            /\ d.lockedHash = e.lockedHash /\ d.chain = e.chain
            /\ d.waiting = e.waiting /\ d.pendingRequests = e.pendingRequests
        BY <2>8 DEF Frame, Fields
      <3> QED
        BY <2>2, <3>1 DEF Proceeds, Advances, KeepsLocked, StoredLater, View
    <2> QED
      BY <2>2, <2>7, <2>8, SendPreprepareGood
  <1> QED
    BY <1>1, <1>2, <1>3

\* After an empty block the view is new and nothing is locked.
LEMMA StartWhenEmptyGood ==
  ASSUME NEW c, NEW n, NEW M, Good(c, n, M), NEW r \in Nat, c.round < r
  PROVE  LET d == StartNewRoundWhenEmpty(c, r) IN
         /\ Good(d, n, M) /\ d.chain = c.chain
         /\ d.sequence = c.sequence /\ d.round = r
         /\ d.pendingRequests = c.pendingRequests
  <1> DEFINE u == ToView(c, c.sequence, r)
             d == EnterRound(u)
  <1> USE DEF Frame, Fields, HasFields
  <1>0. /\ Typed(c) /\ HasFields(c) /\ c.sequence \in Heights
        /\ c.sequence \in Nat /\ c.round \in Nat
        /\ c.sequence <= LastNumber(c) + 1
    BY HeightsNat DEF Good, Sound, Typed, RoundTyped, Positioned
  <1>1. Updated(c, u, c.sequence, r)
    BY <1>0, ToViewFields
  <1>2. StartNewRoundWhenEmpty(c, r) = d
    BY DEF StartNewRoundWhenEmpty, ToView
  <1> HIDE DEF u
  <1>3. Sound(u, n, M) /\ Fresh(u, n, M) /\ HasFields(u)
    BY <1>0, <1>1, UpdatedFresh DEF Updated
  <1>4. Good(d, n, M)
    BY <1>3, EnterRoundGood
  <1>5. Frame(u, d, {"roundChanges", "proposer", "waiting", "state"})
    BY <1>3, EnterRoundFields
  <1> HIDE DEF d
  <1> QED
    BY <1>0, <1>1, <1>2, <1>4, <1>5 DEF Updated

-----------------------------------------------------------------------------
(* Accepting, locking and voting.                                          *)

\* The fields that the votes and the lock do not depend on.
Neutral ==
    {"lastView", "pendingRequest", "pendingRequests", "roundChanges",
     "proposedBlockHash", "executed", "working", "requests", "sealResults",
     "fetcher"}

LEMMA NeutralGood ==
  ASSUME NEW c, NEW n, NEW M, Good(c, n, M), NEW d, Typed(d), Frame(c, d, Neutral)
  PROVE  Good(d, n, M)
  <1> USE DEF Frame, Fields, HasFields, Neutral
  <1>1. LockFits(d) /\ MessagesSent(d, M) /\ OutFits(d, n, M) /\ OldInChain(d, n, M)
    BY DEF Good, Sound, LockFits, MessagesSent, OutFits, OldInChain,
         IsHashLocked, HasProposal
  <1>2. n \notin Restarting => VotesFit(d, n, M) /\ VotesOnce(M \cup d.out, n)
    BY DEF Good, Sound, VotesFit, View
  <1>3. Idle(d) => Fresh(d, n, M)
    BY DEF Good, Idle, Fresh, NothingCounted, NotVoted, View, IsHashLocked
  <1>4. ~Idle(d) => d.preprepare \in Blocks
    BY DEF Good, Idle
  <1> QED
    BY <1>1, <1>2, <1>3, <1>4 DEF Good, Sound

\* A handler that stays in its view, keeps waiting or not, and stores nothing.
LEMMA ProceedsInView ==
  ASSUME NEW c, Typed(c), NEW d, d.sequence = c.sequence, d.round = c.round,
         d.waiting = c.waiting, d.pendingRequests = c.pendingRequests,
         IsHashLocked(c) => d.lockedHash = c.lockedHash
  PROVE  Proceeds(c, d)
  <1>1. StoredLater(c) => StoredLater(d)
    BY StoredInView
  <1>2. Advances(c, d) /\ KeepsLocked(c, d)
    BY HeightsNat DEF Advances, KeepsLocked, Typed, RoundTyped
  <1> QED
    BY <1>1, <1>2 DEF Proceeds

LEMMA ExecuteBlockGood ==
  ASSUME NEW c, NEW n, NEW M, Good(c, n, M), NEW b \in Blocks
  PROVE  LET d == ExecuteBlock(c, n, b) IN
         Good(d, n, M) /\ Frame(c, d, {"executed"})
  <1> DEFINE d == ExecuteBlock(c, n, b)
  <1> USE DEF Frame, Fields, HasFields
  <1>0. Typed(c) /\ HasFields(c)
    BY DEF Good, Sound, Typed
  <1>1. Frame(c, d, {"executed"}) /\ d.executed \in {c.executed, b, NoBlock}
    BY <1>0 DEF ExecuteBlock
  <1> HIDE DEF d
  <1>2. Typed(d)
    BY <1>0, <1>1 DEF Typed, RoundTyped, IsCore, BackendTyped, Positioned,
         LastNumber, Hashes
  <1>3. Good(d, n, M)
    BY <1>1, <1>2, NeutralGood DEF Neutral
  <1> QED
    BY <1>1, <1>3 DEF d

\* The proposal of a fresh view is accepted, the locked one if there is a lock.
LEMMA AcceptGood ==
  ASSUME NEW c, NEW n, NEW M, Good(c, n, M), c.state = AcceptRequest, ~c.waiting,
         NEW b \in Blocks, IsHashLocked(c) => b = c.lockedHash,
         NEW st \in {Preprepared, Prepared}
  PROVE  LET d == AcceptPreprepare(c, b, st) IN
         /\ Good(d, n, M) /\ ~Idle(d)
         /\ Frame(c, d, {"preprepare", "state"}) /\ d.preprepare = b
  <1> DEFINE d == AcceptPreprepare(c, b, st)
  <1> USE DEF Frame, Fields, HasFields
  <1>0. Typed(c) /\ HasFields(c)
    BY DEF Good, Sound, Typed
  <1>1. Frame(c, d, {"preprepare", "state"}) /\ d.preprepare = b /\ d.state = st
    BY <1>0 DEF AcceptPreprepare
  <1> HIDE DEF d
  <1>2. Fresh(c, n, M)
    BY DEF Good, Idle
  <1>3. Typed(d)
    BY <1>0, <1>1 DEF Typed, RoundTyped, IsCore, BackendTyped, Positioned,
         LastNumber, Hashes
  <1>4. LockFits(d) /\ MessagesSent(d, M) /\ OutFits(d, n, M) /\ OldInChain(d, n, M)
    BY <1>1, <1>2 DEF Good, Sound, LockFits, MessagesSent, OutFits, OldInChain,
         IsHashLocked, HasProposal, Fresh, NothingCounted
  <1>5. n \notin Restarting => VotesFit(d, n, M) /\ VotesOnce(M \cup d.out, n)
    BY <1>1, <1>2 DEF Good, Sound, VotesFit, View, Fresh, NotVoted
  <1>6. ~Idle(d)
    BY <1>1 DEF Idle, AcceptRequest, Preprepared, Prepared
  <1> QED
    BY <1>1, <1>3, <1>4, <1>5, <1>6 DEF Good, Sound, d

LEMMA SendPrepareGood ==
  ASSUME NEW c, NEW n \in Validators, NEW M, Good(c, n, M), ~Idle(c)
  PROVE  LET d == SendPrepare(c, n) IN
         Good(d, n, M) /\ Frame(c, d, {"out"})
  <1> DEFINE m == [type |-> "PREPARE", src |-> n, sequence |-> c.sequence,
                   round |-> c.round, block |-> c.preprepare]
  <1>0. /\ HasFields(c) /\ c.round \in Nat /\ c.sequence \in Heights
        /\ c.preprepare \in Blocks
    BY DEF Good, Sound, Typed, RoundTyped
  <1>1. SendPrepare(c, n) = Broadcast(c, m)
    BY Zenon DEF SendPrepare
  <1>2. m \in Messages(Nat)
    BY <1>0 DEF Messages
  <1>3. /\ m.src = n /\ m.round <= c.round /\ m.block = c.preprepare
        /\ m.type = "PREPARE" /\ ViewOf(m) = View(c)
    BY <1>0 DEF ViewOf, View
  <1> HIDE DEF m
  <1>4. LocksEarlier(m) /\ m.type # "PREPREPARE" /\ m.type # "COMMIT"
    BY <1>3 DEF LocksEarlier
  <1>5. Good(Broadcast(c, m), n, M)
    BY <1>2, <1>3, <1>4, BroadcastGood
  <1> QED
    BY <1>0, <1>1, <1>5, BroadcastFields

LEMMA SendCommitGood ==
  ASSUME NEW c, NEW n \in Validators, NEW M, Good(c, n, M), ~Idle(c)
  PROVE  LET d == SendCommit(c, n) IN
         Good(d, n, M) /\ Frame(c, d, {"out"})
  <1> DEFINE m == [type |-> "COMMIT", src |-> n, sequence |-> c.sequence,
                   round |-> c.round, block |-> c.preprepare,
                   seal |-> c.preprepare, old |-> FALSE]
  <1>0. /\ HasFields(c) /\ c.round \in Nat /\ c.sequence \in Heights
        /\ c.preprepare \in Blocks /\ c.preprepare \in Hashes
    BY DEF Good, Sound, Typed, RoundTyped
  <1>1. SendCommit(c, n) = Broadcast(c, m)
    BY Zenon DEF SendCommit, BroadcastCommit
  <1>2. m \in Messages(Nat)
    BY <1>0 DEF Messages
  <1>3. /\ m.src = n /\ m.round <= c.round /\ m.block = c.preprepare
        /\ m.type = "COMMIT" /\ ViewOf(m) = View(c) /\ m.old = FALSE
    BY <1>0 DEF ViewOf, View
  <1> HIDE DEF m
  <1>4. LocksEarlier(m) /\ m.type # "PREPREPARE" /\ ~m.old
    BY <1>3 DEF LocksEarlier
  <1>5. Good(Broadcast(c, m), n, M)
    BY <1>2, <1>3, <1>4, BroadcastGood
  <1> QED
    BY <1>0, <1>1, <1>5, BroadcastFields

LEMMA SendOldCommitGood ==
  ASSUME NEW c, NEW n \in Validators, NEW M, Good(c, n, M),
         NEW p \in Messages(Rounds), p.type = "PREPREPARE", HasProposal(c, p.block)
  PROVE  LET d == SendCommitForOldBlock(c, n, p) IN
         Good(d, n, M) /\ Frame(c, d, {"out"})
  <1> DEFINE m == [type |-> "COMMIT", src |-> n, sequence |-> p.sequence,
                   round |-> p.round, block |-> p.block,
                   seal |-> c.preprepare, old |-> TRUE]
  <1>0. /\ HasFields(c) /\ c.preprepare \in Hashes
        /\ p.sequence \in Heights /\ p.round \in Rounds /\ p.block \in Blocks
        /\ Rounds \subseteq Nat
    <2>1. Rounds \in SUBSET Nat
      BY DEF Rounds
    <2> QED
      BY <2>1, MessageFacts DEF Good, Sound, Typed, RoundTyped
  <1>1. SendCommitForOldBlock(c, n, p) = Broadcast(c, m)
    BY Zenon DEF SendCommitForOldBlock, BroadcastCommit
  <1>2. m \in Messages(Nat)
    BY <1>0 DEF Messages
  <1>3. /\ m.src = n /\ m.round \in Rounds /\ m.block = p.block
        /\ m.type = "COMMIT" /\ m.old = TRUE
    BY <1>0
  <1> HIDE DEF m
  <1>4. LocksEarlier(m) /\ m.type # "PREPREPARE" /\ ~IsVoteOf(m, n)
    BY <1>3 DEF LocksEarlier, IsVoteOf
  <1>5. Good(Broadcast(c, m), n, M)
    BY <1>2, <1>3, <1>4, BroadcastGood
  <1> QED
    BY <1>0, <1>1, <1>5, BroadcastFields

\* The lock is on the accepted proposal, with the PREPAREs counted for it.
LEMMA LockHashGood ==
  ASSUME NEW c, NEW n, NEW M, Good(c, n, M), ~Idle(c)
  PROVE  LET d == LockHash(c) IN
         /\ Good(d, n, M) /\ ~Idle(d)
         /\ Frame(c, d, {"lockedHash", "lockedRound", "lockedPrepares"})
         /\ d.lockedHash = c.preprepare
  <1> DEFINE d == LockHash(c)
  <1> USE DEF Frame, Fields, HasFields
  <1>0. Typed(c) /\ HasFields(c) /\ c.preprepare \in Blocks
    BY DEF Good, Sound, Typed
  <1>1. c.preprepare # NoBlock
    BY <1>0, CoreBlocks
  <1>2. /\ Frame(c, d, {"lockedHash", "lockedRound", "lockedPrepares"})
        /\ d.lockedHash = c.preprepare /\ d.lockedRound = c.round
        /\ d.lockedPrepares = c.prepares
    BY <1>0, <1>1 DEF LockHash
  <1> HIDE DEF d
  <1>3. Typed(d)
    BY <1>0, <1>2 DEF Typed, RoundTyped, IsCore, BackendTyped, Positioned,
         LastNumber, Hashes
  <1>4. LockFits(d) /\ MessagesSent(d, M) /\ OutFits(d, n, M) /\ OldInChain(d, n, M)
    BY <1>1, <1>2 DEF Good, Sound, LockFits, MessagesSent, OutFits, OldInChain,
         IsHashLocked, HasProposal
  <1>5. n \notin Restarting => VotesFit(d, n, M) /\ VotesOnce(M \cup d.out, n)
    BY <1>2 DEF Good, Sound, VotesFit, View
  <1>6. ~Idle(d)
    BY <1>2 DEF Idle
  <1> QED
    BY <1>0, <1>2, <1>3, <1>4, <1>5, <1>6 DEF Good, Sound, d

LEMMA StateGood ==
  ASSUME NEW c, NEW n, NEW M, Good(c, n, M), ~Idle(c),
         NEW d, Frame(c, d, {"state", "proposedBlockHash"}),
         d.state \in {Prepared, Committed}, d.proposedBlockHash \in Hashes
  PROVE  Good(d, n, M) /\ ~Idle(d)
  <1> USE DEF Frame, Fields, HasFields
  <1>0. Typed(c) /\ HasFields(c) /\ c.preprepare \in Blocks
    BY DEF Good, Sound, Typed
  <1>1. Typed(d)
    BY <1>0 DEF Typed, RoundTyped, IsCore, BackendTyped, Positioned, LastNumber
  <1>2. LockFits(d) /\ MessagesSent(d, M) /\ OutFits(d, n, M) /\ OldInChain(d, n, M)
    BY DEF Good, Sound, LockFits, MessagesSent, OutFits, OldInChain,
         IsHashLocked, HasProposal
  <1>3. n \notin Restarting => VotesFit(d, n, M) /\ VotesOnce(M \cup d.out, n)
    BY DEF Good, Sound, VotesFit, View
  <1>4. ~Idle(d)
    BY DEF Idle, AcceptRequest, Prepared, Committed
  <1> QED
    BY <1>0, <1>1, <1>2, <1>3, <1>4 DEF Good, Sound

-----------------------------------------------------------------------------
(* Committing.                                                             *)

\* A block is only written on top of the chain.
LEMMA WriteBlockGood ==
  ASSUME NEW c, NEW n, NEW M, Good(c, n, M), NEW s \in SealedBlocks
  PROVE  LET d == WriteBlock(c, s) IN
         /\ Good(d, n, M) /\ Frame(c, d, {"chain"})
         /\ Proceeds(c, d)
  <1> DEFINE d == WriteBlock(c, s)
  <1> USE DEF Frame, Fields, HasFields
  <1>0. /\ Typed(c) /\ HasFields(c) /\ c.chain \in Seq(SealedBlocks)
        /\ c.sequence \in Nat
    BY HeightsNat DEF Good, Sound, Typed, BackendTyped, RoundTyped
  <1>1. CASE s.block.number # LastNumber(c) + 1
    BY <1>0, <1>1, ProceedsStays DEF WriteBlock
  <1>2. CASE s.block.number = LastNumber(c) + 1
    <2>1. Frame(c, d, {"chain"}) /\ d.chain = Append(c.chain, s)
      BY <1>0, <1>2 DEF WriteBlock
    <2> HIDE DEF d
    <2>2. /\ d.chain \in Seq(SealedBlocks) /\ Len(d.chain) = Len(c.chain) + 1
          /\ Len(c.chain) \in Nat
          /\ \A h \in 1 .. Len(c.chain) : d.chain[h] = c.chain[h]
          /\ d.chain[Len(c.chain) + 1] = s
          /\ DOMAIN d.chain = 1 .. Len(c.chain) + 1
          /\ DOMAIN c.chain = 1 .. Len(c.chain)
      BY <1>0, <2>1
    <2>3. \A h \in DOMAIN d.chain : d.chain[h].block.number = h
      BY <1>0, <1>2, <2>2 DEF Typed, BackendTyped, LastNumber
    <2>4. \A b : HasProposal(c, b) => HasProposal(d, b)
      BY <2>2 DEF HasProposal
    <2>5. Positioned(d)
      BY <1>0, <2>1, <2>2 DEF Typed, Positioned, LastNumber
    <2>6. Typed(d)
      BY <1>0, <2>1, <2>2, <2>3, <2>5 DEF Typed, RoundTyped, IsCore, BackendTyped
    <2>7. LockFits(d) /\ MessagesSent(d, M) /\ OutFits(d, n, M)
      BY <2>1 DEF Good, Sound, LockFits, MessagesSent, OutFits, IsHashLocked
    <2>8. OldInChain(d, n, M)
      BY <2>1, <2>4 DEF Good, Sound, OldInChain
    <2>9. n \notin Restarting => VotesFit(d, n, M) /\ VotesOnce(M \cup d.out, n)
      BY <2>1 DEF Good, Sound, VotesFit, View
    <2>10. Idle(d) => Fresh(d, n, M)
      BY <2>1 DEF Good, Idle, Fresh, NothingCounted, NotVoted, View, IsHashLocked
    <2>11. ~Idle(d) => d.preprepare \in Blocks
      BY <2>1 DEF Good, Idle
    <2>12. Proceeds(c, d)
      BY <1>0, <2>1, ProceedsInView
    <2> QED
      BY <2>1, <2>6, <2>7, <2>8, <2>9, <2>10, <2>11, <2>12 DEF Good, Sound, d
  <1> QED
    BY <1>1, <1>2

\* Committing a block that can be stored keeps the lock; discarding an empty
\* one, or failing to write one, gives up the lock and goes to another round.
LEMMA CommitGood ==
  ASSUME NEW c, NEW n \in Validators, NEW M, Good(c, n, M), ~Idle(c),
         c.out = {}, NEW outcome \in CommitOutcomes
  PROVE  LET d == Commit(c, n, outcome) IN
         /\ Good(d, n, M) /\ Advances(c, d)
         /\ outcome = "ok" /\ c.preprepare \notin EmptyBlocks => KeepsLocked(c, d)
         /\ EmptyBlocks = {} /\ StoredLater(c) => StoredLater(d)
  <1> DEFINE mine == c.proposedBlockHash = c.preprepare
             result == WithCommittedSeals(c.preprepare, c.commits)
             done == [c EXCEPT !.state = Committed,
                               !.proposedBlockHash = IF mine THEN NoBlock ELSE @]
             d == Commit(c, n, outcome)
  <1> USE DEF Frame, Fields, HasFields
  <1>0. /\ Typed(c) /\ HasFields(c) /\ c.preprepare \in Blocks
        /\ c.commits \in Sealings /\ c.proposedBlockHash \in Hashes
        /\ c.sequence \in Nat \ {0} /\ c.round \in Nat
    BY HeightsNat DEF Good, Sound, Typed, RoundTyped, BackendTyped
  <1>1. /\ Frame(c, done, {"state", "proposedBlockHash"})
        /\ done.state = Committed
        /\ done.proposedBlockHash \in {c.proposedBlockHash, NoBlock}
    BY <1>0
  <1>2. d = IF Discards(c, outcome) THEN AfterDiscard(done)
            ELSE IF mine THEN [done EXCEPT !.sealResults = @ \cup {result}]
            ELSE IF c.executed # c.preprepare
                 THEN [done EXCEPT !.fetcher = @ \cup {result}]
            ELSE IF outcome = "failed" THEN AfterFailure(done, n)
            ELSE WriteBlock(done, result)
    BY Zenon DEF Commit
  <1>3. result \in SealedBlocks
    BY <1>0 DEF WithCommittedSeals, SealedBlocks
  <1> HIDE DEF mine, result, done, d
  <1>4. Good(done, n, M) /\ ~Idle(done) /\ Typed(done) /\ HasFields(done)
    <2>1. done.proposedBlockHash \in Hashes
      BY <1>0, <1>1 DEF Hashes
    <2>2. Good(done, n, M) /\ ~Idle(done)
      BY <1>1, <2>1, StateGood
    <2> QED
      BY <2>2 DEF Good, Sound, Typed
  <1>5. /\ done.sequence = c.sequence /\ done.round = c.round
        /\ done.waiting = c.waiting /\ done.chain = c.chain
        /\ done.pendingRequests = c.pendingRequests
        /\ done.lockedHash = c.lockedHash
    BY <1>1
  <1>6. ASSUME NEW e, Good(e, n, M), Frame(done, e, {"sealResults", "fetcher", "chain"})
        PROVE  Good(e, n, M) /\ Proceeds(c, e)
    BY <1>0, <1>5, <1>6, ProceedsInView
  <1>7. ASSUME NEW e, Frame(done, e, {"sealResults", "fetcher"}),
               e.sealResults \subseteq done.sealResults \cup {result},
               e.fetcher \subseteq done.fetcher \cup {result}
        PROVE  Good(e, n, M) /\ Proceeds(c, e)
    <2>1. Typed(e)
      BY <1>3, <1>4, <1>7 DEF Typed, RoundTyped, IsCore, BackendTyped,
           Positioned, LastNumber
    <2>2. Good(e, n, M)
      BY <1>4, <1>7, <2>1, NeutralGood DEF Neutral
    <2> QED
      BY <1>6, <1>7, <2>2
  <1>8. CASE Discards(c, outcome)
    <2> DEFINE u == UnlockHash(done)
    <2>1. Good(u, n, M)
      BY <1>4, UnlockHashGood
    <2>2. Frame(done, u, {"lockedHash", "lockedRound", "lockedPrepares"})
      BY <1>4, UnlockHashFields
    <2>3. d = StartNewRoundWhenEmpty(u, c.round + 1)
      BY <1>2, <1>5, <1>8 DEF AfterDiscard
    <2> HIDE DEF u
    <2>4. u.round = c.round /\ u.sequence = c.sequence /\ c.round + 1 \in Nat
      BY <1>0, <1>5, <2>2
    <2>5. /\ Good(d, n, M) /\ d.chain = u.chain
          /\ d.sequence = c.sequence /\ d.round = c.round + 1
          /\ d.pendingRequests = u.pendingRequests
      BY <2>1, <2>3, <2>4, <1>0, StartWhenEmptyGood
    <2>6. Advances(c, d)
      BY <1>0, <2>5 DEF Advances
    <2>7. outcome = "ok" => c.preprepare \in EmptyBlocks
      BY <1>8 DEF Discards
    <2>8. ASSUME EmptyBlocks = {} PROVE StoredLater(d)
      <3>1. LastNumber(c) = 0
        BY <1>8, <2>8 DEF Discards
      <3>2. d.sequence = 1
        BY <1>0, <2>5, <3>1 DEF Typed, Positioned
      <3>3. \A p \in d.pendingRequests :
                p.block.number > 1 /\ p.block \in Blocks /\ p.block.number \in Nat
        BY <1>0, <1>5, <2>2, <2>5, CoreBlocks DEF Typed, Positioned, IsCore
      <3> QED
        BY <3>2, <3>3 DEF StoredLater, Before, View
    <2> QED
      BY <2>5, <2>6, <2>7, <2>8 DEF d
  <1>9. CASE ~Discards(c, outcome) /\ mine
    <2> DEFINE e == [done EXCEPT !.sealResults = @ \cup {result}]
    <2>1. /\ Frame(done, e, {"sealResults", "fetcher"}) /\ e.fetcher = done.fetcher
          /\ e.sealResults = done.sealResults \cup {result}
      BY <1>4
    <2>2. d = e
      BY <1>2, <1>9
    <2> HIDE DEF e
    <2> QED
      BY <1>7, <2>1, <2>2 DEF Proceeds, d
  <1>10. CASE ~Discards(c, outcome) /\ ~mine /\ c.executed # c.preprepare
    <2> DEFINE e == [done EXCEPT !.fetcher = @ \cup {result}]
    <2>1. /\ Frame(done, e, {"sealResults", "fetcher"})
          /\ e.sealResults = done.sealResults
          /\ e.fetcher = done.fetcher \cup {result}
      BY <1>4
    <2>2. d = e
      BY <1>2, <1>10
    <2> HIDE DEF e
    <2> QED
      BY <1>7, <2>1, <2>2 DEF Proceeds, d
  <1>11. CASE /\ ~Discards(c, outcome) /\ ~mine /\ c.executed = c.preprepare
              /\ outcome = "failed"
    <2> DEFINE u == UnlockHash(done)
    <2>1. Good(u, n, M)
      BY <1>4, UnlockHashGood
    <2>2. Frame(done, u, {"lockedHash", "lockedRound", "lockedPrepares"})
      BY <1>4, UnlockHashFields
    <2>3. d = SendRoundChange(u, n, u.round + 1)
      BY <1>2, <1>11 DEF AfterFailure, SendNextRoundChange
    <2> HIDE DEF u
    <2>4. u.round = c.round /\ u.sequence = c.sequence /\ u.round + 1 \in Nat
      BY <1>0, <1>5, <2>2
    <2>5. /\ Good(d, n, M)
          /\ d = u \/ (u.round < u.round + 1 /\ d.round = u.round + 1
                       /\ d.sequence = u.sequence /\ d.waiting)
          /\ Proceeds(u, d)
      BY <2>1, <2>3, <2>4, SendRoundChangeGood
    <2>6. Advances(c, d) /\ (StoredLater(u) => StoredLater(d))
      BY <2>4, <2>5 DEF Proceeds, Advances
    <2>7. StoredLater(c) => StoredLater(u)
      BY <1>5, <2>2, <2>4 DEF StoredLater, View
    <2> QED
      BY <1>11, <2>5, <2>6, <2>7 DEF d
  <1>12. CASE /\ ~Discards(c, outcome) /\ ~mine /\ c.executed = c.preprepare
              /\ outcome # "failed"
    <2>1. d = WriteBlock(done, result)
      BY <1>2, <1>12
    <2>2. Good(d, n, M) /\ Frame(done, d, {"chain"})
      BY <1>3, <1>4, <2>1, WriteBlockGood
    <2> QED
      BY <1>6, <2>2 DEF Proceeds, d
  <1> QED
    BY <1>8, <1>9, <1>10, <1>11, <1>12

-----------------------------------------------------------------------------
(* The handlers.                                                           *)

LEMMA RoundsNat == Rounds \in SUBSET Nat
  BY DEF Rounds

LEMMA HandleRequestGood ==
  ASSUME NEW c, NEW n \in Validators, NEW M, Good(c, n, M), c.round \in Rounds,
         NEW b \in Blocks
  PROVE  LET d == HandleRequest(c, n, b) IN Good(d, n, M) /\ Proceeds(c, d)
  <1> DEFINE d == HandleRequest(c, n, b)
  <1> USE DEF Frame, Fields, HasFields
  <1>0. /\ Typed(c) /\ HasFields(c) /\ c.sequence \in Nat \ {0} /\ c.round \in Nat
        /\ b.number \in Nat
    BY HeightsNat, CoreBlocks DEF Good, Sound, Typed, RoundTyped
  <1>1. CASE b.number < c.sequence
    BY <1>0, <1>1, ProceedsStays DEF HandleRequest
  <1>2. CASE b.number > c.sequence
    <2> DEFINE p == [block |-> b, round |-> c.round]
    <2>1. d = [c EXCEPT !.pendingRequests = @ \cup {p}]
      BY <1>0, <1>2 DEF HandleRequest
    <2>2. p.block = b /\ p.round = c.round
      OBVIOUS
    <2> HIDE DEF d, p
    <2>3. /\ Frame(c, d, {"pendingRequests"})
          /\ d.pendingRequests = c.pendingRequests \cup {p}
      BY <1>0, <2>1
    <2>4. Typed(d)
      <3>1. \A q \in d.pendingRequests :
                q.block \in Blocks /\ q.round \in Rounds /\ q.block.number > 1
        BY <1>0, <1>2, <2>2, <2>3 DEF Typed, IsCore, Positioned
      <3>2. IsCore(d) /\ Positioned(d)
        BY <1>0, <2>3, <3>1 DEF Typed, IsCore, Positioned, LastNumber
      <3> QED
        BY <1>0, <2>3, <3>2 DEF Typed, RoundTyped, BackendTyped
    <2>5. Good(d, n, M)
      BY <2>3, <2>4, NeutralGood DEF Neutral
    <2>6. Proceeds(c, d)
      BY <1>0, <1>2, <2>2, <2>3 DEF Proceeds, Advances, KeepsLocked, StoredLater,
           Before, View
    <2> QED BY <2>5, <2>6 DEF d
  <1>3. CASE b.number = c.sequence
    <2> DEFINE e == [c EXCEPT !.pendingRequest = b]
    <2>1. d = IF c.state = AcceptRequest THEN SendPreprepare(e, n, b) ELSE e
      BY <1>0, <1>3 DEF HandleRequest
    <2>2. Frame(c, e, {"pendingRequest"}) /\ e.pendingRequest = b
      BY <1>0
    <2> HIDE DEF d, e
    <2>3. Typed(e)
      BY <1>0, <2>2 DEF Typed, RoundTyped, IsCore, BackendTyped, Positioned,
           LastNumber, Hashes
    <2>4. Good(e, n, M)
      BY <2>2, <2>3, NeutralGood DEF Neutral
    <2>5. c.state = AcceptRequest => Idle(e)
      BY <2>2 DEF Idle
    <2>6. Good(d, n, M) /\ Frame(e, d, {"out"})
      BY <2>1, <2>2, <2>4, <2>5, SendPreprepareGood
    <2>7. Proceeds(c, d)
      BY <1>0, <2>2, <2>6, ProceedsInView
    <2> QED BY <2>6, <2>7 DEF d
  <1> QED
    BY <1>0, <1>1, <1>2, <1>3

LEMMA CheckMessageOk ==
  ASSUME NEW c, NEW m, CheckMessage(c, m) = "ok", m.type # "ROUNDCHANGE",
         c.sequence \in Nat, c.round \in Nat, m.sequence \in Nat, m.round \in Nat
  PROVE  /\ m.sequence = c.sequence /\ m.round = c.round /\ ~c.waiting
         /\ m.type # "PREPREPARE" => c.state # AcceptRequest
  BY DEF CheckMessage, Before, View

\* What releases a lock: a PRE-PREPARE of the view for another block, with a
\* quorum of PREPAREs of the round of the lock or of a later one.
Releases(c, m) ==
    /\ m.type = "PREPREPARE" /\ m.sequence = c.sequence /\ m.round = c.round
    /\ m.block # c.lockedHash /\ CarriesLock(c, m)
    /\ IsQuorum(Validators, m.lockedPrepares)

LEMMA AcceptProposalGood ==
  ASSUME NEW c, NEW n \in Validators, NEW M, Good(c, n, M),
         c.state = AcceptRequest, ~c.waiting,
         NEW m \in Messages(Rounds), m.type = "PREPREPARE",
         m.sequence = c.sequence, m.round = c.round
  PROVE  LET d == AcceptProposal(c, n, m) IN
         /\ Good(d, n, M) /\ Advances(c, d) /\ (StoredLater(c) => StoredLater(d))
         /\ KeepsLocked(c, d) \/ Releases(c, m)
  <1> DEFINE d == AcceptProposal(c, n, m)
  <1> USE DEF Frame, Fields, HasFields
  <1>0. /\ Typed(c) /\ HasFields(c) /\ c.sequence \in Nat /\ c.round \in Nat
        /\ m.block \in Blocks
    BY HeightsNat, RoundsNat, MessageFacts DEF Good, Sound, Typed, RoundTyped
  <1>1. CASE ~IsHashLocked(c)
    <2> DEFINE e == AcceptPreprepare(c, m.block, Preprepared)
    <2>1. d = SendPrepare(e, n)
      BY <1>1 DEF AcceptProposal
    <2>2. /\ Good(e, n, M) /\ ~Idle(e) /\ Frame(c, e, {"preprepare", "state"})
      BY <1>0, <1>1, AcceptGood
    <2> HIDE DEF e, d
    <2>3. Good(d, n, M) /\ Frame(e, d, {"out"})
      BY <2>1, <2>2, SendPrepareGood
    <2>4. Proceeds(c, d)
      BY <1>0, <2>2, <2>3, ProceedsInView
    <2> QED BY <2>3, <2>4 DEF Proceeds, d
  <1>2. CASE IsHashLocked(c) /\ m.block = c.lockedHash
    <2> DEFINE e == AcceptPreprepare(c, m.block, Prepared)
    <2>1. d = SendCommit(e, n)
      BY <1>2 DEF AcceptProposal
    <2>2. /\ Good(e, n, M) /\ ~Idle(e) /\ Frame(c, e, {"preprepare", "state"})
      BY <1>0, <1>2, AcceptGood
    <2> HIDE DEF e, d
    <2>3. Good(d, n, M) /\ Frame(e, d, {"out"})
      BY <2>1, <2>2, SendCommitGood
    <2>4. Proceeds(c, d)
      BY <1>0, <2>2, <2>3, ProceedsInView
    <2> QED BY <2>3, <2>4 DEF Proceeds, d
  <1>3. CASE /\ IsHashLocked(c) /\ m.block # c.lockedHash /\ CarriesLock(c, m)
             /\ ~IsQuorum(Validators, m.lockedPrepares)
    <2>1. d = c
      BY <1>3 DEF AcceptProposal, HandlePOLPreprepare
    <2> QED BY <1>0, <2>1, ProceedsStays DEF Proceeds
  <1>4. CASE /\ IsHashLocked(c) /\ m.block # c.lockedHash /\ CarriesLock(c, m)
             /\ IsQuorum(Validators, m.lockedPrepares)
    <2> DEFINE u == UnlockHash(c)
               e == AcceptPreprepare(u, m.block, Preprepared)
    <2>1. d = SendPrepare(e, n)
      BY <1>4 DEF AcceptProposal, HandlePOLPreprepare
    <2>2. Good(u, n, M)
      BY UnlockHashGood
    <2>3. /\ Frame(c, u, {"lockedHash", "lockedRound", "lockedPrepares"})
          /\ u.lockedHash = NoBlock
      BY <1>0, UnlockHashFields
    <2> HIDE DEF u
    <2>4. u.state = AcceptRequest /\ ~u.waiting /\ ~IsHashLocked(u)
      BY <2>3 DEF IsHashLocked
    <2>5. Good(e, n, M) /\ ~Idle(e) /\ Frame(u, e, {"preprepare", "state"})
      BY <1>0, <2>2, <2>4, AcceptGood
    <2> HIDE DEF e, d
    <2>6. Good(d, n, M) /\ Frame(e, d, {"out"})
      BY <2>1, <2>5, SendPrepareGood
    <2>7. /\ d.sequence = c.sequence /\ d.round = c.round
          /\ d.waiting = c.waiting /\ d.pendingRequests = c.pendingRequests
      BY <2>3, <2>5, <2>6
    <2>8. Advances(c, d) /\ (StoredLater(c) => StoredLater(d))
      BY <1>0, <2>7, StoredInView DEF Advances
    <2>9. Releases(c, m)
      BY <1>4 DEF Releases
    <2> QED BY <2>6, <2>8, <2>9 DEF d
  <1>5. CASE IsHashLocked(c) /\ m.block # c.lockedHash /\ ~CarriesLock(c, m)
    <2>1. d = SendRoundChange(c, n, c.round + 1)
      BY <1>5 DEF AcceptProposal, SendNextRoundChange
    <2>2. c.round + 1 \in Nat
      BY <1>0
    <2> QED BY <2>1, <2>2, SendRoundChangeGood DEF Proceeds
  <1> QED
    BY <1>1, <1>2, <1>3, <1>4, <1>5

LEMMA HandlePreprepareGood ==
  ASSUME NEW c, NEW n \in Validators, NEW M, Good(c, n, M),
         NEW m \in Messages(Rounds), m.type = "PREPREPARE"
  PROVE  LET d == HandlePreprepare(c, n, m) IN
         /\ Good(d, n, M) /\ Advances(c, d) /\ (StoredLater(c) => StoredLater(d))
         /\ KeepsLocked(c, d) \/ Releases(c, m)
  <1> DEFINE d == HandlePreprepare(c, n, m)
             e == ExecuteBlock(c, n, m.block)
  <1> USE DEF Frame, Fields, HasFields
  <1>0. /\ Typed(c) /\ HasFields(c) /\ c.sequence \in Nat /\ c.round \in Nat
        /\ m.block \in Blocks /\ m.sequence \in Nat /\ m.round \in Nat
    BY HeightsNat, RoundsNat, MessageFacts DEF Good, Sound, Typed, RoundTyped
  <1>1. CASE CheckMessage(c, m) = "old"
    <2>1. d = c \/ (HasProposal(c, m.block) /\ d = SendCommitForOldBlock(c, n, m))
      BY <1>1 DEF HandlePreprepare, HandleOldPreprepare, AnswersOld
    <2> HIDE DEF d
    <2>2. Good(d, n, M) /\ Frame(c, d, {"out"})
      BY <1>0, <2>1, SendOldCommitGood
    <2>3. Proceeds(c, d)
      BY <1>0, <2>2, ProceedsInView
    <2> QED BY <2>2, <2>3 DEF Proceeds, d
  <1>2. CASE CheckMessage(c, m) # "old" /\ (CheckMessage(c, m) # "ok" \/ m.src # c.proposer)
    <2>1. d = c
      BY <1>2 DEF HandlePreprepare
    <2> QED BY <1>0, <2>1, ProceedsStays DEF Proceeds
  <1>3. CASE CheckMessage(c, m) = "ok" /\ m.src = c.proposer
    <2>1. d = IF ~Verify(c, n, m.block) THEN SendNextRoundChange(e, n)
              ELSE IF MayAccept(c) THEN AcceptProposal(e, n, m)
              ELSE e
      BY <1>3, Zenon DEF HandlePreprepare
    <2>2. m.sequence = c.sequence /\ m.round = c.round /\ ~c.waiting
      BY <1>0, <1>3, CheckMessageOk
    <2>3. Good(e, n, M) /\ Frame(c, e, {"executed"})
      BY <1>0, ExecuteBlockGood
    <2> HIDE DEF e, d
    <2>4. /\ e.sequence = c.sequence /\ e.round = c.round /\ e.waiting = c.waiting
          /\ e.lockedHash = c.lockedHash /\ e.lockedRound = c.lockedRound
          /\ e.pendingRequests = c.pendingRequests /\ e.state = c.state
      BY <2>3
    <2>5. ASSUME NEW f, Advances(e, f), StoredLater(e) => StoredLater(f),
                 KeepsLocked(e, f) \/ Releases(e, m)
          PROVE  /\ Advances(c, f) /\ (StoredLater(c) => StoredLater(f))
                 /\ KeepsLocked(c, f) \/ Releases(c, m)
      BY <2>4, <2>5 DEF Advances, StoredLater, View, KeepsLocked, IsHashLocked,
           Releases, CarriesLock
    <2>6. CASE ~Verify(c, n, m.block)
      <3>1. d = SendRoundChange(e, n, e.round + 1) /\ e.round + 1 \in Nat
        BY <1>0, <2>1, <2>4, <2>6 DEF SendNextRoundChange
      <3>2. Good(d, n, M) /\ Proceeds(e, d)
        BY <2>3, <3>1, SendRoundChangeGood
      <3> QED BY <2>5, <3>2 DEF Proceeds, d
    <2>7. CASE Verify(c, n, m.block) /\ MayAccept(c)
      <3>1. d = AcceptProposal(e, n, m) /\ e.state = AcceptRequest /\ ~e.waiting
        BY <2>1, <2>2, <2>4, <2>7 DEF MayAccept
      <3>2. m.sequence = e.sequence /\ m.round = e.round
        BY <2>2, <2>4
      <3>3. /\ Good(d, n, M) /\ Advances(e, d) /\ (StoredLater(e) => StoredLater(d))
            /\ KeepsLocked(e, d) \/ Releases(e, m)
        BY <2>3, <3>1, <3>2, AcceptProposalGood
      <3> QED BY <2>5, <3>3 DEF d
    <2>8. CASE Verify(c, n, m.block) /\ ~MayAccept(c)
      <3>1. d = e
        BY <2>1, <2>8
      <3>2. Typed(e)
        BY <2>3 DEF Good, Sound
      <3> QED BY <2>3, <2>5, <3>1, <3>2, ProceedsStays DEF Proceeds, d
    <2> QED
      BY <2>6, <2>7, <2>8
  <1> QED
    BY <1>1, <1>2, <1>3

LEMMA MatchesSubjectFacts ==
  ASSUME NEW c, NEW n, NEW M, Good(c, n, M), NEW m \in Messages(Rounds),
         m.type \in {"PREPARE", "COMMIT"}, MatchesSubject(c, m)
  PROVE  /\ m.sequence = c.sequence /\ m.round = c.round /\ ~Idle(c)
         /\ m.block = c.preprepare
  <1>0. /\ c.sequence \in Nat /\ c.round \in Nat
        /\ m.sequence \in Nat /\ m.round \in Nat
    BY HeightsNat, RoundsNat, MessageFacts DEF Good, Sound, Typed, RoundTyped
  <1>1. CheckMessage(c, m) = "ok" /\ m.block = c.preprepare
        /\ m.type # "ROUNDCHANGE" /\ m.type # "PREPREPARE"
    BY DEF MatchesSubject
  <1> QED
    BY <1>0, <1>1, CheckMessageOk DEF Idle

\* PREPAREs are counted once for each sender, and so are those of the lock.
LEMMA HandlePrepareGood ==
  ASSUME NEW c, NEW n \in Validators, NEW M, Good(c, n, M),
         NEW m \in Messages(Rounds), m.type = "PREPARE", m \in M
  PROVE  LET d == HandlePrepare(c, n, m) IN Good(d, n, M) /\ Proceeds(c, d)
  <1> DEFINE shared == IsHashLocked(c) /\ c.lockedRound = c.round
             e == [c EXCEPT !.prepares = @ \cup {m.src},
                            !.lockedPrepares = IF shared THEN @ \cup {m.src} ELSE @]
             enough == \/ IsHashLocked(e) /\ m.block = e.lockedHash
                       \/ GetPrepareOrCommitSize(e) >= Threshold(Validators)
             f == [LockHash(e) EXCEPT !.state = Prepared]
             d == HandlePrepare(c, n, m)
  <1> USE DEF Frame, Fields, HasFields
  <1>0. /\ Typed(c) /\ HasFields(c) /\ m.src \in Validators
        /\ m = PrepareOf(m.src, m.sequence, m.round, m.block)
    BY RoundsNat, MessageFacts DEF Good, Sound, Typed
  <1>1. CASE ~MatchesSubject(c, m)
    <2>1. d = c
      BY <1>1 DEF HandlePrepare
    <2> QED BY <1>0, <2>1, ProceedsStays
  <1>2. CASE MatchesSubject(c, m)
    <2>1. d = IF enough /\ c.state < Prepared THEN SendCommit(f, n) ELSE e
      BY <1>2, Zenon DEF HandlePrepare
    <2>2. /\ m.sequence = c.sequence /\ m.round = c.round /\ ~Idle(c)
          /\ m.block = c.preprepare
      BY <1>2, MatchesSubjectFacts
    <2>3. /\ Frame(c, e, {"prepares", "lockedPrepares"})
          /\ e.prepares = c.prepares \cup {m.src}
          /\ \/ e.lockedPrepares = c.lockedPrepares
             \/ /\ IsHashLocked(c) /\ c.lockedRound = c.round
                /\ e.lockedPrepares = c.lockedPrepares \cup {m.src}
      BY <1>0
    <2> HIDE DEF e, enough, d, shared
    <2>4. Typed(e)
      BY <1>0, <2>3 DEF Typed, RoundTyped, IsCore, BackendTyped, Positioned, LastNumber
    <2>5. LockFits(e) /\ OutFits(e, n, M) /\ OldInChain(e, n, M)
      BY <2>3 DEF Good, Sound, LockFits, OutFits, OldInChain, IsHashLocked, HasProposal
    <2>6. MessagesSent(e, M)
      <3>1. PrepareOf(m.src, c.sequence, c.round, c.preprepare) \in M
        BY <1>0, <2>2
      <3>2. IsHashLocked(c) => c.lockedHash = c.preprepare
        BY DEF Good, Sound, LockFits
      <3>3. MessagesSent(c, M)
        BY DEF Good, Sound
      <3> QED
        BY <2>3, <3>1, <3>2, <3>3 DEF MessagesSent
    <2>7. n \notin Restarting => VotesFit(e, n, M) /\ VotesOnce(M \cup e.out, n)
      BY <2>3 DEF Good, Sound, VotesFit, View
    <2>8. ~Idle(e) /\ e.preprepare \in Blocks
      BY <2>2, <2>3 DEF Idle, Good
    <2>9. Good(e, n, M)
      BY <2>4, <2>5, <2>6, <2>7, <2>8 DEF Good, Sound
    <2>10. /\ Good(LockHash(e), n, M) /\ ~Idle(LockHash(e))
           /\ Frame(e, LockHash(e), {"lockedHash", "lockedRound", "lockedPrepares"})
           /\ LockHash(e).lockedHash = e.preprepare
      BY <2>8, <2>9, LockHashGood
    <2>11. Frame(LockHash(e), f, {"state", "proposedBlockHash"}) /\ f.state = Prepared
           /\ f.proposedBlockHash = LockHash(e).proposedBlockHash
      BY <2>10
    <2>12. LockHash(e).proposedBlockHash \in Hashes
      BY <2>10 DEF Good, Sound, Typed, BackendTyped
    <2> HIDE DEF f
    <2>13. Good(f, n, M) /\ ~Idle(f)
      BY <2>10, <2>11, <2>12, StateGood
    <2>14. Good(SendCommit(f, n), n, M) /\ Frame(f, SendCommit(f, n), {"out"})
      BY <2>13, SendCommitGood
    <2>15. IsHashLocked(c) => c.preprepare = c.lockedHash
      BY DEF Good, Sound, LockFits
    <2>16. Proceeds(c, e)
      BY <1>0, <2>3, ProceedsInView
    <2>17. /\ SendCommit(f, n).sequence = c.sequence
           /\ SendCommit(f, n).round = c.round
           /\ SendCommit(f, n).waiting = c.waiting
           /\ SendCommit(f, n).pendingRequests = c.pendingRequests
           /\ SendCommit(f, n).lockedHash = c.preprepare
      BY <2>3, <2>10, <2>11, <2>14
    <2>18. Proceeds(c, SendCommit(f, n))
      BY <1>0, <2>15, <2>17, ProceedsInView
    <2> QED
      BY <2>1, <2>9, <2>14, <2>16, <2>18 DEF d
  <1> QED
    BY <1>1, <1>2

\* A COMMIT for the accepted proposal is counted.
LEMMA AddCommitGood ==
  ASSUME NEW c, NEW n, NEW M, Good(c, n, M), ~Idle(c), NEW m,
         m.src \in Validators, m.seal \in Hashes
  PROVE  LET e == [c EXCEPT !.commits = AddMessage(@, m)] IN
         /\ Good(e, n, M) /\ Frame(c, e, {"commits"})
         /\ e.commits = AddMessage(c.commits, m)
  <1> DEFINE e == [c EXCEPT !.commits = AddMessage(@, m)]
  <1> USE DEF Frame, Fields, HasFields
  <1>0. Typed(c) /\ HasFields(c) /\ c.commits \in Sealings
    BY DEF Good, Sound, Typed, RoundTyped
  <1>1. AddMessage(c.commits, m) \in Sealings
    <2>1. PICK S \in SUBSET Validators : c.commits \in [S -> Hashes]
      BY <1>0 DEF Sealings
    <2>2. AddMessage(c.commits, m) \in [S \cup {m.src} -> Hashes]
      BY <1>0, <2>1 DEF AddMessage
    <2>3. S \cup {m.src} \in SUBSET Validators
      BY <1>0
    <2> QED BY <2>2, <2>3 DEF Sealings
  <1>2. Frame(c, e, {"commits"}) /\ e.commits = AddMessage(c.commits, m)
    BY <1>0
  <1> HIDE DEF e
  <1>3. Typed(e)
    BY <1>0, <1>1, <1>2 DEF Typed, RoundTyped, IsCore, BackendTyped, Positioned,
         LastNumber
  <1>4. LockFits(e) /\ MessagesSent(e, M) /\ OutFits(e, n, M) /\ OldInChain(e, n, M)
    BY <1>2 DEF Good, Sound, LockFits, MessagesSent, OutFits, OldInChain,
         IsHashLocked, HasProposal
  <1>5. n \notin Restarting => VotesFit(e, n, M) /\ VotesOnce(M \cup e.out, n)
    BY <1>2 DEF Good, Sound, VotesFit, View
  <1>6. ~Idle(e) /\ e.preprepare \in Blocks
    BY <1>2 DEF Idle, Good
  <1>7. Good(e, n, M)
    BY <1>3, <1>4, <1>5, <1>6 DEF Good, Sound
  <1> QED BY <1>2, <1>7 DEF e

LEMMA HandleCommitGood ==
  ASSUME NEW c, NEW n \in Validators, NEW M, Good(c, n, M), c.out = {},
         NEW m \in Messages(Rounds), m.type = "COMMIT",
         NEW outcome \in CommitOutcomes
  PROVE  LET d == HandleCommit(c, n, m, outcome) IN
         /\ Good(d, n, M) /\ Advances(c, d)
         /\ outcome = "ok" /\ c.lockedHash \notin EmptyBlocks => KeepsLocked(c, d)
         /\ EmptyBlocks = {} /\ StoredLater(c) => StoredLater(d)
  <1> DEFINE e == [c EXCEPT !.commits = AddMessage(@, m)]
             l == LockHash(e)
             d == HandleCommit(c, n, m, outcome)
  <1> USE DEF Frame, Fields, HasFields
  <1>0. /\ Typed(c) /\ HasFields(c) /\ m.src \in Validators /\ m.seal \in Hashes
        /\ c.commits \in Sealings
    BY RoundsNat, MessageFacts DEF Good, Sound, Typed, RoundTyped
  <1>1. CASE ~MatchesSubject(c, m)
    <2>1. d = c
      BY <1>1 DEF HandleCommit
    <2> QED BY <1>0, <2>1, ProceedsStays DEF Proceeds
  <1>2. CASE MatchesSubject(c, m)
    <2>1. d = IF IsQuorum(Validators, DOMAIN e.commits) /\ c.state < Committed
              THEN Commit(l, n, outcome) ELSE e
      BY <1>2, Zenon DEF HandleCommit
    <2>2. /\ m.sequence = c.sequence /\ m.round = c.round /\ ~Idle(c)
          /\ m.block = c.preprepare
      BY <1>2, MatchesSubjectFacts
    <2>3. m.src \in Validators /\ m.seal \in Hashes
      BY <1>0
    <2>4. /\ Good(e, n, M) /\ Frame(c, e, {"commits"})
          /\ e.commits = AddMessage(c.commits, m)
      BY <2>2, <2>3, AddCommitGood
    <2> HIDE DEF e, d
    <2>8. ~Idle(e) /\ e.preprepare \in Blocks
      BY <2>2, <2>4 DEF Idle, Good
    <2>9. Good(e, n, M)
      BY <2>4
    <2>10. /\ Good(l, n, M) /\ ~Idle(l) /\ l.lockedHash = e.preprepare
           /\ Frame(e, l, {"lockedHash", "lockedRound", "lockedPrepares"})
      BY <2>8, <2>9, LockHashGood
    <2> HIDE DEF l
    <2>11. /\ l.sequence = c.sequence /\ l.round = c.round /\ l.waiting = c.waiting
           /\ l.pendingRequests = c.pendingRequests /\ l.out = {}
           /\ l.preprepare = c.preprepare /\ l.lockedHash = c.preprepare
      BY <2>4, <2>10
    <2>12. IsHashLocked(c) => c.preprepare = c.lockedHash
      BY DEF Good, Sound, LockFits
    <2>13. /\ Good(Commit(l, n, outcome), n, M) /\ Advances(l, Commit(l, n, outcome))
           /\ outcome = "ok" /\ l.preprepare \notin EmptyBlocks
              => KeepsLocked(l, Commit(l, n, outcome))
           /\ EmptyBlocks = {} /\ StoredLater(l) => StoredLater(Commit(l, n, outcome))
      BY <2>10, <2>11, CommitGood
    <2>14. /\ Advances(c, Commit(l, n, outcome))
           /\ EmptyBlocks = {} /\ StoredLater(c) => StoredLater(Commit(l, n, outcome))
      BY <2>11, <2>13 DEF Advances, StoredLater, View
    <2>15. outcome = "ok" /\ c.lockedHash \notin EmptyBlocks
           => KeepsLocked(c, Commit(l, n, outcome))
      BY <2>11, <2>12, <2>13 DEF KeepsLocked, IsHashLocked
    <2>16. Proceeds(c, e)
      BY <1>0, <2>4, ProceedsInView
    <2> QED
      BY <2>1, <2>9, <2>13, <2>14, <2>15, <2>16 DEF Proceeds, d
  <1> QED
    BY <1>1, <1>2

LEMMA HandleRoundChangeGood ==
  ASSUME NEW c, NEW n \in Validators, NEW M, Good(c, n, M), c.out = {},
         NEW m \in Messages(Rounds)
  PROVE  LET d == HandleRoundChange(c, n, m) IN Good(d, n, M) /\ Proceeds(c, d)
  <1> DEFINE e == [c EXCEPT !.roundChanges[m.round] = @ \cup {m.src}]
             d == HandleRoundChange(c, n, m)
  <1> USE DEF Frame, Fields, HasFields
  <1>0. /\ Typed(c) /\ HasFields(c) /\ m.src \in Validators /\ m.round \in Rounds
        /\ m.round \in Nat /\ c.round \in Nat
        /\ c.roundChanges \in [Rounds -> SUBSET Validators]
    BY RoundsNat, MessageFacts DEF Good, Sound, Typed, RoundTyped, IsCore
  <1>1. \/ d = c \/ d = e
        \/ d = StartNewRound(e, n, m.round) /\ (c.waiting \/ c.round < m.round)
        \/ d = SendRoundChange(e, n, m.round)
    BY Zenon DEF HandleRoundChange
  <1>2. /\ Frame(c, e, {"roundChanges"})
        /\ e.roundChanges \in [Rounds -> SUBSET Validators]
    BY <1>0
  <1> HIDE DEF e, d
  <1>3. Typed(e)
    BY <1>0, <1>2 DEF Typed, RoundTyped, IsCore, BackendTyped, Positioned, LastNumber
  <1>4. Good(e, n, M)
    BY <1>2, <1>3, NeutralGood DEF Neutral
  <1>5. /\ e.sequence = c.sequence /\ e.round = c.round /\ e.waiting = c.waiting
        /\ e.pendingRequests = c.pendingRequests /\ e.out = {}
        /\ e.lockedHash = c.lockedHash
    BY <1>2
  <1>6. ASSUME NEW f, Proceeds(e, f) PROVE Proceeds(c, f)
    BY <1>5, <1>6 DEF Proceeds, Advances, KeepsLocked, StoredLater, View, IsHashLocked
  <1>7. Proceeds(e, e) /\ Proceeds(c, c)
    BY <1>0, <1>3, ProceedsStays
  <1>8. CASE d = StartNewRound(e, n, m.round) /\ (c.waiting \/ c.round < m.round)
    <2>1. e.waiting \/ e.round < m.round
      BY <1>5, <1>8
    <2>2. Good(d, n, M) /\ Proceeds(e, d)
      BY <1>0, <1>4, <1>5, <1>8, <2>1, StartNewRoundGood
    <2> QED BY <1>6, <2>2 DEF d
  <1>9. CASE d = SendRoundChange(e, n, m.round)
    <2>1. Good(d, n, M) /\ Proceeds(e, d)
      BY <1>0, <1>4, <1>9, SendRoundChangeGood
    <2> QED BY <1>6, <2>1 DEF d
  <1> QED
    BY <1>1, <1>4, <1>6, <1>7, <1>8, <1>9 DEF d

\* A non-empty set of rounds has a last one.
LEMMA LastRound ==
  ASSUME NEW S \in SUBSET Rounds, S # {}
  PROVE  \E r \in S : \A s \in S : s <= r
  <1> DEFINE T == {k \in Nat : k <= MaxRound /\ MaxRound - k \in S}
  <1>1. PICK r \in S : TRUE
    OBVIOUS
  <1>2. r \in Nat /\ r <= MaxRound /\ MaxRound - (MaxRound - r) = r
    BY MaxRoundAssumption DEF Rounds
  <1>3. MaxRound - r \in T
    BY <1>2, MaxRoundAssumption
  <1>4. T \in SUBSET Nat /\ T # {}
    BY <1>3
  <1> HIDE DEF T
  <1>5. PICK k \in T : \A j \in T : <<j, k>> \notin OpToRel(<, Nat)
    BY <1>4, NatLessThanWellFounded, WFMin
  <1>6. \A j \in T : ~(j < k)
    BY <1>4, <1>5 DEF OpToRel
  <1>7. k \in Nat /\ k <= MaxRound /\ MaxRound - k \in S
    BY DEF T
  <1>8. ASSUME NEW s \in S PROVE s <= MaxRound - k
    <2>1. s \in Nat /\ s <= MaxRound /\ MaxRound - (MaxRound - s) = s
      BY MaxRoundAssumption DEF Rounds
    <2>2. MaxRound - s \in T
      BY <2>1, MaxRoundAssumption DEF T
    <2> QED BY <1>6, <1>7, <2>1, <2>2, MaxRoundAssumption
  <1> QED
    BY <1>7, <1>8

LEMMA MaxRoundFacts ==
  ASSUME NEW c, c.roundChanges \in [Rounds -> SUBSET Validators], NEW num
  PROVE  MaxRoundAsked(c, num) = -1 \/ MaxRoundAsked(c, num) \in Rounds
  <1> DEFINE asked == {r \in DOMAIN c.roundChanges :
                         Cardinality(c.roundChanges[r]) >= num}
  <1>1. asked \in SUBSET Rounds
    OBVIOUS
  <1>2. MaxRoundAsked(c, num) = IF asked = {} THEN -1
                                ELSE CHOOSE r \in asked : \A s \in asked : s <= r
    BY Zenon DEF MaxRoundAsked
  <1> HIDE DEF asked
  <1>3. asked # {} => \E r \in asked : \A s \in asked : s <= r
    BY <1>1, LastRound
  <1> QED BY <1>1, <1>2, <1>3

LEMMA HandleTimeoutGood ==
  ASSUME NEW c, NEW n \in Validators, NEW M, Good(c, n, M), c.out = {}
  PROVE  LET d == HandleTimeout(c, n) IN Good(d, n, M) /\ Proceeds(c, d)
  <1> DEFINE maxRound == MaxRoundAsked(c, F(Validators) + 1)
             d == HandleTimeout(c, n)
  <1>0. /\ Typed(c) /\ c.round \in Nat
        /\ c.roundChanges \in [Rounds -> SUBSET Validators]
    BY DEF Good, Sound, Typed, RoundTyped, IsCore
  <1>1. maxRound = -1 \/ maxRound \in Rounds
    BY <1>0, MaxRoundFacts
  <1>2. \/ d = SendRoundChange(c, n, maxRound) /\ maxRound > c.round
        \/ d = StartNewRound(c, n, 0)
        \/ d = SendRoundChange(c, n, c.round + 1)
    BY Zenon DEF HandleTimeout, SendNextRoundChange
  <1> HIDE DEF maxRound, d
  <1>3. maxRound > c.round => maxRound \in Nat
    <2>1. CASE maxRound = -1
      <3>1. c.round \in Nat
        BY <1>0
      <3> QED BY ONLY <2>1, <3>1
    <2>2. CASE maxRound \in Rounds
      BY <2>2, RoundsNat
    <2> QED BY <1>1, <2>1, <2>2
  <1>4. c.round + 1 \in Nat
    BY <1>0
  <1>5. CASE d = SendRoundChange(c, n, maxRound) /\ maxRound > c.round
    BY <1>3, <1>5, SendRoundChangeGood DEF d
  <1>6. CASE d = StartNewRound(c, n, 0)
    BY <1>6, StartNewRoundGood DEF d
  <1>7. CASE d = SendRoundChange(c, n, c.round + 1)
    BY <1>4, <1>7, SendRoundChangeGood DEF d
  <1> QED
    BY <1>2, <1>5, <1>6, <1>7
=============================================================================
