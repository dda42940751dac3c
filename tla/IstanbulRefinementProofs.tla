---------------------- MODULE IstanbulRefinementProofs ----------------------
(***************************************************************************)
(* The engine implements the voting rules of IstanbulVoting when all       *)
(* validators run it, and therefore inherits agreement.  Each handler      *)
(* takes one of a few kinds of steps, which are stated of the state of one *)
(* validator; each kind keeps the invariant Fits, and is one action of     *)
(* IstanbulVoting or a stuttering step.                                    *)
(***************************************************************************)
EXTENDS IstanbulNetworkProofs

(* The rest of the invariant.                                              *)

\* A vote or a proposal is for a block of the height it is of.
Numbered(m) == m.type # "ROUNDCHANGE" => m.block.number = m.sequence

CommitSent(v, h, r, b, M) ==
    \E m \in M : /\ m.type = "COMMIT" /\ m.src = v /\ m.sequence = h
                 /\ m.round = r /\ m.block = b

CommitsSent(c, M) ==
    \A v \in DOMAIN c.commits :
        CommitSent(v, c.sequence, c.round, c.preprepare, M)

\* A quorum of COMMITs for block b was sent in round r of its height.
QuorumSent(h, r, b, M) ==
    \E Q \in SUBSET Validators :
        IsQuorum(Validators, Q) /\ \A v \in Q : CommitSent(v, h, r, b, M)

\* A block that is stored, or is on its way to the chain, was committed.
Backed(s, M) ==
    /\ s.block \notin EmptyBlocks
    /\ \E r \in Rounds : QuorumSent(s.block.number, r, s.block, M)

StoresBacked(c, M) ==
    /\ \A s \in c.sealResults \cup c.fetcher : Backed(s, M)
    /\ \A h \in DOMAIN c.chain : Backed(c.chain[h], M)

Fits(c, M) ==
    /\ c.preprepare # NoBlock => c.preprepare.number = c.sequence
    /\ CommitsSent(c, M)
    /\ ~c.waiting /\ c.state = Preprepared => ~IsHashLocked(c)
    /\ StoresBacked(c, M)

-----------------------------------------------------------------------------
(* The kinds of steps, from state c to state d of validator n.             *)

Kept(c, d) ==
    /\ d.sealResults \subseteq c.sealResults /\ d.fetcher \subseteq c.fetcher
    /\ d.chain = c.chain
SameView(c, d) == d.sequence = c.sequence /\ d.round = c.round
SameLocked(c, d) == d.lockedHash = c.lockedHash /\ d.lockedRound = c.lockedRound
SameState(c, d) ==
    /\ SameView(c, d) /\ SameLocked(c, d)
    /\ d.waiting = c.waiting /\ d.state = c.state /\ d.preprepare = c.preprepare

\* The states agree on all that the kinds of steps speak of, but for out.
Alike(c, d) ==
    /\ SameState(c, d) /\ d.commits = c.commits
    /\ d.sealResults = c.sealResults /\ d.fetcher = c.fetcher /\ d.chain = c.chain

NoVote(d) == \A m \in d.out : m.type \notin {"PREPARE", "COMMIT"} /\ Numbered(m)

\* Nothing happens to the votes of n, but a COMMIT may be counted.
Stays(c, d, M) ==
    /\ SameState(c, d) /\ Kept(c, d) /\ NoVote(d)
    /\ CommitsSent(c, M) => CommitsSent(d, M)

\* A round is begun, or awaited.
Begins(c, d) == Idle(d) /\ d.commits = << >> /\ Kept(c, d) /\ NoVote(d)

\* A later round, or the round that n waited for, is begun with the old lock.
Enters(c, d) ==
    /\ d.sequence = c.sequence
    /\ c.round < d.round \/ (c.round = d.round /\ c.waiting)
    /\ Begins(c, d) /\ SameLocked(c, d)
    /\ d.preprepare \in {c.preprepare, NoBlock}

Leaves(c, d) == c.sequence < d.sequence /\ d.round = 0 /\ Begins(c, d) /\ NoLock(d)

Restarts(c, d, n) ==
    /\ n \in Restarting /\ c.sequence <= d.sequence /\ d.round = 0
    /\ Begins(c, d) /\ NoLock(d)

\* The proposal that n has accepted got a quorum of COMMITs.
Committable(c, M) ==
    ~Idle(c) /\ QuorumSent(c.sequence, c.round, c.preprepare, M)

Drops(c, d, n, M) ==
    /\ Committable(c, M)
    /\ c.preprepare \in EmptyBlocks \/ n \in Failing
    /\ d.sequence = c.sequence /\ d.round = c.round + 1 /\ Begins(c, d) /\ NoLock(d)

\* A quorum sent PREPARE for b in a round from the lock of c to its own.
ReleasedBy(c, r, b, M) ==
    /\ r \in Rounds /\ c.lockedRound <= r /\ r < c.round
    /\ \E Q \in SUBSET Validators :
           IsQuorum(Validators, Q)
           /\ \A v \in Q : PrepareOf(v, c.sequence, r, b) \in M

Accepts(c, d) ==
    /\ SameView(c, d) /\ Kept(c, d) /\ ~c.waiting /\ c.state = AcceptRequest
    /\ ~d.waiting /\ d.commits = << >>
    /\ d.preprepare \in Blocks /\ d.preprepare.number = d.sequence

Prepares(c, d, n, M) ==
    /\ Accepts(c, d) /\ d.state = Preprepared
    /\ d.out = {PrepareOf(n, c.sequence, c.round, d.preprepare)}
    /\ d.lockedHash = NoBlock /\ d.lockedRound = 0
    /\ \/ c.lockedHash = NoBlock /\ c.lockedRound = 0
       \/ /\ c.lockedHash \notin {NoBlock, d.preprepare}
          /\ \E r \in Rounds : ReleasedBy(c, r, d.preprepare, M)

CommitOf(n, h, r, b, seal, old) ==
    [type |-> "COMMIT", src |-> n, sequence |-> h, round |-> r, block |-> b,
     seal |-> seal, old |-> old]

\* What sendCommit and sendCommitForOldBlock broadcast.
NewCommit(n, h, r, b, seal) == CommitOf(n, h, r, b, seal, FALSE)
OldCommit(n, h, r, b, seal) == CommitOf(n, h, r, b, seal, TRUE)

Votes(c, d, n) ==
    \E seal \in Hashes : d.out = {NewCommit(n, c.sequence, c.round, d.preprepare, seal)}

Recommits(c, d, n) ==
    /\ Accepts(c, d) /\ d.state = Prepared /\ Votes(c, d, n)
    /\ d.preprepare = c.lockedHash /\ SameLocked(c, d)

Locked(c, d) ==
    /\ SameView(c, d) /\ ~Idle(c) /\ ~d.waiting /\ d.preprepare = c.preprepare
    /\ d.lockedHash = c.preprepare /\ d.lockedRound = c.round

\* PREPAREs and COMMITs together are a quorum.
VotesSent(c, M) ==
    \E P, Q \in SUBSET Validators :
        /\ IsQuorum(Validators, P \cup Q)
        /\ \A v \in P : PrepareOf(v, c.sequence, c.round, c.preprepare) \in M
        /\ \A v \in Q : CommitSent(v, c.sequence, c.round, c.preprepare, M)

Locks(c, d, n, M) ==
    /\ Locked(c, d) /\ d.state = Prepared /\ Votes(c, d, n) /\ VotesSent(c, M)
    /\ c.lockedHash = NoBlock /\ d.commits = c.commits /\ Kept(c, d)

\* The block s is stored, or is given to the miner or the fetcher.
Stores(c, d, s) ==
    /\ d.sealResults \subseteq c.sealResults \cup {s}
    /\ d.fetcher \subseteq c.fetcher \cup {s}
    /\ \/ d.chain = c.chain
       \/ s.block.number = LastNumber(c) + 1 /\ d.chain = Append(c.chain, s)

Commits(c, d, M) ==
    /\ Locked(c, d) /\ d.state = Committed /\ d.out = {} /\ Committable(c, M)
    /\ CommitsSent(d, M)
    /\ c.preprepare \notin EmptyBlocks
    /\ \E s \in SealedBlocks : s.block = c.preprepare /\ Stores(c, d, s)

Writes(c, d, M) ==
    /\ SameState(c, d) /\ d.out = {} /\ d.commits = c.commits
    /\ \E s \in SealedBlocks : Backed(s, M) /\ Stores(c, d, s)

\* An old PRE-PREPARE of the same height, or of an earlier one, is answered.
Answers(c, d, n, M) ==
    /\ SameState(c, d) /\ Kept(c, d) /\ d.commits = c.commits
    /\ \E h \in DOMAIN c.chain, r \in Rounds, seal \in Hashes :
           /\ Before(<<h, r>>, View(c))
           /\ d.out = {OldCommit(n, h, r, c.chain[h].block, seal)}

Moves(c, d, M) == Stays(c, d, M) \/ Enters(c, d) \/ Leaves(c, d)

Kind(c, d, n, M) ==
    \/ Moves(c, d, M) \/ Restarts(c, d, n) \/ Drops(c, d, n, M)
    \/ Prepares(c, d, n, M) \/ Recommits(c, d, n) \/ Locks(c, d, n, M)
    \/ Commits(c, d, M) \/ Writes(c, d, M) \/ Answers(c, d, n, M)

-----------------------------------------------------------------------------
(* The kind of each handler.                                               *)

\* A kind only speaks of what Alike compares.
LEMMA KindAlike ==
  ASSUME NEW c, NEW e, NEW d, NEW n, NEW M, Alike(c, e), Kind(e, d, n, M)
  PROVE  Kind(c, d, n, M)
  <1> USE DEF Alike, SameState, SameView, SameLocked
  <1>1. LastNumber(e) = LastNumber(c) /\ Idle(e) = Idle(c) /\ View(e) = View(c)
    BY DEF LastNumber, Idle, View
  <1>2. \A x : Kept(e, x) <=> Kept(c, x)
    BY DEF Kept
  <1>3. CommitsSent(e, M) <=> CommitsSent(c, M)
    BY DEF CommitsSent
  <1>4. Stays(e, d, M) => Stays(c, d, M)
    BY <1>2, <1>3 DEF Stays
  <1>5. Enters(e, d) => Enters(c, d)
    BY <1>2 DEF Enters, Begins
  <1>6. Leaves(e, d) => Leaves(c, d)
    BY <1>2 DEF Leaves, Begins
  <1>7. Restarts(e, d, n) => Restarts(c, d, n)
    BY <1>2 DEF Restarts, Begins
  <1>8. Committable(e, M) <=> Committable(c, M)
    BY <1>1 DEF Committable
  <1>9. Drops(e, d, n, M) => Drops(c, d, n, M)
    BY <1>2, <1>8 DEF Drops, Begins
  <1>10. Accepts(e, d) <=> Accepts(c, d)
    BY <1>2 DEF Accepts
  <1>11. Prepares(e, d, n, M) => Prepares(c, d, n, M)
    BY <1>10 DEF Prepares, ReleasedBy
  <1>12. Votes(e, d, n) <=> Votes(c, d, n)
    BY DEF Votes
  <1>13. Recommits(e, d, n) => Recommits(c, d, n)
    BY <1>10, <1>12 DEF Recommits
  <1>14. Locked(e, d) <=> Locked(c, d)
    BY <1>1 DEF Locked
  <1>15. Locks(e, d, n, M) => Locks(c, d, n, M)
    BY <1>2, <1>12, <1>14 DEF Locks, VotesSent
  <1>16. \A s : Stores(e, d, s) <=> Stores(c, d, s)
    BY <1>1 DEF Stores
  <1>17. Commits(e, d, M) => Commits(c, d, M)
    BY <1>8, <1>14, <1>16 DEF Commits
  <1>18. Writes(e, d, M) => Writes(c, d, M)
    BY <1>16 DEF Writes
  <1>19. Answers(e, d, n, M) => Answers(c, d, n, M)
    BY <1>1, <1>2 DEF Answers
  <1> HIDE DEF Alike, SameState, SameView, SameLocked
  <1> QED
    BY <1>4, <1>5, <1>6, <1>7, <1>9, <1>11, <1>13, <1>15, <1>17, <1>18, <1>19
       DEF Kind, Moves

LEMMA StaysSame ==
  ASSUME NEW c, NEW d, NEW M, Alike(c, d), NoVote(d)
  PROVE  Stays(c, d, M)
  BY DEF Alike, Stays, SameState, SameView, SameLocked, Kept, CommitsSent

LEMMA SendRoundChangeKind ==
  ASSUME NEW c, NEW n, NEW M, Good(c, n, M), c.out = {}, NEW r \in Nat
  PROVE  LET d == SendRoundChange(c, n, r) IN
         \/ d = c /\ c.round >= r
         \/ Enters(c, d) /\ d.round = r /\ (~IsHashLocked(c) => NoLock(d))
  <1> DEFINE u == ToRound(c, r)
             e == CatchUpRound(c, r)
             m == [type |-> "ROUNDCHANGE", src |-> n, sequence |-> c.sequence,
                   round |-> r]
             d == Broadcast(e, m)
  <1> USE DEF Frame, Fields, HasFields
  <1>0. HasFields(c) /\ LockFits(c) /\ c.round \in Nat
    BY DEF Good, Sound, Typed, RoundTyped
  <1>1. CASE c.round >= r
    BY <1>1 DEF SendRoundChange
  <1>2. CASE ~(c.round >= r)
    <2>1. SendRoundChange(c, n, r) = d
      BY <1>2, Zenon DEF SendRoundChange
    <2>2. /\ Updated(c, u, c.sequence, r)
          /\ IsHashLocked(c) => SameLock(c, u)
          /\ ~IsHashLocked(c) => NoLock(u)
      BY <1>0, ToRoundFields
    <2>3. /\ Frame(u, e, {"waiting", "roundChanges"})
          /\ e.waiting = TRUE
          /\ e.roundChanges = [s \in DOMAIN c.roundChanges |->
                                    IF s < r THEN {} ELSE c.roundChanges[s]]
      BY <1>0, CatchUpRoundFields
    <2>4. m.type = "ROUNDCHANGE"
      OBVIOUS
    <2> HIDE DEF u, e, m
    <2>5. Frame(e, d, {"out"}) /\ d.out = e.out \cup {m}
      BY <2>3, BroadcastFields
    <2> HIDE DEF d
    <2>6. NoVote(d)
      BY <2>2, <2>3, <2>4, <2>5 DEF NoVote, Updated, Numbered
    <2>7. SameLocked(c, d) /\ d.preprepare \in {c.preprepare, NoBlock}
      BY <1>0, <2>2, <2>3, <2>5 DEF SameLocked, SameLock, NoLock, LockFits, IsHashLocked
    <2>8. /\ Idle(d) /\ Kept(c, d) /\ d.commits = << >> /\ d.sequence = c.sequence
          /\ d.round = r
      BY <2>2, <2>3, <2>5 DEF Idle, Kept, Updated
    <2>9. ~IsHashLocked(c) => NoLock(d)
      BY <2>2, <2>3, <2>5 DEF NoLock
    <2>10. Enters(c, d)
      BY <1>0, <1>2, <2>6, <2>7, <2>8 DEF Enters, Begins
    <2> QED
      BY <2>1, <2>8, <2>9, <2>10
  <1> QED
    BY <1>1, <1>2

\* What startNewRound does before the proposer proposes.
LEMMA EnteredKind ==
  ASSUME NEW c, NEW n, NEW M, Good(c, n, M), c.out = {}, NEW s, NEW r,
         NEW u, Updated(c, u, s, r)
  PROVE  LET d == ProcessPendingRequests(EnterRound(u)) IN
         /\ HasFields(d) /\ d.out = {}
         /\ d.sequence = s /\ d.round = r /\ Begins(c, d)
         /\ SameLocked(u, d) /\ d.lockedPrepares = u.lockedPrepares
         /\ d.preprepare = u.preprepare
  <1> DEFINE e == EnterRound(u)
             d == ProcessPendingRequests(e)
  <1> USE DEF Frame, Fields, HasFields
  <1>1. HasFields(u)
    BY DEF Updated
  <1>2. /\ Frame(u, e, {"roundChanges", "proposer", "waiting", "state"})
        /\ e.roundChanges = [x \in DOMAIN u.roundChanges |-> {}]
        /\ e.proposer = CalcProposer(Policy, Validators,
                                     GetProposer(u, LastNumber(u)), u.round)
        /\ e.waiting = FALSE /\ e.state = AcceptRequest
    BY <1>1, EnterRoundFields
  <1> HIDE DEF e
  <1>3. Frame(e, d, {"pendingRequests", "requests"})
    BY <1>2, ProcessPendingFields
  <1> HIDE DEF d
  <1>4. /\ HasFields(d) /\ d.out = {} /\ d.sequence = s /\ d.round = r
        /\ SameLocked(u, d) /\ d.lockedPrepares = u.lockedPrepares
        /\ d.preprepare = u.preprepare
    BY <1>2, <1>3 DEF Updated, SameLocked
  <1>5. Begins(c, d)
    BY <1>2, <1>3 DEF Begins, Updated, Idle, Kept, NoVote
  <1> QED
    BY <1>4, <1>5 DEF d, e

\* A PRE-PREPARE is for a block of the height.
LEMMA SendPreprepareKind ==
  ASSUME NEW c, HasFields(c), c.out = {}, NEW n, NEW b
  PROVE  LET d == SendPreprepare(c, n, b) IN
         Frame(c, d, {"out"}) /\ NoVote(d)
  <1> DEFINE m == [type |-> "PREPREPARE", src |-> n, sequence |-> c.sequence,
                   round |-> c.round, block |-> b,
                   lockedRound |-> c.lockedRound, lockedHash |-> c.lockedHash,
                   lockedPrepares |-> c.lockedPrepares]
  <1>1. CASE b.number # c.sequence \/ ~IsProposer(c, n)
    BY <1>1 DEF SendPreprepare, Frame, NoVote
  <1>2. CASE ~(b.number # c.sequence \/ ~IsProposer(c, n))
    <2>1. SendPreprepare(c, n, b) = Broadcast(c, m)
      BY <1>2, Zenon DEF SendPreprepare, LockedRoundSent
    <2>2. m.type = "PREPREPARE" /\ Numbered(m)
      BY <1>2 DEF Numbered
    <2> HIDE DEF m
    <2>3. Frame(c, Broadcast(c, m), {"out"}) /\ Broadcast(c, m).out = c.out \cup {m}
      BY BroadcastFields
    <2> QED
      BY <2>1, <2>2, <2>3 DEF NoVote
  <1> QED
    BY <1>1, <1>2

LEMMA StartNewRoundKind ==
  ASSUME NEW c, NEW n, NEW M, Good(c, n, M), c.out = {},
         NEW r \in Nat, r = 0 \/ c.waiting \/ c.round < r
  PROVE  Moves(c, StartNewRound(c, n, r), M)
  <1> DEFINE d == StartNewRound(c, n, r)
  <1> USE DEF Frame, Fields, HasFields
  <1>0. /\ Typed(c) /\ HasFields(c) /\ c.round \in Nat /\ c.sequence \in Nat
        /\ LastNumber(c) \in Nat /\ LockFits(c)
    BY HeightsNat, HeadHeight DEF Good, Sound, Typed, RoundTyped
  <1>1. CASE LastNumber(c) >= c.sequence
    <2> DEFINE u == ToView(c, LastNumber(c) + 1, 0)
    <2>1. Updated(c, u, LastNumber(c) + 1, 0) /\ NoLock(u)
      BY <1>0, ToViewFields
    <2>2. d = ProcessPendingRequests(EnterRound(u))
      BY <1>1, Zenon DEF StartNewRound, ToView
    <2> HIDE DEF u, d
    <2>3. /\ HasFields(d) /\ d.out = {}
          /\ d.sequence = LastNumber(c) + 1 /\ d.round = 0 /\ Begins(c, d)
          /\ SameLocked(u, d) /\ d.lockedPrepares = u.lockedPrepares
          /\ d.preprepare = u.preprepare
      BY <2>1, <2>2, EnteredKind
    <2>4. Leaves(c, d)
      BY <1>0, <1>1, <2>1, <2>3 DEF Leaves, NoLock, SameLocked
    <2> QED
      BY <2>4 DEF Moves, d
  <1>2. CASE ~(LastNumber(c) >= c.sequence) /\ RefusesRound(c, r)
    <2>1. d = c
      BY <1>2, Zenon DEF StartNewRound
    <2>2. Alike(c, c) /\ NoVote(c)
      BY DEF Alike, SameState, SameView, SameLocked, NoVote
    <2> QED
      BY <2>1, <2>2, StaysSame DEF Moves
  <1>3. CASE ~(LastNumber(c) >= c.sequence) /\ ~RefusesRound(c, r)
    <2> DEFINE u == ToRound(c, r)
               e == ProcessPendingRequests(EnterRound(u))
    <2>0. c.round < r \/ (c.round = r /\ c.waiting)
      BY <1>0, <1>3 DEF RefusesRound
    <2>1. /\ Updated(c, u, c.sequence, r)
          /\ IsHashLocked(c) => SameLock(c, u)
          /\ ~IsHashLocked(c) => NoLock(u)
      BY <1>0, ToRoundFields
    <2>2. /\ HasFields(e) /\ e.out = {}
          /\ e.sequence = c.sequence /\ e.round = r /\ Begins(c, e)
          /\ SameLocked(u, e) /\ e.lockedPrepares = u.lockedPrepares
          /\ e.preprepare = u.preprepare
      <3> HIDE DEF u
      <3> QED BY <2>1, EnteredKind
    <2>3. d =
            IF ~IsProposer(e, n) THEN e
            ELSE IF IsHashLocked(e) THEN SendPreprepare(e, n, e.preprepare)
            ELSE IF e.pendingRequest # NoBlock
                 THEN SendPreprepare(e, n, e.pendingRequest)
            ELSE e
      BY <1>3, Zenon DEF StartNewRound, ToRound
    <2> HIDE DEF e, u, d
    <2>4. \/ d = e
          \/ \E b : d = SendPreprepare(e, n, b)
      BY <2>3
    <2>5. Frame(e, d, {"out"}) /\ NoVote(d)
      BY <2>2, <2>4, SendPreprepareKind DEF NoVote
    <2>6. SameLocked(c, e) /\ e.preprepare \in {c.preprepare, NoBlock}
      BY <1>0, <2>1, <2>2 DEF SameLocked, SameLock, NoLock, LockFits, IsHashLocked
    <2>7. Begins(c, d)
      BY <2>2, <2>5 DEF Begins, Idle, Kept
    <2>8. /\ d.sequence = c.sequence /\ d.round = r /\ SameLocked(c, d)
          /\ d.preprepare \in {c.preprepare, NoBlock}
      BY <2>2, <2>5, <2>6 DEF SameLocked
    <2>9. Enters(c, d)
      BY <2>0, <2>7, <2>8 DEF Enters
    <2> QED
      BY <2>9 DEF Moves, d
  <1> QED
    BY <1>1, <1>2, <1>3

LEMMA HandleRequestKind ==
  ASSUME NEW c, NEW n, NEW M, Good(c, n, M), c.out = {}, NEW b \in Blocks
  PROVE  Stays(c, HandleRequest(c, n, b), M)
  <1> DEFINE e == [c EXCEPT !.pendingRequests = @ \cup {[block |-> b, round |-> c.round]}]
             f == [c EXCEPT !.pendingRequest = b]
             d == HandleRequest(c, n, b)
  <1> USE DEF Frame, Fields, HasFields
  <1>0. HasFields(c)
    BY DEF Good, Sound, Typed
  <1>1. d = c \/ d = e \/ d = f \/ d = SendPreprepare(f, n, b)
    BY Zenon DEF HandleRequest
  <1>2. /\ Frame(c, e, {"pendingRequests"})
        /\ Frame(c, f, {"pendingRequest"}) /\ f.out = {}
    BY <1>0
  <1> HIDE DEF e, f, d
  <1>3. Frame(f, SendPreprepare(f, n, b), {"out"}) /\ NoVote(SendPreprepare(f, n, b))
    BY <1>2, SendPreprepareKind
  <1>4. Alike(c, d) /\ NoVote(d)
    BY <1>0, <1>1, <1>2, <1>3 DEF Alike, SameState, SameView, SameLocked, NoVote
  <1> QED
    BY <1>4, StaysSame DEF d

LEMMA HandleRoundChangeKind ==
  ASSUME NEW c, NEW n, NEW M, Good(c, n, M), c.out = {}, NEW m \in Messages(Rounds)
  PROVE  Kind(c, HandleRoundChange(c, n, m), n, M)
  <1> DEFINE e == [c EXCEPT !.roundChanges[m.round] = @ \cup {m.src}]
             d == HandleRoundChange(c, n, m)
  <1> USE DEF Frame, Fields, HasFields
  <1>0. /\ Typed(c) /\ HasFields(c) /\ m.src \in Validators /\ m.round \in Rounds
        /\ m.round \in Nat /\ c.round \in Nat
        /\ c.roundChanges \in [Rounds -> SUBSET Validators]
    BY RoundsNat, MessageFacts DEF Good, Sound, Typed, RoundTyped, IsCore
  <1>1. \/ d = c \/ d = e
        \/ d = StartNewRound(e, n, m.round) /\ (c.waiting \/ c.round < m.round)
        \/ d = SendRoundChange(e, n, m.round)
    BY Zenon DEF HandleRoundChange
  <1>2. /\ Frame(c, e, {"roundChanges"})
        /\ e.roundChanges \in [Rounds -> SUBSET Validators]
    BY <1>0
  <1> HIDE DEF e, d
  <1>3. Typed(e)
    BY <1>0, <1>2 DEF Typed, RoundTyped, IsCore, BackendTyped, Positioned, LastNumber
  <1>4. Good(e, n, M)
    BY <1>2, <1>3, NeutralGood DEF Neutral
  <1>5. /\ e.round = c.round /\ e.waiting = c.waiting /\ e.out = {} /\ Alike(c, e)
        /\ Alike(c, c) /\ NoVote(c) /\ NoVote(e) /\ Alike(e, e)
    BY <1>2 DEF Alike, SameState, SameView, SameLocked, NoVote
  <1>6. Moves(c, c, M) /\ Moves(c, e, M) /\ Moves(e, e, M)
    BY <1>5, StaysSame DEF Moves
  <1>7. ASSUME d = StartNewRound(e, n, m.round), c.waiting \/ c.round < m.round
        PROVE  Moves(e, d, M)
    BY <1>0, <1>4, <1>5, <1>7, StartNewRoundKind
  <1>8. ASSUME d = SendRoundChange(e, n, m.round) PROVE Moves(e, d, M)
    <2>1. d = e \/ Enters(e, d)
      BY <1>0, <1>4, <1>5, <1>8, SendRoundChangeKind
    <2> QED
      BY <1>6, <2>1 DEF Moves
  <1>9. Moves(c, d, M) \/ Moves(e, d, M)
    BY <1>1, <1>6, <1>7, <1>8
  <1>10. Kind(c, d, n, M) \/ Kind(e, d, n, M)
    BY <1>9 DEF Kind
  <1> QED
    BY <1>5, <1>10, KindAlike DEF d

LEMMA HandleTimeoutKind ==
  ASSUME NEW c, NEW n, NEW M, Good(c, n, M), c.out = {}
  PROVE  Moves(c, HandleTimeout(c, n), M)
  <1> DEFINE maxRound == MaxRoundAsked(c, F(Validators) + 1)
             d == HandleTimeout(c, n)
  <1>0. /\ Typed(c) /\ c.round \in Nat
        /\ c.roundChanges \in [Rounds -> SUBSET Validators]
    BY DEF Good, Sound, Typed, RoundTyped, IsCore
  <1>1. maxRound = -1 \/ maxRound \in Rounds
    BY <1>0, MaxRoundFacts
  <1>2. \/ d = SendRoundChange(c, n, maxRound) /\ maxRound > c.round
        \/ d = StartNewRound(c, n, 0)
        \/ d = SendRoundChange(c, n, c.round + 1)
    BY Zenon DEF HandleTimeout, SendNextRoundChange
  <1> HIDE DEF maxRound, d
  <1>3. maxRound > c.round => maxRound \in Nat
    <2>1. CASE maxRound = -1
      <3>1. c.round \in Nat
        BY <1>0
      <3> QED BY ONLY <2>1, <3>1
    <2>2. CASE maxRound \in Rounds
      BY <2>2, RoundsNat
    <2> QED BY <1>1, <2>1, <2>2
  <1>4. c.round + 1 \in Nat
    BY <1>0
  <1>5. \E r \in Nat : d = StartNewRound(c, n, 0) \/ d = SendRoundChange(c, n, r)
    BY <1>2, <1>3, <1>4
  <1>6. Moves(c, c, M)
    <2>1. Alike(c, c) /\ NoVote(c)
      BY DEF Alike, SameState, SameView, SameLocked, NoVote
    <2> QED BY <2>1, StaysSame DEF Moves
  <1>7. Moves(c, StartNewRound(c, n, 0), M)
    BY StartNewRoundKind
  <1>8. ASSUME NEW r \in Nat PROVE Moves(c, SendRoundChange(c, n, r), M)
    BY <1>6, SendRoundChangeKind DEF Moves
  <1> QED
    BY <1>5, <1>7, <1>8 DEF d

\* A state in which a proposal is accepted and the vote for it is sent.
LEMMA AcceptFields ==
  ASSUME NEW c, HasFields(c), c.out = {}, NEW b, NEW st, NEW m
  PROVE  LET e == AcceptPreprepare(c, b, st)
             d == Broadcast(e, m)
         IN  Frame(c, d, {"preprepare", "state", "out"})
             /\ d.preprepare = b /\ d.state = st /\ d.out = {m}
  BY DEF AcceptPreprepare, Broadcast, Frame, Fields, HasFields

LEMMA AcceptProposalKind ==
  ASSUME NEW c, NEW n, NEW M, Good(c, n, M), c.out = {},
         c.state = AcceptRequest, ~c.waiting, ProvesLocks(M),
         NEW m \in Messages(Rounds), m \in M, m.type = "PREPREPARE",
         m.sequence = c.sequence, m.round = c.round,
         Numbered(m), LocksEarlier(m)
  PROVE  Kind(c, AcceptProposal(c, n, m), n, M)
  <1> DEFINE d == AcceptProposal(c, n, m)
  <1> USE DEF Frame, Fields, HasFields
  <1>0. /\ HasFields(c) /\ c.round \in Nat /\ LockFits(c)
        /\ m.block \in Blocks /\ m.block # NoBlock /\ m.block.number = c.sequence
        /\ m.lockedRound \in Rounds /\ m.lockedPrepares \in SUBSET Validators
        /\ m.lockedRound \in Nat
    BY CoreBlocks, RoundsNat, MessageFacts DEF Good, Sound, Typed, RoundTyped, Numbered
  <1>1. c.commits = << >>
    BY DEF Good, Idle, Fresh, NothingCounted
  <1>2. ASSUME NEW e, Frame(c, e, {"preprepare", "state", "out", "lockedHash",
                                   "lockedRound", "lockedPrepares"}),
               e.preprepare = m.block
        PROVE  Accepts(c, e)
    BY <1>0, <1>1, <1>2 DEF Accepts, SameView, Kept
  <1>3. CASE ~IsHashLocked(c)
    <2> DEFINE p == PrepareOf(n, c.sequence, c.round, m.block)
    <2>1. d = Broadcast(AcceptPreprepare(c, m.block, Preprepared), p)
      BY <1>0, <1>3 DEF AcceptProposal, SendPrepare, PrepareOf, AcceptPreprepare
    <2> HIDE DEF d, p
    <2>2. Frame(c, d, {"preprepare", "state", "out"})
          /\ d.preprepare = m.block /\ d.state = Preprepared /\ d.out = {p}
      BY <1>0, <2>1, AcceptFields
    <2>3. d.lockedHash = NoBlock /\ d.lockedRound = 0
          /\ c.lockedHash = NoBlock /\ c.lockedRound = 0
      BY <1>0, <1>3, <2>2 DEF LockFits, IsHashLocked
    <2>4. Prepares(c, d, n, M)
      BY <1>2, <2>2, <2>3 DEF Prepares, p
    <2> QED
      BY <2>4 DEF Kind, d
  <1>4. CASE IsHashLocked(c) /\ m.block = c.lockedHash
    <2> DEFINE p == NewCommit(n, c.sequence, c.round, m.block, m.block)
    <2>1. d = Broadcast(AcceptPreprepare(c, m.block, Prepared), p)
      BY <1>0, <1>4 DEF AcceptProposal, SendCommit, BroadcastCommit, NewCommit, CommitOf,
           AcceptPreprepare
    <2> HIDE DEF d, p
    <2>2. Frame(c, d, {"preprepare", "state", "out"})
          /\ d.preprepare = m.block /\ d.state = Prepared /\ d.out = {p}
      BY <1>0, <2>1, AcceptFields
    <2>3. Votes(c, d, n)
      BY <1>0, <2>2 DEF Votes, Hashes, p
    <2>4. Recommits(c, d, n)
      BY <1>2, <1>4, <2>2, <2>3 DEF Recommits, SameLocked
    <2> QED
      BY <2>4 DEF Kind, d
  <1>5. CASE /\ IsHashLocked(c) /\ m.block # c.lockedHash /\ CarriesLock(c, m)
             /\ ~IsQuorum(Validators, m.lockedPrepares)
    <2>1. d = c
      BY <1>5 DEF AcceptProposal, HandlePOLPreprepare
    <2>2. Alike(c, c) /\ NoVote(c)
      BY DEF Alike, SameState, SameView, SameLocked, NoVote
    <2> QED BY <2>1, <2>2, StaysSame DEF Moves, Kind
  <1>6. CASE /\ IsHashLocked(c) /\ m.block # c.lockedHash /\ CarriesLock(c, m)
             /\ IsQuorum(Validators, m.lockedPrepares)
    <2> DEFINE u == UnlockHash(c)
               p == PrepareOf(n, u.sequence, u.round, m.block)
    <2>1. /\ Frame(c, u, {"lockedHash", "lockedRound", "lockedPrepares"})
          /\ u.lockedHash = NoBlock /\ u.lockedRound = 0 /\ u.lockedPrepares = {}
      BY <1>0, UnlockHashFields
    <2>2. d = SendPrepare(AcceptPreprepare(u, m.block, Preprepared), n)
      BY <1>6 DEF AcceptProposal, HandlePOLPreprepare
    <2> HIDE DEF u
    <2>3. d = Broadcast(AcceptPreprepare(u, m.block, Preprepared), p)
      BY <2>1, <2>2 DEF SendPrepare, PrepareOf, AcceptPreprepare
    <2> HIDE DEF d, p
    <2>4. Frame(u, d, {"preprepare", "state", "out"})
          /\ d.preprepare = m.block /\ d.state = Preprepared /\ d.out = {p}
      BY <2>1, <2>3, AcceptFields
    <2>5. p = PrepareOf(n, c.sequence, c.round, m.block)
      BY <2>1 DEF p
    <2>6. ReleasedBy(c, m.lockedRound, m.block, M)
      <3>1. m.lockedHash = m.block /\ c.lockedRound <= m.lockedRound
        BY <1>0, <1>6 DEF CarriesLock, Good, Sound, Typed, RoundTyped
      <3>2. m.lockedRound < c.round
        BY <1>0, <3>1 DEF LocksEarlier
      <3>3. \A v \in m.lockedPrepares :
                PrepareOf(v, c.sequence, m.lockedRound, m.block) \in M
        BY <3>1 DEF ProvesLocks, PrepareOf
      <3> QED
        BY <1>0, <1>6, <3>1, <3>2, <3>3 DEF ReleasedBy
    <2>7. c.lockedHash \notin {NoBlock, d.preprepare}
      BY <1>6, <2>4 DEF IsHashLocked
    <2>8. Prepares(c, d, n, M)
      BY <1>0, <1>2, <2>1, <2>4, <2>5, <2>6, <2>7 DEF Prepares
    <2> QED BY <2>8 DEF Kind, d
  <1>7. CASE IsHashLocked(c) /\ m.block # c.lockedHash /\ ~CarriesLock(c, m)
    <2>1. d = SendRoundChange(c, n, c.round + 1) /\ c.round + 1 \in Nat
      BY <1>0, <1>7 DEF AcceptProposal, SendNextRoundChange
    <2>2. Alike(c, c) /\ NoVote(c)
      BY DEF Alike, SameState, SameView, SameLocked, NoVote
    <2> QED BY <2>1, <2>2, StaysSame, SendRoundChangeKind DEF Kind, Moves
  <1> QED
    BY <1>3, <1>4, <1>5, <1>6, <1>7

LEMMA CheckMessageOld ==
  ASSUME NEW c, NEW m, CheckMessage(c, m) = "old"
  PROVE  Before(ViewOf(m), View(c))
  BY DEF CheckMessage, ViewOf

LEMMA HandlePreprepareKind ==
  ASSUME NEW c, NEW n, NEW M, Good(c, n, M), c.out = {}, ProvesLocks(M),
         NEW m \in Messages(Rounds), m \in M, m.type = "PREPREPARE",
         Numbered(m), LocksEarlier(m)
  PROVE  Kind(c, HandlePreprepare(c, n, m), n, M)
  <1> DEFINE d == HandlePreprepare(c, n, m)
             e == ExecuteBlock(c, n, m.block)
  <1> USE DEF Frame, Fields, HasFields
  <1>0. /\ Typed(c) /\ HasFields(c) /\ c.sequence \in Nat /\ c.round \in Nat
        /\ m.block \in Blocks /\ m.sequence \in Nat /\ m.round \in Nat
        /\ m.round \in Rounds /\ c.preprepare \in Hashes
    BY HeightsNat, RoundsNat, MessageFacts DEF Good, Sound, Typed, RoundTyped
  <1>a. Kind(c, c, n, M)
    <2>1. Alike(c, c) /\ NoVote(c)
      BY DEF Alike, SameState, SameView, SameLocked, NoVote
    <2> QED BY <2>1, StaysSame DEF Moves, Kind
  <1>1. CASE CheckMessage(c, m) = "old" /\ HasProposal(c, m.block)
    <2> DEFINE p == OldCommit(n, m.sequence, m.round, m.block, c.preprepare)
    <2>1. d = c \/ d = Broadcast(c, p)
      BY <1>1, Zenon DEF HandlePreprepare, HandleOldPreprepare, SendCommitForOldBlock,
           BroadcastCommit, OldCommit, CommitOf
    <2>2. PICK h \in DOMAIN c.chain : c.chain[h].block = m.block
      BY <1>1 DEF HasProposal
    <2>3. h = m.sequence
      BY <1>0, <2>2 DEF Typed, BackendTyped, Numbered
    <2>4. Before(<<h, m.round>>, View(c))
      BY <1>1, <2>3, CheckMessageOld DEF ViewOf
    <2>5. p = OldCommit(n, h, m.round, c.chain[h].block, c.preprepare)
      BY <2>2, <2>3
    <2> HIDE DEF p
    <2>6. Frame(c, Broadcast(c, p), {"out"}) /\ Broadcast(c, p).out = {p}
      BY <1>0, BroadcastFields
    <2>7. Answers(c, Broadcast(c, p), n, M)
      BY <1>0, <2>2, <2>4, <2>5, <2>6
         DEF Answers, SameState, SameView, SameLocked, Kept
    <2> QED BY <1>a, <2>1, <2>7 DEF Kind
  <1>2. CASE CheckMessage(c, m) = "old" /\ ~HasProposal(c, m.block)
    <2>1. d = c
      BY <1>2 DEF HandlePreprepare, HandleOldPreprepare, AnswersOld
    <2> QED BY <1>a, <2>1
  <1>3. CASE CheckMessage(c, m) # "old" /\ (CheckMessage(c, m) # "ok" \/ m.src # c.proposer)
    <2>1. d = c
      BY <1>3 DEF HandlePreprepare
    <2> QED BY <1>a, <2>1
  <1>4. CASE CheckMessage(c, m) = "ok" /\ m.src = c.proposer
    <2>1. d = IF ~Verify(c, n, m.block) THEN SendNextRoundChange(e, n)
              ELSE IF MayAccept(c) THEN AcceptProposal(e, n, m)
              ELSE e
      BY <1>4, Zenon DEF HandlePreprepare
    <2>2. m.sequence = c.sequence /\ m.round = c.round /\ ~c.waiting
      BY <1>0, <1>4, CheckMessageOk
    <2>3. Good(e, n, M) /\ Frame(c, e, {"executed"})
      BY <1>0, ExecuteBlockGood
    <2> HIDE DEF e, d
    <2>4. /\ e.sequence = c.sequence /\ e.round = c.round /\ e.waiting = c.waiting
          /\ e.state = c.state /\ e.out = {} /\ Alike(c, e) /\ Alike(e, e) /\ NoVote(e)
      BY <2>3 DEF Alike, SameState, SameView, SameLocked, NoVote
    <2>5. Kind(e, e, n, M)
      BY <2>4, StaysSame DEF Moves, Kind
    <2>6. CASE ~Verify(c, n, m.block)
      <3>1. d = SendRoundChange(e, n, e.round + 1) /\ e.round + 1 \in Nat
        BY <1>0, <2>1, <2>4, <2>6 DEF SendNextRoundChange
      <3>2. d = e \/ Enters(e, d)
        BY <2>3, <2>4, <3>1, SendRoundChangeKind
      <3> QED BY <2>4, <2>5, <3>2, KindAlike DEF Kind, Moves, d
    <2>7. CASE Verify(c, n, m.block) /\ MayAccept(c)
      <3>1. /\ d = AcceptProposal(e, n, m) /\ e.state = AcceptRequest /\ ~e.waiting
            /\ m.sequence = e.sequence /\ m.round = e.round
        BY <2>1, <2>2, <2>4, <2>7 DEF MayAccept
      <3>2. Kind(e, d, n, M)
        BY <2>3, <2>4, <3>1, AcceptProposalKind
      <3> QED BY <2>4, <3>2, KindAlike DEF d
    <2>8. CASE Verify(c, n, m.block) /\ ~MayAccept(c)
      <3>1. d = e
        BY <2>1, <2>8
      <3> QED BY <2>4, <2>5, <3>1, KindAlike DEF d
    <2> QED
      BY <2>6, <2>7, <2>8
  <1> QED
    BY <1>1, <1>2, <1>3, <1>4

LEMMA HandlePrepareKind ==
  ASSUME NEW c, NEW n, NEW M, Good(c, n, M), c.out = {}, Fits(c, M),
         NEW m \in Messages(Rounds), m.type = "PREPARE", m \in M
  PROVE  Kind(c, HandlePrepare(c, n, m), n, M)
  <1> DEFINE shared == IsHashLocked(c) /\ c.lockedRound = c.round
             e == [c EXCEPT !.prepares = @ \cup {m.src},
                            !.lockedPrepares = IF shared THEN @ \cup {m.src} ELSE @]
             enough == \/ IsHashLocked(e) /\ m.block = e.lockedHash
                       \/ GetPrepareOrCommitSize(e) >= Threshold(Validators)
             f == [LockHash(e) EXCEPT !.state = Prepared]
             d == HandlePrepare(c, n, m)
  <1> USE DEF Frame, Fields, HasFields
  <1>0. /\ HasFields(c) /\ m.src \in Validators
        /\ m = PrepareOf(m.src, m.sequence, m.round, m.block)
        /\ c.prepares \in SUBSET Validators
        /\ c.state \in {AcceptRequest, Preprepared, Prepared, Committed}
    BY RoundsNat, MessageFacts DEF Good, Sound, Typed, RoundTyped, IsCore
  <1>a. DOMAIN c.commits \in SUBSET Validators
    BY DEF Good, Sound, Typed, RoundTyped, Sealings
  <1>1. CASE ~MatchesSubject(c, m)
    <2>1. d = c
      BY <1>1 DEF HandlePrepare
    <2>2. Alike(c, c) /\ NoVote(c)
      BY DEF Alike, SameState, SameView, SameLocked, NoVote
    <2> QED BY <2>1, <2>2, StaysSame DEF Moves, Kind
  <1>2. CASE MatchesSubject(c, m)
    <2>1. d = IF enough /\ c.state < Prepared THEN SendCommit(f, n) ELSE e
      BY <1>2, Zenon DEF HandlePrepare
    <2>2. /\ m.sequence = c.sequence /\ m.round = c.round /\ ~Idle(c)
          /\ m.block = c.preprepare
      BY <1>2, MatchesSubjectFacts
    <2>3. /\ Frame(c, e, {"prepares", "lockedPrepares"})
          /\ e.prepares = c.prepares \cup {m.src}
      BY <1>0
    <2>4. /\ e.prepares = c.prepares \cup {m.src} /\ e.commits = c.commits
          /\ e.lockedHash = c.lockedHash /\ e.preprepare = c.preprepare
          /\ e.round = c.round /\ e.sequence = c.sequence
      BY <2>3
    <2> HIDE DEF e, d, shared
    <2>5. CASE ~(enough /\ c.state < Prepared)
      <3>1. d = e
        BY <2>1, <2>5
      <3>2. Alike(c, e) /\ NoVote(e)
        BY <2>3 DEF Alike, SameState, SameView, SameLocked, NoVote
      <3> QED BY <3>1, <3>2, StaysSame DEF Moves, Kind, d
    <2>6. CASE enough /\ c.state < Prepared
      <3>1. c.state = Preprepared /\ ~c.waiting
        BY <1>0, <2>2, <2>6 DEF Idle, AcceptRequest, Preprepared, Prepared, Committed
      <3>2. ~IsHashLocked(c)
        BY <3>1 DEF Fits
      <3>3. IsQuorum(Validators, e.prepares \cup DOMAIN e.commits)
        BY <2>4, <2>6, <3>2 DEF IsHashLocked, GetPrepareOrCommitSize, IsQuorum
      <3>4. VotesSent(c, M)
        <4>1. e.prepares \in SUBSET Validators /\ DOMAIN e.commits \in SUBSET Validators
          BY <1>0, <1>a, <2>4
        <4>2. \A v \in e.prepares : PrepareOf(v, c.sequence, c.round, c.preprepare) \in M
          BY <1>0, <2>2, <2>4 DEF Good, Sound, MessagesSent
        <4>3. \A v \in DOMAIN e.commits :
                  CommitSent(v, c.sequence, c.round, c.preprepare, M)
          BY <2>4 DEF Fits, CommitsSent
        <4> QED BY <3>3, <4>1, <4>2, <4>3 DEF VotesSent
      <3>5. c.preprepare \in Blocks /\ c.preprepare # NoBlock
        BY <2>2, CoreBlocks DEF Good
      <3>6. /\ Frame(e, LockHash(e), {"lockedHash", "lockedRound", "lockedPrepares"})
            /\ LockHash(e).lockedHash = c.preprepare /\ LockHash(e).lockedRound = c.round
        BY <2>3, <2>4, <3>5 DEF LockHash
      <3>7. Frame(LockHash(e), f, {"state"}) /\ f.state = Prepared
        BY <3>6
      <3> HIDE DEF f
      <3> DEFINE p == NewCommit(n, c.sequence, c.round, c.preprepare, c.preprepare)
      <3>8. f.sequence = c.sequence /\ f.round = c.round /\ f.preprepare = c.preprepare
            /\ f.out = {}
        BY <2>3, <3>6, <3>7
      <3>9. d = Broadcast(f, p)
        BY <2>1, <2>6, <3>8 DEF SendCommit, BroadcastCommit, NewCommit, CommitOf
      <3> HIDE DEF p
      <3>10. Frame(f, d, {"out"}) /\ d.out = {p}
        BY <3>7, <3>8, <3>9, BroadcastFields
      <3>11. Locked(c, d) /\ d.state = Prepared /\ Kept(c, d) /\ d.commits = c.commits
        BY <2>2, <2>3, <3>1, <3>6, <3>7, <3>10 DEF Locked, SameView, Kept
      <3>12. Votes(c, d, n)
        BY <3>5, <3>10, <3>11 DEF Votes, Locked, Hashes, p
      <3>13. Locks(c, d, n, M)
        BY <3>2, <3>4, <3>11, <3>12 DEF Locks, IsHashLocked
      <3> QED BY <3>13 DEF Kind, d
    <2> QED BY <2>5, <2>6
  <1> QED
    BY <1>1, <1>2

\* Another round is asked for without a lock.
LEMMA UnlockedRoundChangeKind ==
  ASSUME NEW c, NEW n, NEW M, Good(c, n, M), c.out = {}, ~IsHashLocked(c)
  PROVE  LET d == SendRoundChange(c, n, c.round + 1) IN
         /\ Begins(c, d) /\ NoLock(d) /\ d.sequence = c.sequence
         /\ d.round = c.round + 1
  <1> DEFINE d == SendRoundChange(c, n, c.round + 1)
  <1>1. c.round \in Nat /\ c.round + 1 \in Nat
    BY DEF Good, Sound, Typed, RoundTyped
  <1>2. \/ d = c /\ c.round >= c.round + 1
        \/ Enters(c, d) /\ d.round = c.round + 1 /\ (~IsHashLocked(c) => NoLock(d))
    BY <1>1, SendRoundChangeKind
  <1> QED
    BY <1>1, <1>2 DEF Enters

\* The lock is given up and a new round begins.
LEMMA AfterDiscardKind ==
  ASSUME NEW c, HasFields(c), c.out = {}
  PROVE  LET d == AfterDiscard(c) IN
         /\ d.sequence = c.sequence /\ d.round = c.round + 1
         /\ Begins(c, d) /\ NoLock(d)
  <1> DEFINE u == UnlockHash(c)
             v == ToView(u, u.sequence, c.round + 1)
             d == EnterRound(v)
  <1> USE DEF Frame, Fields, HasFields
  <1>1. Frame(c, u, {"lockedHash", "lockedRound", "lockedPrepares"})
    BY UnlockHashFields
  <1>2. AfterDiscard(c) = d
    BY Zenon DEF AfterDiscard, StartNewRoundWhenEmpty, ToView
  <1> HIDE DEF u
  <1>3. Updated(u, v, u.sequence, c.round + 1) /\ NoLock(v)
    BY <1>1, ToViewFields
  <1>4. HasFields(v)
    BY <1>3 DEF Updated
  <1> HIDE DEF v
  <1>5. /\ Frame(v, d, {"roundChanges", "proposer", "waiting", "state"})
        /\ d.roundChanges = [r \in DOMAIN v.roundChanges |-> {}]
        /\ d.proposer = CalcProposer(Policy, Validators,
                                     GetProposer(v, LastNumber(v)), v.round)
        /\ d.waiting = FALSE /\ d.state = AcceptRequest
    BY <1>4, EnterRoundFields
  <1> HIDE DEF d
  <1>6. /\ d.sequence = c.sequence /\ d.round = c.round + 1 /\ d.out = {}
        /\ d.commits = << >> /\ NoLock(d)
    BY <1>1, <1>3, <1>5 DEF Updated, NoLock
  <1>7. Begins(c, d)
    BY <1>1, <1>3, <1>5, <1>6 DEF Begins, Updated, Idle, Kept, NoVote
  <1> QED
    BY <1>2, <1>6, <1>7

\* Commit, of a state that has just locked the proposal.
LEMMA CommitKind ==
  ASSUME NEW c, NEW n, NEW M, Good(c, n, M), ~Idle(c), c.out = {},
         NEW outcome \in CommitOutcomes, outcome = "ok" \/ n \in Failing,
         c.lockedHash = c.preprepare, c.lockedRound = c.round,
         Committable(c, M), CommitsSent(c, M)
  PROVE  LET d == Commit(c, n, outcome) IN Drops(c, d, n, M) \/ Commits(c, d, M)
  <1> DEFINE mine == c.proposedBlockHash = c.preprepare
             result == WithCommittedSeals(c.preprepare, c.commits)
             done == [c EXCEPT !.state = Committed,
                               !.proposedBlockHash = IF mine THEN NoBlock ELSE @]
             d == Commit(c, n, outcome)
  <1> USE DEF Frame, Fields, HasFields
  <1>0. /\ HasFields(c) /\ c.preprepare \in Blocks
        /\ c.commits \in Sealings /\ c.proposedBlockHash \in Hashes
        /\ c.round \in Nat
    BY DEF Good, Sound, Typed, RoundTyped, BackendTyped
  <1>1. /\ Frame(c, done, {"state", "proposedBlockHash"})
        /\ done.state = Committed
        /\ done.proposedBlockHash \in {c.proposedBlockHash, NoBlock}
    BY <1>0
  <1>2. d = IF Discards(c, outcome) THEN AfterDiscard(done)
            ELSE IF mine THEN [done EXCEPT !.sealResults = @ \cup {result}]
            ELSE IF c.executed # c.preprepare
                 THEN [done EXCEPT !.fetcher = @ \cup {result}]
            ELSE IF outcome = "failed" THEN AfterFailure(done, n)
            ELSE WriteBlock(done, result)
    BY Zenon DEF Commit
  <1>3. result \in SealedBlocks /\ result.block = c.preprepare
    BY <1>0 DEF WithCommittedSeals, SealedBlocks
  <1> HIDE DEF mine, result, done, d
  <1>4. Good(done, n, M) /\ ~Idle(done)
    <2>1. done.proposedBlockHash \in Hashes
      BY <1>0, <1>1 DEF Hashes
    <2> QED
      BY <1>1, <2>1, StateGood
  <1>5. ASSUME NEW e, Frame(done, e, {"sealResults", "fetcher", "chain"}),
               Stores(c, e, result), ~Discards(c, outcome)
        PROVE  Commits(c, e, M)
    <2>1. Locked(c, e) /\ e.state = Committed /\ e.out = {}
      BY <1>1, <1>5 DEF Locked, SameView, Idle
    <2>2. CommitsSent(e, M)
      BY <1>1, <1>5 DEF CommitsSent
    <2>3. c.preprepare \notin EmptyBlocks
      BY <1>5 DEF Discards
    <2> QED
      BY <1>3, <1>5, <2>1, <2>2, <2>3 DEF Commits
  <1>6. CASE Discards(c, outcome)
    <2>1. d = AfterDiscard(done)
      BY <1>2, <1>6
    <2>2. done.out = {} /\ HasFields(done)
      BY <1>1
    <2>3. /\ d.sequence = done.sequence /\ d.round = done.round + 1
          /\ Begins(done, d) /\ NoLock(d)
      BY <2>1, <2>2, AfterDiscardKind
    <2>4. c.preprepare \in EmptyBlocks \/ n \in Failing
      BY <1>6 DEF Discards
    <2>5. Begins(c, d) /\ d.sequence = c.sequence /\ d.round = c.round + 1
      BY <1>1, <2>3 DEF Begins, Kept
    <2> QED
      BY <2>3, <2>4, <2>5 DEF Drops, d
  <1>7. CASE ~Discards(c, outcome) /\ mine
    <2> DEFINE e == [done EXCEPT !.sealResults = @ \cup {result}]
    <2>1. /\ Frame(done, e, {"sealResults", "fetcher", "chain"})
          /\ e.fetcher = done.fetcher /\ e.chain = done.chain
          /\ e.sealResults = done.sealResults \cup {result}
      BY <1>1
    <2>2. d = e
      BY <1>2, <1>7
    <2> HIDE DEF e
    <2>3. Stores(c, e, result)
      BY <1>1, <2>1 DEF Stores
    <2> QED
      BY <1>5, <1>7, <2>1, <2>2, <2>3 DEF d
  <1>8. CASE ~Discards(c, outcome) /\ ~mine /\ c.executed # c.preprepare
    <2> DEFINE e == [done EXCEPT !.fetcher = @ \cup {result}]
    <2>1. /\ Frame(done, e, {"sealResults", "fetcher", "chain"})
          /\ e.sealResults = done.sealResults /\ e.chain = done.chain
          /\ e.fetcher = done.fetcher \cup {result}
      BY <1>1
    <2>2. d = e
      BY <1>2, <1>8
    <2> HIDE DEF e
    <2>3. Stores(c, e, result)
      BY <1>1, <2>1 DEF Stores
    <2> QED
      BY <1>5, <1>8, <2>1, <2>2, <2>3 DEF d
  <1>9. CASE /\ ~Discards(c, outcome) /\ ~mine /\ c.executed = c.preprepare
             /\ outcome = "failed"
    <2> DEFINE u == UnlockHash(done)
    <2>1. Good(u, n, M)
      BY <1>4, UnlockHashGood
    <2>2. /\ Frame(done, u, {"lockedHash", "lockedRound", "lockedPrepares"})
          /\ u.lockedHash = NoBlock
      BY <1>1, UnlockHashFields
    <2>3. d = SendRoundChange(u, n, u.round + 1)
      BY <1>2, <1>9 DEF AfterFailure, SendNextRoundChange
    <2> HIDE DEF u
    <2>4. u.round = c.round /\ u.sequence = c.sequence /\ u.round + 1 \in Nat /\ u.out = {}
      BY <1>0, <1>1, <2>2
    <2>5. /\ Begins(u, d) /\ NoLock(d) /\ d.sequence = u.sequence
          /\ d.round = c.round + 1
      BY <1>0, <2>1, <2>2, <2>3, <2>4, UnlockedRoundChangeKind DEF IsHashLocked
    <2>6. Begins(c, d)
      BY <1>1, <2>2, <2>5 DEF Begins, Kept
    <2>7. n \in Failing
      BY <1>9
    <2> QED
      BY <2>4, <2>5, <2>6, <2>7 DEF Drops, d
  <1>10. CASE /\ ~Discards(c, outcome) /\ ~mine /\ c.executed = c.preprepare
              /\ outcome # "failed"
    <2>1. d = WriteBlock(done, result)
      BY <1>2, <1>10
    <2>2. Frame(done, d, {"sealResults", "fetcher", "chain"}) /\ Stores(c, d, result)
      BY <1>1, <2>1 DEF WriteBlock, Stores, LastNumber
    <2> QED
      BY <1>5, <1>10, <2>2 DEF d
  <1> QED
    BY <1>6, <1>7, <1>8, <1>9, <1>10

LEMMA HandleCommitKind ==
  ASSUME NEW c, NEW n, NEW M, Good(c, n, M), c.out = {}, Fits(c, M),
         NEW m \in Messages(Rounds), m.type = "COMMIT", m \in M,
         NEW outcome \in CommitOutcomes, outcome = "ok" \/ n \in Failing
  PROVE  Kind(c, HandleCommit(c, n, m, outcome), n, M)
  <1> DEFINE e == [c EXCEPT !.commits = AddMessage(@, m)]
             l == LockHash(e)
             d == HandleCommit(c, n, m, outcome)
  <1> USE DEF Frame, Fields, HasFields
  <1>0. /\ Typed(c) /\ HasFields(c) /\ m.src \in Validators /\ m.seal \in Hashes
        /\ c.commits \in Sealings
    BY RoundsNat, MessageFacts DEF Good, Sound, Typed, RoundTyped
  <1>1. CASE ~MatchesSubject(c, m)
    <2>1. d = c
      BY <1>1 DEF HandleCommit
    <2>2. Alike(c, c) /\ NoVote(c)
      BY DEF Alike, SameState, SameView, SameLocked, NoVote
    <2> QED BY <2>1, <2>2, StaysSame DEF Moves, Kind
  <1>2. CASE MatchesSubject(c, m)
    <2>1. d = IF IsQuorum(Validators, DOMAIN e.commits) /\ c.state < Committed
              THEN Commit(l, n, outcome) ELSE e
      BY <1>2, Zenon DEF HandleCommit
    <2>2. /\ m.sequence = c.sequence /\ m.round = c.round /\ ~Idle(c)
          /\ m.block = c.preprepare
      BY <1>2, MatchesSubjectFacts
    <2>3. Good(e, n, M) /\ Frame(c, e, {"commits"}) /\ e.commits = AddMessage(c.commits, m)
      BY <1>0, <2>2, AddCommitGood
    <2> HIDE DEF e, d
    <2>4. CommitsSent(e, M)
      <3>1. DOMAIN e.commits = DOMAIN c.commits \cup {m.src}
        BY <2>3 DEF AddMessage
      <3>2. CommitSent(m.src, c.sequence, c.round, c.preprepare, M)
        BY <2>2 DEF CommitSent
      <3>3. e.sequence = c.sequence /\ e.round = c.round /\ e.preprepare = c.preprepare
        BY <2>3
      <3>4. CommitsSent(c, M)
        BY DEF Fits
      <3> QED BY <3>1, <3>2, <3>3, <3>4 DEF CommitsSent
    <2>5. CASE ~(IsQuorum(Validators, DOMAIN e.commits) /\ c.state < Committed)
      <3>1. d = e
        BY <2>1, <2>5
      <3>2. Stays(c, e, M)
        BY <2>3, <2>4 DEF Stays, SameState, SameView, SameLocked, Kept, NoVote
      <3> QED BY <3>1, <3>2 DEF Moves, Kind, d
    <2>6. CASE IsQuorum(Validators, DOMAIN e.commits) /\ c.state < Committed
      <3>1. d = Commit(l, n, outcome)
        BY <2>1, <2>6
      <3>2. ~Idle(e) /\ e.preprepare \in Blocks /\ e.preprepare # NoBlock /\ HasFields(e)
        BY <2>2, <2>3, CoreBlocks DEF Idle, Good
      <3>3. /\ Frame(e, l, {"lockedHash", "lockedRound", "lockedPrepares"})
            /\ l.lockedHash = e.preprepare /\ l.lockedRound = e.round
        BY <3>2 DEF LockHash
      <3>4. Good(l, n, M) /\ ~Idle(l)
        BY <2>3, <3>2, LockHashGood
      <3> HIDE DEF l
      <3>5. /\ l.sequence = c.sequence /\ l.round = c.round
            /\ l.preprepare = c.preprepare /\ l.out = {} /\ l.commits = e.commits
            /\ l.lockedHash = l.preprepare /\ l.lockedRound = l.round
            /\ l.sealResults = c.sealResults /\ l.fetcher = c.fetcher /\ l.chain = c.chain
        BY <2>3, <3>3
      <3>6. CommitsSent(l, M)
        BY <2>3, <2>4, <3>5 DEF CommitsSent
      <3>7. Committable(l, M)
        <4>1. DOMAIN l.commits \in SUBSET Validators
          BY <3>4 DEF Good, Sound, Typed, RoundTyped, Sealings
        <4>2. IsQuorum(Validators, DOMAIN l.commits)
          BY <2>6, <3>5
        <4> QED BY <3>4, <3>6, <4>1, <4>2 DEF Committable, QuorumSent, CommitsSent
      <3>8. Drops(l, d, n, M) \/ Commits(l, d, M)
        BY <3>1, <3>4, <3>5, <3>6, <3>7, CommitKind
      <3>9. Committable(c, M)
        BY <2>2, <3>5, <3>7 DEF Committable
      <3>10. \A x : Begins(l, x) => Begins(c, x)
        BY <3>5 DEF Begins, Kept
      <3>11. \A s : Stores(l, d, s) => Stores(c, d, s)
        BY <3>5 DEF Stores, LastNumber
      <3>12. Locked(l, d) => Locked(c, d)
        BY <2>2, <3>5 DEF Locked, SameView
      <3>13. Drops(c, d, n, M) \/ Commits(c, d, M)
        BY <3>5, <3>8, <3>9, <3>10, <3>11, <3>12 DEF Drops, Commits
      <3> QED BY <3>13 DEF Kind, d
    <2> QED BY <2>5, <2>6
  <1> QED
    BY <1>1, <1>2

-----------------------------------------------------------------------------
(* Every kind of step keeps the rest of the invariant.                     *)

\* What was sent remains sent.
LEMMA SentGrows ==
  ASSUME NEW M, NEW S
  PROVE  /\ \A v, h, r, b : CommitSent(v, h, r, b, M) => CommitSent(v, h, r, b, M \cup S)
         /\ \A c : CommitsSent(c, M) => CommitsSent(c, M \cup S)
         /\ \A s : Backed(s, M) => Backed(s, M \cup S)
  <1>1. ASSUME NEW v, NEW h, NEW r, NEW b, CommitSent(v, h, r, b, M)
        PROVE  CommitSent(v, h, r, b, M \cup S)
    BY <1>1 DEF CommitSent
  <1>2. ASSUME NEW c, CommitsSent(c, M) PROVE CommitsSent(c, M \cup S)
    BY <1>1, <1>2 DEF CommitsSent
  <1>3. ASSUME NEW h, NEW r, NEW b, QuorumSent(h, r, b, M)
        PROVE  QuorumSent(h, r, b, M \cup S)
    BY <1>1, <1>3 DEF QuorumSent
  <1>4. ASSUME NEW s, Backed(s, M) PROVE Backed(s, M \cup S)
    BY <1>3, <1>4 DEF Backed
  <1> QED BY <1>1, <1>2, <1>4

LEMMA FitsGrows ==
  ASSUME NEW c, NEW M, NEW S, Fits(c, M)
  PROVE  Fits(c, M \cup S)
  BY SentGrows DEF Fits, StoresBacked

LEMMA FitsAlike ==
  ASSUME NEW c, NEW d, NEW M, Fits(c, M), Alike(c, d)
  PROVE  Fits(d, M)
  BY DEF Fits, StoresBacked, CommitsSent, IsHashLocked, Alike, SameState, SameView,
         SameLocked

LEMMA KeptBacked ==
  ASSUME NEW c, NEW d, NEW M, StoresBacked(c, M), Kept(c, d)
  PROVE  StoresBacked(d, M)
  BY DEF StoresBacked, Kept

LEMMA StoresBackedAlso ==
  ASSUME NEW c, NEW d, NEW M, NEW s \in SealedBlocks, StoresBacked(c, M), Stores(c, d, s),
         Backed(s, M), c.chain \in Seq(SealedBlocks)
  PROVE  StoresBacked(d, M)
  <1>1. \A x \in d.sealResults \cup d.fetcher : Backed(x, M)
    BY DEF StoresBacked, Stores
  <1>2. CASE d.chain = c.chain
    BY <1>1, <1>2 DEF StoresBacked
  <1>3. CASE d.chain = Append(c.chain, s)
    <2>1. /\ Len(c.chain) \in Nat /\ DOMAIN c.chain = 1 .. Len(c.chain)
          /\ DOMAIN d.chain = 1 .. Len(c.chain) + 1
          /\ \A h \in 1 .. Len(c.chain) : d.chain[h] = c.chain[h]
          /\ d.chain[Len(c.chain) + 1] = s
      BY <1>3
    <2>2. ASSUME NEW h \in DOMAIN d.chain PROVE Backed(d.chain[h], M)
      <3>1. h \in DOMAIN c.chain \/ h = Len(c.chain) + 1
        BY <2>1
      <3> QED BY <2>1, <3>1 DEF StoresBacked
    <2> QED BY <1>1, <2>2 DEF StoresBacked
  <1> QED BY <1>2, <1>3 DEF Stores

LEMMA CommitNumbered ==
  ASSUME NEW n, NEW h, NEW r, NEW b, NEW seal, b.number = h
  PROVE  Numbered(NewCommit(n, h, r, b, seal)) /\ Numbered(OldCommit(n, h, r, b, seal))
  BY DEF Numbered, NewCommit, OldCommit, CommitOf

LEMMA PrepareNumbered ==
  ASSUME NEW n, NEW h, NEW r, NEW b, b.number = h
  PROVE  Numbered(PrepareOf(n, h, r, b))
  BY DEF Numbered, PrepareOf

LEMMA KindFits ==
  ASSUME NEW c, NEW n, NEW M, Good(c, n, M), c.round \in Rounds, Fits(c, M),
         NEW d, Kind(c, d, n, M)
  PROVE  Fits(d, M) /\ \A m \in d.out : Numbered(m)
  <1>0. /\ ~Idle(c) => c.preprepare \in Blocks /\ c.preprepare # NoBlock
        /\ c.chain \in Seq(SealedBlocks)
        /\ \A h \in DOMAIN c.chain : c.chain[h].block.number = h
    BY CoreBlocks DEF Good, Sound, Typed, BackendTyped
  <1>a. /\ c.preprepare # NoBlock => c.preprepare.number = c.sequence
        /\ CommitsSent(c, M)
        /\ ~c.waiting /\ c.state = Preprepared => ~IsHashLocked(c)
        /\ StoresBacked(c, M)
    BY DEF Fits
  <1>1. CASE Stays(c, d, M)
    BY <1>1, <1>a, KeptBacked
       DEF Stays, SameState, SameView, SameLocked, Fits, IsHashLocked, NoVote
  <1>2. ASSUME Begins(c, d),
               \/ d.sequence = c.sequence /\ d.preprepare = c.preprepare
               \/ d.preprepare = NoBlock
        PROVE  Fits(d, M) /\ \A m \in d.out : Numbered(m)
    <2>1. CommitsSent(d, M)
      BY <1>2, NoSeals DEF Begins, CommitsSent
    <2>2. ~(~d.waiting /\ d.state = Preprepared)
      BY <1>2 DEF Begins, Idle, AcceptRequest, Preprepared
    <2> QED BY <1>2, <1>a, <2>1, <2>2, KeptBacked DEF Begins, Fits, NoVote
  <1>3. CASE \/ Enters(c, d) \/ Leaves(c, d) \/ Restarts(c, d, n) \/ Drops(c, d, n, M)
    <2>1. /\ Begins(c, d)
          /\ \/ d.sequence = c.sequence /\ d.preprepare = c.preprepare
             \/ d.preprepare = NoBlock
      BY <1>3 DEF Enters, Leaves, Restarts, Drops, NoLock
    <2> QED BY <1>2, <2>1
  <1>4. ASSUME Accepts(c, d) PROVE CommitsSent(d, M) /\ StoresBacked(d, M)
                                   /\ d.preprepare.number = d.sequence
                                   /\ d.sequence = c.sequence
    BY <1>4, <1>a, KeptBacked, NoSeals DEF Accepts, CommitsSent, SameView
  <1>5. CASE Prepares(c, d, n, M)
    <2>1. \A m \in d.out : Numbered(m)
      BY <1>4, <1>5, PrepareNumbered DEF Prepares
    <2> QED BY <1>4, <1>5, <2>1 DEF Prepares, Fits, IsHashLocked
  <1>6. CASE Recommits(c, d, n)
    <2>1. \A m \in d.out : Numbered(m)
      BY <1>4, <1>6, CommitNumbered DEF Recommits, Votes
    <2> QED BY <1>4, <1>6, <2>1 DEF Recommits, Fits, Preprepared, Prepared
  <1>7. CASE Locks(c, d, n, M)
    <2>1. /\ d.preprepare = c.preprepare /\ d.sequence = c.sequence /\ d.round = c.round
          /\ c.preprepare # NoBlock /\ d.commits = c.commits /\ d.state # Preprepared
      BY <1>0, <1>7 DEF Locks, Locked, SameView, Preprepared, Prepared
    <2>2. CommitsSent(d, M)
      BY <1>a, <2>1 DEF CommitsSent
    <2>3. StoresBacked(d, M)
      BY <1>7, <1>a, KeptBacked DEF Locks
    <2>4. \A m \in d.out : Numbered(m)
      BY <1>7, <1>a, <2>1, CommitNumbered DEF Locks, Votes
    <2> QED BY <1>a, <2>1, <2>2, <2>3, <2>4 DEF Fits
  <1>8. CASE Commits(c, d, M)
    <2>1. /\ d.preprepare = c.preprepare /\ d.sequence = c.sequence /\ c.preprepare # NoBlock
          /\ d.state # Preprepared /\ CommitsSent(d, M) /\ d.out = {}
      BY <1>0, <1>8 DEF Commits, Locked, SameView, Preprepared, Committed
    <2>2. PICK s \in SealedBlocks : s.block = c.preprepare /\ Stores(c, d, s)
      BY <1>8 DEF Commits
    <2>3. Backed(s, M)
      BY <1>8, <1>a, <2>1, <2>2 DEF Backed, Commits, Committable
    <2>4. StoresBacked(d, M)
      BY <1>0, <1>a, <2>2, <2>3, StoresBackedAlso
    <2> QED BY <1>a, <2>1, <2>4 DEF Fits
  <1>9. CASE Writes(c, d, M)
    <2>1. PICK s \in SealedBlocks : Backed(s, M) /\ Stores(c, d, s)
      BY <1>9 DEF Writes
    <2>2. StoresBacked(d, M)
      BY <1>0, <1>a, <2>1, StoresBackedAlso
    <2>3. SameState(c, d) /\ d.commits = c.commits /\ d.out = {}
      BY <1>9 DEF Writes
    <2> QED
      BY <1>a, <2>2, <2>3 DEF Fits, SameState, SameView, SameLocked, IsHashLocked, CommitsSent
  <1>10. CASE Answers(c, d, n, M)
    <2>1. SameState(c, d) /\ d.commits = c.commits /\ StoresBacked(d, M)
      BY <1>10, <1>a, KeptBacked DEF Answers
    <2>2. \A m \in d.out : Numbered(m)
      <3>1. PICK h \in DOMAIN c.chain, r \in Rounds, seal \in Hashes :
                d.out = {OldCommit(n, h, r, c.chain[h].block, seal)}
        BY <1>10 DEF Answers
      <3>2. c.chain[h].block.number = h
        BY <1>0
      <3>3. Numbered(OldCommit(n, h, r, c.chain[h].block, seal))
        BY <3>2, CommitNumbered
      <3> QED BY <3>1, <3>3
    <2> QED
      BY <1>a, <2>1, <2>2 DEF Fits, SameState, SameView, SameLocked, IsHashLocked, CommitsSent
  <1> QED
    BY <1>1, <1>3, <1>5, <1>6, <1>7, <1>8, <1>9, <1>10 DEF Kind, Moves

-----------------------------------------------------------------------------
(* Every step of the network is of some kind.                              *)

\* The inductive invariant of the refinement.
RefInv ==
    /\ NetInv
    /\ \A n \in Running : Fits(node[n], msgs)
    /\ \A m \in msgs : Numbered(m)

\* Validator n takes a step of some kind.
TakesKind(n) ==
    \E d : /\ Kind(node[n], d, n, msgs) /\ Alike(d, node'[n])
           /\ node' = [node EXCEPT ![n] = node'[n]] /\ msgs' = msgs \cup d.out

LEMMA BecomesKind ==
  ASSUME NetInv, NEW n \in Running, NEW c, HasFields(c), Kind(node[n], c, n, msgs),
         Becomes(n, c)
  PROVE  TakesKind(n)
  <1> DEFINE e == [c EXCEPT !.out = {}]
  <1>1. node' = [node EXCEPT ![n] = e] /\ msgs' = msgs \cup c.out /\ DOMAIN node = Running
    BY DEF Becomes, NetInv
  <1>2. Alike(c, e)
    BY DEF HasFields, Fields, Alike, SameState, SameView, SameLocked
  <1> HIDE DEF e
  <1>3. node'[n] = e
    BY <1>1
  <1> QED
    BY <1>1, <1>2, <1>3 DEF TakesKind

LEMMA HandlesKind ==
  ASSUME NetInv, NEW n \in Running, NEW m, NEW c, HasFields(c),
         Kind(node[n], c, n, msgs), Handles(n, m, c)
  PROVE  TakesKind(n)
  <1> DEFINE k == MarkKnown(n, m, c)
             e == [k EXCEPT !.out = {}]
  <1>1. node' = [node EXCEPT ![n] = e] /\ msgs' = msgs \cup k.out /\ DOMAIN node = Running
    BY DEF Handles, Becomes, NetInv
  <1>2. HasFields(k) /\ Alike(c, k) /\ k.out = c.out
    BY DEF MarkKnown, HasFields, Fields, Alike, SameState, SameView, SameLocked
  <1> HIDE DEF k
  <1>3. Alike(c, e)
    BY <1>2 DEF HasFields, Fields, Alike, SameState, SameView, SameLocked
  <1> HIDE DEF e
  <1>4. node'[n] = e /\ msgs' = msgs \cup c.out
    BY <1>1, <1>2
  <1> QED
    BY <1>1, <1>3, <1>4 DEF TakesKind

\* A step that sends nothing.
LEMMA SilentKind ==
  ASSUME NetInv, NEW n \in Running, NEW d, node' = [node EXCEPT ![n] = d],
         UNCHANGED msgs, Kind(node[n], d, n, msgs), d.out = {}
  PROVE  TakesKind(n)
  <1>1. node'[n] = d
    BY DEF NetInv
  <1>2. Alike(d, d)
    BY DEF Alike, SameState, SameView, SameLocked
  <1> QED
    BY <1>1, <1>2 DEF TakesKind

\* A step that changes neutral fields only.
LEMMA NeutralKind ==
  ASSUME NetInv, NEW n \in Running, NEW d, node' = [node EXCEPT ![n] = d],
         UNCHANGED msgs, Frame(node[n], d, {"lastView", "working", "proposedBlockHash",
                                            "requests"})
  PROVE  TakesKind(n)
  <1>1. node[n].out = {}
    BY RunningGood
  <1>2. Alike(node[n], d) /\ NoVote(d) /\ d.out = {}
    BY <1>1 DEF Frame, Fields, Alike, SameState, SameView, SameLocked, NoVote
  <1>3. Kind(node[n], d, n, msgs)
    BY <1>2, StaysSame DEF Kind, Moves
  <1> QED
    BY <1>2, <1>3, SilentKind

LEMMA ShouldSealKind ==
  ASSUME NetInv, NEW n \in Running, ShouldSeal(n)
  PROVE  TakesKind(n)
  <1> DEFINE c == node[n]
             d == [c EXCEPT !.lastView = View(c), !.working = TRUE]
  <1>1. HasFields(c) /\ DOMAIN node = Running
    BY RunningGood DEF NetInv
  <1>2. node' = [node EXCEPT ![n] = d] /\ UNCHANGED msgs
    BY <1>1 DEF ShouldSeal
  <1>3. Frame(node[n], d, {"lastView", "working", "proposedBlockHash", "requests"})
    BY <1>1 DEF Frame, Fields, HasFields
  <1> HIDE DEF d
  <1> QED
    BY <1>2, <1>3, NeutralKind

LEMMA SealKind ==
  ASSUME NetInv, NEW n \in Running, NEW b, Seal(n, b)
  PROVE  TakesKind(n)
  <1> DEFINE c == node[n]
             d == [c EXCEPT !.working = FALSE, !.proposedBlockHash = b,
                            !.requests = @ \cup {b}]
  <1>1. HasFields(c) /\ DOMAIN node = Running
    BY RunningGood DEF NetInv
  <1>2. node' = [node EXCEPT ![n] = d] /\ UNCHANGED msgs
    BY <1>1 DEF Seal
  <1>3. Frame(node[n], d, {"lastView", "working", "proposedBlockHash", "requests"})
    BY <1>1 DEF Frame, Fields, HasFields
  <1> HIDE DEF d
  <1> QED
    BY <1>2, <1>3, NeutralKind

\* A block that was committed is written.
LEMMA WrittenKind ==
  ASSUME NetInv, NEW n \in Running, NEW s \in SealedBlocks, Backed(s, msgs), NEW d,
         node' = [node EXCEPT ![n] = d], UNCHANGED msgs,
         Frame(WriteBlock(node[n], s), d, {"sealResults", "fetcher"}),
         d.sealResults \subseteq WriteBlock(node[n], s).sealResults,
         d.fetcher \subseteq WriteBlock(node[n], s).fetcher
  PROVE  TakesKind(n)
  <1> DEFINE c == node[n]
             w == WriteBlock(c, s)
  <1>1. HasFields(c) /\ c.out = {}
    BY RunningGood
  <1>2. /\ Frame(c, w, {"chain"})
        /\ \/ w.chain = c.chain
           \/ s.block.number = LastNumber(c) + 1 /\ w.chain = Append(c.chain, s)
    BY <1>1 DEF WriteBlock, Frame, Fields, HasFields
  <1> HIDE DEF w, c
  <1>3. /\ Frame(w, d, {"sealResults", "fetcher"})
        /\ d.sealResults \subseteq w.sealResults /\ d.fetcher \subseteq w.fetcher
    BY DEF w, c
  <1>4. SameState(c, d) /\ d.out = {} /\ d.commits = c.commits /\ Stores(c, d, s)
    BY <1>1, <1>2, <1>3 DEF Frame, Fields, SameState, SameView, SameLocked, Stores
  <1>5. Kind(c, d, n, msgs)
    BY <1>4 DEF Writes, Kind
  <1> QED
    BY <1>4, <1>5, SilentKind DEF c

LEMMA WriteSealedKind ==
  ASSUME RefInv, NEW n \in Running, NEW s \in node[n].sealResults, WriteSealed(n, s)
  PROVE  TakesKind(n)
  <1> DEFINE w == WriteBlock(node[n], s)
             d == [w EXCEPT !.sealResults = @ \ {s}]
  <1>1. NetInv /\ Typed(node[n]) /\ Good(node[n], n, msgs) /\ Fits(node[n], msgs)
    BY RunningGood DEF RefInv
  <1>2. s \in SealedBlocks /\ Backed(s, msgs)
    BY <1>1 DEF Typed, BackendTyped, Fits, StoresBacked
  <1>3. HasFields(w)
    BY <1>1, <1>2, WriteBlockGood DEF Good, Sound, Typed
  <1>4. node' = [node EXCEPT ![n] = d] /\ UNCHANGED <<msgs, sealed>>
    BY Zenon DEF WriteSealed
  <1> HIDE DEF w
  <1>5. /\ Frame(w, d, {"sealResults", "fetcher"}) /\ d.sealResults \subseteq w.sealResults
        /\ d.fetcher \subseteq w.fetcher
    BY <1>3 DEF Frame, Fields, HasFields
  <1> HIDE DEF d
  <1> QED
    BY <1>1, <1>2, <1>4, <1>5, WrittenKind DEF w

LEMMA ImportKind ==
  ASSUME RefInv, NEW n \in Running, NEW s, Import(n, s)
  PROVE  TakesKind(n)
  <1> DEFINE w == WriteBlock(node[n], s)
             d == [w EXCEPT !.fetcher = @ \ {s}]
  <1>1. NetInv /\ Typed(node[n]) /\ Good(node[n], n, msgs) /\ Fits(node[n], msgs)
    BY RunningGood DEF RefInv
  <1>2. s \in SealedBlocks /\ Backed(s, msgs)
    <2>1. CASE s \in node[n].fetcher
      BY <1>1, <2>1 DEF Typed, BackendTyped, Fits, StoresBacked
    <2>2. ASSUME NEW m \in Running, NEW h \in DOMAIN node[m].chain,
                 s = node[m].chain[h]
          PROVE  s \in SealedBlocks /\ Backed(s, msgs)
      <3>1. node[m].chain \in Seq(SealedBlocks)
        BY <1>1, RunningGood DEF Typed, BackendTyped
      <3>2. Fits(node[m], msgs)
        BY DEF RefInv
      <3> QED BY <2>2, <3>1, <3>2 DEF Fits, StoresBacked
    <2> QED BY <2>1, <2>2 DEF Import
  <1>3. HasFields(w)
    BY <1>1, <1>2, WriteBlockGood DEF Good, Sound, Typed
  <1>4. node' = [node EXCEPT ![n] = d] /\ UNCHANGED <<msgs, sealed>>
    BY Zenon DEF Import
  <1> HIDE DEF w
  <1>5. /\ Frame(w, d, {"sealResults", "fetcher"}) /\ d.sealResults \subseteq w.sealResults
        /\ d.fetcher \subseteq w.fetcher
    BY <1>3 DEF Frame, Fields, HasFields
  <1> HIDE DEF d
  <1> QED
    BY <1>1, <1>2, <1>4, <1>5, WrittenKind DEF w

LEMMA RestartKind ==
  ASSUME NetInv, NEW n \in Running, Restart(n)
  PROVE  TakesKind(n)
  <1> DEFINE c == node[n]
             d == Started(n, c.chain)
  <1>1. /\ c.chain \in Seq(SealedBlocks) /\ DOMAIN node = Running /\ c.sequence \in Nat
        /\ c.sequence <= Len(c.chain) + 1
    BY RunningGood DEF NetInv, Typed, BackendTyped, Positioned, LastNumber
  <1>2. n \in Restarting /\ UNCHANGED msgs /\ node' = [node EXCEPT ![n] = d]
    <2>1. d = Start(n, c.chain, Rounds, n \in Eager)
      BY Zenon DEF Started
    <2> HIDE DEF d
    <2> QED BY <1>1, <2>1 DEF Restart
  <1> HIDE DEF c
  <1>3. /\ HasFields(d) /\ d.sequence = Len(c.chain) + 1 /\ d.round = 0
        /\ d.state = AcceptRequest /\ d.waiting = FALSE
        /\ d.proposer \in Validators /\ d.lastView = <<0, 0>>
        /\ d.preprepare = NoBlock /\ d.prepares = {} /\ d.commits = << >>
        /\ d.lockedHash = NoBlock /\ d.lockedRound = 0 /\ d.lockedPrepares = {}
        /\ d.pendingRequest = NoBlock /\ d.pendingRequests = {}
        /\ d.roundChanges \in [Rounds -> SUBSET Validators]
        /\ d.proposedBlockHash = NoBlock /\ d.executed = NoBlock
        /\ d.working \in BOOLEAN /\ d.requests = {} /\ d.sealResults = {}
        /\ d.fetcher = {} /\ d.chain = c.chain /\ d.known = {} /\ d.out = {}
    BY <1>1, StartFields
  <1> HIDE DEF d
  <1>4. Restarts(c, d, n)
    BY <1>1, <1>2, <1>3 DEF Restarts, Begins, Idle, Kept, NoVote, NoLock
  <1>5. Kind(c, d, n, msgs)
    BY <1>4 DEF Kind
  <1> QED
    BY <1>2, <1>3, <1>5, SilentKind DEF c

LEMMA RequestKind ==
  ASSUME NetInv, NEW n \in Running, NEW b \in node[n].requests, Request(n, b)
  PROVE  TakesKind(n)
  <1> DEFINE c == node[n]
             r == [c EXCEPT !.requests = @ \ {b}]
             d == HandleRequest(r, n, b)
  <1> USE DEF Frame, Fields, HasFields, Neutral
  <1>1. /\ Typed(c) /\ Good(c, n, msgs) /\ HasFields(c) /\ c.round \in Rounds
        /\ n \in Validators /\ c.out = {}
    BY RunningGood
  <1>2. b \in Blocks
    BY <1>1 DEF Typed, BackendTyped
  <1>3. Becomes(n, d)
    BY DEF Request
  <1> HIDE DEF c
  <1>4. Frame(c, r, {"requests"}) /\ r.requests = c.requests \ {b}
    BY <1>1
  <1> HIDE DEF r
  <1>5. Typed(r)
    BY <1>1, <1>4 DEF Typed, RoundTyped, IsCore, BackendTyped, Positioned, LastNumber
  <1>6. Good(r, n, msgs) /\ r.round \in Rounds /\ r.out = {}
    BY <1>1, <1>4, <1>5, NeutralGood
  <1>7. Good(d, n, msgs)
    BY <1>1, <1>2, <1>6, HandleRequestGood
  <1>8. Stays(r, d, msgs)
    BY <1>2, <1>6, HandleRequestKind
  <1> HIDE DEF d
  <1>9. Alike(c, r)
    BY <1>4 DEF Alike, SameState, SameView, SameLocked
  <1>10. Kind(c, d, n, msgs)
    BY <1>8, <1>9, KindAlike DEF Kind, Moves
  <1>11. HasFields(d)
    BY <1>7 DEF Good, Sound, Typed
  <1> QED
    BY <1>3, <1>10, <1>11, BecomesKind DEF c

LEMMA TimeoutKind ==
  ASSUME NetInv, NEW n \in Running, Timeout(n)
  PROVE  TakesKind(n)
  <1> DEFINE d == HandleTimeout(node[n], n)
  <1>1. Good(node[n], n, msgs) /\ node[n].out = {} /\ n \in Validators
    BY RunningGood
  <1>2. Good(d, n, msgs)
    BY <1>1, HandleTimeoutGood
  <1>3. HasFields(d)
    BY <1>2 DEF Good, Sound, Typed
  <1>4. Kind(node[n], d, n, msgs)
    BY <1>1, HandleTimeoutKind DEF Kind
  <1>5. Becomes(n, d)
    BY DEF Timeout
  <1> HIDE DEF d
  <1> QED
    BY <1>3, <1>4, <1>5, BecomesKind

LEMMA FinalCommittedKind ==
  ASSUME NetInv, NEW n \in Running, FinalCommitted(n)
  PROVE  TakesKind(n)
  <1> DEFINE d == StartNewRound(node[n], n, 0)
  <1>1. Good(node[n], n, msgs) /\ node[n].out = {} /\ n \in Validators
    BY RunningGood
  <1>2. Good(d, n, msgs)
    BY <1>1, StartNewRoundGood
  <1>3. HasFields(d)
    BY <1>2 DEF Good, Sound, Typed
  <1>4. Kind(node[n], d, n, msgs)
    BY <1>1, StartNewRoundKind DEF Kind
  <1>5. Becomes(n, d)
    BY DEF FinalCommitted
  <1> HIDE DEF d
  <1> QED
    BY <1>3, <1>4, <1>5, BecomesKind

LEMMA PreprepareKind ==
  ASSUME RefInv, NEW n \in Running, NEW m \in msgs, Preprepare(n, m)
  PROVE  TakesKind(n)
  <1> DEFINE d == HandlePreprepare(node[n], n, m)
  <1>1. /\ NetInv /\ Good(node[n], n, msgs) /\ n \in Validators
        /\ m \in Messages(Rounds) /\ node[n].out = {}
    BY RunningGood, MessageTyped DEF RefInv
  <1>2. Numbered(m) /\ LocksEarlier(m) /\ ProvesLocks(msgs)
    BY DEF RefInv, NetInv
  <1>3. m.type = "PREPREPARE" /\ Handles(n, m, d)
    BY DEF Preprepare
  <1>4. Good(d, n, msgs)
    BY <1>1, <1>3, HandlePreprepareGood
  <1>5. HasFields(d)
    BY <1>4 DEF Good, Sound, Typed
  <1>6. Kind(node[n], d, n, msgs)
    BY <1>1, <1>2, <1>3, HandlePreprepareKind
  <1> HIDE DEF d
  <1> QED
    BY <1>1, <1>3, <1>5, <1>6, HandlesKind

LEMMA PrepareKind ==
  ASSUME RefInv, NEW n \in Running, NEW m \in msgs, Prepare(n, m)
  PROVE  TakesKind(n)
  <1> DEFINE d == HandlePrepare(node[n], n, m)
  <1>1. /\ NetInv /\ Good(node[n], n, msgs) /\ n \in Validators
        /\ m \in Messages(Rounds) /\ node[n].out = {} /\ Fits(node[n], msgs)
    BY RunningGood, MessageTyped DEF RefInv
  <1>2. m.type = "PREPARE" /\ Handles(n, m, d)
    BY DEF Prepare
  <1>3. Good(d, n, msgs)
    BY <1>1, <1>2, HandlePrepareGood
  <1>4. HasFields(d)
    BY <1>3 DEF Good, Sound, Typed
  <1>5. Kind(node[n], d, n, msgs)
    BY <1>1, <1>2, HandlePrepareKind
  <1> HIDE DEF d
  <1> QED
    BY <1>1, <1>2, <1>4, <1>5, HandlesKind

LEMMA CommitMsgKind ==
  ASSUME RefInv, NEW n \in Running, NEW m \in msgs, NEW o \in CommitOutcomes,
         CommitMsg(n, m, o)
  PROVE  TakesKind(n)
  <1> DEFINE d == HandleCommit(node[n], n, m, o)
  <1>1. /\ NetInv /\ Good(node[n], n, msgs) /\ n \in Validators
        /\ m \in Messages(Rounds) /\ node[n].out = {} /\ Fits(node[n], msgs)
    BY RunningGood, MessageTyped DEF RefInv
  <1>2. m.type = "COMMIT" /\ Handles(n, m, d) /\ (o = "ok" \/ n \in Failing)
    BY DEF CommitMsg
  <1>3. Good(d, n, msgs)
    BY <1>1, <1>2, HandleCommitGood
  <1>4. HasFields(d)
    BY <1>3 DEF Good, Sound, Typed
  <1>5. Kind(node[n], d, n, msgs)
    BY <1>1, <1>2, HandleCommitKind
  <1> HIDE DEF d
  <1> QED
    BY <1>1, <1>2, <1>4, <1>5, HandlesKind

LEMMA RoundChangeKind ==
  ASSUME RefInv, NEW n \in Running, NEW m \in msgs, RoundChange(n, m)
  PROVE  TakesKind(n)
  <1> DEFINE d == HandleRoundChange(node[n], n, m)
  <1>1. /\ NetInv /\ Good(node[n], n, msgs) /\ n \in Validators
        /\ m \in Messages(Rounds) /\ node[n].out = {}
    BY RunningGood, MessageTyped DEF RefInv
  <1>2. Handles(n, m, d)
    BY DEF RoundChange
  <1>3. Good(d, n, msgs)
    BY <1>1, HandleRoundChangeGood
  <1>4. HasFields(d)
    BY <1>3 DEF Good, Sound, Typed
  <1>5. Kind(node[n], d, n, msgs)
    BY <1>1, HandleRoundChangeKind
  <1> HIDE DEF d
  <1> QED
    BY <1>1, <1>2, <1>4, <1>5, HandlesKind

LEMMA NextKind ==
  ASSUME RefInv, Next
  PROVE  \E n \in Running : TakesKind(n)
  <1>1. NetInv
    BY DEF RefInv
  <1>2. PICK n \in Running :
          \/ ShouldSeal(n) \/ Timeout(n) \/ FinalCommitted(n) \/ Restart(n)
          \/ \E b \in Blocks : Seal(n, b)
          \/ \E b \in node[n].requests : Request(n, b)
          \/ \E s \in node[n].sealResults : WriteSealed(n, s)
          \/ \E s \in Stored(n) : Import(n, s)
          \/ \E m \in msgs : Preprepare(n, m) \/ Prepare(n, m) \/ RoundChange(n, m)
          \/ \E m \in msgs, o \in CommitOutcomes : CommitMsg(n, m, o)
    BY Zenon DEF Next
  <1>3. TakesKind(n)
    BY <1>1, <1>2, ShouldSealKind, TimeoutKind, FinalCommittedKind, RestartKind, SealKind,
       RequestKind, WriteSealedKind, ImportKind, PreprepareKind, PrepareKind,
       RoundChangeKind, CommitMsgKind
  <1> QED
    BY <1>3

LEMMA KindInv ==
  ASSUME RefInv, NetInv', NEW n \in Running, TakesKind(n)
  PROVE  RefInv'
  <1>1. PICK d : /\ Kind(node[n], d, n, msgs) /\ Alike(d, node'[n])
                 /\ node' = [node EXCEPT ![n] = node'[n]] /\ msgs' = msgs \cup d.out
    BY DEF TakesKind
  <1>2. /\ Good(node[n], n, msgs) /\ node[n].round \in Rounds /\ Fits(node[n], msgs)
        /\ DOMAIN node = Running
    BY DEF RefInv, NetInv
  <1>3. Fits(d, msgs) /\ \A m \in d.out : Numbered(m)
    BY <1>1, <1>2, KindFits
  <1>4. Fits(node'[n], msgs')
    BY <1>1, <1>3, FitsAlike, FitsGrows
  <1>5. ASSUME NEW k \in Running PROVE Fits(node'[k], msgs')
    <2>1. CASE k = n
      BY <1>4, <2>1
    <2>2. CASE k # n
      <3>1. node'[k] = node[k]
        BY <1>1, <1>2, <2>2
      <3>2. Fits(node[k], msgs)
        BY DEF RefInv
      <3> QED BY <1>1, <3>1, <3>2, FitsGrows
    <2> QED BY <2>1, <2>2
  <1>6. \A m \in msgs' : Numbered(m)
    BY <1>1, <1>3 DEF RefInv
  <1> QED
    BY <1>5, <1>6 DEF RefInv

\* All validators run the engine.
AllRun == Running = Validators

LEMMA RefInvInit ==
  ASSUME Init, AllRun
  PROVE  RefInv /\ msgs = {}
  <1>1. NetInv
    BY InitInv
  <1>2. msgs = {}
    BY RoundsNat, MessageFacts, EnvAssumption DEF Init, AllRun
  <1>3. ASSUME NEW n \in Running PROVE Fits(node[n], msgs)
    <2> DEFINE d == Started(n, << >>)
    <2>1. << >> \in Seq(SealedBlocks)
      OBVIOUS
    <2>2. node[n] = d
      BY Zenon DEF Init, Started
    <2>3. /\ HasFields(d) /\ d.sequence = Len(<< >>) + 1 /\ d.round = 0
          /\ d.state = AcceptRequest /\ d.waiting = FALSE
          /\ d.proposer \in Validators /\ d.lastView = <<0, 0>>
          /\ d.preprepare = NoBlock /\ d.prepares = {} /\ d.commits = << >>
          /\ d.lockedHash = NoBlock /\ d.lockedRound = 0 /\ d.lockedPrepares = {}
          /\ d.pendingRequest = NoBlock /\ d.pendingRequests = {}
          /\ d.roundChanges \in [Rounds -> SUBSET Validators]
          /\ d.proposedBlockHash = NoBlock /\ d.executed = NoBlock
          /\ d.working \in BOOLEAN /\ d.requests = {} /\ d.sealResults = {}
          /\ d.fetcher = {} /\ d.chain = << >> /\ d.known = {} /\ d.out = {}
      BY <2>1, StartFields
    <2> HIDE DEF d
    <2>4. CommitsSent(d, msgs) /\ StoresBacked(d, msgs)
      BY <2>3, NoSeals DEF CommitsSent, StoresBacked
    <2>5. Fits(d, msgs)
      BY <2>3, <2>4 DEF Fits, IsHashLocked
    <2> QED BY <2>2, <2>5
  <1> QED
    BY <1>1, <1>2, <1>3 DEF RefInv

LEMMA RefInvStep ==
  ASSUME RefInv, [Next]_vars
  PROVE  RefInv'
  <1>1. CASE Next
    <2>1. NetInv'
      BY <1>1, NextStep DEF RefInv
    <2>2. PICK n \in Running : TakesKind(n)
      BY <1>1, NextKind
    <2> QED BY <2>1, <2>2, KindInv
  <1>2. CASE UNCHANGED vars
    BY <1>2 DEF vars, RefInv, NetInv
  <1> QED BY <1>1, <1>2

-----------------------------------------------------------------------------
(* The votes.                                                              *)

\* The state of n is mapped from c.
MapsFrom(n, c) ==
    /\ VoteHeight[n] = c.sequence /\ VoteRound[n] = c.round
    /\ VoteAccepted[n] = Accepted(c)
    /\ VoteLockedHash[n] = c.lockedHash /\ VoteLockedRound[n] = c.lockedRound
    /\ \A b \in Blocks : <<n, b>> \in VoteDecided <=> HasProposal(c, b)

\* The next state of n is mapped from d, and that of the others is the same.
MapsTo(n, d) ==
    /\ VoteHeight' = [VoteHeight EXCEPT ![n] = d.sequence]
    /\ VoteRound' = [VoteRound EXCEPT ![n] = d.round]
    /\ VoteAccepted' = [VoteAccepted EXCEPT ![n] = Accepted(d)]
    /\ VoteLockedHash' = [VoteLockedHash EXCEPT ![n] = d.lockedHash]
    /\ VoteLockedRound' = [VoteLockedRound EXCEPT ![n] = d.lockedRound]
    /\ \A k \in Validators, b \in Blocks : <<k, b>> \in VoteDecided' <=>
           IF k = n THEN HasProposal(d, b) ELSE <<k, b>> \in VoteDecided

LEMMA MapAlike ==
  ASSUME NEW d, NEW e, Alike(d, e)
  PROVE  /\ e.sequence = d.sequence /\ e.round = d.round /\ Accepted(e) = Accepted(d)
         /\ e.lockedHash = d.lockedHash /\ e.lockedRound = d.lockedRound
         /\ \A b : HasProposal(e, b) <=> HasProposal(d, b)
  BY DEF Alike, SameState, SameView, SameLocked, Accepted, HasProposal

LEMMA MapNode ==
  ASSUME AllRun, DOMAIN node = Running, NEW n \in Running, NEW d, Alike(d, node'[n]),
         node' = [node EXCEPT ![n] = node'[n]]
  PROVE  MapsFrom(n, node[n]) /\ MapsTo(n, d)
  <1>0. n \in Validators /\ DOMAIN node = Validators
    BY DEF AllRun
  <1>1. MapsFrom(n, node[n])
    BY <1>0 DEF MapsFrom, VoteHeight, VoteRound, VoteAccepted, VoteLockedHash, VoteLockedRound,
         VoteDecided
  <1> DEFINE e == node'[n]
  <1>2. \A k \in Validators : node'[k] = IF k = n THEN e ELSE node[k]
    BY <1>0
  <1> HIDE DEF e
  <1>a. VoteHeight' = [VoteHeight EXCEPT ![n] = e.sequence]
    BY <1>0, <1>2 DEF VoteHeight
  <1>3. VoteRound' = [VoteRound EXCEPT ![n] = e.round]
    BY <1>0, <1>2 DEF VoteRound
  <1>4. VoteAccepted' = [VoteAccepted EXCEPT ![n] = Accepted(e)]
    BY <1>0, <1>2 DEF VoteAccepted, Accepted
  <1>5. VoteLockedHash' = [VoteLockedHash EXCEPT ![n] = e.lockedHash]
    BY <1>0, <1>2 DEF VoteLockedHash
  <1>6. VoteLockedRound' = [VoteLockedRound EXCEPT ![n] = e.lockedRound]
    BY <1>0, <1>2 DEF VoteLockedRound
  <1>7. ASSUME NEW k \in Validators, NEW b \in Blocks
        PROVE  <<k, b>> \in VoteDecided' <=>
                   IF k = n THEN HasProposal(e, b) ELSE <<k, b>> \in VoteDecided
    <2>1. <<k, b>> \in VoteDecided <=> HasProposal(node[k], b)
      BY DEF VoteDecided
    <2>2. <<k, b>> \in VoteDecided' <=> HasProposal(node'[k], b)
      BY DEF VoteDecided, HasProposal
    <2>3. CASE k = n
      BY <1>2, <2>2, <2>3
    <2>4. CASE k # n
      BY <1>2, <2>1, <2>2, <2>4
    <2> QED BY <2>3, <2>4
  <1>9. Alike(d, e)
    BY DEF e
  <1>10. /\ e.sequence = d.sequence /\ e.round = d.round /\ Accepted(e) = Accepted(d)
         /\ e.lockedHash = d.lockedHash /\ e.lockedRound = d.lockedRound
         /\ \A b : HasProposal(e, b) <=> HasProposal(d, b)
    BY <1>9, MapAlike
  <1>11. \A k \in Validators, b \in Blocks : <<k, b>> \in VoteDecided' <=>
            IF k = n THEN HasProposal(d, b) ELSE <<k, b>> \in VoteDecided
    BY <1>7, <1>10
  <1> QED
    BY <1>1, <1>a, <1>3, <1>4, <1>5, <1>6, <1>10, <1>11 DEF MapsTo

\* The components of the mapped state are functions.
LEMMA MapFunctions ==
  ASSUME NEW n
  PROVE  /\ VoteHeight = [VoteHeight EXCEPT ![n] = VoteHeight[n]]
         /\ VoteRound = [VoteRound EXCEPT ![n] = VoteRound[n]]
         /\ VoteAccepted = [VoteAccepted EXCEPT ![n] = VoteAccepted[n]]
         /\ VoteLockedHash = [VoteLockedHash EXCEPT ![n] = VoteLockedHash[n]]
         /\ VoteLockedRound = [VoteLockedRound EXCEPT ![n] = VoteLockedRound[n]]
  BY DEF VoteHeight, VoteRound, VoteAccepted, VoteLockedHash, VoteLockedRound

SameVotes == UNCHANGED <<VotePrepares, VoteCommits, VoteOldCommits>>

LEMMA MapNoVotes ==
  ASSUME NEW S, \A m \in S : m.type \notin {"PREPARE", "COMMIT"}, msgs' = msgs \cup S
  PROVE  SameVotes
  BY DEF SameVotes, VotePrepares, VoteCommits, VoteOldCommits, VotesOf

LEMMA MapPrepare ==
  ASSUME NEW n, NEW h, NEW r, NEW b, msgs' = msgs \cup {PrepareOf(n, h, r, b)}
  PROVE  /\ UNCHANGED <<VoteCommits, VoteOldCommits>>
         /\ VotePrepares' = VotePrepares \cup {<<n, r, b>>}
  <1> DEFINE p == PrepareOf(n, h, r, b)
  <1>1. p.type = "PREPARE" /\ p.src = n /\ p.round = r /\ p.block = b
    BY DEF PrepareOf
  <1> HIDE DEF p
  <1>2. msgs' = msgs \cup {p}
    BY DEF p
  <1>3. VoteCommits' = VoteCommits
    BY <1>1, <1>2 DEF VoteCommits, VotesOf
  <1>4. VoteOldCommits' = VoteOldCommits
    BY <1>1, <1>2 DEF VoteOldCommits, VotesOf
  <1>5. VotePrepares' = VotePrepares \cup {<<n, r, b>>}
    BY <1>1, <1>2 DEF VotePrepares, VotesOf
  <1> QED BY <1>3, <1>4, <1>5

LEMMA MapCommit ==
  ASSUME NEW n, NEW h, NEW r, NEW b, NEW s, msgs' = msgs \cup {NewCommit(n, h, r, b, s)}
  PROVE  /\ UNCHANGED <<VotePrepares, VoteOldCommits>>
         /\ VoteCommits' = VoteCommits \cup {<<n, r, b>>}
  <1> DEFINE p == NewCommit(n, h, r, b, s)
  <1>1. p.type = "COMMIT" /\ p.src = n /\ p.round = r /\ p.block = b /\ p.old = FALSE
    BY DEF NewCommit, CommitOf
  <1> HIDE DEF p
  <1>2. msgs' = msgs \cup {p}
    BY DEF p
  <1>3. VotePrepares' = VotePrepares
    BY <1>1, <1>2 DEF VotePrepares, VotesOf
  <1>4. VoteOldCommits' = VoteOldCommits
    BY <1>1, <1>2 DEF VoteOldCommits, VotesOf
  <1>5. VoteCommits' = VoteCommits \cup {<<n, r, b>>}
    BY <1>1, <1>2 DEF VoteCommits, VotesOf
  <1> QED BY <1>3, <1>4, <1>5

LEMMA MapOldCommit ==
  ASSUME NEW n, NEW h, NEW r, NEW b, NEW s, msgs' = msgs \cup {OldCommit(n, h, r, b, s)}
  PROVE  /\ UNCHANGED <<VotePrepares, VoteCommits>>
         /\ VoteOldCommits' = VoteOldCommits \cup {<<n, r, b>>}
  <1> DEFINE p == OldCommit(n, h, r, b, s)
  <1>1. p.type = "COMMIT" /\ p.src = n /\ p.round = r /\ p.block = b /\ p.old = TRUE
    BY DEF OldCommit, CommitOf
  <1> HIDE DEF p
  <1>2. msgs' = msgs \cup {p}
    BY DEF p
  <1>3. VotePrepares' = VotePrepares
    BY <1>1, <1>2 DEF VotePrepares, VotesOf
  <1>4. VoteCommits' = VoteCommits
    BY <1>1, <1>2 DEF VoteCommits, VotesOf
  <1>5. VoteOldCommits' = VoteOldCommits \cup {<<n, r, b>>}
    BY <1>1, <1>2 DEF VoteOldCommits, VotesOf
  <1> QED BY <1>3, <1>4, <1>5

-----------------------------------------------------------------------------
(* Each kind of step is one of IstanbulVoting, or changes nothing there.   *)

\* The counts of the abstract specification are those of the engine.
LEMMA SameQuorum ==
  ASSUME NEW S
  PROVE  Voting!IsQuorum(Validators, S) <=> IsQuorum(Validators, S)
  <1>1. \A X : Voting!Cardinality(X) = Cardinality(X)
    BY Zenon DEF Voting!Cardinality, Cardinality
  <1> QED
    BY <1>1 DEF Voting!IsQuorum, IsQuorum, Voting!Threshold, Threshold, Voting!F, F,
                Voting!Size, Size

LEMMA LargerQuorum ==
  ASSUME NEW Q, NEW S \in SUBSET Validators, Q \subseteq S, IsQuorum(Validators, Q)
  PROVE  Voting!IsQuorum(Validators, S)
  BY QuorumGrows, SameQuorum

LEMMA PrepareSeen ==
  ASSUME NEW v, NEW h, NEW r, NEW b, PrepareOf(v, h, r, b) \in msgs
  PROVE  <<v, r, b>> \in VotePrepares
  <1> DEFINE p == PrepareOf(v, h, r, b)
  <1>1. p.type = "PREPARE" /\ p.src = v /\ p.round = r /\ p.block = b
    BY DEF PrepareOf
  <1> HIDE DEF p
  <1>2. p \in msgs
    BY DEF p
  <1> QED BY <1>1, <1>2 DEF VotePrepares, VotesOf

LEMMA CommitSeen ==
  ASSUME NetInv, NEW v, NEW h, NEW r, NEW b, CommitSent(v, h, r, b, msgs)
  PROVE  <<v, r, b>> \in VoteCommits \cup VoteOldCommits
  <1>1. PICK m \in msgs : m.type = "COMMIT" /\ m.src = v /\ m.round = r /\ m.block = b
    BY DEF CommitSent
  <1>2. m.old \in BOOLEAN
    BY <1>1 DEF NetInv, Messages
  <1>3. m.old = FALSE \/ m.old = TRUE
    BY <1>2
  <1>4. CASE m.old = FALSE
    BY <1>1, <1>4 DEF VoteCommits, VotesOf
  <1>5. CASE m.old = TRUE
    BY <1>1, <1>5 DEF VoteOldCommits, VotesOf
  <1> QED BY <1>3, <1>4, <1>5

LEMMA CommitQuorumSeen ==
  ASSUME NetInv, NEW h, NEW r, NEW b, QuorumSent(h, r, b, msgs)
  PROVE  Voting!CommitQuorum(r, b)
  <1> DEFINE S == Voting!Committed(r, b) \cup Voting!OldCommitted(r, b)
  <1>1. PICK Q \in SUBSET Validators :
            IsQuorum(Validators, Q) /\ \A v \in Q : CommitSent(v, h, r, b, msgs)
    BY DEF QuorumSent
  <1>2. Q \subseteq S /\ S \in SUBSET Validators
    BY <1>1, CommitSeen DEF Voting!Committed, Voting!OldCommitted
  <1> QED BY <1>1, <1>2, LargerQuorum DEF Voting!CommitQuorum

LEMMA VoteQuorumSeen ==
  ASSUME NetInv, NEW c, VotesSent(c, msgs)
  PROVE  Voting!VoteQuorum(c.round, c.preprepare)
  <1> DEFINE h == c.sequence
             r == c.round
             b == c.preprepare
             S == Voting!Prepared(r, b) \cup Voting!Committed(r, b)
                      \cup Voting!OldCommitted(r, b)
  <1>1. PICK P, Q \in SUBSET Validators :
            /\ IsQuorum(Validators, P \cup Q)
            /\ \A v \in P : PrepareOf(v, h, r, b) \in msgs
            /\ \A v \in Q : CommitSent(v, h, r, b, msgs)
    BY DEF VotesSent
  <1>2. P \cup Q \subseteq S /\ S \in SUBSET Validators
    BY <1>1, CommitSeen, PrepareSeen
       DEF Voting!Prepared, Voting!Committed, Voting!OldCommitted
  <1> QED BY <1>1, <1>2, LargerQuorum DEF Voting!VoteQuorum

LEMMA PrepareQuorumSeen ==
  ASSUME NetInv, NEW c, NEW r, NEW b, ReleasedBy(c, r, b, msgs)
  PROVE  Voting!PrepareQuorum(r, b)
  <1> DEFINE S == Voting!Prepared(r, b)
  <1>1. PICK Q \in SUBSET Validators :
            IsQuorum(Validators, Q) /\ \A v \in Q : PrepareOf(v, c.sequence, r, b) \in msgs
    BY DEF ReleasedBy
  <1>2. Q \subseteq S /\ S \in SUBSET Validators
    BY <1>1, PrepareSeen DEF Voting!Prepared
  <1> QED BY <1>1, <1>2, LargerQuorum DEF Voting!PrepareQuorum

VotingStep == Voting!Next \/ UNCHANGED Voting!vars

\* Validator n goes from c to d, as the mapping sees it.
Goes(n, c, d) ==
    /\ n \in Validators /\ MapsFrom(n, c) /\ MapsTo(n, d) /\ msgs' = msgs \cup d.out
    /\ NetInv /\ c.sequence \in Nat \ {0} /\ d.sequence \in Nat
    /\ d.sequence <= LastNumber(d) + 1
    /\ c.round \in Rounds /\ d.round \in Rounds /\ c.chain \in Seq(SealedBlocks)
    /\ \A h \in DOMAIN c.chain : c.chain[h].block.number = h
    /\ ~Idle(c) => c.preprepare \in Blocks
    /\ c.preprepare # NoBlock => c.preprepare.number = c.sequence

\* What Stays, Writes and Answers have in common.
LEMMA SameStateMap ==
  ASSUME NEW n, NEW c, NEW d, Goes(n, c, d), SameState(c, d)
  PROVE  UNCHANGED <<VoteHeight, VoteRound, VoteAccepted, VoteLockedHash, VoteLockedRound>>
  <1>1. /\ d.sequence = c.sequence /\ d.round = c.round /\ Accepted(d) = Accepted(c)
        /\ d.lockedHash = c.lockedHash /\ d.lockedRound = c.lockedRound
    BY DEF SameState, SameView, SameLocked, Accepted
  <1>2. VoteHeight' = VoteHeight
    BY <1>1, MapFunctions DEF Goes, MapsFrom, MapsTo
  <1>3. VoteRound' = VoteRound
    BY <1>1, MapFunctions DEF Goes, MapsFrom, MapsTo
  <1>4. VoteAccepted' = VoteAccepted
    BY <1>1, MapFunctions DEF Goes, MapsFrom, MapsTo
  <1>5. VoteLockedHash' = VoteLockedHash
    BY <1>1, MapFunctions DEF Goes, MapsFrom, MapsTo
  <1>6. VoteLockedRound' = VoteLockedRound
    BY <1>1, MapFunctions DEF Goes, MapsFrom, MapsTo
  <1> QED BY <1>2, <1>3, <1>4, <1>5, <1>6

\* The pairs of VoteDecided are of a validator and a block.
LEMMA DecidedPairs ==
  /\ VoteDecided \subseteq Validators \X Blocks
  /\ VoteDecided' \subseteq Validators \X Blocks
  BY DEF VoteDecided

LEMMA DecidedSame ==
  ASSUME NEW n, NEW c, NEW d, Goes(n, c, d), d.chain = c.chain
  PROVE  VoteDecided' = VoteDecided
  <1>1. \A b : HasProposal(d, b) <=> HasProposal(c, b)
    BY DEF HasProposal
  <1>2. ASSUME NEW k \in Validators, NEW b \in Blocks
        PROVE  <<k, b>> \in VoteDecided' <=> <<k, b>> \in VoteDecided
    BY <1>1 DEF Goes, MapsFrom, MapsTo
  <1> QED BY <1>2, DecidedPairs

LEMMA StaysStep ==
  ASSUME NEW n, NEW c, NEW d, Goes(n, c, d), Stays(c, d, msgs)
  PROVE  VotingStep
  <1>1. SameVotes
    BY MapNoVotes DEF Goes, Stays, NoVote
  <1>2. VoteDecided' = VoteDecided
    BY DecidedSame DEF Stays, Kept
  <1>3. UNCHANGED <<VoteHeight, VoteRound, VoteAccepted, VoteLockedHash, VoteLockedRound>>
    BY SameStateMap DEF Stays
  <1> QED
    BY <1>1, <1>2, <1>3 DEF VotingStep, Voting!vars, SameVotes

\* What a step that begins a round does to the mapping.
LEMMA BeginsMap ==
  ASSUME NEW n, NEW c, NEW d, Goes(n, c, d), Begins(c, d)
  PROVE  /\ SameVotes /\ VoteDecided' = VoteDecided
         /\ VoteAccepted' = [VoteAccepted EXCEPT ![n] = NoBlock]
  <1>1. SameVotes
    BY MapNoVotes DEF Goes, Begins, NoVote
  <1>2. VoteDecided' = VoteDecided
    BY DecidedSame DEF Begins, Kept
  <1>3. Accepted(d) = NoBlock
    BY DEF Begins, Idle, Accepted
  <1> QED
    BY <1>1, <1>2, <1>3 DEF Goes, MapsTo

LEMMA SameHeightMap ==
  ASSUME NEW n, NEW c, NEW d, Goes(n, c, d), d.sequence = c.sequence
  PROVE  VoteHeight' = VoteHeight
  BY MapFunctions DEF Goes, MapsFrom, MapsTo

LEMMA EntersStep ==
  ASSUME NEW n, NEW c, NEW d, Goes(n, c, d), Enters(c, d)
  PROVE  VotingStep
  <1>0. /\ Begins(c, d) /\ d.sequence = c.sequence
        /\ d.lockedHash = c.lockedHash /\ d.lockedRound = c.lockedRound
        /\ c.round < d.round \/ (c.round = d.round /\ c.waiting)
    BY DEF Enters, SameLocked
  <1>1. /\ SameVotes /\ VoteDecided' = VoteDecided
        /\ VoteAccepted' = [VoteAccepted EXCEPT ![n] = NoBlock]
    BY <1>0, BeginsMap
  <1>2. /\ VoteHeight' = VoteHeight /\ VoteLockedHash' = VoteLockedHash
        /\ VoteLockedRound' = VoteLockedRound
    BY <1>0, SameHeightMap, MapFunctions DEF Goes, MapsFrom, MapsTo
  <1>4. CASE c.round = d.round /\ c.waiting
    <2>1. Accepted(c) = NoBlock
      BY <1>4 DEF Accepted
    <2>2. VoteRound' = VoteRound /\ VoteAccepted' = VoteAccepted
      BY <1>1, <1>4, <2>1, MapFunctions DEF Goes, MapsFrom, MapsTo
    <2> QED BY <1>1, <1>2, <2>2 DEF VotingStep, Voting!vars, SameVotes
  <1>5. CASE c.round < d.round
    <2>1. VoteRound[n] = c.round /\ VoteRound' = [VoteRound EXCEPT ![n] = d.round]
      BY DEF Goes, MapsFrom, MapsTo
    <2>3. Voting!AdvanceRound(n, d.round)
      BY <1>1, <1>2, <1>5, <2>1 DEF Voting!AdvanceRound, SameVotes
    <2> QED BY <2>3 DEF VotingStep, Voting!Next, Goes
  <1> QED BY <1>0, <1>4, <1>5

\* The height after a block of the chain is begun.
LEMMA ForgetsStep ==
  ASSUME NEW n, NEW c, NEW d, Goes(n, c, d), Begins(c, d), NoLock(d), d.round = 0,
         c.sequence < d.sequence
  PROVE  VotingStep
  <1>1. /\ SameVotes /\ VoteDecided' = VoteDecided
        /\ VoteAccepted' = [VoteAccepted EXCEPT ![n] = NoBlock]
    BY BeginsMap
  <1>2. /\ VoteHeight[n] = c.sequence
        /\ VoteHeight' = [VoteHeight EXCEPT ![n] = d.sequence]
        /\ VoteRound' = [VoteRound EXCEPT ![n] = 0]
        /\ VoteLockedHash' = [VoteLockedHash EXCEPT ![n] = NoBlock]
        /\ VoteLockedRound' = [VoteLockedRound EXCEPT ![n] = 0]
    BY DEF Goes, MapsFrom, MapsTo, NoLock
  <1>3. /\ d.chain = c.chain /\ c.chain \in Seq(SealedBlocks) /\ Len(c.chain) \in Nat
        /\ d.sequence <= Len(d.chain) + 1 /\ c.sequence \in Nat \ {0} /\ d.sequence \in Nat
    BY DEF Goes, Begins, Kept, LastNumber
  <1> DEFINE h == d.sequence - 1
             b == c.chain[h].block
  <1>4. h \in 1 .. Len(c.chain) /\ c.sequence <= h /\ h + 1 = d.sequence
    BY <1>3
  <1>5. h \in DOMAIN c.chain /\ c.chain[h] \in SealedBlocks
    BY <1>3, <1>4
  <1> HIDE DEF h
  <1>6. b \in Blocks /\ b.number = h /\ HasProposal(c, b)
    BY <1>5 DEF SealedBlocks, HasProposal, Goes
  <1> HIDE DEF b
  <1>7. <<n, b>> \in VoteDecided
    BY <1>6 DEF Goes, MapsFrom
  <1>8. Voting!Leave(n, b)
    BY <1>1, <1>2, <1>4, <1>6, <1>7 DEF Voting!Leave, SameVotes
  <1> QED BY <1>6, <1>8 DEF VotingStep, Voting!Next, Goes

LEMMA LeavesStep ==
  ASSUME NEW n, NEW c, NEW d, Goes(n, c, d), Leaves(c, d)
  PROVE  VotingStep
  BY ForgetsStep DEF Leaves

LEMMA RestartsStep ==
  ASSUME NEW n, NEW c, NEW d, Goes(n, c, d), Restarts(c, d, n)
  PROVE  VotingStep
  <1>0. /\ n \in Restarting /\ d.round = 0 /\ Begins(c, d) /\ NoLock(d)
        /\ c.sequence <= d.sequence /\ c.sequence \in Nat /\ d.sequence \in Nat
    BY DEF Restarts, Goes
  <1>1. CASE c.sequence < d.sequence
    BY <1>0, <1>1, ForgetsStep
  <1>2. CASE c.sequence = d.sequence
    <2>1. /\ SameVotes /\ VoteDecided' = VoteDecided /\ VoteHeight' = VoteHeight
          /\ VoteAccepted' = [VoteAccepted EXCEPT ![n] = NoBlock]
      BY <1>0, <1>2, BeginsMap, SameHeightMap
    <2>2. /\ VoteRound' = [VoteRound EXCEPT ![n] = 0]
          /\ VoteLockedHash' = [VoteLockedHash EXCEPT ![n] = NoBlock]
          /\ VoteLockedRound' = [VoteLockedRound EXCEPT ![n] = 0]
      BY <1>0 DEF Goes, MapsTo, NoLock
    <2>3. Voting!Restart(n)
      BY <1>0, <2>1, <2>2 DEF Voting!Restart, SameVotes
    <2> QED BY <2>3 DEF VotingStep, Voting!Next, Goes
  <1> QED BY <1>0, <1>1, <1>2

\* The proposal that n has accepted.
LEMMA AcceptedMap ==
  ASSUME NEW n, NEW c, NEW d, Goes(n, c, d), ~Idle(c)
  PROVE  /\ VoteAccepted[n] = c.preprepare /\ c.preprepare # NoBlock
         /\ c.preprepare \in Blocks /\ VoteRound[n] = c.round
         /\ VoteLockedHash[n] = c.lockedHash
  BY CoreBlocks DEF Goes, MapsFrom, Idle, Accepted

LEMMA DropsStep ==
  ASSUME NEW n, NEW c, NEW d, Goes(n, c, d), Drops(c, d, n, msgs)
  PROVE  VotingStep
  <1>0. /\ Begins(c, d) /\ NoLock(d) /\ d.sequence = c.sequence /\ d.round = c.round + 1
        /\ ~Idle(c) /\ QuorumSent(c.sequence, c.round, c.preprepare, msgs)
        /\ c.preprepare \in EmptyBlocks \/ n \in Failing
    BY DEF Drops, Committable
  <1>1. /\ SameVotes /\ VoteDecided' = VoteDecided /\ VoteHeight' = VoteHeight
        /\ VoteAccepted' = [VoteAccepted EXCEPT ![n] = NoBlock]
    BY <1>0, BeginsMap, SameHeightMap
  <1>2. /\ VoteAccepted[n] = c.preprepare /\ c.preprepare # NoBlock
        /\ c.preprepare \in Blocks /\ VoteRound[n] = c.round
    BY <1>0, AcceptedMap
  <1>3. Voting!CommitQuorum(c.round, c.preprepare)
    BY <1>0, CommitQuorumSeen DEF Goes
  <1>4. c.round + 1 \in Rounds
    BY <1>0 DEF Goes
  <1>5. /\ VoteRound' = [VoteRound EXCEPT ![n] = c.round + 1]
        /\ VoteLockedHash' = [VoteLockedHash EXCEPT ![n] = NoBlock]
        /\ VoteLockedRound' = [VoteLockedRound EXCEPT ![n] = 0]
    BY <1>0 DEF Goes, MapsTo, NoLock
  <1>6. Voting!Discard(n)
    BY <1>0, <1>1, <1>2, <1>3, <1>4, <1>5 DEF Voting!Discard, SameVotes
  <1> QED BY <1>6 DEF VotingStep, Voting!Next, Goes

\* A proposal is accepted.
LEMMA AcceptsMap ==
  ASSUME NEW n, NEW c, NEW d, Goes(n, c, d), Accepts(c, d), d.state # AcceptRequest
  PROVE  /\ Voting!CanAccept(n, d.preprepare) /\ d.preprepare \in Blocks
         /\ VoteAccepted' = [VoteAccepted EXCEPT ![n] = d.preprepare]
         /\ VoteRound[n] = c.round /\ UNCHANGED <<VoteHeight, VoteRound, VoteDecided>>
         /\ VoteLockedHash[n] = c.lockedHash /\ VoteLockedRound[n] = c.lockedRound
         /\ VoteLockedHash' = [VoteLockedHash EXCEPT ![n] = d.lockedHash]
         /\ VoteLockedRound' = [VoteLockedRound EXCEPT ![n] = d.lockedRound]
         /\ d.preprepare # NoBlock
  <1>0. /\ d.sequence = c.sequence /\ d.round = c.round /\ Kept(c, d) /\ ~d.waiting
        /\ c.state = AcceptRequest /\ d.preprepare \in Blocks
        /\ d.preprepare.number = d.sequence /\ c.round \in Rounds
    BY DEF Accepts, SameView, Goes
  <1>1. d.preprepare # NoBlock
    BY <1>0, CoreBlocks
  <1>2. VoteDecided' = VoteDecided /\ VoteHeight' = VoteHeight
    BY <1>0, DecidedSame, SameHeightMap DEF Kept
  <1>4. VoteHeight[n] = c.sequence /\ VoteRound[n] = c.round /\ VoteRound' = VoteRound
    BY <1>0, MapFunctions DEF Goes, MapsFrom, MapsTo
  <1>6. /\ VoteAccepted[n] = NoBlock
        /\ VoteAccepted' = [VoteAccepted EXCEPT ![n] = d.preprepare]
    BY <1>0 DEF Goes, MapsFrom, MapsTo, Accepted
  <1>7. /\ VoteLockedHash[n] = c.lockedHash /\ VoteLockedRound[n] = c.lockedRound
        /\ VoteLockedHash' = [VoteLockedHash EXCEPT ![n] = d.lockedHash]
        /\ VoteLockedRound' = [VoteLockedRound EXCEPT ![n] = d.lockedRound]
    BY DEF Goes, MapsFrom, MapsTo
  <1>8. Voting!CanAccept(n, d.preprepare)
    BY <1>0, <1>4, <1>6 DEF Voting!CanAccept
  <1> QED
    BY <1>0, <1>1, <1>2, <1>4, <1>6, <1>7, <1>8

LEMMA PreparesStep ==
  ASSUME NEW n, NEW c, NEW d, Goes(n, c, d), Prepares(c, d, n, msgs)
  PROVE  VotingStep
  <1> DEFINE b == d.preprepare
  <1>0. /\ Accepts(c, d) /\ d.state # AcceptRequest
        /\ msgs' = msgs \cup {PrepareOf(n, c.sequence, c.round, b)}
        /\ d.lockedHash = NoBlock /\ d.lockedRound = 0
    BY DEF Prepares, Goes, AcceptRequest, Preprepared
  <1>1. /\ UNCHANGED <<VoteCommits, VoteOldCommits>>
        /\ VotePrepares' = VotePrepares \cup {<<n, c.round, b>>}
    BY <1>0, MapPrepare
  <1>2. /\ Voting!CanAccept(n, b) /\ b \in Blocks
        /\ VoteAccepted' = [VoteAccepted EXCEPT ![n] = b]
        /\ VoteRound[n] = c.round /\ UNCHANGED <<VoteHeight, VoteRound, VoteDecided>>
        /\ VoteLockedHash[n] = c.lockedHash /\ VoteLockedRound[n] = c.lockedRound
        /\ VoteLockedHash' = [VoteLockedHash EXCEPT ![n] = NoBlock]
        /\ VoteLockedRound' = [VoteLockedRound EXCEPT ![n] = 0]
    BY <1>0, AcceptsMap
  <1>3. CASE c.lockedHash = NoBlock /\ c.lockedRound = 0
    <2>1. VoteLockedHash' = VoteLockedHash /\ VoteLockedRound' = VoteLockedRound
      BY <1>2, <1>3, MapFunctions
    <2>2. Voting!Prepare(n, b)
      BY <1>1, <1>2, <1>3, <2>1 DEF Voting!Prepare
    <2> QED BY <1>2, <2>2 DEF VotingStep, Voting!Next, Goes
  <1>4. CASE /\ c.lockedHash \notin {NoBlock, b}
             /\ \E r \in Rounds : ReleasedBy(c, r, b, msgs)
    <2>1. PICK r \in Rounds : ReleasedBy(c, r, b, msgs)
      BY <1>4
    <2>2. Voting!PrepareQuorum(r, b) /\ c.lockedRound <= r /\ r < c.round
      BY <2>1, PrepareQuorumSeen DEF Goes, ReleasedBy
    <2>3. Voting!PreparePOL(n, b, r)
      BY <1>1, <1>2, <1>4, <2>2 DEF Voting!PreparePOL
    <2> QED BY <1>2, <2>3 DEF VotingStep, Voting!Next, Goes
  <1> QED BY <1>3, <1>4 DEF Prepares

LEMMA RecommitsStep ==
  ASSUME NEW n, NEW c, NEW d, Goes(n, c, d), Recommits(c, d, n)
  PROVE  VotingStep
  <1> DEFINE b == d.preprepare
  <1>0. /\ Accepts(c, d) /\ d.state # AcceptRequest
        /\ d.lockedHash = c.lockedHash /\ d.lockedRound = c.lockedRound /\ b = c.lockedHash
    BY DEF Recommits, SameLocked, AcceptRequest, Prepared
  <1>1. PICK s : msgs' = msgs \cup {NewCommit(n, c.sequence, c.round, b, s)}
    BY DEF Recommits, Votes, Goes
  <1>2. /\ UNCHANGED <<VotePrepares, VoteOldCommits>>
        /\ VoteCommits' = VoteCommits \cup {<<n, c.round, b>>}
    BY <1>1, MapCommit
  <1>3. /\ Voting!CanAccept(n, b) /\ b \in Blocks
        /\ VoteAccepted' = [VoteAccepted EXCEPT ![n] = b]
        /\ VoteRound[n] = c.round /\ UNCHANGED <<VoteHeight, VoteRound, VoteDecided>>
        /\ VoteLockedHash[n] = c.lockedHash /\ VoteLockedRound[n] = c.lockedRound
        /\ VoteLockedHash' = [VoteLockedHash EXCEPT ![n] = d.lockedHash]
        /\ VoteLockedRound' = [VoteLockedRound EXCEPT ![n] = d.lockedRound]
    BY <1>0, AcceptsMap
  <1>4. VoteLockedHash' = VoteLockedHash /\ VoteLockedRound' = VoteLockedRound
    BY <1>0, <1>3, MapFunctions
  <1>5. Voting!Recommit(n, b)
    BY <1>0, <1>2, <1>3, <1>4 DEF Voting!Recommit
  <1> QED BY <1>3, <1>5 DEF VotingStep, Voting!Next, Goes

\* The accepted proposal is locked on.
LEMMA LockedMap ==
  ASSUME NEW n, NEW c, NEW d, Goes(n, c, d), Locked(c, d), d.state # AcceptRequest
  PROVE  /\ UNCHANGED <<VoteHeight, VoteRound, VoteAccepted>>
         /\ VoteLockedHash' = [VoteLockedHash EXCEPT ![n] = c.preprepare]
         /\ VoteLockedRound' = [VoteLockedRound EXCEPT ![n] = c.round]
  <1>0. /\ d.sequence = c.sequence /\ d.round = c.round /\ ~Idle(c) /\ ~d.waiting
        /\ d.preprepare = c.preprepare /\ d.lockedHash = c.preprepare
        /\ d.lockedRound = c.round
    BY DEF Locked, SameView
  <1>1. Accepted(d) = Accepted(c)
    BY <1>0 DEF Accepted, Idle
  <1>2. VoteHeight' = VoteHeight
    BY <1>0, SameHeightMap
  <1>3. VoteRound' = VoteRound /\ VoteAccepted' = VoteAccepted
    BY <1>0, <1>1, MapFunctions DEF Goes, MapsFrom, MapsTo
  <1>4. /\ VoteLockedHash' = [VoteLockedHash EXCEPT ![n] = c.preprepare]
        /\ VoteLockedRound' = [VoteLockedRound EXCEPT ![n] = c.round]
    BY <1>0 DEF Goes, MapsTo
  <1> QED BY <1>2, <1>3, <1>4

LEMMA LocksStep ==
  ASSUME NEW n, NEW c, NEW d, Goes(n, c, d), Locks(c, d, n, msgs)
  PROVE  VotingStep
  <1> DEFINE b == c.preprepare
  <1>0. /\ Locked(c, d) /\ d.state # AcceptRequest /\ ~Idle(c)
        /\ VotesSent(c, msgs) /\ c.lockedHash = NoBlock /\ d.preprepare = b
        /\ d.chain = c.chain
    BY DEF Locks, Locked, Kept, AcceptRequest, Prepared
  <1>1. PICK s : msgs' = msgs \cup {NewCommit(n, c.sequence, c.round, b, s)}
    BY <1>0 DEF Locks, Votes, Goes
  <1>2. /\ UNCHANGED <<VotePrepares, VoteOldCommits>>
        /\ VoteCommits' = VoteCommits \cup {<<n, c.round, b>>}
    BY <1>1, MapCommit
  <1>3. VoteDecided' = VoteDecided
    BY <1>0, DecidedSame
  <1>4. /\ VoteAccepted[n] = b /\ b # NoBlock /\ VoteRound[n] = c.round
        /\ VoteLockedHash[n] = NoBlock
    BY <1>0, AcceptedMap
  <1>5. /\ UNCHANGED <<VoteHeight, VoteRound, VoteAccepted>>
        /\ VoteLockedHash' = [VoteLockedHash EXCEPT ![n] = b]
        /\ VoteLockedRound' = [VoteLockedRound EXCEPT ![n] = c.round]
    BY <1>0, LockedMap
  <1>6. Voting!VoteQuorum(c.round, b)
    BY <1>0, VoteQuorumSeen DEF Goes
  <1>7. Voting!Lock(n)
    BY <1>2, <1>3, <1>4, <1>5, <1>6 DEF Voting!Lock
  <1> QED BY <1>7 DEF VotingStep, Voting!Next, Goes

\* A block is written at the end of the chain, or none is.
LEMMA StoresMap ==
  ASSUME NEW n, NEW c, NEW d, Goes(n, c, d), NEW s \in SealedBlocks, Stores(c, d, s)
  PROVE  \/ VoteDecided' = VoteDecided
         \/ Voting!Misses(n, s.block) /\ VoteDecided' = VoteDecided \cup {<<n, s.block>>}
  <1>1. CASE d.chain = c.chain
    BY <1>1, DecidedSame
  <1>2. CASE s.block.number = LastNumber(c) + 1 /\ d.chain = Append(c.chain, s)
    <2>1. /\ Len(c.chain) \in Nat /\ DOMAIN c.chain = 1 .. Len(c.chain)
          /\ s.block.number = Len(c.chain) + 1
          /\ DOMAIN d.chain = 1 .. Len(c.chain) + 1
          /\ \A h \in 1 .. Len(c.chain) : d.chain[h] = c.chain[h]
          /\ d.chain[Len(c.chain) + 1] = s
      BY <1>2 DEF Goes, LastNumber
    <2>2. ASSUME NEW b
          PROVE  HasProposal(d, b) <=> HasProposal(c, b) \/ b = s.block
      <3>1. ASSUME HasProposal(d, b), b # s.block
            PROVE  HasProposal(c, b)
        <4>1. PICK h \in DOMAIN d.chain : d.chain[h].block = b
          BY <3>1 DEF HasProposal
        <4>2. h # Len(c.chain) + 1
          BY <2>1, <3>1, <4>1
        <4>3. h \in 1 .. Len(c.chain)
          BY <2>1, <4>2
        <4> QED BY <2>1, <4>1, <4>3 DEF HasProposal
      <3>2. ASSUME HasProposal(c, b)
            PROVE  HasProposal(d, b)
        <4>1. PICK h \in DOMAIN c.chain : c.chain[h].block = b
          BY <3>2 DEF HasProposal
        <4>2. h \in DOMAIN d.chain /\ d.chain[h] = c.chain[h]
          BY <2>1
        <4> QED BY <4>1, <4>2 DEF HasProposal
      <3>3. HasProposal(d, s.block)
        <4>1. Len(c.chain) + 1 \in DOMAIN d.chain
          BY <2>1
        <4> QED BY <2>1, <4>1 DEF HasProposal
      <3> QED BY <3>1, <3>2, <3>3
    <2>3. ASSUME NEW b \in Blocks, b.number = s.block.number
          PROVE  ~HasProposal(c, b)
      BY <2>1, <2>3 DEF HasProposal, Goes
    <2>4. Voting!Misses(n, s.block)
      BY <2>3 DEF Voting!Misses, Goes, MapsFrom
    <2>5. s.block \in Blocks /\ n \in Validators
      BY DEF SealedBlocks, Goes
    <2>6. ASSUME NEW k \in Validators, NEW b \in Blocks
          PROVE  <<k, b>> \in VoteDecided' <=>
                     <<k, b>> \in VoteDecided \/ (k = n /\ b = s.block)
      BY <2>2 DEF Goes, MapsFrom, MapsTo
    <2>7. VoteDecided' = VoteDecided \cup {<<n, s.block>>}
      BY <2>5, <2>6, DecidedPairs
    <2> QED BY <2>4, <2>7
  <1> QED BY <1>1, <1>2 DEF Stores

LEMMA CommitsStep ==
  ASSUME NEW n, NEW c, NEW d, Goes(n, c, d), Commits(c, d, msgs)
  PROVE  VotingStep
  <1> DEFINE b == c.preprepare
  <1>0. /\ Locked(c, d) /\ d.state # AcceptRequest /\ ~Idle(c)
        /\ d.out = {} /\ QuorumSent(c.sequence, c.round, b, msgs) /\ b \notin EmptyBlocks
    BY DEF Commits, Committable, Locked, AcceptRequest, Committed
  <1>1. SameVotes
    BY <1>0, MapNoVotes DEF Goes
  <1>2. PICK s \in SealedBlocks : s.block = b /\ Stores(c, d, s)
    BY DEF Commits
  <1>3. \/ VoteDecided' = VoteDecided
        \/ Voting!Misses(n, b) /\ VoteDecided' = VoteDecided \cup {<<n, b>>}
    BY <1>2, StoresMap
  <1>4. VoteAccepted[n] = b /\ b # NoBlock /\ VoteRound[n] = c.round
    BY <1>0, AcceptedMap
  <1>5. /\ UNCHANGED <<VoteHeight, VoteRound, VoteAccepted>>
        /\ VoteLockedHash' = [VoteLockedHash EXCEPT ![n] = b]
        /\ VoteLockedRound' = [VoteLockedRound EXCEPT ![n] = c.round]
    BY <1>0, LockedMap
  <1>6. Voting!CommitQuorum(c.round, b)
    BY <1>0, CommitQuorumSeen DEF Goes
  <1>7. Voting!LockOnCommits(n)
    BY <1>0, <1>1, <1>3, <1>4, <1>5, <1>6 DEF Voting!LockOnCommits, SameVotes
  <1> QED BY <1>7 DEF VotingStep, Voting!Next, Goes

LEMMA WritesStep ==
  ASSUME NEW n, NEW c, NEW d, Goes(n, c, d), Writes(c, d, msgs)
  PROVE  VotingStep
  <1>0. SameState(c, d) /\ d.out = {}
    BY DEF Writes
  <1>1. SameVotes
    BY <1>0, MapNoVotes DEF Goes
  <1>2. PICK s \in SealedBlocks : Backed(s, msgs) /\ Stores(c, d, s)
    BY DEF Writes
  <1>3. UNCHANGED <<VoteHeight, VoteRound, VoteAccepted, VoteLockedHash, VoteLockedRound>>
    BY <1>0, SameStateMap
  <1>4. CASE VoteDecided' = VoteDecided
    BY <1>1, <1>3, <1>4 DEF VotingStep, Voting!vars, SameVotes
  <1>5. CASE /\ Voting!Misses(n, s.block)
             /\ VoteDecided' = VoteDecided \cup {<<n, s.block>>}
    <2>1. s.block \in Blocks /\ s.block \notin EmptyBlocks
      BY <1>2 DEF SealedBlocks, Backed
    <2>2. PICK r \in Rounds : QuorumSent(s.block.number, r, s.block, msgs)
      BY <1>2 DEF Backed
    <2>3. Voting!CommitQuorum(r, s.block)
      BY <2>2, CommitQuorumSeen DEF Goes
    <2>4. Voting!Decide(n, s.block)
      BY <1>1, <1>3, <1>5, <2>1, <2>3 DEF Voting!Decide, SameVotes
    <2> QED BY <2>1, <2>4 DEF VotingStep, Voting!Next, Goes
  <1> QED BY <1>2, <1>4, <1>5, StoresMap

LEMMA AnswersStep ==
  ASSUME NEW n, NEW c, NEW d, Goes(n, c, d), Answers(c, d, n, msgs)
  PROVE  VotingStep
  <1>0. SameState(c, d) /\ d.chain = c.chain
    BY DEF Answers, Kept
  <1>1. PICK h \in DOMAIN c.chain, r \in Rounds, seal \in Hashes :
            /\ Before(<<h, r>>, View(c))
            /\ d.out = {OldCommit(n, h, r, c.chain[h].block, seal)}
    BY DEF Answers
  <1> DEFINE b == c.chain[h].block
  <1>2. /\ UNCHANGED <<VotePrepares, VoteCommits>>
        /\ VoteOldCommits' = VoteOldCommits \cup {<<n, r, b>>}
    <2>1. msgs' = msgs \cup {OldCommit(n, h, r, b, seal)}
      BY <1>1 DEF Goes
    <2> HIDE DEF b
    <2> QED BY Zenon, <2>1, MapOldCommit
  <1>3. UNCHANGED <<VoteHeight, VoteRound, VoteAccepted, VoteLockedHash, VoteLockedRound>>
    BY <1>0, SameStateMap
  <1>4. VoteDecided' = VoteDecided
    BY <1>0, DecidedSame
  <1>5. c.chain[h] \in SealedBlocks /\ c.chain[h].block.number = h
    BY <1>1 DEF Goes
  <1>6. b \in Blocks /\ b.number = h /\ HasProposal(c, b)
    BY <1>1, <1>5 DEF SealedBlocks, HasProposal
  <1>7. b.number < VoteHeight[n] \/ (b.number = VoteHeight[n] /\ r < VoteRound[n])
    BY <1>1, <1>6 DEF Before, View, Goes, MapsFrom
  <1> HIDE DEF b
  <1>8. <<n, b>> \in VoteDecided
    BY <1>6 DEF Goes, MapsFrom
  <1>9. Voting!CommitOldBlock(n, b, r)
    BY <1>2, <1>3, <1>4, <1>6, <1>7, <1>8 DEF Voting!CommitOldBlock
  <1> QED BY <1>6, <1>9 DEF VotingStep, Voting!Next, Goes

LEMMA TakesVotingStep ==
  ASSUME RefInv, NetInv', AllRun, NEW n \in Running, TakesKind(n)
  PROVE  VotingStep
  <1> DEFINE c == node[n]
  <1>1. PICK d : /\ Kind(c, d, n, msgs) /\ Alike(d, node'[n])
                 /\ node' = [node EXCEPT ![n] = node'[n]] /\ msgs' = msgs \cup d.out
    BY DEF TakesKind
  <1>2. /\ Good(c, n, msgs) /\ c.round \in Rounds /\ Fits(c, msgs)
        /\ DOMAIN node = Running /\ NetInv
    BY DEF RefInv, NetInv
  <1>3. Good(node'[n], n, msgs') /\ node'[n].round \in Rounds
    BY DEF NetInv
  <1>4. MapsFrom(n, c) /\ MapsTo(n, d)
    BY <1>1, <1>2, MapNode
  <1>5. d.round \in Rounds /\ d.sequence \in Nat /\ d.sequence <= LastNumber(d) + 1
    BY <1>1, <1>3, HeightsNat DEF Good, Sound, Typed, RoundTyped, Positioned, LastNumber, Alike,
       SameState, SameView
  <1>6. /\ c.sequence \in Nat \ {0} /\ c.chain \in Seq(SealedBlocks)
        /\ \A h \in DOMAIN c.chain : c.chain[h].block.number = h
        /\ ~Idle(c) => c.preprepare \in Blocks
        /\ c.preprepare # NoBlock => c.preprepare.number = c.sequence
    BY <1>2, HeightsNat DEF Good, Sound, Typed, RoundTyped, BackendTyped, Fits
  <1>7. n \in Validators
    BY DEF AllRun
  <1> HIDE DEF c
  <1>8. Goes(n, c, d)
    BY <1>1, <1>2, <1>4, <1>5, <1>6, <1>7 DEF Goes
  <1> QED
    BY <1>1, <1>8, StaysStep, EntersStep, LeavesStep, RestartsStep, DropsStep, PreparesStep,
       RecommitsStep, LocksStep, CommitsStep, WritesStep, AnswersStep DEF Kind, Moves

LEMMA VotingStepHolds ==
  ASSUME RefInv, AllRun, [Next]_vars
  PROVE  [Voting!Next]_(Voting!vars)
  <1>1. CASE Next
    <2>1. NetInv'
      BY <1>1, NextStep DEF RefInv
    <2>2. PICK n \in Running : TakesKind(n)
      BY <1>1, NextKind
    <2>3. VotingStep
      BY <2>1, <2>2, TakesVotingStep
    <2> QED BY <2>3 DEF VotingStep
  <1>2. CASE UNCHANGED vars
    <2>1. node' = node /\ msgs' = msgs
      BY <1>2 DEF vars
    <2>2. UNCHANGED Voting!vars
      BY <2>1 DEF Voting!vars, VoteHeight, VoteRound, VoteAccepted, VoteLockedHash,
         VoteLockedRound, VotePrepares, VoteCommits, VoteOldCommits, VoteDecided, VotesOf,
         Accepted, HasProposal
    <2> QED BY <2>2
  <1> QED BY <1>1, <1>2

LEMMA VotingInit ==
  ASSUME Init, AllRun
  PROVE  Voting!Init
  <1>1. RefInv /\ msgs = {}
    BY RefInvInit
  <1>2. ASSUME NEW n \in Validators
        PROVE  /\ node[n].sequence = 1 /\ node[n].round = 0 /\ node[n].state = AcceptRequest
               /\ node[n].lockedHash = NoBlock /\ node[n].lockedRound = 0
               /\ node[n].chain = << >>
    <2> DEFINE d == Started(n, << >>)
    <2>1. << >> \in Seq(SealedBlocks) /\ Len(<< >>) = 0
      OBVIOUS
    <2>2. node[n] = d
      BY Zenon DEF Init, Started, AllRun
    <2>3. /\ HasFields(d) /\ d.sequence = Len(<< >>) + 1 /\ d.round = 0
          /\ d.state = AcceptRequest /\ d.waiting = FALSE
          /\ d.proposer \in Validators /\ d.lastView = <<0, 0>>
          /\ d.preprepare = NoBlock /\ d.prepares = {} /\ d.commits = << >>
          /\ d.lockedHash = NoBlock /\ d.lockedRound = 0 /\ d.lockedPrepares = {}
          /\ d.pendingRequest = NoBlock /\ d.pendingRequests = {}
          /\ d.roundChanges \in [Rounds -> SUBSET Validators]
          /\ d.proposedBlockHash = NoBlock /\ d.executed = NoBlock
          /\ d.working \in BOOLEAN /\ d.requests = {} /\ d.sealResults = {}
          /\ d.fetcher = {} /\ d.chain = << >> /\ d.known = {} /\ d.out = {}
      BY <2>1, StartFields DEF AllRun
    <2> HIDE DEF d
    <2> QED BY <2>1, <2>2, <2>3
  <1>3. DOMAIN << >> = {}
    OBVIOUS
  <1>4. VotePrepares = {} /\ VoteCommits = {} /\ VoteOldCommits = {}
    BY <1>1 DEF VotePrepares, VoteCommits, VoteOldCommits, VotesOf
  <1>5. /\ VoteHeight = [n \in Validators |-> 1]
        /\ VoteRound = [n \in Validators |-> 0]
        /\ VoteAccepted = [n \in Validators |-> NoBlock]
        /\ VoteLockedHash = [n \in Validators |-> NoBlock]
        /\ VoteLockedRound = [n \in Validators |-> 0]
    BY <1>2 DEF VoteHeight, VoteRound, VoteAccepted, VoteLockedHash, VoteLockedRound, Accepted
  <1>6. VoteDecided = {}
    BY <1>2, <1>3 DEF VoteDecided, HasProposal
  <1> QED
    BY <1>4, <1>5, <1>6 DEF Voting!Init

\* The engine keeps to the voting rules of IstanbulVoting at every height, when
\* all validators run it: whatever the timers, the proposers, the backlog, the
\* miner and the fetcher do, whatever messages are lost or come late, the votes
\* and the locks of handlePreprepare, handlePrepare, handleCommit and
\* updateRoundState change only as the abstract specification allows.
THEOREM EngineImplementsVoting ==
  ASSUME AllRun
  PROVE  Spec => VotingSpec
  <1>1. Init => Voting!Init /\ RefInv
    BY VotingInit, RefInvInit
  <1>2. RefInv /\ [Next]_vars => RefInv' /\ [Voting!Next]_(Voting!vars)
    BY RefInvStep, VotingStepHolds
  <1> QED
    BY <1>1, <1>2, PTL DEF Spec, VotingSpec, Voting!Spec

-----------------------------------------------------------------------------
(* Agreement, from what is proved of IstanbulVoting.                       *)

VP == INSTANCE IstanbulVotingProofs WITH
    Unreliable <- Restarting \cup Failing,
    Proposed <- Rounds \X Blocks,
    height <- VoteHeight,
    round <- VoteRound,
    accepted <- VoteAccepted,
    lockedHash <- VoteLockedHash,
    lockedRound <- VoteLockedRound,
    prepares <- VotePrepares,
    commits <- VoteCommits,
    oldCommits <- VoteOldCommits,
    decided <- VoteDecided

\* The assumptions of IstanbulVoting hold of the mapped constants.
LEMMA VotingAssumptions ==
  /\ VP!IsFiniteSet(Validators) /\ Validators # {}
  /\ EmptyBlocks \subseteq Blocks /\ NoBlock \notin Blocks
  /\ \A b \in Blocks : b.number \in Nat
  /\ Rounds \subseteq Nat /\ 0 \in Rounds
  /\ Restarting \cup Failing \subseteq Validators
  <1>1. ASSUME NEW S PROVE VP!IsFiniteSet(S) <=> IsFiniteSet(S)
    BY Zenon DEF VP!IsFiniteSet, IsFiniteSet
  <1> QED
    BY <1>1, CoreValidators, CoreBlocks, UnreliableAssumption, MaxRoundAssumption
       DEF Rounds

LEMMA VotesBind == VP!Spec => []VP!Invariant
  <1>1. VP!Init => VP!Invariant
    BY VotingAssumptions, VP!InvariantInit
  <1>2. VP!Invariant /\ [VP!Next]_(VP!vars) => VP!Invariant'
    BY VotingAssumptions, VP!InvariantStep
  <1> QED
    BY <1>1, <1>2, PTL DEF VP!Spec

LEMMA VotesAgree ==
  ASSUME VP!Tolerated
  PROVE  VP!Spec => []VP!Agreement
  <1>1. VP!Invariant => VP!Agreement
    BY VotingAssumptions, VP!InvariantAgreement
  <1> QED
    BY <1>1, VotesBind, PTL

\* The two instances are of one specification.
LEMMA SameCardinality ==
  ASSUME NEW S
  PROVE  VP!Cardinality(S) = Cardinality(S) /\ Voting!Cardinality(S) = Cardinality(S)
  BY Zenon DEF VP!Cardinality, Voting!Cardinality, Cardinality

LEMMA SameQuorums ==
  ASSUME NEW S
  PROVE  VP!IsQuorum(Validators, S) <=> Voting!IsQuorum(Validators, S)
  BY SameCardinality DEF VP!IsQuorum, Voting!IsQuorum, VP!Threshold, Voting!Threshold,
     VP!F, Voting!F, VP!Size, Voting!Size

LEMMA SameRules ==
  ASSUME NEW n \in Validators, NEW b, NEW r
  PROVE  /\ Voting!Prepare(n, b) => VP!Prepare(n, b)
         /\ Voting!Recommit(n, b) => VP!Recommit(n, b)
         /\ Voting!Decide(n, b) => VP!Decide(n, b)
         /\ Voting!PreparePOL(n, b, r) => VP!PreparePOL(n, b, r)
         /\ Voting!AdvanceRound(n, r) => VP!AdvanceRound(n, r)
         /\ Voting!CommitOldBlock(n, b, r) => VP!CommitOldBlock(n, b, r)
         /\ Voting!Lock(n) => VP!Lock(n)
         /\ Voting!LockOnCommits(n) => VP!LockOnCommits(n)
         /\ Voting!Discard(n) => VP!Discard(n)
         /\ Voting!Leave(n, b) => VP!Leave(n, b)
         /\ Voting!Restart(n) => VP!Restart(n)
  <1>1. /\ \A x : Voting!CanAccept(n, x) <=> VP!CanAccept(n, x)
        /\ \A x : Voting!Misses(n, x) <=> VP!Misses(n, x)
        /\ \A q, x : Voting!Prepared(q, x) = VP!Prepared(q, x)
        /\ \A q, x : Voting!Committed(q, x) = VP!Committed(q, x)
        /\ \A q, x : Voting!OldCommitted(q, x) = VP!OldCommitted(q, x)
    BY DEF Voting!CanAccept, VP!CanAccept, Voting!Misses, VP!Misses, Voting!Prepared, VP!Prepared, Voting!Committed,
           VP!Committed, Voting!OldCommitted, VP!OldCommitted
  <1>2. /\ \A q, x : Voting!PrepareQuorum(q, x) <=> VP!PrepareQuorum(q, x)
        /\ \A q, x : Voting!CommitQuorum(q, x) <=> VP!CommitQuorum(q, x)
        /\ \A q, x : Voting!VoteQuorum(q, x) <=> VP!VoteQuorum(q, x)
    BY <1>1, SameQuorums DEF Voting!PrepareQuorum, VP!PrepareQuorum, Voting!CommitQuorum,
       VP!CommitQuorum, Voting!VoteQuorum, VP!VoteQuorum
  <1>3. Voting!Prepare(n, b) => VP!Prepare(n, b)
    BY <1>1 DEF Voting!Prepare, VP!Prepare
  <1>4. Voting!Recommit(n, b) => VP!Recommit(n, b)
    BY <1>1 DEF Voting!Recommit, VP!Recommit
  <1>5. Voting!Decide(n, b) => VP!Decide(n, b)
    BY <1>1, <1>2 DEF Voting!Decide, VP!Decide
  <1>6. Voting!PreparePOL(n, b, r) => VP!PreparePOL(n, b, r)
    BY <1>1, <1>2 DEF Voting!PreparePOL, VP!PreparePOL
  <1>7. Voting!AdvanceRound(n, r) => VP!AdvanceRound(n, r)
    BY DEF Voting!AdvanceRound, VP!AdvanceRound
  <1>8. Voting!CommitOldBlock(n, b, r) => VP!CommitOldBlock(n, b, r)
    BY DEF Voting!CommitOldBlock, VP!CommitOldBlock
  <1>9. Voting!Lock(n) => VP!Lock(n)
    BY <1>2 DEF Voting!Lock, VP!Lock
  <1>10. Voting!LockOnCommits(n) => VP!LockOnCommits(n)
    BY <1>1, <1>2 DEF Voting!LockOnCommits, VP!LockOnCommits
  <1>11. Voting!Discard(n) => VP!Discard(n)
    BY <1>2 DEF Voting!Discard, VP!Discard
  <1>12. Voting!Leave(n, b) => VP!Leave(n, b)
    BY DEF Voting!Leave, VP!Leave
  <1>13. Voting!Restart(n) => VP!Restart(n)
    BY DEF Voting!Restart, VP!Restart
  <1> QED
    BY <1>3, <1>4, <1>5, <1>6, <1>7, <1>8, <1>9, <1>10, <1>11, <1>12, <1>13

LEMMA SameNext ==
  /\ Voting!Init => VP!Init
  /\ Voting!Next => VP!Next
  /\ UNCHANGED Voting!vars => UNCHANGED VP!vars
  <1>1. Voting!Next => VP!Next
    BY SameRules DEF Voting!Next, VP!Next
  <1> QED
    BY <1>1 DEF Voting!Init, VP!Init, Voting!vars, VP!vars

\* No two validators ever have different blocks of one number in their chains,
\* for every number, set of validators, timing and loss of messages, when all
\* of them run the engine and few enough of them forget: none of four, one of
\* five, two of six may restart or fail to store a block (handleCommit, commit,
\* insertChain).
THEOREM EngineAgrees ==
  ASSUME AllRun, 3 * F(Validators) + Cardinality(Restarting \cup Failing) < Size(Validators)
  PROVE  Spec => []ChainsAgree
  <1>1. VP!Tolerated
    BY SameCardinality DEF VP!Tolerated, VP!F, VP!Size, F, Size
  <1>2. RefInv /\ VP!Agreement => ChainsAgree
    <2> SUFFICES ASSUME RefInv, VP!Agreement, NEW n \in Running, NEW m \in Running, NEW h,
                        h \in DOMAIN node[n].chain, h \in DOMAIN node[m].chain
                 PROVE  node[n].chain[h].block = node[m].chain[h].block
      BY DEF ChainsAgree, AgreeAt
    <2> DEFINE b == node[n].chain[h].block
               c == node[m].chain[h].block
    <2>1. n \in Validators /\ m \in Validators
      BY DEF AllRun
    <2>2. /\ node[n].chain \in Seq(SealedBlocks) /\ node[m].chain \in Seq(SealedBlocks)
          /\ b.number = h /\ c.number = h
      BY DEF RefInv, NetInv, Good, Sound, Typed, BackendTyped
    <2>3. node[n].chain[h] \in SealedBlocks /\ node[m].chain[h] \in SealedBlocks
      BY <2>2
    <2>4. /\ b \in Blocks /\ HasProposal(node[n], b)
          /\ c \in Blocks /\ HasProposal(node[m], c)
      BY <2>3 DEF SealedBlocks, HasProposal
    <2> HIDE DEF b, c
    <2>5. <<n, b>> \in VoteDecided /\ <<m, c>> \in VoteDecided
      BY <2>1, <2>4 DEF VoteDecided
    <2>6. c \notin VP!Rivals(b)
      BY <2>1, <2>4, <2>5 DEF VP!Agreement
    <2>7. b = c
      BY <2>2, <2>4, <2>6 DEF VP!Rivals
    <2> QED BY <2>7 DEF b, c
  <1>3. Init => VP!Init /\ RefInv
    BY VotingInit, RefInvInit, SameNext
  <1>4. RefInv /\ [Next]_vars => RefInv' /\ [VP!Next]_(VP!vars)
    BY RefInvStep, VotingStepHolds, SameNext
  <1>5. VP!Spec => []VP!Agreement
    BY <1>1, VotesAgree
  <1> QED
    BY <1>2, <1>3, <1>4, <1>5, PTL DEF Spec, VP!Spec

-----------------------------------------------------------------------------
(* What a block in a chain rests on.                                       *)

\* The validators that sent COMMIT for b in round r of height h because they
\* voted there, not because they already had the block.
CommittedBy(h, r, b) ==
    {v \in Validators : \E m \in msgs :
        /\ m.type = "COMMIT" /\ ~m.old /\ m.src = v
        /\ m.sequence = h /\ m.round = r /\ m.block = b}

\* Every block of a chain is not empty, and in one round of its height a
\* quorum of validators voted to commit it.
ChainsCommitted ==
    \A n \in Running : \A h \in DOMAIN node[n].chain :
        LET b == node[n].chain[h].block IN
        /\ b \notin EmptyBlocks
        /\ \E r \in Rounds : IsQuorum(Validators, CommittedBy(h, r, b))

LEMMA CommittedVotes ==
  ASSUME RefInv, NEW r \in Rounds, NEW b \in Blocks
  PROVE  VP!Committed(r, b) = CommittedBy(b.number, r, b)
  <1>1. ASSUME NEW m \in msgs, m.type = "COMMIT"
        PROVE  m.old \in BOOLEAN /\ m.sequence = m.block.number
    BY <1>1, RoundsNat, MessageFacts DEF RefInv, Numbered, NetInv
  <1>2. ASSUME NEW v \in Validators
        PROVE  <<v, r, b>> \in VoteCommits <=>
                   \E m \in msgs : /\ m.type = "COMMIT" /\ m.old = FALSE
                                  /\ m.src = v /\ m.round = r /\ m.block = b
    BY DEF VoteCommits, VotesOf
  <1> QED
    BY <1>1, <1>2 DEF VP!Committed, CommittedBy

\* A block enters a chain only after a quorum voted for it in one round
\* (handleCommit), although handleCommit also counts the COMMITs with which
\* validators that have the block answer old PRE-PREPAREs
\* (sendCommitForOldBlock), and although any number of validators may restart
\* or fail to store: the answers alone never make a block final, and nothing
\* else than the engine puts one into the chain, the fetcher or resultLoop.
THEOREM BlocksAreCommitted ==
  ASSUME AllRun
  PROVE  Spec => []ChainsCommitted
  <1>1. RefInv /\ VP!Invariant => ChainsCommitted
    <2> SUFFICES ASSUME RefInv, VP!Invariant, NEW n \in Running,
                        NEW h \in DOMAIN node[n].chain
                 PROVE  LET b == node[n].chain[h].block IN
                        /\ b \notin EmptyBlocks
                        /\ \E r \in Rounds : IsQuorum(Validators, CommittedBy(h, r, b))
      BY DEF ChainsCommitted
    <2> DEFINE b == node[n].chain[h].block
    <2>1. node[n].chain \in Seq(SealedBlocks) /\ b.number = h
      BY DEF RefInv, NetInv, Good, Sound, Typed, BackendTyped
    <2>2. node[n].chain[h] \in SealedBlocks
      BY <2>1
    <2>3. b \in Blocks /\ HasProposal(node[n], b)
      BY <2>2 DEF SealedBlocks, HasProposal
    <2> HIDE DEF b
    <2>4. n \in Validators /\ <<n, b>> \in VoteDecided
      BY <2>3 DEF VoteDecided, AllRun
    <2>5. /\ b \notin EmptyBlocks
          /\ \E r \in Rounds : VP!IsQuorum(Validators, VP!Committed(r, b))
      BY <2>3, <2>4 DEF VP!Invariant, VP!DecidedCommitted
    <2>6. PICK r \in Rounds : VP!IsQuorum(Validators, VP!Committed(r, b))
      BY <2>5
    <2>7. VP!Committed(r, b) = CommittedBy(h, r, b)
      BY <2>1, <2>3, CommittedVotes DEF b
    <2>8. IsQuorum(Validators, CommittedBy(h, r, b))
      BY <2>6, <2>7, SameCardinality DEF VP!IsQuorum, IsQuorum, VP!Threshold, Threshold,
         VP!F, F, VP!Size, Size
    <2> QED BY <2>5, <2>8 DEF b
  <1>2. Init => VP!Init /\ RefInv
    BY VotingInit, RefInvInit, SameNext
  <1>3. RefInv /\ [Next]_vars => RefInv' /\ [VP!Next]_(VP!vars)
    BY RefInvStep, VotingStepHolds, SameNext
  <1> QED
    BY <1>1, <1>2, <1>3, VotesBind, PTL DEF Spec, VP!Spec
=============================================================================
