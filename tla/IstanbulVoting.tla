--------------------------- MODULE IstanbulVoting ---------------------------
(***************************************************************************)
(* What the Istanbul engine promises, without timers, proposers, queues or *)
(* message handlers: the votes that the validators broadcast, and the lock *)
(* that each of them holds at its height.  It is the abstract              *)
(* specification that the detailed engine (IstanbulNetwork) implements,    *)
(* and the one the agreement theorem is proved about.                      *)
(*                                                                         *)
(* The rules come from handlePreprepare, handlePOLPreprepare,              *)
(* handlePrepare and handleCommit.  Three details of the code matter here  *)
(* and distinguish it from a textbook protocol:                            *)
(*   - a validator that is proposed the block it is locked on sends COMMIT *)
(*     at once, and its lockedRound is NOT raised to the current round;    *)
(*   - a PRE-PREPARE releases a lock when it carries PREPAREs of a round   *)
(*     not older than the lock;                                            *)
(*   - a validator that already has a block in its chain answers an old    *)
(*     PRE-PREPARE for it with a COMMIT, whatever it voted in that round.  *)
(*                                                                         *)
(* A vote is never taken back, so the network is the set of votes sent so  *)
(* far: losing, delaying, repeating or reordering messages is reading this *)
(* set late or not at all.                                                 *)
(***************************************************************************)
EXTENDS ValidatorSet

CONSTANTS
    Validators,   \* the validator set
    Blocks,       \* the blocks that may be proposed, each at its number
    EmptyBlocks,  \* those without transactions, which the engine never keeps
    Rounds,       \* the rounds of a height
    Proposed,     \* <<round, block>>: the PRE-PREPAREs that are broadcast
    Unreliable,   \* validators that may forget: restart, or fail to store
    NoBlock       \* the empty hash

ASSUME ValidatorsAssumption == IsFiniteSet(Validators) /\ Validators # {}
ASSUME BlocksAssumption ==
    /\ EmptyBlocks \subseteq Blocks /\ NoBlock \notin Blocks
    /\ \A b \in Blocks : b.number \in Nat
ASSUME RoundsAssumption == Rounds \subseteq Nat /\ 0 \in Rounds
ASSUME UnreliableAssumption == Unreliable \subseteq Validators

VARIABLES
    height,      \* height[n]: the height that the engine of n is at
    round,       \* round[n]: the current round of n
    accepted,    \* accepted[n]: the proposal n voted for in its round
    lockedHash,  \* lockedHash[n]: the block n is locked on, or NoBlock
    lockedRound, \* lockedRound[n]: the round of that lock
    prepares,    \* <<n, r, b>>: n sent PREPARE for b in round r
    commits,     \* <<n, r, b>>: n sent COMMIT for b while in round r
    oldCommits,  \* <<n, r, b>>: n sent COMMIT for a block it already has
    decided      \* <<n, b>>: b is in n's chain

vars == <<height, round, accepted, lockedHash, lockedRound, prepares, commits,
          oldCommits, decided>>

Votes == Validators \X Rounds \X Blocks

Prepared(r, b) == {n \in Validators : <<n, r, b>> \in prepares}
Committed(r, b) == {n \in Validators : <<n, r, b>> \in commits}
OldCommitted(r, b) == {n \in Validators : <<n, r, b>> \in oldCommits}

\* GetPrepareOrCommitSize and Commits.Size count one vote per sender.
PrepareQuorum(r, b) == IsQuorum(Validators, Prepared(r, b))
CommitQuorum(r, b) ==
    IsQuorum(Validators, Committed(r, b) \cup OldCommitted(r, b))
VoteQuorum(r, b) ==
    IsQuorum(Validators,
             Prepared(r, b) \cup Committed(r, b) \cup OldCommitted(r, b))

\* n has no block of b's number in its chain.
Misses(n, b) == \A c \in Blocks : c.number = b.number => <<n, c>> \notin decided

Init ==
    /\ height = [n \in Validators |-> 1]
    /\ round = [n \in Validators |-> 0]
    /\ accepted = [n \in Validators |-> NoBlock]
    /\ lockedHash = [n \in Validators |-> NoBlock]
    /\ lockedRound = [n \in Validators |-> 0]
    /\ prepares = {}
    /\ commits = {}
    /\ oldCommits = {}
    /\ decided = {}

-----------------------------------------------------------------------------
(* A PRE-PREPARE for b reaches n, in n's view and before n has voted.      *)

CanAccept(n, b) ==
    /\ b.number = height[n]
    /\ accepted[n] = NoBlock
    /\ <<round[n], b>> \in Proposed

\* Mutant of Prepare: the lock is not looked at.
PrepareWhileLocked(n, b) ==
    /\ CanAccept(n, b)
    /\ accepted' = [accepted EXCEPT ![n] = b]
    /\ prepares' = prepares \cup {<<n, round[n], b>>}
    /\ UNCHANGED <<height, round, lockedHash, lockedRound, commits,
                   oldCommits, decided>>

\* n is not locked: PREPARE.
Prepare(n, b) ==
    /\ CanAccept(n, b)
    /\ lockedHash[n] = NoBlock
    /\ accepted' = [accepted EXCEPT ![n] = b]
    /\ prepares' = prepares \cup {<<n, round[n], b>>}
    /\ UNCHANGED <<height, round, lockedHash, lockedRound, commits,
                   oldCommits, decided>>

\* n is locked on another block, but the PRE-PREPARE carries a quorum of
\* PREPAREs of a round r not older than the lock: unlock and PREPARE.
PreparePOL(n, b, r) ==
    /\ CanAccept(n, b)
    /\ lockedHash[n] \notin {NoBlock, b}
    /\ lockedRound[n] <= r /\ r < round[n]
    /\ PrepareQuorum(r, b)
    /\ accepted' = [accepted EXCEPT ![n] = b]
    /\ lockedHash' = [lockedHash EXCEPT ![n] = NoBlock]
    /\ lockedRound' = [lockedRound EXCEPT ![n] = 0]
    /\ prepares' = prepares \cup {<<n, round[n], b>>}
    /\ UNCHANGED <<height, round, commits, oldCommits, decided>>

\* n is locked on b: COMMIT without a PREPARE, and without renewing the lock.
Recommit(n, b) ==
    /\ CanAccept(n, b)
    /\ lockedHash[n] = b
    /\ accepted' = [accepted EXCEPT ![n] = b]
    /\ commits' = commits \cup {<<n, round[n], b>>}
    /\ UNCHANGED <<height, round, lockedHash, lockedRound, prepares,
                   oldCommits, decided>>

-----------------------------------------------------------------------------
(* Votes for the accepted proposal reach n.                                *)

\* A quorum of PREPAREs or COMMITs, and n not locked yet: lock and COMMIT.
Lock(n) ==
    LET b == accepted[n] IN
    /\ b # NoBlock
    /\ lockedHash[n] = NoBlock
    /\ VoteQuorum(round[n], b)
    /\ lockedHash' = [lockedHash EXCEPT ![n] = b]
    /\ lockedRound' = [lockedRound EXCEPT ![n] = round[n]]
    /\ commits' = commits \cup {<<n, round[n], b>>}
    /\ UNCHANGED <<height, round, accepted, prepares, oldCommits, decided>>

\* A quorum of COMMITs: the lock is renewed and the block is handed to the
\* backend, which writes it or passes it on to the miner or the fetcher.
\* n need not have sent a COMMIT itself.
LockOnCommits(n) ==
    LET b == accepted[n] IN
    /\ b # NoBlock
    /\ CommitQuorum(round[n], b)
    /\ lockedHash' = [lockedHash EXCEPT ![n] = b]
    /\ lockedRound' = [lockedRound EXCEPT ![n] = round[n]]
    /\ \/ UNCHANGED decided
       \/ /\ b \notin EmptyBlocks
          /\ Misses(n, b)
          /\ decided' = decided \cup {<<n, b>>}
    /\ UNCHANGED <<height, round, accepted, prepares, commits, oldCommits>>

\* The backend does not keep the block: it is empty, or storing it failed.
\* The lock is dropped and n moves to the next round.
Discard(n) ==
    LET b == accepted[n] IN
    /\ b # NoBlock
    /\ CommitQuorum(round[n], b)
    /\ b \in EmptyBlocks \/ n \in Unreliable
    /\ round[n] + 1 \in Rounds
    /\ round' = [round EXCEPT ![n] = @ + 1]
    /\ accepted' = [accepted EXCEPT ![n] = NoBlock]
    /\ lockedHash' = [lockedHash EXCEPT ![n] = NoBlock]
    /\ lockedRound' = [lockedRound EXCEPT ![n] = 0]
    /\ UNCHANGED <<height, prepares, commits, oldCommits, decided>>

\* The block enters n's chain: committed by n's engine, or imported.
Decide(n, b) ==
    /\ b \notin EmptyBlocks
    /\ \E r \in Rounds : CommitQuorum(r, b)
    /\ Misses(n, b)
    /\ decided' = decided \cup {<<n, b>>}
    /\ UNCHANGED <<height, round, accepted, lockedHash, lockedRound, prepares,
                   commits, oldCommits>>

-----------------------------------------------------------------------------
(* Rounds, heights and restarts.                                           *)

\* Mutant of AdvanceRound: the lock is lost with the round state.
AdvanceRoundUnlocked(n, r) ==
    /\ round[n] < r
    /\ round' = [round EXCEPT ![n] = r]
    /\ accepted' = [accepted EXCEPT ![n] = NoBlock]
    /\ lockedHash' = [lockedHash EXCEPT ![n] = NoBlock]
    /\ lockedRound' = [lockedRound EXCEPT ![n] = 0]
    /\ UNCHANGED <<height, prepares, commits, oldCommits, decided>>

\* A ROUND CHANGE, sent or followed: the lock is kept.
AdvanceRound(n, r) ==
    /\ round[n] < r
    /\ round' = [round EXCEPT ![n] = r]
    /\ accepted' = [accepted EXCEPT ![n] = NoBlock]
    /\ UNCHANGED <<height, lockedHash, lockedRound, prepares, commits,
                   oldCommits, decided>>

\* The engine starts the height after a block of its chain; nothing of the
\* height it was at is kept.
Leave(n, b) ==
    /\ <<n, b>> \in decided
    /\ height[n] <= b.number
    /\ height' = [height EXCEPT ![n] = b.number + 1]
    /\ round' = [round EXCEPT ![n] = 0]
    /\ accepted' = [accepted EXCEPT ![n] = NoBlock]
    /\ lockedHash' = [lockedHash EXCEPT ![n] = NoBlock]
    /\ lockedRound' = [lockedRound EXCEPT ![n] = 0]
    /\ UNCHANGED <<prepares, commits, oldCommits, decided>>

\* sendCommitForOldBlock: n answers an old PRE-PREPARE for its own block.
CommitOldBlock(n, b, r) ==
    /\ <<n, b>> \in decided
    /\ b.number < height[n] \/ (b.number = height[n] /\ r < round[n])
    /\ <<r, b>> \in Proposed
    /\ oldCommits' = oldCommits \cup {<<n, r, b>>}
    /\ UNCHANGED <<height, round, accepted, lockedHash, lockedRound, prepares,
                   commits, decided>>

\* Nothing of the engine is on disk: a restarted validator begins its height
\* at round 0 without a lock and may vote again.
Restart(n) ==
    /\ n \in Unreliable
    /\ round' = [round EXCEPT ![n] = 0]
    /\ accepted' = [accepted EXCEPT ![n] = NoBlock]
    /\ lockedHash' = [lockedHash EXCEPT ![n] = NoBlock]
    /\ lockedRound' = [lockedRound EXCEPT ![n] = 0]
    /\ UNCHANGED <<height, prepares, commits, oldCommits, decided>>

Next ==
    \E n \in Validators :
        \/ \E b \in Blocks :
              Prepare(n, b) \/ Recommit(n, b) \/ Decide(n, b) \/ Leave(n, b)
        \/ \E b \in Blocks, r \in Rounds :
              PreparePOL(n, b, r) \/ CommitOldBlock(n, b, r)
        \/ \E r \in Rounds : AdvanceRound(n, r)
        \/ Lock(n) \/ LockOnCommits(n) \/ Discard(n) \/ Restart(n)

Spec == Init /\ [][Next]_vars

-----------------------------------------------------------------------------
TypeOK ==
    /\ height \in [Validators -> Nat]
    /\ round \in [Validators -> Rounds]
    /\ accepted \in [Validators -> Blocks \cup {NoBlock}]
    /\ lockedHash \in [Validators -> Blocks \cup {NoBlock}]
    /\ lockedRound \in [Validators -> Rounds]
    /\ prepares \subseteq Votes
    /\ commits \subseteq Votes
    /\ oldCommits \subseteq Votes
    /\ decided \subseteq Validators \X Blocks

\* The other blocks of b's number.
Rivals(b) == {c \in Blocks : c.number = b.number /\ c # b}

\* No two validators ever put different blocks of one number into their
\* chains, whatever rounds they were committed in (handleCommit, commit).
Agreement ==
    \A n, m \in Validators, b, c \in Blocks :
        <<n, b>> \in decided /\ <<m, c>> \in decided => c \notin Rivals(b)

-----------------------------------------------------------------------------
(* The inductive invariant behind Agreement.  It speaks of the validators  *)
(* that do not forget.                                                     *)

Reliable == Validators \ Unreliable

\* How many validators may forget: none of four, one of five, two of six.
Tolerated == 3 * F(Validators) + Cardinality(Unreliable) < Size(Validators)

Voted(n, r, b) == <<n, r, b>> \in prepares \/ <<n, r, b>> \in commits

\* The proposal and the lock of a validator are of its height.
OfHeight ==
    \A n \in Validators, b \in Blocks :
        b \in {accepted[n], lockedHash[n]} => b.number = height[n]

\* A vote is for the past, and the vote of the current view is accepted[n].
VotesInPast ==
    \A n \in Reliable, r \in Rounds, b \in Blocks : Voted(n, r, b) =>
        \/ b.number < height[n]
        \/ /\ b.number = height[n] /\ r <= round[n]
           /\ r = round[n] => accepted[n] = b

\* A validator votes for one block in a view, PREPARE and COMMIT together.
OneVotePerRound ==
    \A n \in Reliable, r \in Rounds, b \in Blocks : \A c \in Rivals(b) :
        ~(Voted(n, r, b) /\ Voted(n, r, c))

\* A lock is from the past, and a locked validator accepts the locked block.
LockFits ==
    \A n \in Reliable : lockedHash[n] # NoBlock =>
        /\ lockedRound[n] <= round[n]
        /\ accepted[n] \in {NoBlock, lockedHash[n]}

\* Since it took its lock, a validator has voted for the locked block only.
LockHeld ==
    \A n \in Reliable, b \in Blocks : lockedHash[n] = b =>
        \A r \in Rounds, c \in Rivals(b) : Voted(n, r, c) => r < lockedRound[n]

\* Since round l, n has voted for b only, and its lock still binds it to b.
StillBound(n, b, l) ==
    /\ \A s \in Rounds, c \in Rivals(b) : Voted(n, s, c) => s < l
    /\ b.number < height[n] \/ (lockedHash[n] = b /\ l <= lockedRound[n])

\* From round l to round r at least, n voted for b only; the PREPAREs of
\* round a for another block c then released it.
Released(n, b, l, r, a, c) ==
    /\ l <= a
    /\ PrepareQuorum(a, c)
    /\ \A s \in Rounds, d \in Rivals(b) :
           Voted(n, s, d) => s < l \/ (a < s /\ r < s)
    /\ \/ b.number < height[n]
       \/ b.number = height[n] /\ a < round[n] /\ r < round[n]

\* A COMMIT binds its sender until a PREPARE quorum releases it.
CommitBinds ==
    \A n \in Reliable : \A r \in Rounds, b \in Blocks \ EmptyBlocks :
        <<n, r, b>> \in commits =>
            \E l \in Rounds :
                /\ l <= r
                /\ \/ StillBound(n, b, l)
                   \/ \E a \in Rounds, c \in Rivals(b) :
                         Released(n, b, l, r, a, c)

\* A COMMIT for an old block is for a block in the sender's chain.
OldCommitsDecided ==
    \A n \in Validators, r \in Rounds, b \in Blocks :
        <<n, r, b>> \in oldCommits => <<n, b>> \in decided

\* A block in a chain got a quorum of COMMITs sent for it in one round, not
\* counting those for an old block.
DecidedCommitted ==
    \A n \in Validators, b \in Blocks : <<n, b>> \in decided =>
        /\ b \notin EmptyBlocks
        /\ \E r \in Rounds : IsQuorum(Validators, Committed(r, b))

Invariant ==
    /\ TypeOK
    /\ OfHeight
    /\ VotesInPast
    /\ OneVotePerRound
    /\ LockFits
    /\ LockHeld
    /\ CommitBinds
    /\ OldCommitsDecided
    /\ DecidedCommitted
=============================================================================
