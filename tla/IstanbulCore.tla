---------------------------- MODULE IstanbulCore ----------------------------
(***************************************************************************)
(* One validator of the Istanbul engine: the state of core/core.go and     *)
(* core/roundstate.go with the parts of the backend and of the miner that  *)
(* the handlers read or write, and one operator per function of the code.  *)
(* An operator takes the state c of validator n and returns the state that *)
(* the function leaves behind; the messages it broadcasts are added to     *)
(* c.out.  The handlers run one at a time in the goroutine handleEvents,   *)
(* so each of them is one step of IstanbulNetwork.                         *)
(*                                                                         *)
(* A block is a record with the fields number and coinbase (its author,    *)
(* and with others that tell blocks apart) and is its own hash.  A         *)
(* committed seal is the block that was signed, or NoBlock for the empty   *)
(* seal.  A backlog is not kept: IstanbulNetwork never takes a message     *)
(* away, so a message that came too early is simply read again.            *)
(***************************************************************************)
EXTENDS ValidatorSet, Sequences

CONSTANTS
    Validators,     \* addresses, positive numbers
    Policy,         \* "RoundRobin" or "Sticky"
    Blocks,         \* the blocks that the miners may seal
    EmptyBlocks,    \* those without transactions, which are never stored
    InvalidBlocks,  \* those whose execution fails
    NoBlock,        \* the empty hash, and a missing proposal
    PopsFirst(_, _) \* how the queue orders stored requests for one number

ASSUME CoreValidators ==
    Validators \subseteq Nat \ {0} /\ Validators # {} /\ IsFiniteSet(Validators)
ASSUME CoreBlocks ==
    /\ \A b \in Blocks : b.number \in Nat \ {0} /\ b.coinbase \in Validators
    /\ EmptyBlocks \subseteq Blocks /\ InvalidBlocks \subseteq Blocks
    /\ NoBlock \notin Blocks
ASSUME CorePolicy == Policy \in {"RoundRobin", "Sticky"}

\* StateAcceptRequest < StatePreprepared < StatePrepared < StateCommitted.
AcceptRequest == 0
Preprepared == 1
Prepared == 2
Committed == 3

-----------------------------------------------------------------------------
(* Views and the queries of the core and of its backend.                   *)

View(c) == <<c.sequence, c.round>>

\* View.Cmp: the sequence first.
Before(v, w) == v[1] < w[1] \/ (v[1] = w[1] /\ v[2] < w[2])

\* The number of LastProposal, the head of the local chain.
LastNumber(c) == Len(c.chain)

\* The author of block number h of the local chain; the genesis has none.
GetProposer(c, h) == IF h = 0 THEN EmptyAddress ELSE c.chain[h].block.coinbase

\* valSet.IsProposer: the proposer is the one calculated when the last round
\* was started; catching up a round does not calculate it again.
IsProposer(c, n) == c.proposer = n

IsHashLocked(c) == c.lockedHash # NoBlock

\* HasPropsal asks the local chain for the header.
HasProposal(c, b) == \E h \in DOMAIN c.chain : c.chain[h].block = b

GetPrepareOrCommitSize(c) == Cardinality(c.prepares \cup DOMAIN c.commits)

\* checkMessage.
CheckMessage(c, m) ==
    LET view == <<m.sequence, m.round>> IN
    IF m.type = "ROUNDCHANGE"
    THEN IF m.sequence > c.sequence THEN "future"
         ELSE IF Before(view, View(c)) THEN "old" ELSE "ok"
    ELSE IF Before(View(c), view) THEN "future"
         ELSE IF Before(view, View(c)) THEN "old"
         ELSE IF c.waiting THEN "future"
         ELSE IF c.state = AcceptRequest /\ m.type # "PREPREPARE" THEN "future"
         ELSE "ok"

-----------------------------------------------------------------------------
(* The round state.                                                        *)

\* lockedPrepares refers to the message set of the round, so PREPAREs that
\* arrive later in that round still enter it.
LockHash(c) ==
    IF c.preprepare = NoBlock THEN c
    ELSE [c EXCEPT !.lockedHash = c.preprepare,
                   !.lockedRound = c.round,
                   !.lockedPrepares = c.prepares]

UnlockHash(c) ==
    [c EXCEPT !.lockedHash = NoBlock, !.lockedRound = 0, !.lockedPrepares = {}]

\* Mutant of KeepsLock: only the pending request survives a round change.
NeverKeepsLock(c, roundChange) == FALSE

\* updateRoundState locks again only for a round change with a lock.
KeepsLock(c, roundChange) == roundChange /\ IsHashLocked(c)

\* newRoundState: no votes yet.
NewRoundState(c, sequence, round, pendingRequest) ==
    [c EXCEPT !.sequence = sequence, !.round = round,
              !.prepares = {}, !.commits = << >>,
              !.pendingRequest = pendingRequest]

\* A round change keeps the lock with its proposal, and the pending request; a
\* new sequence keeps nothing.
UpdateRoundState(c, sequence, round, roundChange) ==
    LET fresh == NewRoundState(c, sequence, round,
                               IF roundChange THEN c.pendingRequest ELSE NoBlock)
    IN  IF KeepsLock(c, roundChange) THEN fresh
        ELSE [UnlockHash(fresh) EXCEPT !.preprepare = NoBlock]

-----------------------------------------------------------------------------
(* Sending.                                                                *)

Broadcast(c, m) == [c EXCEPT !.out = @ \cup {m}]

\* Mutant of LockedRoundSent: the round of the proposal.
CurrentRoundSent(c) == c.round

\* The round that a PRE-PREPARE claims its lockedPrepares are of.
LockedRoundSent(c) == c.lockedRound

\* sendPreprepare: only the proposer of the round proposes, and a locked
\* proposer adds its lock.
SendPreprepare(c, n, b) ==
    IF b.number # c.sequence \/ ~IsProposer(c, n) THEN c
    ELSE Broadcast(c, [type |-> "PREPREPARE", src |-> n,
                       sequence |-> c.sequence, round |-> c.round, block |-> b,
                       lockedRound |-> LockedRoundSent(c),
                       lockedHash |-> c.lockedHash,
                       lockedPrepares |-> c.lockedPrepares])

SendPrepare(c, n) ==
    Broadcast(c, [type |-> "PREPARE", src |-> n, sequence |-> c.sequence,
                  round |-> c.round, block |-> c.preprepare])

\* broadcastCommit and finalizeMessage: the committed seal signs the current
\* proposal, which need not be the block of the COMMIT.  The field old tells
\* sendCommitForOldBlock from sendCommit; it is not part of the message.
BroadcastCommit(c, n, sequence, round, b, old) ==
    Broadcast(c, [type |-> "COMMIT", src |-> n, sequence |-> sequence,
                  round |-> round, block |-> b, seal |-> c.preprepare,
                  old |-> old])

SendCommit(c, n) ==
    BroadcastCommit(c, n, c.sequence, c.round, c.preprepare, FALSE)

SendCommitForOldBlock(c, n, m) ==
    BroadcastCommit(c, n, m.sequence, m.round, m.block, TRUE)

-----------------------------------------------------------------------------
(* Rounds.                                                                 *)

\* catchUpRound, and roundChangeSet.Clear in it: the lock is kept, and so is
\* the state, but nothing is accepted until the round is started.
CatchUpRound(c, round) ==
    [UpdateRoundState(c, c.sequence, round, TRUE) EXCEPT
        !.waiting = TRUE,
        !.roundChanges = [r \in DOMAIN @ |-> IF r < round THEN {} ELSE @[r]]]

SendRoundChange(c, n, round) ==
    IF c.round >= round THEN c
    ELSE Broadcast(CatchUpRound(c, round),
                   [type |-> "ROUNDCHANGE", src |-> n,
                    sequence |-> c.sequence, round |-> round])

SendNextRoundChange(c, n) == SendRoundChange(c, n, c.round + 1)

\* Mutant of ProcessPendingRequests: it is not called.
KeepPendingRequests(c) == c

\* Mutant of ProcessPendingRequests: the queue's entries are posted.
PostPendingRequests(c) ==
    [c EXCEPT !.requests = @ \cup c.pendingRequests, !.pendingRequests = {}]

\* The queue gives stored request q before p: its priority is the number only.
Popped(q, p) ==
    \/ q.block.number < p.block.number
    \/ q.block.number = p.block.number /\ PopsFirst(q, p)

\* processPendingRequests: the stored requests are tried in the order of the
\* queue, up to the first one of a later view than the current one.
ProcessPendingRequests(c) ==
    LET view(p) == <<p.block.number, p.round>>
        stop == {p \in c.pendingRequests : Before(View(c), view(p))}
        kept == {p \in c.pendingRequests :
                    \E q \in stop : q = p \/ Popped(q, p)}
        posted == {p \in c.pendingRequests \ kept : view(p) = View(c)}
    IN  [c EXCEPT !.pendingRequests = kept,
                  !.requests = @ \cup {p.block : p \in posted}]

\* What startNewRound and startNewRoundWhenEmpty share: forget the ROUND
\* CHANGE messages, choose the proposer, accept a PRE-PREPARE.
EnterRound(c) ==
    [c EXCEPT !.roundChanges = [r \in DOMAIN @ |-> {}],
              !.proposer = CalcProposer(Policy, Validators,
                                        GetProposer(c, LastNumber(c)), c.round),
              !.waiting = FALSE,
              !.state = AcceptRequest]

\* Mutant of RefusesRound: any round may be started again.
RefusesNoRound(c, round) == LastNumber(c) < c.sequence - 1

\* When the chain has not grown, startNewRound ignores round 0, which asks
\* for a new sequence, and a round that is lower than the current one.
RefusesRound(c, round) ==
    LastNumber(c) < c.sequence - 1 \/ round = 0 \/ round < c.round

\* startNewRound: a new sequence when the chain has grown, else a round
\* change, in which the proposer proposes its lock or its pending request.
StartNewRound(c, n, round) ==
    LET newSequence == LastNumber(c) >= c.sequence
        entered == ProcessPendingRequests(EnterRound(
                       UpdateRoundState(c, c.sequence, round, TRUE)))
    IN  IF newSequence
        THEN ProcessPendingRequests(EnterRound(
                 UpdateRoundState(c, LastNumber(c) + 1, 0, FALSE)))
        ELSE IF RefusesRound(c, round) THEN c
        ELSE IF ~IsProposer(entered, n) THEN entered
        ELSE IF IsHashLocked(entered)
             THEN SendPreprepare(entered, n, entered.preprepare)
        ELSE IF entered.pendingRequest # NoBlock
             THEN SendPreprepare(entered, n, entered.pendingRequest)
        ELSE entered

\* After an empty block the next round begins at once, without a ROUND CHANGE
\* message; the lock and the pending request are dropped.
StartNewRoundWhenEmpty(c, round) ==
    EnterRound(UpdateRoundState(c, c.sequence, round, FALSE))

-----------------------------------------------------------------------------
(* The backend: verifying and committing a proposal.                       *)

\* Verify executes the block on the state of its parent, unless n proposes
\* its own block.  A block that is in the chain already passes again: the test
\* for executed transactions looks their hashes up among those of blocks.
Executes(c, n, b) == b.coinbase # n \/ ~IsProposer(c, n)

Verify(c, n, b) ==
    /\ b.number <= LastNumber(c) + 1
    /\ Executes(c, n, b) => b \notin InvalidBlocks

\* excuteBlock remembers the block it executed in sb.current.
ExecuteBlock(c, n, b) ==
    IF b.number > LastNumber(c) + 1 \/ ~Executes(c, n, b) THEN c
    ELSE [c EXCEPT !.executed = IF Verify(c, n, b) THEN b ELSE NoBlock]

\* writeCommittedSeals: a block with the seals of the COMMITs.
WithCommittedSeals(b, commits) == [block |-> b, seals |-> commits]

\* WriteBlockWithState ignores a block that is not above the head.
WriteBlock(c, s) ==
    IF s.block.number = LastNumber(c) + 1
    THEN [c EXCEPT !.chain = Append(@, s)] ELSE c

\* The results of backend.Commit that are not decided by the state: writing
\* the block may fail, and the first node of the network may refuse to
\* commit the first block.
CommitOutcomes == {"ok", "failed", "early"}

\* Mutant of Discards: the empty block is stored as any other.
DiscardsInTime(c, outcome) == outcome = "early" /\ LastNumber(c) = 0

\* ErrFirstCommitAtWrongTime and ErrEmpty.
Discards(c, outcome) ==
    \/ outcome = "early" /\ LastNumber(c) = 0
    \/ c.preprepare \in EmptyBlocks

\* Mutant of AfterDiscard: the rounds begin again.
AfterDiscardFromZero(c) == StartNewRoundWhenEmpty(UnlockHash(c), 0)

AfterDiscard(c) == StartNewRoundWhenEmpty(UnlockHash(c), c.round + 1)

\* Mutant of AfterFailure: no other round is asked for.
AfterFailureStays(c, n) == UnlockHash(c)

AfterFailure(c, n) == SendNextRoundChange(UnlockHash(c), n)

\* core.commit and backend.Commit.  A block that n sealed goes to the miner,
\* one that n executed is written, any other goes to the fetcher.
Commit(c, n, outcome) ==
    LET b == c.preprepare
        mine == c.proposedBlockHash = b
        result == WithCommittedSeals(b, c.commits)
        done == [c EXCEPT !.state = Committed,
                          !.proposedBlockHash = IF mine THEN NoBlock ELSE @]
    IN  IF Discards(c, outcome) THEN AfterDiscard(done)
        ELSE IF mine THEN [done EXCEPT !.sealResults = @ \cup {result}]
        ELSE IF c.executed # b THEN [done EXCEPT !.fetcher = @ \cup {result}]
        ELSE IF outcome = "failed" THEN AfterFailure(done, n)
        ELSE WriteBlock(done, result)

\* verifyCommittedSeals: every seal signs the block, one per validator, and
\* there are enough of them.
VerifyCommittedSeals(s) ==
    /\ \A v \in DOMAIN s.seals : s.seals[v] = s.block
    /\ IsQuorum(Validators, DOMAIN s.seals)

-----------------------------------------------------------------------------
(* The handlers.                                                           *)

\* handleRequest and storeRequestMsg: the miner asks to propose b.
HandleRequest(c, n, b) ==
    IF b.number < c.sequence THEN c
    ELSE IF b.number > c.sequence
         THEN [c EXCEPT !.pendingRequests = @ \cup {[block |-> b, round |-> c.round]}]
    ELSE LET d == [c EXCEPT !.pendingRequest = b] IN
         IF c.state = AcceptRequest THEN SendPreprepare(d, n, b) ELSE d

\* Mutant of AnswersOld: the block need not be in the chain.
AnswersAnyOld(c, m) ==
    m.src = CalcProposer(Policy, Validators,
                         GetProposer(c, m.block.number - 1), m.round)

\* An old PRE-PREPARE is answered by a COMMIT if its block is in the chain
\* and its sender was the proposer of its view.
AnswersOld(c, m) ==
    /\ HasProposal(c, m.block)
    /\ m.src = CalcProposer(Policy, Validators,
                            GetProposer(c, m.block.number - 1), m.round)

HandleOldPreprepare(c, n, m) ==
    IF AnswersOld(c, m) THEN SendCommitForOldBlock(c, n, m) ELSE c

AcceptPreprepare(c, b, state) == [c EXCEPT !.preprepare = b, !.state = state]

\* Mutant of HandlePOLPreprepare: the lock is not released.
HandlePOLPreprepareLocked(c, n, m) ==
    IF ~IsQuorum(Validators, m.lockedPrepares) THEN c
    ELSE SendPrepare(AcceptPreprepare(c, m.block, Preprepared), n)

\* handlePOLPreprepare: only the number of the PREPAREs is checked.
HandlePOLPreprepare(c, n, m) ==
    IF ~IsQuorum(Validators, m.lockedPrepares) THEN c
    ELSE SendPrepare(AcceptPreprepare(UnlockHash(c), m.block, Preprepared), n)

\* Mutant of CarriesLock: the lock may be an older one.
CarriesAnyLock(c, m) == m.lockedHash = m.block

CarriesLock(c, m) == m.lockedRound >= c.lockedRound /\ m.lockedHash = m.block

\* The locked proposal is committed at once, another one is refused or
\* released by its PREPAREs, and an unlocked validator prepares.
AcceptProposal(c, n, m) ==
    IF ~IsHashLocked(c)
    THEN SendPrepare(AcceptPreprepare(c, m.block, Preprepared), n)
    ELSE IF m.block = c.lockedHash
    THEN SendCommit(AcceptPreprepare(c, m.block, Prepared), n)
    ELSE IF CarriesLock(c, m)
    THEN HandlePOLPreprepare(c, n, m)
    ELSE SendNextRoundChange(c, n)

\* Mutant of MayAccept: a second PRE-PREPARE of the view is accepted.
AlwaysAccepts(c) == TRUE

MayAccept(c) == c.state = AcceptRequest

\* The proposal is verified, and executed, whatever the state is.
HandlePreprepare(c, n, m) ==
    IF CheckMessage(c, m) = "old" THEN HandleOldPreprepare(c, n, m)
    ELSE IF CheckMessage(c, m) # "ok" \/ m.src # c.proposer THEN c
    ELSE LET d == ExecuteBlock(c, n, m.block) IN
         IF ~Verify(c, n, m.block) THEN SendNextRoundChange(d, n)
         ELSE IF MayAccept(c) THEN AcceptProposal(d, n, m)
         ELSE d

\* verifyPrepare and verifyCommit: the message is about the proposal.
MatchesSubject(c, m) == CheckMessage(c, m) = "ok" /\ m.block = c.preprepare

HandlePrepare(c, n, m) ==
    LET shared == IsHashLocked(c) /\ c.lockedRound = c.round
        d == [c EXCEPT !.prepares = @ \cup {m.src},
                       !.lockedPrepares = IF shared THEN @ \cup {m.src} ELSE @]
        enough == \/ IsHashLocked(d) /\ m.block = d.lockedHash
                  \/ GetPrepareOrCommitSize(d) >= Threshold(Validators)
    IN  IF ~MatchesSubject(c, m) THEN c
        ELSE IF enough /\ c.state < Prepared
             THEN SendCommit([LockHash(d) EXCEPT !.state = Prepared], n)
        ELSE d

\* messageSet.Add: the last COMMIT of each validator, here with its seal.
AddMessage(commits, m) ==
    [v \in DOMAIN commits \cup {m.src} |->
        IF v = m.src THEN m.seal ELSE commits[v]]

\* A quorum of COMMITs commits, also from the state Preprepared.
HandleCommit(c, n, m, outcome) ==
    LET d == [c EXCEPT !.commits = AddMessage(@, m)] IN
    IF ~MatchesSubject(c, m) THEN c
    ELSE IF IsQuorum(Validators, DOMAIN d.commits) /\ c.state < Committed
         THEN Commit(LockHash(d), n, outcome)
    ELSE d

HandleRoundChange(c, n, m) ==
    LET d == [c EXCEPT !.roundChanges[m.round] = @ \cup {m.src}]
        num == Cardinality(d.roundChanges[m.round])
    IN  IF CheckMessage(c, m) # "ok" THEN c
        ELSE IF /\ num >= Threshold(Validators)
                /\ c.waiting \/ c.round < m.round
             THEN StartNewRound(d, n, m.round)
        ELSE IF c.waiting /\ num = F(Validators) + 1 /\ c.round < m.round
             THEN SendRoundChange(d, n, m.round)
        ELSE d

\* roundChangeSet.MaxRound: the last round that num validators ask for; -1
\* stands for none.
MaxRoundAsked(c, num) ==
    LET asked == {r \in DOMAIN c.roundChanges :
                    Cardinality(c.roundChanges[r]) >= num}
    IN  IF asked = {} THEN -1
        ELSE CHOOSE r \in asked : \A s \in asked : s <= r

\* handleTimeoutMsg: join a later round that F + 1 validators ask for, else
\* catch up with the chain, else ask for the next round.
HandleTimeout(c, n) ==
    LET maxRound == MaxRoundAsked(c, F(Validators) + 1)
    IN  IF ~c.waiting /\ maxRound > c.round
        THEN SendRoundChange(c, n, maxRound)
        ELSE IF LastNumber(c) >= c.sequence THEN StartNewRound(c, n, 0)
        ELSE SendNextRoundChange(c, n)

\* CanPropose, asked by the miner's timer: once in each view.
CanPropose(c, n) ==
    IsProposer(c, n) /\ c.state = AcceptRequest /\ c.lastView # View(c)

\* core.Start on a chain: what a validator knows when it starts.  The start
\* event of the miner asks for a block without asking ShouldSeal.
Start(n, chain, rounds, working) ==
    EnterRound([sequence |-> Len(chain) + 1, round |-> 0,
                state |-> AcceptRequest, waiting |-> FALSE,
                proposer |-> EmptyAddress, lastView |-> <<0, 0>>,
                preprepare |-> NoBlock, prepares |-> {}, commits |-> << >>,
                lockedHash |-> NoBlock, lockedRound |-> 0,
                lockedPrepares |-> {}, pendingRequest |-> NoBlock,
                pendingRequests |-> {},
                roundChanges |-> [r \in rounds |-> {}],
                proposedBlockHash |-> NoBlock, executed |-> NoBlock,
                working |-> working, requests |-> {}, sealResults |-> {},
                fetcher |-> {}, chain |-> chain, known |-> {}, out |-> {}])
=============================================================================
