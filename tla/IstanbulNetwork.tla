--------------------------- MODULE IstanbulNetwork ---------------------------
(***************************************************************************)
(* The Istanbul engine: validators that run IstanbulCore and exchange      *)
(* messages, each with its miner and its chain.                            *)
(*                                                                         *)
(* Every message ever broadcast stays in msgs and may be handled by any    *)
(* validator, its sender included, at any time or never: this covers loss, *)
(* delay and reordering, the gossip of backend.Gossip, and the backlog of  *)
(* core/backlog.go.  backend.HandleMsg drops a message whose hash is in    *)
(* the cache knownMessages; Repeats says whether a message may outlive its *)
(* place in that cache and be handled again.                               *)
(*                                                                         *)
(* Validators outside Running do not run the code: their messages are one  *)
(* of the given sets EnvMsgs.                                              *)
(***************************************************************************)
EXTENDS IstanbulCore

CONSTANTS
    Running,     \* the validators that are modelled
    EnvMsgs,     \* the sets of messages that the others may have sent
    Eager,       \* validators whose miner gets to seal on its start event
    Restarting,  \* validators that may restart
    Failing,     \* validators that may fail to store a block
    Repeats,     \* whether a message may be handled more than once
    MaxRound     \* bound: the last round of a height

ASSUME RunningAssumption == Running \subseteq Validators
ASSUME EagerAssumption == Eager \subseteq Running
ASSUME RepeatsAssumption == Repeats \in BOOLEAN
ASSUME UnreliableAssumption == Restarting \cup Failing \subseteq Validators
ASSUME MaxRoundAssumption == MaxRound \in Nat

VARIABLES
    node,    \* node[n]: the state of validator n, see Start in IstanbulCore
    msgs,    \* the messages broadcast so far
    sealed   \* the blocks sealed so far

vars == <<node, msgs, sealed>>

Rounds == 0 .. MaxRound

\* Bound: nothing happens at a height that no block is for.
Active(n) == \E b \in Blocks : b.number = node[n].sequence

Init ==
    /\ node = [n \in Running |-> Start(n, << >>, Rounds, n \in Eager)]
    /\ msgs \in EnvMsgs
    /\ sealed = {}

\* A handler leaves validator n in state c; what it broadcast is sent.  An
\* event that changes nothing is a stuttering step.  The rounds are bounded.
Becomes(n, c) ==
    /\ c # node[n]
    /\ c.round <= MaxRound
    /\ node' = [node EXCEPT ![n] = [c EXCEPT !.out = {}]]
    /\ msgs' = msgs \cup c.out

-----------------------------------------------------------------------------
(* The miner.                                                              *)

\* The timer of newWorkLoop asks ShouldSeal and starts to build a block.
ShouldSeal(n) ==
    /\ Active(n)
    /\ CanPropose(node[n], n)
    /\ node' = [node EXCEPT ![n].lastView = View(node[n]), ![n].working = TRUE]
    /\ UNCHANGED <<msgs, sealed>>

\* commitNewWork: the block is built on the head of the chain at that time,
\* which may not be the one ShouldSeal saw, and is a new one.
CommitNewWork(n, b) ==
    /\ node[n].working
    /\ b.coinbase = n /\ b.number = LastNumber(node[n]) + 1
    /\ b \notin sealed

\* taskLoop gives the block to backend.Seal, which posts a request.
Seal(n, b) ==
    /\ CommitNewWork(n, b)
    /\ sealed' = sealed \cup {b}
    /\ node' = [node EXCEPT ![n].working = FALSE,
                            ![n].proposedBlockHash = b,
                            ![n].requests = @ \cup {b}]
    /\ UNCHANGED msgs

\* resultLoop stores a block that the engine committed for the miner.  It may
\* be late, and never happens if the goroutine of an earlier Seal takes the
\* block from commitCh and drops it, or if writing it fails.
WriteSealed(n, s) ==
    /\ s \in node[n].sealResults
    /\ node' = [node EXCEPT ![n] = [WriteBlock(node[n], s) EXCEPT
                                        !.sealResults = @ \ {s}]]
    /\ UNCHANGED <<msgs, sealed>>

-----------------------------------------------------------------------------
(* The events of the core.                                                 *)

Request(n, b) ==
    /\ b \in node[n].requests
    /\ Becomes(n, HandleRequest([node[n] EXCEPT !.requests = @ \ {b}], n, b))
    /\ UNCHANGED sealed

\* storeBacklog and processBacklog: a future message is kept and handled again
\* later, unless it is n's own.
StoresBacklog(n, m) == CheckMessage(node[n], m) = "future" /\ m.src # n

\* backend.HandleMsg passes on a message that is not in knownMessages.
MarkKnown(n, m, c) ==
    IF Repeats \/ StoresBacklog(n, m) THEN c
    ELSE [c EXCEPT !.known = @ \cup {m}]

\* handleMsg and handleCheckedMsg, with the handler's result c.
Handles(n, m, c) ==
    /\ m \notin node[n].known
    /\ Becomes(n, MarkKnown(n, m, c))
    /\ UNCHANGED sealed

Preprepare(n, m) ==
    /\ m.type = "PREPREPARE"
    /\ Handles(n, m, HandlePreprepare(node[n], n, m))

Prepare(n, m) ==
    /\ m.type = "PREPARE"
    /\ Handles(n, m, HandlePrepare(node[n], n, m))

CommitMsg(n, m, outcome) ==
    /\ m.type = "COMMIT"
    /\ outcome = "ok" \/ n \in Failing
    /\ Handles(n, m, HandleCommit(node[n], n, m, outcome))

RoundChange(n, m) ==
    /\ m.type = "ROUNDCHANGE"
    /\ Handles(n, m, HandleRoundChange(node[n], n, m))

\* The timer of an earlier round may still fire: a timeout has no view.
Timeout(n) ==
    /\ Active(n)
    /\ Becomes(n, HandleTimeout(node[n], n))
    /\ UNCHANGED sealed

\* FinalCommittedEvent, which the miner posts when the chain has a new head;
\* the core may have left the height before it takes the event.
FinalCommitted(n) ==
    /\ LastNumber(node[n]) > 0
    /\ Becomes(n, StartNewRound(node[n], n, 0))
    /\ UNCHANGED sealed

-----------------------------------------------------------------------------
(* The chain.                                                              *)

\* A block comes from the fetcher or from the chain of another validator.
Import(n, s) ==
    /\ \/ s \in node[n].fetcher
       \/ \E m \in Running \ {n} : \E h \in DOMAIN node[m].chain :
              s = node[m].chain[h]
    /\ s.block.number = LastNumber(node[n]) + 1
    /\ VerifyCommittedSeals(s)
    /\ node' = [node EXCEPT ![n] = [WriteBlock(node[n], s) EXCEPT
                                        !.fetcher = @ \ {s}]]
    /\ UNCHANGED <<msgs, sealed>>

\* Only the chain survives.
Restart(n) ==
    /\ n \in Restarting
    /\ node' = [node EXCEPT ![n] = Start(n, @.chain, Rounds, n \in Eager)]
    /\ UNCHANGED <<msgs, sealed>>

Stored(n) ==
    node[n].fetcher \cup
    UNION {{node[m].chain[h] : h \in DOMAIN node[m].chain} : m \in Running}

Next ==
    \E n \in Running :
        \/ ShouldSeal(n) \/ Timeout(n) \/ FinalCommitted(n) \/ Restart(n)
        \/ \E b \in Blocks : Seal(n, b)
        \/ \E b \in node[n].requests : Request(n, b)
        \/ \E s \in node[n].sealResults : WriteSealed(n, s)
        \/ \E s \in Stored(n) : Import(n, s)
        \/ \E m \in msgs : Preprepare(n, m) \/ Prepare(n, m) \/ RoundChange(n, m)
        \/ \E m \in msgs, o \in CommitOutcomes : CommitMsg(n, m, o)

Spec == Init /\ [][Next]_vars

-----------------------------------------------------------------------------
(* Types.                                                                  *)

Hashes == Blocks \cup {NoBlock}
Heights == {1} \cup {b.number + 1 : b \in Blocks}

\* Votes with their senders' seals: a partial function.
IsSealing(f) == DOMAIN f \subseteq Validators /\ \A v \in DOMAIN f : f[v] \in Hashes
IsSealedBlock(s) == s.block \in Blocks /\ IsSealing(s.seals)

IsRoundState(c) ==
    /\ c.sequence \in Heights /\ c.round \in Rounds
    /\ {c.preprepare, c.pendingRequest, c.lockedHash} \subseteq Hashes
    /\ c.prepares \subseteq Validators /\ IsSealing(c.commits)
    /\ c.lockedRound \in 0 .. c.round /\ c.lockedPrepares \subseteq Validators

IsCore(c) ==
    /\ c.state \in {AcceptRequest, Preprepared, Prepared, Committed}
    /\ c.waiting \in BOOLEAN /\ c.proposer \in Validators
    /\ c.lastView \in (Heights \cup {0}) \X Rounds
    /\ c.roundChanges \in [Rounds -> SUBSET Validators]
    /\ \A p \in c.pendingRequests : p.block \in Blocks /\ p.round \in Rounds

IsBackend(c) ==
    /\ c.proposedBlockHash \in Hashes /\ c.executed \in Hashes
    /\ c.working \in BOOLEAN /\ c.requests \subseteq Blocks
    /\ \A s \in c.sealResults \cup c.fetcher : IsSealedBlock(s)
    /\ \A h \in DOMAIN c.chain :
           IsSealedBlock(c.chain[h]) /\ c.chain[h].block.number = h
    /\ c.known \subseteq msgs /\ c.out = {}

\* The messages of rounds R.
Messages(R) ==
    [type : {"PREPREPARE"}, src : Validators, sequence : Heights, round : R,
     block : Blocks, lockedRound : R, lockedHash : Hashes,
     lockedPrepares : SUBSET Validators]
    \cup [type : {"PREPARE"}, src : Validators, sequence : Heights, round : R,
          block : Blocks]
    \cup [type : {"COMMIT"}, src : Validators, sequence : Heights, round : R,
          block : Blocks, seal : Hashes, old : BOOLEAN]
    \cup [type : {"ROUNDCHANGE"}, src : Validators, sequence : Heights,
          round : R]

\* A proposer's lock is of an earlier round than its proposal.
LocksEarlier(m) ==
    m.type = "PREPREPARE" =>
        /\ m.lockedRound <= m.round
        /\ m.lockedHash # NoBlock => m.lockedRound < m.round

\* The PREPAREs that the PRE-PREPAREs of S carry are in S.
ProvesLocks(S) ==
    \A m \in S : m.type = "PREPREPARE" => \A v \in m.lockedPrepares :
        [type |-> "PREPARE", src |-> v, sequence |-> m.sequence,
         round |-> m.lockedRound, block |-> m.lockedHash] \in S

\* The validators that are not modelled keep to the format of the messages,
\* sign them with their own keys and claim no lock that they do not have.
ASSUME EnvAssumption ==
    \A S \in EnvMsgs :
        /\ \A m \in S : /\ m \in Messages(Rounds) /\ LocksEarlier(m)
                        /\ m.src \notin Running
        /\ ProvesLocks(S)

\* The state of every validator and every message are of their types: a vote
\* is for a block, a lock is of a round up to the current one, a posted
\* request is a block, and the chain has one block for each number.
TypeOK ==
    /\ DOMAIN node = Running
    /\ \A n \in Running :
           IsRoundState(node[n]) /\ IsCore(node[n]) /\ IsBackend(node[n])
    /\ \A m \in msgs : m \in Messages(Rounds) /\ LocksEarlier(m)
    /\ sealed \subseteq Blocks

-----------------------------------------------------------------------------
\* No two validators have different blocks of number h in their chains.
AgreeAt(h) ==
    \A n, m \in Running :
        h \in DOMAIN node[n].chain \cap DOMAIN node[m].chain =>
            node[n].chain[h].block = node[m].chain[h].block

\* No two validators have different blocks at one height of their chains.
ChainsAgree == \A n \in Running : \A h \in DOMAIN node[n].chain : AgreeAt(h)

\* A locked validator still has the proposal it is locked on, so that it can
\* propose it again (the comments at core.go:373 and roundstate.go:31).
LockedProposal ==
    \A n \in Running :
        IsHashLocked(node[n]) => node[n].preprepare = node[n].lockedHash

\* The PREPAREs that a PRE-PREPARE carries were sent, in its locked round and
\* for its locked hash: handlePOLPreprepare only counts them.
ProofOfLock == ProvesLocks(msgs)

\* A request that the core stores is one of a later view, and is posted again
\* when its view comes, unless the core still waits for the round to start; or
\* the queue gives it only after such a request for the same number, with which
\* processPendingRequests stops.
StoredRequestsLater ==
    \A n \in Running : ~node[n].waiting =>
        \A p \in node[n].pendingRequests : \E q \in node[n].pendingRequests :
            /\ q.block.number = p.block.number
            /\ Before(View(node[n]), <<q.block.number, q.round>>)

\* From the round of a validator on, whatever its last block, each of Size
\* rounds has another proposer under both policies: faulty proposers are
\* passed by (CalcProposer).
EachProposesOnce ==
    \A n \in Running, v \in Validators, policy \in {"RoundRobin", "Sticky"} :
        LET last == GetProposer(node[n], LastNumber(node[n])) IN
        \E r \in node[n].round .. node[n].round + Size(Validators) - 1 :
            CalcProposer(policy, Validators, last, r) = v

\* Every block in a chain could be imported by another validator.
ChainVerifies ==
    \A n \in Running : \A h \in DOMAIN node[n].chain :
        VerifyCommittedSeals(node[n].chain[h])

\* The votes of n, without its answers to old PRE-PREPAREs.
IsVoteOf(m, n) ==
    m.src = n /\ (m.type = "PREPARE" \/ (m.type = "COMMIT" /\ ~m.old))

\* A validator votes for one block in a view, PREPARE and COMMIT together,
\* whatever its proposers and its timers do; a COMMIT that answers an old
\* PRE-PREPARE may disagree with that vote, but is for a block of its chain.
OneVote ==
    \A n \in Running :
        /\ n \notin Restarting => \A m, p \in msgs :
               /\ IsVoteOf(m, n) /\ IsVoteOf(p, n)
               /\ m.sequence = p.sequence /\ m.round = p.round
               => m.block = p.block
        /\ \A m \in msgs : m.type = "COMMIT" /\ m.src = n /\ m.old
               => HasProposal(node[n], m.block)

\* The validators that sent PREPARE for b in round r of height h.
PreparedBy(h, r, b) ==
    {v \in Validators : [type |-> "PREPARE", src |-> v, sequence |-> h,
                         round |-> r, block |-> b] \in msgs}

\* Within a height a validator gives up its lock on a block that can be stored
\* only when a quorum sent PREPARE for another block in a later round, or in
\* the round of the lock; an empty block is discarded when it is committed.
LockReleased ==
    [][\A n \in Running \ (Restarting \cup Failing) :
         LET c == node[n] IN
         /\ IsHashLocked(c) /\ c.lockedHash \notin EmptyBlocks
         /\ node'[n].sequence = c.sequence
         /\ node'[n].lockedHash # c.lockedHash
         => \E r \in c.lockedRound .. c.round - 1, b \in Blocks \ {c.lockedHash} :
                IsQuorum(Validators, PreparedBy(c.sequence, r, b))]_vars

\* The view of a validator never goes back, except by a restart.
ViewsAdvance ==
    [][\A n \in Running \ Restarting :
         ~Before(View(node'[n]), View(node[n]))]_vars

-----------------------------------------------------------------------------
(* The votes, as IstanbulVoting sees them.                                 *)

\* The proposal that a validator has accepted in its round.
Accepted(c) ==
    IF ~c.waiting /\ c.state # AcceptRequest THEN c.preprepare ELSE NoBlock

VotesOf(type, old) ==
    {<<m.src, m.round, m.block>> :
        m \in {k \in msgs : k.type = type /\ (type = "COMMIT" => k.old = old)}}

VoteHeight == [n \in Validators |-> node[n].sequence]
VoteRound == [n \in Validators |-> node[n].round]
VoteAccepted == [n \in Validators |-> Accepted(node[n])]
VoteLockedHash == [n \in Validators |-> node[n].lockedHash]
VoteLockedRound == [n \in Validators |-> node[n].lockedRound]
VotePrepares == VotesOf("PREPARE", FALSE)
VoteCommits == VotesOf("COMMIT", FALSE)
VoteOldCommits == VotesOf("COMMIT", TRUE)
VoteDecided == {d \in Validators \X Blocks : HasProposal(node[d[1]], d[2])}

Voting == INSTANCE IstanbulVoting WITH
    Unreliable <- Restarting \cup Failing,
    Proposed <- Rounds \X Blocks,
    height <- VoteHeight,
    round <- VoteRound,
    accepted <- VoteAccepted,
    lockedHash <- VoteLockedHash,
    lockedRound <- VoteLockedRound,
    prepares <- VotePrepares,
    commits <- VoteCommits,
    oldCommits <- VoteOldCommits,
    decided <- VoteDecided

\* The engine implements the abstract voting rules.
VotingSpec == Voting!Spec
=============================================================================
