# TLA+ verification of Venachain

Venachain is a permissioned blockchain derived from go-ethereum. This directory
holds TLA+ models of its own core logic, the TLC runs that check them on small
instances and the TLAPS proofs about them. The modules cover the Istanbul
(IBFT) consensus engine in `src/consensus/istanbul`, the miner's pipeline in
`src/miner/worker.go` with the parts of the chain and the fetcher that both
read and write, and the system contracts written in C++ in
`src/cmd/SysContracts` for users, roles, nodes and the multi-signature wallet.
The later sections list what is planned and what is left out.

## 1. The system

### Components

| component | source | state | operations |
|---|---|---|---|
| Istanbul core | `consensus/istanbul/core` | view (sequence, round), state (AcceptRequest … Committed), proposal, PREPARE and COMMIT sets, lock (hash, round, PREPAREs), ROUND CHANGE sets, pending requests, backlog, `lastView` | handlers of requests, four messages, timeouts, final commits; `startNewRound`, `startNewRoundWhenEmpty`, `catchUpRound` |
| Istanbul backend | `consensus/istanbul/backend` | `proposedBlockHash`, `commitCh`, the executed block `current`, message caches | `Verify`, `Commit`, `Seal`, `Broadcast`/`Gossip`, header and seal verification |
| Validator set | `consensus/istanbul/validator` | sorted list of addresses, proposer | `F`, `CalcProposer` (round robin, sticky) |
| Snapshots, VRF | `backend/snapshot.go`, `vrf_handler.go` | validator set per block | `snapshot`, `apply`, VRF check |
| Miner worker | `miner/worker.go` | current work, pending tasks, timers | `newWorkLoop`, `mainLoop`, `taskLoop`, `resultLoop` |
| Chain | `core/blockchain.go` | blocks, head, state database | `WriteBlockWithState`, `InsertChain` |
| Fetcher, downloader, handler | `eth/` | announced and queued blocks, peers | block and transaction propagation |
| Transaction pool | `core/tx_pool.go` | pending and queued transactions | add, promote, demote |
| Users and roles | `cmd/SysContracts/systemContract/{userRegister,userManager,roleManager,roleRegister}` | applications, users with a status, roles by account, requests for roles, three indices of names | register, approve or reject, enable, disable, delete, add and remove roles |
| Nodes | `…/nodeRegister`, `…/nodeManager` | registrations by public key, node records by name, list of names | register, approve or refuse, add, update |
| Wallet | `…/multisig` | owners, required number, transactions, confirmations | set up, submit, confirm, revoke, execute |
| Naming, parameters (C++) | `…/cnsManager`, `…/cnsProxy`, `…/paramManager` | contract addresses by name and version, parameters | register, look up, set |
| System contracts in Go | `core/vm/sc_*.go` | users and roles, nodes, contract names, firewall, parameters, groups | one precompiled contract each |
| VM, state, trie, p2p, RPC, tools | the rest | | |

### How they interact

The miner's timer asks `ShouldSeal`; if this validator is the proposer of the
view and has not been told so in this view, a block is built and given to
`Seal`, which posts a `RequestEvent`. The core, one goroutine that takes one
event at a time, broadcasts PRE-PREPARE, and the validators vote with PREPARE
and COMMIT. A quorum of COMMITs calls `backend.Commit`, which hands the block
to the miner (if this node sealed it), writes it (if this node executed it), or
gives it to the fetcher. The new head of the chain posts `FinalCommittedEvent`,
which starts the next sequence. Timers and refused proposals lead to ROUND
CHANGE messages and, with a quorum of them, to the next round.

With a single validator there are no votes: `Seal` posts a
`SingleCommittedEvent` and the core commits the block at once. `Commit` hands a
block to the miner through `commitCh`, a channel with one place, from which a
goroutine per `Seal` call reads.

A transaction calls one system contract, which asks the naming service for the
others and calls them: `UserRegister.approve` calls `UserManager.addUser` and
`RoleManager.addRole`, `RoleRegister.approveRole` calls `addRole`,
`NodeRegister.approve` calls `NodeManager.add`, and all of them ask for the
caller's status and roles. Transactions run one after the other, so what is
hard there is long sequences of calls and the failure of one of several calls.
A call that the callee refuses returns its error. A call that fails in the
virtual machine, by a trap or because the gas runs out, is undone and returns 0
(`callInt64`, `life/resolver/cplusplus.go:1237-1241`), which the calling
contract takes for success.

### What is hard

* a lock must survive rounds, and be released only by newer PREPAREs;
* messages are lost, late, repeated (bounded caches) and reordered; timeouts
  carry no view; the miner, the core and the chain run concurrently;
* empty blocks are voted on but not stored, and each validator then starts the
  next round on its own;
* nothing of the engine is on disk, so a restart forgets the lock;
* a validator that has a block answers late PRE-PREPAREs with COMMITs;
* a block may enter the chain by three paths while the core still votes on it;
* results pass through `commitCh` to whichever `Seal` goroutine reads first;
* registers that must agree are kept in several contracts, and requests are
  decided long after they were made;
* a call to another contract that fails in the virtual machine looks to the
  caller like one that succeeded;
* public keys and names are compared as strings in some places and in another
  form in others (lower case, JSON, parts of a list that `|` separates);
* the wallet stores that a transaction was executed only after the transfer,
  which may fail, be tried again, or run code that calls the wallet.

`PROJECT.json` lists these hazards with their lines and the properties that
watch them.

## 2. Modules

| module | models |
|---|---|
| `ValidatorSet` | `validator/default.go`: size, `F`, threshold `Size - F`, proposer selection |
| `IstanbulVoting` | the abstract specification of the engine: votes, locks, decisions |
| `IstanbulVotingProofs` | the theorems about `IstanbulVoting` |
| `IstanbulCore` | one validator: an operator per function of `core/` and of the backend that it calls |
| `IstanbulNetwork` | validators, messages, miners and chains composed; refinement of `IstanbulVoting` |
| `Sealing` | the miner's four loops, `Seal`, `Commit` and `commitCh`, the core of a single validator; fairness and liveness |
| `MultiSig` | `multisig.cpp`: the wallet, with transfers that run other contracts' code |
| `SysUsers` | `userRegister.cpp`, `userManager.cpp`, `roleManager.cpp`, `roleRegister.cpp` composed |
| `SysNodes` | `nodeRegister.cpp` and `nodeManager.cpp` on top of `SysUsers` |
| `IstanbulHandlerProofs` | the lemmas about `ValidatorSet` and what the handlers of `IstanbulCore` preserve |
| `IstanbulNetworkProofs` | the theorems about the network |
| `IstanbulRefinementProofs` | `IstanbulNetwork` implements `IstanbulVoting`; agreement of the engine |
| `SealingProofs`, `MultiSigProofs`, `SysUsersProofs`, `SysNodesProofs` | the theorems about the modules they are named after |
| `MCIstanbulVoting`, `MCIstanbulNetwork`, `MCSealing`, `MCMultiSig`, `MCSysUsers`, `MCSysNodes` | instances for TLC |

### ValidatorSet

Addresses are positive numbers, 0 is the empty address; the sorted list of
`newDefaultSet` is the set itself, and an index is the number of smaller
addresses. All thresholds in the code are `Size() - F()`.

### IstanbulCore and IstanbulNetwork

The state of a validator is a record. The correspondence is by name:
`sequence`, `round`, `preprepare`, `prepares`, `commits`, `lockedHash`,
`lockedRound`, `lockedPrepares` and `pendingRequest` are `roundState`; `state`,
`waiting` (`waitingForRoundChange`), `proposer` (of `valSet`), `roundChanges`,
`pendingRequests` and `lastView` are `core`; `proposedBlockHash` and `executed`
(`sb.current.block`) are the backend; `working` is a block being built by the
worker; `requests` are posted `RequestEvent`s; `sealResults` are blocks on
their way to `resultLoop`; `fetcher` the blocks given to it; `chain` the local
chain with the committed seals of each block. `out` collects what a handler
broadcasts and is empty between steps.

The core takes one event at a time in `handleEvents`, so a handler is one step,
with everything it calls. The environment of the core (miner, chain, fetcher)
acts between any two of them.

Decisions of abstraction:

* **Network and backlog.** A message stays in `msgs` and may be handled at any
  time, or never. This covers loss, delay, reordering and gossip, and also the
  backlog, in which `checkMessage` puts a future message to be handled again.
  With `Repeats = FALSE` every validator handles a message once (the cache
  `knownMessages`), except that a future message of another validator is kept;
  a validator's own future message is lost, as in `storeBacklog`. With
  `Repeats = TRUE` a message may be handled again, after it has fallen out of
  the bounded cache.
* **Signatures and hashes** are ideal. A block is its own hash. A committed
  seal is the block that was signed. A block names its number and author; its
  parent is left out, because within the modelled heights a validator only
  executes a block on its own head.
* **Timers.** A timeout may happen at any time. `ErrFutureBlock` only delays a
  PRE-PREPARE, which is the same as reading it later.
* **Proposals that are in the chain already** are executed again, on the state
  of their parent, and voted on. `Verify` means to refuse them, but the test at
  `backend.go:386` looks for a transaction's hash among the hashes of blocks
  (`GetReceiptsByHash`) and finds none. The block is still written once:
  `WriteBlockWithState` ignores a block that is there.
* **The queue of stored requests** orders them by number. The order of two
  requests for one number is whatever the heap makes of it, so it is a
  parameter, `PopsFirst`: `processPendingRequests` takes requests until it
  meets a future one. The proofs hold for every order; the runs take the worst
  one (`HigherRoundFirst`), in which a future request comes before one that is
  due.
* **Results of the backend** that the state does not decide (writing fails, the
  first node of the network commits the first block at the wrong time) are
  chosen in `CommitOutcomes`, only for validators in `Failing`.
* **The miner.** Its start event seals a block without asking `ShouldSeal`;
  `Eager` bounds this to some validators, since work on a block may fail
  before it is sealed (it is empty in `network2` and `network2_refused`,
  and all of `Running` in
  the other runs). `WriteSealed` may be late or never happen: the goroutine of
  an earlier `Seal` may take the block from `commitCh` and drop it; `Sealing`
  models this in detail.
* **Validators outside `Running`** do not run the code; what they sent is one of
  the sets of `EnvMsgs`. `EnvAssumption` says what is assumed of them: messages
  of the right format, none in the name of a running validator, and a lock in a
  PRE-PREPARE only with the PREPAREs that prove it. That they vote at most once
  is not assumed.

### IstanbulVoting

The votes of all heights as sets of `<<validator, round, block>>` (a block names
its number), with the height, the round, the lock and the accepted proposal of
each validator, and the blocks in its chain. It has no proposers, timers or
queues. `Proposed` says which PRE-PREPAREs exist; nothing is assumed about it,
so two proposals in one view are allowed. `Unreliable` are validators that may
restart or drop their lock because storing a block failed.

Three details of the code shape it: a validator that is proposed its locked
block sends COMMIT without renewing `lockedRound` (`Recommit`); a PRE-PREPARE
with enough PREPAREs of a round not older than the lock releases the lock
(`PreparePOL`); and COMMITs for old blocks are votes like others
(`CommitOldBlock`).

A validator leaves a height for the one after a block that it has (`Leave`, the
catching up of `startNewRound`); its votes stay, its lock does not.

The mapping from `IstanbulNetwork` is the `INSTANCE` at its end, with one `Vote`
operator for each variable. Votes are read off `msgs`, `height` is the
sequence, `accepted` is the proposal unless the core waits or accepts requests,
and `decided` are the pairs of a validator and a block of its chain.

### Sealing

Where `IstanbulNetwork` takes the path from the miner to the chain as a few
atomic steps, `Sealing` splits it at every point at which another goroutine may
run. `miner` holds what `newWorkLoop` waits for (`start`, the timer `armed`, an
unread `request`), the block that `mainLoop` builds with its interrupt `signal`,
and the `task` between `taskLoop` and `Seal`. `core` is the round state without
votes, and `pc` says where its goroutine is inside `Commit`: `proposedBlockHash`
is compared, cleared (`ClearProposed`) and the block is sent (`SendResult`) in
three steps, between which `Seal` may run. `sealing` are the goroutines that
`Seal` started, each with its block and its stop channel.

The chain has a single validator, so that no votes are needed and the whole
pipeline can be checked with fairness. Of the round only what a comparison can
see is kept, and blocks have recycled identities (`Ids`), so that the state
space is finite although the miner never stops. Empty blocks are not produced
(`IsProduceEmptyBlock` is false): they are voted on, and `Commit` sends nil.
Left out: errors of `Prepare`, `Finalize` and `Seal`,
`CheckFirstNodeCommitAtWrongTime`, and the rejection of a task with the seal
hash of the one before (every block is new).

### MultiSig

`wallet` is the contract's state with its balance and, for the properties, what
was paid for each transaction. A transfer to a contract pushes a frame and lets
that contract's code call any operation with the same origin; a frame keeps the
states to which the virtual machine returns when the transfer, or the whole
call, fails. Sums are small, so the 256-bit width of values does not matter.

The properties speak of destinations without code: for these `executed` is
stored before anything else can happen. A destination with code runs between
the transfer and the moment `executed` is stored. It can call the wallet, be
paid again for the same transaction, or outlast a revocation that takes the
quorum away; the record then says executed all the same. The model has these
steps, and no property excludes them: the contract does not.

### SysUsers and SysNodes

One action is one transaction: an operation with all the calls it makes to
other contracts, in the order of the code. An operation that returns an error
or throws changes nothing.

**Calls that fail in the virtual machine.** `approve`, `approveRole` and `pass`
have a second outcome for each call that stores something: the callee traps or
runs out of gas, changes nothing, and 0 comes back. This is within reach: the
callee has the gas limit of its caller (`wasmstatedb.go:123`), and `addRole` and
`NodeManager.add` go through all records. So an approved application may be left
without a user or without roles, an approved request without its roles, and a
registration that passed without its node. No property says otherwise;
`UsersApproved` states the direction that holds, that nobody is a user without
an approved application. `UserManager.addUser` can then be called directly, with
any name: `Misnamed` is a user that got another name than it applied for, and
`NamesUnique` excepts it. Lookups are taken to be answered: they cost less than
the operations that ask them, and most callers refuse when they read nothing.

**What is kept as it is.** `RoleRegister` accepts requests for a role
(`contractCaller`) that `RoleManager` does not know; a direct call of `addRole`
stores roles under the empty name; `checkCallerPermission` of
`NodeManager.update` lets every enabled user with a role pass, since its last
alternative is a constant. User names that are themselves addresses are left
out, and so are contact data and the paged lists that only queries read.

**Keys and names of nodes.** A public key is a spelling, and `Lower` its
lower-case form: `NodeRegister` registers lower-case keys, `NodeManager.add`
compares keys as they are spelled, so one key can have two nodes in two
spellings. `Quoted` are keys and names with characters that JSON escapes: the
condition given to `nodesNum` is put together without escapes, is then no JSON
object, and counts nothing, so such a key or name is not compared at all. A name
is a sequence of parts, `|` being what separates them, as is the list of all
names, and joining is concatenation. This is what the list does to names:

* an empty name at its end, or alone, is not read back (`Blank`), so that the
  node is not found, and another node of that name replaces it; `NodeRegister`
  admits the empty name too, since `checkNameFormat` looks for a negative length;
* `a|b` is read back as `a` and `b`;
* `nodesName` is the key under which the list is stored, so a node of that name
  takes the place of the list (`JsonText`), and everything that reads the list
  fails from then on.

A lookup that meets a name without a record traps (`Readable`): the contracts are
built with rapidjson's assertions, as the compiled ones in `perf_test/data` show.
The properties say what holds beside all this. Names that are read back as they
were written are `Listable`; keys are unique by their spelling, unless they are
`Quoted`; and a normal node with a listable name that can be compared is never
replaced, whatever odd names were added around it. JSON texts in which a member
occurs twice are left out.

## 3. Runs

| run | instance | checks |
|---|---|---|
| `voting3` | 3 validators (one unreliable), 3 rounds, 2 blocks and 1 of the next height, a proof of lock in round 2 | `Agreement`, `Invariant` |
| `voting_restart` | 4 validators, one may restart, 4 rounds, one schedule | `Agreement` is violated |
| `network2` | 2 validators, 2 blocks, 2 rounds, repetition, validator 2 may fail to store | `ChainsAgree`, `ProofOfLock`, `VotingSpec` |
| `network2_refused` | the same with an empty block and one that fails to execute | `VotingSpec`, `ViewsAdvance` |
| `network2_restart` | the proposer may restart and seal again | `ChainsAgree`, `VotingSpec` |
| `validator4` | validator 4 of 4 against five environments, 3 rounds, 2 heights | `TypeOK`, `OneVote`, `LockedProposal`, `StoredRequestsLater`, `EachProposesOnce`, `LockReleased`, `ViewsAdvance` |
| `network2_seals` | 2 validators, each message once | `ChainVerifies` is violated |
| `multisig` | 3 accounts, 2 transactions, nested transfers | `TypeOK`, `PaidOnce`, `ExecutedConfirmed`, `PendingUnconfirmed`, `ConfirmationsFinal` |
| `users` | 3 accounts, 3 names, at most two deeds beyond applying | `TypeOK`, `CreatorRemains`, `NamesIndexed`, `NamesUnique`, `UsersApproved`, `RolesRuled`, `DeletedForGood` |
| `nodes` | 1 account, 2 keys of which one has two spellings, 5 node names, 2 endpoints that share a host | `NodeTypeOK`, `KeysUnique`, `PassedDistinct`, `RegisteredOnce`, `NormalNodesStay` |
| `sealing` | 2 transactions, one stop and start | `TypeOK`, `PendingKnown`, `CommitReturns`, `TxIncluded` |
| `sealing_blocked` | 1 transaction, one early timer | `CommitReturns` is violated |

**Bounds of the engine.** `MaxRound` bounds the rounds of a height; a handler
that would pass it is not taken. `Blocks` bounds what miners seal, one use each,
and no event happens at a height without a block (`Active`). Two validators
(`F = 0`, quorum 2) exercise every handler, all paths into the chain and all
interleavings of miner, core and chain. What needs more, proofs of lock with
quorums that are not everybody, is covered by `validator4` (one real validator,
quorum 3 of 4) and by the proofs for every number. Three validators have
`F = 0` as well; they are the least number with which `FRoundedUp` is wrong.
`FewFinished` bounds `voting3` after the first height is decided: at most two
validators store a block, one goes on to the next height and votes there, and
one old PRE-PREPARE is answered. `network2` and the runs beside it vote on the
blocks of the first height and enter the second; that heights do not disturb
each other is proved.
`OneSchedule` in `voting_restart` picks one order of lost messages so that the
counterexample is found quickly; it only removes behaviours.

**Bounds of the contracts.** Two transactions of the wallet are enough for one
to be executed by the code of the other's destination; `MaxDepth` bounds the
nesting and `Funds` what the wallet receives, so that a transfer can also fail
for want of balance and be tried again. In `users` two accounts besides the
creator can be administrator and applicant, or rivals for a name; `FewDeeds`
bounds what accounts do beyond applying and being decided on (applying or asking
for roles, being suspended, having another name) to two such deeds at a time,
of one account or of two. In `nodes` one account has every permission; two
registrations compete for names, keys and endpoints, and `Work` bounds the
registrations, the records, the consensus nodes and the parts of the list
together, and the user contracts to one step. `MaxListed` lets a name be listed
twice. The names are two ordinary ones, both joined by `|`, the empty one and
`nodesName`; one key has two spellings and another is `Quoted`.

**What the runs do not reach** rests on the proofs: that
`processPendingRequests` stops at a future request before one that is due
(`RequestsStoredLater`, for every `PopsFirst`); a last proposer that has left the
validator set (`ProposerRotation`); the seven blocks after which `clearPending`
removes a task (`PendingIsKnown`); and an application or request that mentions
`chainCreator` (`CreatorStays`).

**Deadlock** is checked in `sealing`, where the node must always be able to go
on. The other instances come to an end, because rounds, blocks or transactions
are bounded.

**Fairness.** Only `Sealing` assumes any. Every goroutine that can take a step
takes it (weak fairness of each step, timers included). A `select` with several
ready cases, and a channel with several readers, choose at random in Go, so
they do not pass over one case for ever: strong fairness of the core's cases,
of the chain-head case, and of a goroutine taking its own result.

The timers are assumed not to overtake the node: the miner's timer, the
round-change timer and stops come when the node has nothing else to do
(`Happens`), except for `MaxEarly` of them. This is an assumption about speed and
not a promise of the code. After a block has been started the miner's timer runs
for 500 ms, but only 50 ms after `ShouldSeal` has said no
(`worker.go:397-403`), so a block that takes longer to build, vote on and write
is overtaken; the round-change timer doubles with every round. `sealing` has no
early timer: its liveness is that of a node that keeps up. `sealing_blocked`
allows one, and liveness is lost.

### What the violations show

* `network2_seals`: a validator answers a late PRE-PREPARE with a COMMIT for
  the block it has, but `finalizeMessage` signs its *current* proposal. The
  receiver counts it and stores the block with that seal; another validator
  then rejects the block in `verifyCommittedSeals`.
* `sealing_blocked`: the timer fires once while a block is being built, so that
  three blocks are sealed in close succession. The first is empty, and its nil
  is taken by the goroutine of the third, which returns; the second block stays
  in `commitCh`; the core then waits for ever to send the third, since its
  reader is gone. The view has been proposed in, so the miner seals no other
  block, and the core, being inside `Commit`, handles no timeout. Related, and
  not a property of a run: the earlier of two blocks of one height goes to the
  fetcher (`CommitOther`), and `resultLoop` announces the later one even when
  `WriteBlockWithState` has ignored it; only one of them is stored.
* `voting_restart`: with four validators one restart is enough for two blocks
  to be committed at one height. Validator n1 commits b1 again in round 2
  under its lock of round 0; the PREPAREs of round 1 for b2 may still release
  it in round 3. The proof below shows that with four validators that all
  remember, somebody's lock always stands in the way of the second quorum.

## 4. Proofs

`IstanbulVotingProofs` proves, for every validator set, block set, set of
rounds and `Proposed`, and so for any number of heights:

* `TypeCorrect`: `Spec => []TypeOK`;
* `LockDiscipline`: `Spec => []Invariant`, whatever the set of unreliable validators;
* `AgreementHolds`: under `Tolerated`, `Spec => []Agreement`.

`Tolerated` is `3F + |Unreliable| < Size`: no restart with four validators, one
with five, two with six. The run `voting_restart` shows that it cannot be
dropped.

**Argument.** `Agreement` alone is not inductive. The invariant says that the
proposal and the lock of a validator are of its height (`OfHeight`); that a
reliable validator votes once in a view (`OneVotePerRound`, `VotesInPast`);
that its lock fits its proposal and that it has voted only for the locked block
since the round of the lock (`LockFits`, `LockHeld`); and, `CommitBinds`, that a
COMMIT for `b` in round `r` binds its sender from some round `l <= r` on: either
it still votes for `b` only, or it was released by a quorum of PREPAREs for
another block of a round `a >= l`, and then voted for another block only after
both `a` and `r`. "Another block" is one of the same number throughout
(`Rivals`), so that the heights a validator has left, where it can vote no
more, keep what held when it left. The round `l` is needed because `Recommit` does not
renew `lockedRound`: `a` may lie between `l` and `r`.

The counting (`QuorumBlocks`) then shows: once a quorum has voted for `d` in a
round `t >= r`, more than `F` reliable validators can never COMMIT another
block `b` in round `r`, so `b` has no quorum of COMMITs there. Take the first
such round that has at most `F` of them. Every other reliable voter committed
`b` in round `r` and was released by PREPAREs of a round before `r` at which
its lock on `b` was already taken; it is therefore outside the latest of those
PREPARE quorums, and there are at most `F` such validators. `2F` and the
unreliable ones are not a quorum of `Size - F`, by `Tolerated`. The first round
exists because the natural numbers are well founded.

**Assumptions.** The ASSUMEs of `IstanbulVoting`: the validators are a finite
non-empty set, `NoBlock` is not a block, the number of a block is a natural
number, rounds are natural numbers with 0.

### The engine

`IstanbulNetworkProofs` proves, for every finite validator set, every set of
blocks and heights, both policies, every last round, every set of validators
that run, restart or fail to store, with and without repeated messages:

| theorem | states |
|---|---|
| `NetworkTyped` | `TypeOK` |
| `VotesOncePerView` | `OneVote` |
| `LockedKeepProposal` | `LockedProposal` |
| `LocksAreProved` | `ProofOfLock` |
| `LocksAreReleased` | `LockReleased`, an action property |
| `ViewsOnlyAdvance` | `ViewsAdvance`, an action property |
| `EveryoneProposes` | `EachProposesOnce`, from `ProposerRotation` of `IstanbulHandlerProofs` |
| `RequestsStoredLater` | `StoredRequestsLater`, where no block is empty: beside each stored request waits one of the same number and a later view |

**Argument.** The handlers of `IstanbulCore` are functions on the state of one
validator, so the invariant is one of such a state: `Good(c, n, M)` says that
validator `n` may be in state `c` when the messages `M` have been sent. Besides
types it says that

* a lock fits the proposal (`LockFits`), and the PREPAREs that are counted or
  belong to the lock were sent for that view and block (`MessagesSent`);
* what the handler broadcasts is of its type, and a PRE-PREPARE carries only
  PREPAREs that were sent (`OutFits`);
* the votes of `n` are of views that are past, or of the current one and for the
  proposal (`VotesFit`), once for each view (`VotesOnce`), and its COMMITs for
  old blocks are for blocks of its chain (`OldInChain`);
* while no proposal is accepted in the view (`Idle`: accepting requests, or
  waiting for the round to start) nothing is counted, the lock is of an earlier
  round and no vote of the view was sent (`Fresh`).

The last part is what makes the rest inductive: `catchUpRound` changes the round
and leaves `state` as it was, so a validator that waits may be in state
`Preprepared` or `Prepared` of a round it has left; only `waiting` keeps it from
voting again. Every operator of `IstanbulCore` has a lemma that it preserves
`Good`, and says what it does to the view, the lock and the stored requests
(`Proceeds`); `Frame` says which fields an operator leaves alone. The lemmas are
put together along the calls of the code, up to one lemma for each handler
(`IstanbulHandlerProofs`) and one for each action (`IstanbulNetworkProofs`),
where `NetInv` adds that the messages of one validator do not disturb another
(`GoodDespiteOthers`). The action properties follow from `StepOf`, which each
action implies.

The proof found three things about the model and its properties. The former
`OneVote` counted a COMMIT for an old block as a vote of its view; TLC then
gave a counterexample with the proposals of `Twice`, in which a validator that
voted for one block in a round later answers an old PRE-PREPARE of that round
for the other, which is in its chain. `OneVote` now says what holds of each
kind. The former `LockReleased` did not except empty blocks, whose lock is
dropped when they are committed (`startNewRoundWhenEmpty`). And
`StoredRequestsLater` is not an invariant where blocks may be empty:
`startNewRoundWhenEmpty` begins the next round without
`processPendingRequests`, so a request stored for that view stays stored; the
theorem has the condition `EmptyBlocks = {}`.

**Assumptions.** `CoreValidators` (a finite non-empty set of positive
addresses), `CoreBlocks` (blocks have a positive number and an author in the
set), `CorePolicy`, `RunningAssumption`, `EagerAssumption`,
`UnreliableAssumption`, `MaxRoundAssumption` (a bound exists; it can be any
number) and `EnvAssumption`. TLC evaluates all of them in every run of the
engine.

### The engine implements the voting rules, and agrees

`IstanbulRefinementProofs` proves, where all validators run the engine
(`AllRun`), and for every validator set, set of blocks and heights, last round
and set of validators that restart or fail to store:

* `EngineImplementsVoting`: `Spec => VotingSpec`;
* `EngineAgrees`: `Spec => []ChainsAgree`, if
  `3F + |Restarting \cup Failing| < Size`;
* `BlocksAreCommitted`: `Spec => []ChainsCommitted`, whoever restarts or fails:
  a block of a chain is not empty and got a quorum of COMMITs in one round of
  its height, not counting the answers to old PRE-PREPAREs, which `handleCommit`
  counts as votes.

**Argument.** A step of the network changes the state of one validator from `c`
to `d`. Each handler is shown to take one of eleven *kinds* of steps, which
speak of the two states and of the messages sent so far: nothing changes for
the votes (`Stays`), a round is entered with the old lock (`Enters`), a height is
left (`Leaves`), a validator restarts (`Restarts`), a block is given up
(`Drops`), a proposal is accepted with a PREPARE (`Prepares`) or, being locked
on, with a COMMIT (`Recommits`), a quorum of votes is locked on (`Locks`), a
quorum of COMMITs is handed to the backend (`Commits`), a block is written
(`Writes`), an old PRE-PREPARE is answered (`Answers`). Each kind is an action
of `IstanbulVoting` or a stuttering step. Writing needs that a chain only grows
at its end, so that the writer misses every block of that number; leaving,
that the last block of the chain is not below the height the engine is at, also
when an import has taken the chain several heights ahead.

This needs more than `NetInv`. `RefInv` adds that a proposal, and a vote, is
for a block of its own height (`Numbered`); that the COMMITs a validator counts
were sent (`CommitsSent`); that it is not locked while it only has accepted the
proposal (otherwise `Lock` would not be what the first quorum does); and
that every block in a chain, in the fetcher or on its way to `resultLoop` got a
quorum of COMMITs of one round (`StoresBacked`), without which an import could
decide anything.

`EngineAgrees` and `BlocksAreCommitted` then take the inductive invariant of
`IstanbulVoting` through the mapping, by an instance of `IstanbulVotingProofs`;
`ChainsAgree` follows since the block at index `h` of a chain has number `h`. The bound on
`Restarting` and `Failing` is that of `Tolerated`; `voting_restart` shows that
it is needed. `AllRun` cannot be dropped from the refinement: a validator that
does not run the code has no state to map.

**Assumptions.** Those of the engine.

### Proposer rotation

`ProposerRotation`: for every finite validator set, both policies, every last
proposer (also one that has left the set, and none) and every round, each
validator proposes in one of the next `Size` rounds. The index of a validator
is the number of smaller addresses; that this is a bijection onto
`0 .. Size - 1` is proved from the theorems about finite sets, and that
`Size` successive numbers have every remainder from those of arithmetic.

### Sealing

`SealingTyped` and `PendingIsKnown`, with the inductive invariant `SealInv`: a
block on its way from `Seal` to `resultLoop` (posted to the core, in a
goroutine of `Seal`, in `commitCh` or received) that would still extend the
chain has its pending task (`BlocksTracked`), since `clearPending` only removes
tasks of numbers the chain has left behind and the core is never ahead of the
chain.

### MultiSig

`WalletTyped`, and for transactions whose destination has no code
`PaidExactlyOnce`, `ExecutedStaysConfirmed`, `PendingStaysUnconfirmed` and the
action property `ConfirmationsAreFinal`, for any accounts, owners, required
number, funds and depth of nesting, and whatever the destinations with code do
meanwhile. The three
properties of the wallet are inductive only together, and only with the same
facts about every state that a frame of the call stack may return to, since a
failing transfer or call restores one of them (`SigInv`).

### SysUsers and SysNodes

`SysUsersProofs`: `UsersTyped`, `CreatorStays`, `NamesAreIndexed`,
`NamesAreUnique`, `UsersAreApproved` are inductive together (`UserInv`),
whichever calls fail in the virtual machine: names are unique because the maps
of names lead to records of that name and `registerUser` asks both of them,
and a user has an approved application because `addUser` asks for it, called by
`approve` or directly. `RolesAreRuled` and `DeletedIsForGood` are action
properties, from the same invariant.

`SysNodesProofs`: `NodesKeepUsers` shows that the whole system implements the
specification of users and roles, so that all theorems about users hold of it
(`UsersSafeWithNodes`). `NodesTyped`, `KeysAreUnique` and `PassedAreDistinct` are
inductive together (`NodeInv`), for any keys, spellings, names and parts. A
listable name is in the list from the moment its node is stored (`JoinedParts`),
so `add` finds it, and its key, as long as the list is readable; a lost list is
never readable again (`LostUnreadable`), and without reading it only what is
`Quoted` gets past the checks. `RegistrationsAreFinal` follows because
registrations are only kept under lower-case keys, `NormalNodesRemain` because
`add` has read the list when it stores.

### Only model-checked

* `CommitReturns` and `TxIncluded` of `Sealing`: liveness under fairness, and
  ENABLED, are out of the prover's reach.
* The violations, which TLC shows by a behaviour.

## 5. Plan

1. The C++ naming service (owner of a name, order of versions, `latest`) and the
   parameter register.
2. The backlog's priority queue and `toPriority`; liveness of one height with
   two validators under fair timers and delivery.
3. Validator sets that change by block (snapshots), and VRF selection.

## 6. Not modelled

The virtual machines, state and trie, cryptography, p2p and RPC, the downloader
and light clients, tools and dashboards: interpreters, storage and I/O with no
protocol state of the program's own. Header fields and timestamps of blocks,
logging and metrics. The system contracts in Go (`core/vm/sc_*.go`) keep the
same registers as the C++ contracts, without calls between contracts.

Nearly all C and C++ lines of the repository are vendored third-party libraries
under `src/life/resolver` (OpenSSL, softfloat, secp256k1, compiler-rt). They
are not this program's logic and are not modelled, so the share of C and C++
lines that the models stand for is small; the C++ that is the program's own is
the system contracts, of which the ones with interacting state are modelled.
The rest of the program is Go.
