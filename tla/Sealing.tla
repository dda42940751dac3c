------------------------------ MODULE Sealing ------------------------------
(***************************************************************************)
(* The miner's goroutines, the engine's Seal and Commit, and the channel   *)
(* commitCh between them, on a chain with a single validator.              *)
(*                                                                         *)
(* newWorkLoop asks for work, mainLoop builds a block, taskLoop gives it   *)
(* to backend.Seal, the core commits it with singleCommit, a goroutine     *)
(* started by Seal takes it from commitCh, and resultLoop stores it.  Each *)
(* action is what one goroutine does between two points at which another   *)
(* may run.  The core is the one of IstanbulCore without the votes; of its *)
(* round only what a comparison can see is kept: whether it is round 0,    *)
(* and whether the view is the one in lastView.  Empty blocks are not      *)
(* produced (IsProduceEmptyBlock is false).                                *)
(***************************************************************************)
EXTENDS Integers, Sequences, FiniteSets

CONSTANTS
    Txs,         \* the transactions that may arrive
    Ids,         \* bound: blocks that exist at the same time
    MaxStops,    \* bound: how often the miner is stopped
    MaxEarly,    \* bound: timers and stops while the node has something to do
    Nil,         \* a nil block in commitCh
    None         \* no block

ASSUME TxsAssumption == IsFiniteSet(Txs)
ASSUME IdsAssumption == Ids \subseteq Nat /\ IsFiniteSet(Ids)
ASSUME BoundsAssumption == MaxStops \in Nat /\ MaxEarly \in Nat

VARIABLES
    head,        \* the number of the chain's current block
    included,    \* the transactions of the chain
    pool,        \* the pending transactions
    miner,       \* newWorkLoop, mainLoop and taskLoop
    pendingTasks,
    core,        \* the core's round state and its goroutine
    proposed,    \* backend.proposedBlockHash
    posted,      \* SingleCommittedEvents on their way to the core
    commitCh,
    sealing,     \* the goroutines that Seal has started
    results,     \* resultCh, without the nil results, which are skipped
    fetched,     \* blocks given to the fetcher
    events,      \* ChainHeadEvent and FinalCommittedEvent on their way
    stops, early

chainVars == <<head, included, pool>>
engineVars == <<core, proposed, posted, commitCh, sealing>>
outVars == <<results, fetched, events>>
countVars == <<stops, early>>
vars == <<chainVars, miner, pendingTasks, engineVars, outVars, countVars>>

staleThreshold == 7

Block == [id : Ids, number : Nat, txs : SUBSET Txs]
ASSUME NoBlockAssumption == Nil # None /\ Nil \notin Block /\ None \notin Block

Empty(b) == b.txs = {}

\* The blocks that some goroutine still has to deal with.
Live ==
    posted \cup results \cup fetched \cup {g.block : g \in sealing}
        \cup ({miner.building, miner.task, proposed, core.arg} \ {None, Nil})
        \cup ({commitCh[i] : i \in DOMAIN commitCh} \ {Nil})
Free == Ids \ {b.id : b \in Live}
NewId == CHOOSE id \in Free : \A i \in Free : id <= i

Init ==
    /\ head = 0 /\ included = {} /\ pool = {}
    /\ miner = [running |-> FALSE, start |-> TRUE, armed |-> FALSE, request |-> FALSE,
                building |-> None, signal |-> "none", task |-> None]
    /\ pendingTasks = {}
    /\ core = [started |-> FALSE, sequence |-> 1, first |-> TRUE,
               lastView |-> [sequence |-> 0, first |-> TRUE], proposing |-> FALSE,
               waiting |-> FALSE, roundChange |-> FALSE,
               pc |-> "idle", arg |-> None]
    /\ proposed = None /\ posted = {} /\ commitCh = << >> /\ sealing = {}
    /\ results = {} /\ fetched = {} /\ events = {}
    /\ stops = 0 /\ early = 0

Arrive(t) ==
    /\ t \notin pool \cup included
    /\ pool' = pool \cup {t}
    /\ UNCHANGED <<head, included, miner, pendingTasks, engineVars, outVars, countVars>>

-----------------------------------------------------------------------------
(* newWorkLoop, mainLoop and taskLoop.                                     *)

\* commit in newWorkLoop: the work in progress is interrupted, and the loop
\* waits until mainLoop takes the request.
RequestWork(signal) ==
    miner' = [miner EXCEPT !.request = TRUE, !.armed = TRUE,
                           !.start = @ /\ signal # "newHead",
                           !.signal = IF miner.building = None THEN "none" ELSE signal]

\* Mutant of clearPending: every task is forgotten.
clearPendingAll(number) == {}

\* Tasks of blocks far below the number are forgotten.
clearPending(number) == {b \in pendingTasks : b.number + staleThreshold > number}

\* The start event asks for work whatever the engine says.
StartEvent ==
    /\ miner.start /\ ~miner.request
    /\ RequestWork("newHead")
    /\ pendingTasks' = clearPending(head)
    /\ UNCHANGED <<chainVars, engineVars, outVars, countVars>>

\* Mutant of HasPlace: a channel without bound.
HasPlaceAlways == TRUE

\* commitCh has one place.
HasPlace == Len(commitCh) < 1

\* No goroutine has anything left to do but to wait for a timer.
Settled ==
    /\ miner.running /\ core.started /\ ~miner.start /\ ~miner.request
    /\ miner.building = None /\ miner.task = None
    /\ IF core.pc = "idle" THEN posted = {} /\ ~core.roundChange /\ "final" \notin events
                           ELSE core.pc = "send" /\ ~HasPlace
    /\ results = {} /\ fetched = {} /\ "head" \notin events
    /\ \A g \in sealing : ~g.stopped /\ commitCh = << >>

\* Something that comes from outside happens.  The miner's timer takes half a
\* second or more and the round change timer doubles with every round, so only
\* the first timers fire while the node has something else to do.
Happens ==
    /\ Settled \/ early < MaxEarly
    /\ early' = IF Settled THEN early ELSE early + 1

\* The timer fires and ShouldSeal finds a view that was not yet proposed in.
CanPropose == core.started /\ ~core.proposing

TimerEvent ==
    /\ miner.armed /\ miner.running /\ ~miner.request
    /\ CanPropose
    /\ Happens
    /\ RequestWork("resubmit")
    /\ core' = [core EXCEPT !.proposing = TRUE,
                            !.lastView = [sequence |-> core.sequence, first |-> core.first]]
    /\ UNCHANGED <<chainVars, pendingTasks, proposed, posted, commitCh, sealing,
                   outVars, stops>>

\* The timer of a miner that does not run is not set again.
TimerIdle ==
    /\ miner.armed /\ ~miner.running /\ ~miner.request
    /\ miner' = [miner EXCEPT !.armed = FALSE]
    /\ UNCHANGED <<chainVars, pendingTasks, engineVars, outVars, countVars>>

\* A new head clears what is stale and is passed on to the core, if it runs.
ChainHead ==
    /\ "head" \in events /\ ~miner.request
    /\ pendingTasks' = clearPending(head)
    /\ events' = (events \ {"head"}) \cup (IF core.started THEN {"final"} ELSE {})
    /\ UNCHANGED <<chainVars, miner, engineVars, results, fetched, countVars>>

\* mainLoop takes the request and starts a block on the current head.
CommitNewWork ==
    /\ miner.request /\ miner.building = None /\ Free # {}
    /\ miner' = [miner EXCEPT !.request = FALSE, !.signal = "none",
            !.building = [id |-> NewId, number |-> head + 1, txs |-> pool]]
    /\ UNCHANGED <<chainVars, pendingTasks, engineVars, outVars, countVars>>

\* The transactions that get into a block: all, or, when the timer interrupts
\* the work, those that were executed by then.
Filled(txs) ==
    /\ txs \subseteq miner.building.txs
    /\ miner.signal = "resubmit" \/ txs = miner.building.txs

\* Work is dropped when the start event interrupts it, and when the miner was
\* stopped.
DropWork ==
    /\ miner.building # None
    /\ miner.signal = "newHead" \/ ~miner.running
    /\ miner' = [miner EXCEPT !.building = None, !.signal = "none"]
    /\ UNCHANGED <<chainVars, pendingTasks, engineVars, outVars, countVars>>

Interrupt == {[g EXCEPT !.stopped = TRUE] : g \in sealing}

\* mainLoop passes the block to taskLoop, which closes the stop channel of the
\* previous Seal, notes the task and calls Seal.
PassTask(txs) ==
    /\ miner.building # None /\ miner.task = None /\ miner.running
    /\ Filled(txs)
    /\ LET b == [miner.building EXCEPT !.txs = txs] IN
        /\ miner' = [miner EXCEPT !.building = None, !.signal = "none", !.task = b]
        /\ pendingTasks' = pendingTasks \cup (IF Empty(b) THEN {} ELSE {b})
    /\ sealing' = Interrupt
    /\ UNCHANGED <<chainVars, core, proposed, posted, commitCh, outVars, countVars>>

\* Seal: the event is lost if nobody is subscribed when it is posted.
Seal ==
    /\ miner.task # None
    /\ proposed' = miner.task
    /\ posted' \in IF core.started THEN {posted \cup {miner.task}}
                                   ELSE {posted, posted \cup {miner.task}}
    /\ sealing' = sealing \cup {[block |-> miner.task, stopped |-> FALSE]}
    /\ miner' = [miner EXCEPT !.task = None]
    /\ UNCHANGED <<chainVars, pendingTasks, core, commitCh, outVars, countVars>>

-----------------------------------------------------------------------------
(* The core's goroutine.                                                   *)

CoreIdle == core.started /\ core.pc = "idle"

\* The core's state c after startNewRoundWhenEmpty.
StartNewRoundWhenEmpty(c) ==
    [c EXCEPT !.first = FALSE, !.proposing = FALSE, !.waiting = FALSE,
              !.roundChange = FALSE]

\* The core's state after startNewRound(0): a new sequence if the head is there.
StartNewSequence(c) ==
    IF head < c.sequence THEN c
    ELSE [c EXCEPT !.sequence = head + 1, !.first = TRUE, !.proposing = FALSE,
                   !.waiting = FALSE, !.roundChange = FALSE]

\* singleCommit of the block last sealed: Commit has compared proposedBlockHash.
CommitProposed(b) ==
    /\ CoreIdle /\ b \in posted /\ proposed = b
    /\ posted' = posted \ {b}
    /\ core' = [core EXCEPT !.pc = "clear", !.arg = b]
    /\ UNCHANGED <<chainVars, miner, pendingTasks, proposed, commitCh, sealing,
                   outVars, countVars>>

\* singleCommit of a block that was sealed before: Commit gives it to the
\* fetcher, unless it is empty.
CommitOther(b) ==
    /\ CoreIdle /\ b \in posted /\ proposed # b
    /\ posted' = posted \ {b}
    /\ IF Empty(b) THEN core' = StartNewRoundWhenEmpty(core) /\ UNCHANGED fetched
                   ELSE fetched' = fetched \cup {b} /\ UNCHANGED core
    /\ UNCHANGED <<chainVars, miner, pendingTasks, proposed, commitCh, sealing,
                   results, events, countVars>>

\* Commit clears proposedBlockHash, whatever Seal has put there by now.
ClearProposed ==
    /\ core.pc = "clear"
    /\ proposed' = None
    /\ core' = [core EXCEPT !.pc = "send", !.arg = IF Empty(@) THEN Nil ELSE @]
    /\ UNCHANGED <<chainVars, miner, pendingTasks, posted, commitCh, sealing,
                   outVars, countVars>>

\* Commit waits until there is place in commitCh.
SendResult ==
    /\ core.pc = "send" /\ HasPlace
    /\ commitCh' = Append(commitCh, core.arg)
    /\ LET c == [core EXCEPT !.pc = "idle", !.arg = None] IN
       core' = IF core.arg = Nil THEN StartNewRoundWhenEmpty(c) ELSE c
    /\ UNCHANGED <<chainVars, miner, pendingTasks, proposed, posted, sealing,
                   outVars, countVars>>

\* handleFinalCommitted.
FinalCommitted ==
    /\ CoreIdle /\ "final" \in events
    /\ events' = events \ {"final"}
    /\ core' = StartNewSequence(core)
    /\ UNCHANGED <<chainVars, miner, pendingTasks, proposed, posted, commitCh,
                   sealing, results, fetched, countVars>>

\* handleRoundChange of the validator's own message, which is a quorum.  After
\* a restart the message may be of a later round than the core's.
RoundChange ==
    /\ CoreIdle /\ core.roundChange
    /\ core' = LET c == StartNewSequence([core EXCEPT !.roundChange = FALSE]) IN
               IF head >= core.sequence \/ core.waiting THEN [c EXCEPT !.waiting = FALSE]
               ELSE StartNewRoundWhenEmpty(c)
    /\ UNCHANGED <<chainVars, miner, pendingTasks, proposed, posted, commitCh,
                   sealing, outVars, countVars>>

\* handleTimeoutMsg, which sends the next round change if the head is not there.
Timeout ==
    /\ CoreIdle /\ (Settled => core.proposing)
    /\ Happens
    /\ core' = IF head >= core.sequence THEN StartNewSequence(core)
               ELSE [core EXCEPT !.first = FALSE, !.proposing = FALSE,
                                 !.waiting = TRUE, !.roundChange = TRUE]
    /\ UNCHANGED <<chainVars, miner, pendingTasks, proposed, posted, commitCh,
                   sealing, outVars, stops>>

-----------------------------------------------------------------------------
(* Results.                                                                *)

\* Mutant of KeepsWaiting: any result ends the wait.
KeepsWaitingNever(g, result) == FALSE

\* A result that is neither nil nor the goroutine's own block is dropped, and
\* the goroutine keeps waiting.
KeepsWaiting(g, result) == result # Nil /\ result # g.block

\* Mutant of TakeResult: a result that is not its own is put back for whoever
\* waits for it.
TakeOrPutBack(g) ==
    /\ g \in sealing /\ commitCh # << >>
    /\ commitCh' = IF KeepsWaiting(g, commitCh[1]) THEN commitCh ELSE Tail(commitCh)
    /\ sealing' = IF KeepsWaiting(g, commitCh[1]) THEN sealing ELSE sealing \ {g}
    /\ results' = IF commitCh[1] = g.block THEN results \cup {g.block} ELSE results
    /\ UNCHANGED <<chainVars, miner, pendingTasks, core, proposed, posted,
                   fetched, events, countVars>>

\* The goroutine of a Seal takes what is in commitCh.
TakeResult(g) ==
    /\ g \in sealing /\ commitCh # << >>
    /\ commitCh' = Tail(commitCh)
    /\ sealing' = IF KeepsWaiting(g, commitCh[1]) THEN sealing ELSE sealing \ {g}
    /\ results' = IF commitCh[1] = g.block THEN results \cup {g.block} ELSE results
    /\ UNCHANGED <<chainVars, miner, pendingTasks, core, proposed, posted,
                   fetched, events, countVars>>

\* The goroutine whose own block is in commitCh is the one that takes it.
TakeOwnResult == \E g \in sealing : commitCh # << >> /\ commitCh[1] = g.block /\ TakeResult(g)

\* A later Seal has stopped it.
StopSealing(g) ==
    /\ g \in sealing /\ g.stopped
    /\ sealing' = sealing \ {g}
    /\ UNCHANGED <<chainVars, miner, pendingTasks, core, proposed, posted,
                   commitCh, outVars, countVars>>

\* WriteBlockWithState, and the ChainHeadEvent: a block that is not above the
\* head changes nothing.
WriteBlock(b) ==
    IF b.number <= head THEN UNCHANGED <<chainVars, events>>
    ELSE /\ head' = b.number
         /\ included' = included \cup b.txs
         /\ pool' = pool \ b.txs
         /\ events' = events \cup {"head"}

\* resultLoop stores a block of which it knows the task.
Result(b) ==
    /\ b \in results
    /\ results' = results \ {b}
    /\ IF b \in pendingTasks THEN WriteBlock(b) ELSE UNCHANGED <<chainVars, events>>
    /\ UNCHANGED <<miner, pendingTasks, engineVars, fetched, countVars>>

\* The fetcher imports the block.
Import(b) ==
    /\ b \in fetched
    /\ fetched' = fetched \ {b}
    /\ WriteBlock(b)
    /\ UNCHANGED <<miner, pendingTasks, engineVars, results, countVars>>

-----------------------------------------------------------------------------
(* The miner is started and stopped.                                       *)

Start ==
    /\ ~miner.running /\ ~miner.start /\ ~core.started
    /\ miner' = [miner EXCEPT !.running = TRUE, !.start = TRUE]
    /\ UNCHANGED <<chainVars, pendingTasks, engineVars, outVars, countVars>>

\* backend.Start closes commitCh, and whoever waits on it gets nil.  lastView
\* is kept, so the first round may look as if it had been proposed in.  Events
\* that nobody has posted yet get to the new subscription.
StartEngine ==
    /\ miner.running /\ ~core.started
    /\ proposed' = None /\ commitCh' = << >>
    /\ sealing' \in SUBSET sealing
    /\ posted' \in SUBSET posted
    /\ \E rc \in {FALSE, core.roundChange /\ core.sequence = head + 1} :
        core' = [core EXCEPT !.started = TRUE, !.sequence = head + 1, !.first = TRUE,
                    !.proposing = core.lastView = [sequence |-> head + 1, first |-> TRUE],
                    !.waiting = FALSE, !.roundChange = rc]
    /\ UNCHANGED <<chainVars, miner, pendingTasks, outVars, countVars>>

Stop ==
    /\ miner.running /\ core.started /\ stops < MaxStops
    /\ Happens
    /\ stops' = stops + 1
    /\ miner' = [miner EXCEPT !.running = FALSE]
    /\ UNCHANGED <<chainVars, pendingTasks, engineVars, outVars>>

\* backend.Stop waits until the core's goroutine has returned.
StopEngine ==
    /\ ~miner.running /\ CoreIdle
    /\ core' = [core EXCEPT !.started = FALSE]
    /\ UNCHANGED <<chainVars, miner, pendingTasks, proposed, posted, commitCh,
                   sealing, outVars, countVars>>

-----------------------------------------------------------------------------
MinerStep ==
    \/ StartEvent \/ TimerEvent \/ TimerIdle \/ ChainHead \/ CommitNewWork \/ DropWork \/ Seal
    \/ \E txs \in SUBSET Txs : PassTask(txs)

CoreStep ==
    \/ \E b \in posted : CommitProposed(b) \/ CommitOther(b)
    \/ ClearProposed \/ SendResult \/ FinalCommitted \/ RoundChange

ResultStep ==
    \/ \E g \in sealing : TakeResult(g) \/ StopSealing(g)
    \/ \E b \in results : Result(b)
    \/ \E b \in fetched : Import(b)

Next ==
    \/ MinerStep \/ CoreStep \/ ResultStep \/ Timeout
    \/ Start \/ StartEngine \/ Stop \/ StopEngine
    \/ \E t \in Txs : Arrive(t)

\* Every goroutine that can go on does so, and a select statement, which picks
\* any of the cases that are ready, picks each of them some time.
Fairness ==
    /\ WF_vars(StartEvent) /\ WF_vars(TimerEvent) /\ SF_vars(ChainHead)
    /\ WF_vars(CommitNewWork)
    /\ WF_vars(DropWork \/ \E txs \in SUBSET Txs : PassTask(txs)) /\ WF_vars(Seal)
    /\ SF_vars(\E b \in posted : CommitProposed(b) \/ CommitOther(b))
    /\ WF_vars(ClearProposed) /\ WF_vars(SendResult)
    /\ SF_vars(FinalCommitted) /\ SF_vars(RoundChange)
    /\ WF_vars(ResultStep) /\ SF_vars(TakeOwnResult) /\ WF_vars(Timeout)
    /\ WF_vars(Start) /\ WF_vars(StartEngine) /\ WF_vars(StopEngine)

Spec == Init /\ [][Next]_vars /\ Fairness

-----------------------------------------------------------------------------
\* The state of every goroutine and what waits in every channel: commitCh never
\* holds more than its one place, and the core is never ahead of the chain.
TypeOK ==
    /\ head \in Nat /\ included \subseteq Txs /\ pool \subseteq Txs
    /\ pool \cap included = {}
    /\ miner \in [running : BOOLEAN, start : BOOLEAN, armed : BOOLEAN, request : BOOLEAN,
                  building : Block \cup {None}, signal : {"none", "newHead", "resubmit"},
                  task : Block \cup {None}]
    /\ pendingTasks \subseteq Block
    /\ core.pc \in {"idle", "clear", "send"} /\ core.sequence \in 1 .. head + 1
    /\ proposed \in Block \cup {None} /\ posted \subseteq Block
    /\ Len(commitCh) <= 1 /\ sealing \subseteq [block : Block, stopped : BOOLEAN]
    /\ results \subseteq Block /\ fetched \subseteq Block
    /\ events \subseteq {"head", "final"}

\* A block that resultLoop receives and that would extend the chain has its
\* pending task: the message "Block found but no relative pending task"
\* (worker.go:564) is never about a block that is then missing.
PendingKnown == \A b \in results : b.number > head => b \in pendingTasks

\* The core always returns from Commit.
CommitReturns == (core.pc # "idle") ~> (core.pc = "idle")

\* A transaction that is pending gets into the chain, whatever Seal goroutine
\* takes whatever result, and although blocks are dropped on the way.
TxIncluded == \A t \in Txs : (t \in pool) ~> (t \in included)
=============================================================================
