------------------------- MODULE MCIstanbulNetwork -------------------------
(***************************************************************************)
(* Small instances of IstanbulNetwork for TLC.                             *)
(***************************************************************************)
EXTENDS IstanbulNetwork

Block(h, n, id) == [number |-> h, coinbase |-> n, id |-> id]

\* One block of each of two validators for height 1.
TwoBlocks == {Block(1, 1, "a"), Block(1, 2, "a")}

\* The first proposer may seal a second block after a restart.
SealTwice == {Block(1, 1, "a"), Block(1, 1, "b")}

\* Blocks of the first proposer that are not stored: one is empty, the other
\* cannot be executed by the second validator.
EmptyBlock == {Block(1, 1, "empty")}
BadBlock == {Block(1, 1, "bad")}
NotStored == EmptyBlock \cup BadBlock \cup {Block(1, 2, "a")}

\* The queue gives the request of the higher round first, which holds back the
\* other.
HigherRoundFirst(p, q) == p.round > q.round

\* No validator is left to the environment.
NoEnv == {{}}

-----------------------------------------------------------------------------
(* Messages of validators that are left to the environment.                *)

Propose(n, h, r, block, lockedRound, prepared) ==
    [type |-> "PREPREPARE", src |-> n, sequence |-> h, round |-> r,
     block |-> block, lockedRound |-> lockedRound,
     lockedHash |-> IF prepared = {} THEN NoBlock ELSE block,
     lockedPrepares |-> prepared]

Prepares(S, h, r, block) ==
    {[type |-> "PREPARE", src |-> v, sequence |-> h, round |-> r,
      block |-> block] : v \in S}

Commits(S, h, r, block) ==
    {[type |-> "COMMIT", src |-> v, sequence |-> h, round |-> r,
      block |-> block, seal |-> block, old |-> FALSE] : v \in S}

RoundChanges(S, h, r) ==
    {[type |-> "ROUNDCHANGE", src |-> v, sequence |-> h, round |-> r] : v \in S}

(* Validator 4 of four, and what the other three may have sent: block a is *)
(* proposed in round 0, block b in round 1, and the proposal of round 2    *)
(* carries the lock of its proposer.                                       *)

a == Block(1, 1, "a")
b == Block(1, 2, "b")
c == Block(2, 4, "c")
FourBlocks == {a, b, c}

Others == {1, 2, 3}
TwoRounds ==
    {Propose(1, 1, 0, a, 0, {}), Propose(2, 1, 1, b, 0, {})}
    \cup Prepares(Others, 1, 0, a)
    \cup RoundChanges(Others, 1, 1) \cup RoundChanges(Others, 1, 2)

\* All others prepared b in round 1; its lock releases the lock on a.
Released == TwoRounds \cup Prepares(Others, 1, 1, b) \cup Commits({3}, 1, 1, b)
            \cup {Propose(3, 1, 2, b, 1, Others)}
            \cup Prepares({1, 2}, 1, 2, b) \cup Commits({3}, 1, 2, b)

\* Validator 3 locked b on two PREPAREs and a COMMIT: too few PREPAREs.
TooFew == TwoRounds \cup Prepares({2, 3}, 1, 1, b) \cup Commits({1}, 1, 1, b)
          \cup {Propose(3, 1, 2, b, 1, {2, 3})}

\* Validator 3 is still locked on a, validators 1 and 2 prepared b.
OlderLock == TwoRounds \cup Prepares({1, 2}, 1, 1, b)
             \cup {Propose(3, 1, 2, a, 0, Others)} \cup Commits({1, 3}, 1, 2, a)

\* Validator 2 proposes its lock in round 1, and then its miner's block too;
\* the others commit a in round 2.
Twice == {Propose(1, 1, 0, a, 0, {}), Propose(2, 1, 1, a, 0, Others),
          [Propose(2, 1, 1, a, 0, Others) EXCEPT !.block = b],
          Propose(3, 1, 2, a, 0, Others)}
         \cup Prepares(Others, 1, 0, a)
         \cup RoundChanges({1, 2}, 1, 1) \cup RoundChanges({1, 2}, 1, 2)
         \cup Commits({2, 3}, 1, 1, a) \cup Commits({1, 3}, 1, 2, a)

\* Block a is committed, and validator 4 proposes its own block c in round 2 of
\* the next height.
NextHeight ==
    {Propose(1, 1, 0, a, 0, {})}
    \cup Prepares({1, 2}, 1, 0, a) \cup Commits({1, 2}, 1, 0, a)
    \cup RoundChanges({1, 2}, 1, 1) \cup RoundChanges({1, 2}, 2, 1)
    \cup RoundChanges({1, 2}, 2, 2)
    \cup Prepares({1, 2}, 2, 2, c) \cup Commits({1, 2}, 2, 2, c)

FourMsgs == {Released, TooFew, OlderLock, Twice, NextHeight}
=============================================================================
