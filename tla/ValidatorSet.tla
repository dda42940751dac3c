---------------------------- MODULE ValidatorSet ----------------------------
(***************************************************************************)
(* The validator set of the Istanbul engine (validator/default.go): its    *)
(* size, the number F of faulty validators it is meant to tolerate, the    *)
(* vote threshold Size - F that every phase of the protocol compares with, *)
(* and the choice of the proposer of a round.                              *)
(*                                                                         *)
(* An address is a positive natural number and 0 is the empty address.     *)
(* newDefaultSet keeps the validators sorted by address, so the set itself *)
(* determines the list, and the index of a validator is the number of      *)
(* validators with a smaller address.                                      *)
(***************************************************************************)
EXTENDS Integers, FiniteSets

EmptyAddress == 0

Size(V) == Cardinality(V)

\* Mutant of F: 3f = Size is tolerated as well.
FRoundedUp(V) == Size(V) \div 3

\* defaultSet.F: the largest f with 3f < Size.
F(V) == (Size(V) - 1) \div 3

\* Mutant of Threshold: the weak certificate of handleRoundChange.
WeakThreshold(V) == F(V) + 1

\* The number of votes that PREPARE, COMMIT and ROUND CHANGE wait for, and
\* that a block needs as committed seals: Size - F, written out at each use.
Threshold(V) == Size(V) - F(V)

IsQuorum(V, S) == Cardinality(S) >= Threshold(V)

-----------------------------------------------------------------------------
(* The sorted list of validators.                                          *)

IndexOf(V, addr) == Cardinality({v \in V : v < addr})

GetByIndex(V, i) == CHOOSE v \in V : IndexOf(V, v) = i

-----------------------------------------------------------------------------
(* Proposer selection.                                                     *)

\* Mutant of CalcSeed: the round is left out.
CalcSeedOfHeight(V, proposer, round) ==
    IF proposer \in V THEN IndexOf(V, proposer) ELSE 0

\* calcSeed: a last proposer that has left the set counts as index 0.
CalcSeed(V, proposer, round) ==
    (IF proposer \in V THEN IndexOf(V, proposer) ELSE 0) + round

RoundRobinProposer(V, proposer, round) ==
    LET seed == IF proposer = EmptyAddress THEN round
                ELSE CalcSeed(V, proposer, round) + 1
    IN  GetByIndex(V, seed % Size(V))

StickyProposer(V, proposer, round) ==
    LET seed == IF proposer = EmptyAddress THEN round
                ELSE CalcSeed(V, proposer, round)
    IN  GetByIndex(V, seed % Size(V))

\* The selector is fixed by the policy when the set is created.
CalcProposer(policy, V, lastProposer, round) ==
    IF policy = "Sticky" THEN StickyProposer(V, lastProposer, round)
    ELSE RoundRobinProposer(V, lastProposer, round)
=============================================================================
