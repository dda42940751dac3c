-------------------------- MODULE MCIstanbulVoting --------------------------
(***************************************************************************)
(* Small instances of IstanbulVoting for TLC.                              *)
(***************************************************************************)
EXTENDS IstanbulVoting, TLC

CONSTANTS n1, n2, n3, n4  \* validators

b1 == [number |-> 1, id |-> 1]
b2 == [number |-> 1, id |-> 2]
b3 == [number |-> 2, id |-> 3]

OneHeight == {b1, b2}
TwoHeights == {b1, b2, b3}

\* The lock of round 0 meets another block in round 1, which round 2 carries
\* on with the PREPAREs of round 1.  The next height has one round.
ProposedPOL == {<<0, b1>>, <<1, b2>>, <<2, b2>>, <<0, b3>>}

\* The proposals of four rounds that alternate between two blocks.
ProposedAlternating == {<<0, b1>>, <<1, b2>>, <<2, b1>>, <<3, b2>>}

\* A bound on the states after the first height is decided: two validators
\* store a block, one of them goes on to the next height and answers one old
\* PRE-PREPARE.
FewFinished ==
    /\ Cardinality(decided) <= 2
    /\ Cardinality({n \in Validators : height[n] # 1}) <= 1
    /\ Cardinality(oldCommits) <= 1

\* One schedule of lost and delayed messages: who sends PREPARE and who sends
\* COMMIT in each of the four rounds, one round after the other.
Preparing == <<{n1, n2, n3}, {n2, n3, n4}, {n2, n3}, {n1, n3}>>
Committing == <<{n1}, {n4}, {n1, n2, n3}, {n1, n3, n4}>>
RoundVotes(votes, r) == {v[1] : v \in {w \in votes : w[2] = r}}
OneSchedule ==
    /\ \A r \in Rounds :
        /\ RoundVotes(prepares, r) \subseteq Preparing[r + 1]
        /\ RoundVotes(commits, r) \subseteq Committing[r + 1]
        /\ r # 0 /\ RoundVotes(prepares \cup commits, r) # {} =>
               /\ RoundVotes(prepares, r - 1) = Preparing[r]
               /\ RoundVotes(commits, r - 1) = Committing[r]
    /\ \A n \in Validators : height[n] = 1

Symmetry == Permutations(Validators \ Unreliable)
=============================================================================
