------------------------ MODULE IstanbulVotingProofs ------------------------
(***************************************************************************)
(* Agreement of the voting rules, for every number of validators, every    *)
(* set of blocks, every pattern of proposals, every height and round: the  *)
(* inductive invariant, then the counting argument.                        *)
(***************************************************************************)
EXTENDS IstanbulVoting, FiniteSetTheorems, WellFoundedInduction, TLAPS

(* ----------------------------------------------------------------------- *)
(* Part 1: types.                                                          *)

LEMMA TypeInit == Init => TypeOK
  BY RoundsAssumption DEF Init, TypeOK, Votes

LEMMA TypeStep == TypeOK /\ [Next]_vars => TypeOK'
  <1> SUFFICES ASSUME TypeOK, [Next]_vars PROVE TypeOK'
    OBVIOUS
  <1> USE RoundsAssumption, BlocksAssumption, UnreliableAssumption
  <1>1. CASE UNCHANGED vars
    BY <1>1 DEF vars, TypeOK, Votes
  <1>2. ASSUME NEW n \in Validators, NEW b \in Blocks, Prepare(n, b)
        PROVE  TypeOK'
    BY <1>2 DEF Prepare, CanAccept, TypeOK, Votes
  <1>3. ASSUME NEW n \in Validators, NEW b \in Blocks, Recommit(n, b)
        PROVE  TypeOK'
    BY <1>3 DEF Recommit, CanAccept, TypeOK, Votes
  <1>4. ASSUME NEW n \in Validators, NEW b \in Blocks, Decide(n, b)
        PROVE  TypeOK'
    BY <1>4 DEF Decide, TypeOK, Votes
  <1>5. ASSUME NEW n \in Validators, NEW b \in Blocks, NEW r \in Rounds,
               PreparePOL(n, b, r)
        PROVE  TypeOK'
    BY <1>5 DEF PreparePOL, CanAccept, TypeOK, Votes
  <1>6. ASSUME NEW n \in Validators, NEW r \in Rounds, AdvanceRound(n, r)
        PROVE  TypeOK'
    BY <1>6 DEF AdvanceRound, TypeOK, Votes
  <1>7. ASSUME NEW n \in Validators, NEW b \in Blocks, NEW r \in Rounds,
               CommitOldBlock(n, b, r)
        PROVE  TypeOK'
    BY <1>7 DEF CommitOldBlock, TypeOK, Votes
  <1>8. ASSUME NEW n \in Validators, Lock(n)
        PROVE  TypeOK'
    BY <1>8 DEF Lock, TypeOK, Votes
  <1>9. ASSUME NEW n \in Validators, LockOnCommits(n)
        PROVE  TypeOK'
    BY <1>9 DEF LockOnCommits, TypeOK, Votes
  <1>10. ASSUME NEW n \in Validators, Discard(n)
         PROVE  TypeOK'
    BY <1>10 DEF Discard, TypeOK, Votes
  <1>11. ASSUME NEW n \in Validators, NEW b \in Blocks, Leave(n, b)
         PROVE  TypeOK'
    BY <1>11 DEF Leave, TypeOK, Votes
  <1>12. ASSUME NEW n \in Validators, Restart(n)
         PROVE  TypeOK'
    BY <1>12 DEF Restart, TypeOK, Votes
  <1> QED
    BY <1>1, <1>2, <1>3, <1>4, <1>5, <1>6, <1>7, <1>8, <1>9, <1>10, <1>11,
       <1>12 DEF Next

(* ----------------------------------------------------------------------- *)
(* Part 2: the invariant is inductive, one lemma for each conjunct.        *)

\* A proposal is accepted at the height of its block, and a lock is taken on
\* the accepted proposal.
LEMMA OfHeightStep ==
  ASSUME TypeOK, OfHeight, [Next]_vars
  PROVE  OfHeight'
  <1> USE RoundsAssumption, BlocksAssumption, UnreliableAssumption
      DEF TypeOK, Votes
  <1> SUFFICES ASSUME NEW m \in Validators, NEW c \in Blocks,
                      c \in {accepted'[m], lockedHash'[m]}
               PROVE  c.number = height'[m]
    BY DEF OfHeight
  <1>1. CASE UNCHANGED vars
    BY <1>1 DEF vars, OfHeight
  <1>2. ASSUME NEW n \in Validators, NEW b \in Blocks, Prepare(n, b)
        PROVE  c.number = height'[m]
    BY <1>2 DEF Prepare, CanAccept, OfHeight
  <1>3. ASSUME NEW n \in Validators, NEW b \in Blocks, Recommit(n, b)
        PROVE  c.number = height'[m]
    BY <1>3 DEF Recommit, CanAccept, OfHeight
  <1>4. ASSUME NEW n \in Validators, NEW b \in Blocks, Decide(n, b)
        PROVE  c.number = height'[m]
    BY <1>4 DEF Decide, OfHeight
  <1>5. ASSUME NEW n \in Validators, NEW b \in Blocks, NEW r \in Rounds,
               PreparePOL(n, b, r)
        PROVE  c.number = height'[m]
    BY <1>5 DEF PreparePOL, CanAccept, OfHeight
  <1>6. ASSUME NEW n \in Validators, NEW r \in Rounds, AdvanceRound(n, r)
        PROVE  c.number = height'[m]
    BY <1>6 DEF AdvanceRound, OfHeight
  <1>7. ASSUME NEW n \in Validators, NEW b \in Blocks, NEW r \in Rounds,
               CommitOldBlock(n, b, r)
        PROVE  c.number = height'[m]
    BY <1>7 DEF CommitOldBlock, OfHeight
  <1>8. ASSUME NEW n \in Validators, Lock(n)
        PROVE  c.number = height'[m]
    BY <1>8 DEF Lock, OfHeight
  <1>9. ASSUME NEW n \in Validators, LockOnCommits(n)
        PROVE  c.number = height'[m]
    BY <1>9 DEF LockOnCommits, OfHeight
  <1>10. ASSUME NEW n \in Validators, Discard(n)
         PROVE  c.number = height'[m]
    BY <1>10 DEF Discard, OfHeight
  <1>11. ASSUME NEW n \in Validators, NEW b \in Blocks, Leave(n, b)
         PROVE  c.number = height'[m]
    BY <1>11 DEF Leave, OfHeight
  <1>12. ASSUME NEW n \in Validators, Restart(n)
         PROVE  c.number = height'[m]
    BY <1>12 DEF Restart, OfHeight
  <1> QED
    BY <1>1, <1>2, <1>3, <1>4, <1>5, <1>6, <1>7, <1>8, <1>9, <1>10, <1>11,
       <1>12 DEF Next

\* A step adds votes of the current view only, and views only grow.
LEMMA VotesInPastStep ==
  ASSUME TypeOK, OfHeight, VotesInPast, [Next]_vars
  PROVE  VotesInPast'
  <1> USE RoundsAssumption, BlocksAssumption, UnreliableAssumption
      DEF TypeOK, Votes, Reliable, Voted
  <1> DEFINE Past(m, s, c) ==
        \/ c.number < height[m]
        \/ /\ c.number = height[m] /\ s <= round[m]
           /\ s = round[m] => accepted[m] = c
  <1> SUFFICES ASSUME NEW m \in Reliable, NEW s \in Rounds, NEW c \in Blocks,
                      Voted(m, s, c)'
               PROVE  Past(m, s, c)'
    BY DEF VotesInPast
  <1>0. /\ m \in Validators /\ s \in Nat /\ round[m] \in Nat
        /\ c.number \in Nat /\ height[m] \in Nat
    OBVIOUS
  <1>1. CASE UNCHANGED vars
    BY <1>0, <1>1 DEF vars, OfHeight, VotesInPast
  <1>2. ASSUME NEW n \in Validators, NEW b \in Blocks, Prepare(n, b)
        PROVE  Past(m, s, c)'
    BY <1>0, <1>2 DEF Prepare, CanAccept, OfHeight, VotesInPast
  <1>3. ASSUME NEW n \in Validators, NEW b \in Blocks, Recommit(n, b)
        PROVE  Past(m, s, c)'
    BY <1>0, <1>3 DEF Recommit, CanAccept, OfHeight, VotesInPast
  <1>4. ASSUME NEW n \in Validators, NEW b \in Blocks, Decide(n, b)
        PROVE  Past(m, s, c)'
    BY <1>0, <1>4 DEF Decide, OfHeight, VotesInPast
  <1>5. ASSUME NEW n \in Validators, NEW b \in Blocks, NEW r \in Rounds,
               PreparePOL(n, b, r)
        PROVE  Past(m, s, c)'
    BY <1>0, <1>5 DEF PreparePOL, CanAccept, OfHeight, VotesInPast
  <1>6. ASSUME NEW n \in Validators, NEW r \in Rounds, AdvanceRound(n, r)
        PROVE  Past(m, s, c)'
    BY <1>0, <1>6 DEF AdvanceRound, OfHeight, VotesInPast
  <1>7. ASSUME NEW n \in Validators, NEW b \in Blocks, NEW r \in Rounds,
               CommitOldBlock(n, b, r)
        PROVE  Past(m, s, c)'
    BY <1>0, <1>7 DEF CommitOldBlock, OfHeight, VotesInPast
  <1>8. ASSUME NEW n \in Validators, Lock(n)
        PROVE  Past(m, s, c)'
    BY <1>0, <1>8 DEF Lock, OfHeight, VotesInPast
  <1>9. ASSUME NEW n \in Validators, LockOnCommits(n)
        PROVE  Past(m, s, c)'
    BY <1>0, <1>9 DEF LockOnCommits, OfHeight, VotesInPast
  <1>10. ASSUME NEW n \in Validators, Discard(n)
         PROVE  Past(m, s, c)'
    BY <1>0, <1>10 DEF Discard, OfHeight, VotesInPast
  <1>11. ASSUME NEW n \in Validators, NEW b \in Blocks, Leave(n, b)
         PROVE  Past(m, s, c)'
    BY <1>0, <1>11 DEF Leave, OfHeight, VotesInPast
  <1>12. ASSUME NEW n \in Validators, Restart(n)
         PROVE  Past(m, s, c)'
    BY <1>0, <1>12 DEF Restart, OfHeight, VotesInPast
  <1> QED
    BY <1>1, <1>2, <1>3, <1>4, <1>5, <1>6, <1>7, <1>8, <1>9, <1>10, <1>11,
       <1>12 DEF Next

\* A lock is taken in the current round, on the accepted proposal.
LEMMA LockFitsStep ==
  ASSUME TypeOK, LockFits, [Next]_vars
  PROVE  LockFits'
  <1> USE RoundsAssumption, BlocksAssumption, UnreliableAssumption
      DEF TypeOK, Votes, Reliable
  <1> DEFINE Fit(m) == /\ lockedRound[m] <= round[m]
                       /\ accepted[m] \in {NoBlock, lockedHash[m]}
  <1> SUFFICES ASSUME NEW m \in Reliable, (lockedHash[m] # NoBlock)'
               PROVE  Fit(m)'
    BY DEF LockFits
  <1>0. m \in Validators /\ round[m] \in Nat /\ lockedRound[m] \in Nat
    OBVIOUS
  <1>1. CASE UNCHANGED vars
    BY <1>0, <1>1 DEF vars, LockFits
  <1>2. ASSUME NEW n \in Validators, NEW b \in Blocks, Prepare(n, b)
        PROVE  Fit(m)'
    BY <1>0, <1>2 DEF Prepare, CanAccept, LockFits
  <1>3. ASSUME NEW n \in Validators, NEW b \in Blocks, Recommit(n, b)
        PROVE  Fit(m)'
    BY <1>0, <1>3 DEF Recommit, CanAccept, LockFits
  <1>4. ASSUME NEW n \in Validators, NEW b \in Blocks, Decide(n, b)
        PROVE  Fit(m)'
    BY <1>0, <1>4 DEF Decide, LockFits
  <1>5. ASSUME NEW n \in Validators, NEW b \in Blocks, NEW r \in Rounds,
               PreparePOL(n, b, r)
        PROVE  Fit(m)'
    BY <1>0, <1>5 DEF PreparePOL, CanAccept, LockFits
  <1>6. ASSUME NEW n \in Validators, NEW r \in Rounds, AdvanceRound(n, r)
        PROVE  Fit(m)'
    <2>1. CASE m = n
      <3>1. r \in Nat /\ lockedRound[m] <= round[m] /\ round[m] < r
        BY <1>0, <1>6, <2>1 DEF AdvanceRound, LockFits
      <3> QED
        BY <1>0, <1>6, <2>1, <3>1 DEF AdvanceRound
    <2>2. CASE m # n
      BY <1>0, <1>6, <2>2 DEF AdvanceRound, LockFits
    <2> QED BY <2>1, <2>2
  <1>7. ASSUME NEW n \in Validators, NEW b \in Blocks, NEW r \in Rounds,
               CommitOldBlock(n, b, r)
        PROVE  Fit(m)'
    BY <1>0, <1>7 DEF CommitOldBlock, LockFits
  <1>8. ASSUME NEW n \in Validators, Lock(n)
        PROVE  Fit(m)'
    BY <1>0, <1>8 DEF Lock, LockFits
  <1>9. ASSUME NEW n \in Validators, LockOnCommits(n)
        PROVE  Fit(m)'
    BY <1>0, <1>9 DEF LockOnCommits, LockFits
  <1>10. ASSUME NEW n \in Validators, Discard(n)
         PROVE  Fit(m)'
    BY <1>0, <1>10 DEF Discard, LockFits
  <1>11. ASSUME NEW n \in Validators, NEW b \in Blocks, Leave(n, b)
         PROVE  Fit(m)'
    BY <1>0, <1>11 DEF Leave, LockFits
  <1>12. ASSUME NEW n \in Validators, Restart(n)
         PROVE  Fit(m)'
    BY <1>0, <1>12 DEF Restart, LockFits
  <1> QED
    BY <1>1, <1>2, <1>3, <1>4, <1>5, <1>6, <1>7, <1>8, <1>9, <1>10, <1>11,
       <1>12 DEF Next

\* While it is locked a validator votes for the locked block only.
LEMMA LockHeldStep ==
  ASSUME TypeOK, OfHeight, VotesInPast, LockFits, LockHeld, [Next]_vars
  PROVE  LockHeld'
  <1> USE RoundsAssumption, BlocksAssumption, UnreliableAssumption
      DEF TypeOK, Votes, Reliable, Voted, Rivals
  <1> SUFFICES ASSUME NEW m \in Reliable, NEW x \in Blocks, lockedHash'[m] = x,
                      NEW s \in Rounds, NEW c \in Rivals(x), Voted(m, s, c)'
               PROVE  s < lockedRound'[m]
    BY DEF LockHeld
  <1>0. /\ m \in Validators /\ s \in Nat /\ round[m] \in Nat
        /\ lockedRound[m] \in Nat /\ height[m] \in Nat
        /\ c \in Blocks /\ c.number = x.number /\ c # x /\ x # NoBlock
    OBVIOUS
  <1>1. CASE UNCHANGED vars
    BY <1>0, <1>1 DEF vars, OfHeight, VotesInPast, LockFits,
           LockHeld
  <1>2. ASSUME NEW n \in Validators, NEW b \in Blocks, Prepare(n, b)
        PROVE  s < lockedRound'[m]
    BY <1>0, <1>2 DEF Prepare, CanAccept, OfHeight, VotesInPast, LockFits,
           LockHeld
  <1>3. ASSUME NEW n \in Validators, NEW b \in Blocks, Recommit(n, b)
        PROVE  s < lockedRound'[m]
    BY <1>0, <1>3 DEF Recommit, CanAccept, OfHeight, VotesInPast, LockFits,
           LockHeld
  <1>4. ASSUME NEW n \in Validators, NEW b \in Blocks, Decide(n, b)
        PROVE  s < lockedRound'[m]
    BY <1>0, <1>4 DEF Decide, OfHeight, VotesInPast, LockFits,
           LockHeld
  <1>5. ASSUME NEW n \in Validators, NEW b \in Blocks, NEW r \in Rounds,
               PreparePOL(n, b, r)
        PROVE  s < lockedRound'[m]
    BY <1>0, <1>5 DEF PreparePOL, CanAccept, OfHeight, VotesInPast, LockFits,
           LockHeld
  <1>6. ASSUME NEW n \in Validators, NEW r \in Rounds, AdvanceRound(n, r)
        PROVE  s < lockedRound'[m]
    BY <1>0, <1>6 DEF AdvanceRound, OfHeight, VotesInPast, LockFits,
           LockHeld
  <1>7. ASSUME NEW n \in Validators, NEW b \in Blocks, NEW r \in Rounds,
               CommitOldBlock(n, b, r)
        PROVE  s < lockedRound'[m]
    BY <1>0, <1>7 DEF CommitOldBlock, OfHeight, VotesInPast, LockFits,
           LockHeld
  <1>8. ASSUME NEW n \in Validators, Lock(n)
        PROVE  s < lockedRound'[m]
    <2>1. CASE m = n
      <3>1. /\ accepted[m] = x /\ x.number = height[m]
            /\ lockedRound'[m] = round[m]
        BY <1>0, <1>8, <2>1 DEF Lock, OfHeight
      <3>2. Voted(m, s, c)
        BY <1>0, <1>8, <2>1, <3>1 DEF Lock
      <3>3. ~(c.number < height[m]) /\ accepted[m] # c
        BY <1>0, <3>1
      <3>4. s <= round[m] /\ s # round[m]
        BY <1>0, <3>2, <3>3 DEF VotesInPast
      <3>5. s < round[m]
        BY <1>0, <3>4
      <3> QED
        BY <3>1, <3>5
    <2>2. CASE m # n
      BY <1>0, <1>8, <2>2 DEF Lock, LockHeld
    <2> QED
      BY <2>1, <2>2
  <1>9. ASSUME NEW n \in Validators, LockOnCommits(n)
        PROVE  s < lockedRound'[m]
    BY <1>0, <1>9 DEF LockOnCommits, OfHeight, VotesInPast, LockFits,
           LockHeld
  <1>10. ASSUME NEW n \in Validators, Discard(n)
         PROVE  s < lockedRound'[m]
    BY <1>0, <1>10 DEF Discard, OfHeight, VotesInPast, LockFits,
           LockHeld
  <1>11. ASSUME NEW n \in Validators, NEW b \in Blocks, Leave(n, b)
         PROVE  s < lockedRound'[m]
    BY <1>0, <1>11 DEF Leave, OfHeight, VotesInPast, LockFits,
           LockHeld
  <1>12. ASSUME NEW n \in Validators, Restart(n)
         PROVE  s < lockedRound'[m]
    BY <1>0, <1>12 DEF Restart, OfHeight, VotesInPast, LockFits,
           LockHeld
  <1> QED
    BY <1>1, <1>2, <1>3, <1>4, <1>5, <1>6, <1>7, <1>8, <1>9, <1>10, <1>11,
       <1>12 DEF Next

\* accepted[n] is set once in a view, so a view has one vote.
LEMMA OneVotePerRoundStep ==
  ASSUME TypeOK, OfHeight, VotesInPast, LockFits, OneVotePerRound, [Next]_vars
  PROVE  OneVotePerRound'
  <1> USE RoundsAssumption, BlocksAssumption, UnreliableAssumption
      DEF TypeOK, Votes, Reliable, Voted, Rivals
  <1> SUFFICES ASSUME NEW m \in Reliable, NEW s \in Rounds,
                      NEW x \in Blocks, NEW c \in Rivals(x),
                      Voted(m, s, x)', Voted(m, s, c)'
               PROVE  FALSE
    BY DEF OneVotePerRound
  <1>0. /\ m \in Validators /\ round[m] \in Nat /\ height[m] \in Nat
        /\ c \in Blocks /\ c.number = x.number /\ c # x /\ x # NoBlock
    OBVIOUS
  <1>1. CASE UNCHANGED vars
    BY <1>0, <1>1 DEF vars, OfHeight, VotesInPast, LockFits,
           OneVotePerRound
  <1>2. ASSUME NEW n \in Validators, NEW b \in Blocks, Prepare(n, b)
        PROVE  FALSE
    BY <1>0, <1>2 DEF Prepare, CanAccept, OfHeight, VotesInPast, LockFits,
           OneVotePerRound
  <1>3. ASSUME NEW n \in Validators, NEW b \in Blocks, Recommit(n, b)
        PROVE  FALSE
    BY <1>0, <1>3 DEF Recommit, CanAccept, OfHeight, VotesInPast, LockFits,
           OneVotePerRound
  <1>4. ASSUME NEW n \in Validators, NEW b \in Blocks, Decide(n, b)
        PROVE  FALSE
    BY <1>0, <1>4 DEF Decide, OfHeight, VotesInPast, LockFits,
           OneVotePerRound
  <1>5. ASSUME NEW n \in Validators, NEW b \in Blocks, NEW r \in Rounds,
               PreparePOL(n, b, r)
        PROVE  FALSE
    BY <1>0, <1>5 DEF PreparePOL, CanAccept, OfHeight, VotesInPast, LockFits,
           OneVotePerRound
  <1>6. ASSUME NEW n \in Validators, NEW r \in Rounds, AdvanceRound(n, r)
        PROVE  FALSE
    BY <1>0, <1>6 DEF AdvanceRound, OfHeight, VotesInPast, LockFits,
           OneVotePerRound
  <1>7. ASSUME NEW n \in Validators, NEW b \in Blocks, NEW r \in Rounds,
               CommitOldBlock(n, b, r)
        PROVE  FALSE
    BY <1>0, <1>7 DEF CommitOldBlock, OfHeight, VotesInPast, LockFits,
           OneVotePerRound
  <1>8. ASSUME NEW n \in Validators, Lock(n)
        PROVE  FALSE
    BY <1>0, <1>8 DEF Lock, OfHeight, VotesInPast, LockFits,
           OneVotePerRound
  <1>9. ASSUME NEW n \in Validators, LockOnCommits(n)
        PROVE  FALSE
    BY <1>0, <1>9 DEF LockOnCommits, OfHeight, VotesInPast, LockFits,
           OneVotePerRound
  <1>10. ASSUME NEW n \in Validators, Discard(n)
         PROVE  FALSE
    BY <1>0, <1>10 DEF Discard, OfHeight, VotesInPast, LockFits,
           OneVotePerRound
  <1>11. ASSUME NEW n \in Validators, NEW b \in Blocks, Leave(n, b)
         PROVE  FALSE
    BY <1>0, <1>11 DEF Leave, OfHeight, VotesInPast, LockFits,
           OneVotePerRound
  <1>12. ASSUME NEW n \in Validators, Restart(n)
         PROVE  FALSE
    BY <1>0, <1>12 DEF Restart, OfHeight, VotesInPast, LockFits,
           OneVotePerRound
  <1> QED
    BY <1>1, <1>2, <1>3, <1>4, <1>5, <1>6, <1>7, <1>8, <1>9, <1>10, <1>11,
       <1>12 DEF Next

\* sendCommitForOldBlock is for a block of the chain, which stays there.
LEMMA OldCommitsDecidedStep ==
  ASSUME TypeOK, OldCommitsDecided, [Next]_vars
  PROVE  OldCommitsDecided'
  <1> USE DEF TypeOK, Votes, OldCommitsDecided
  <1>1. decided \subseteq decided'
    BY DEF Next, vars, Prepare, Recommit, Decide, PreparePOL, AdvanceRound,
           CommitOldBlock, Lock, LockOnCommits, Discard, Leave, Restart
  <1>2. ASSUME NEW m \in Validators, NEW s \in Rounds, NEW c \in Blocks,
               (<<m, s, c>> \in oldCommits)', <<m, s, c>> \notin oldCommits
        PROVE  <<m, c>> \in decided
    <2>1. \E p \in Validators, x \in Blocks, y \in Rounds : CommitOldBlock(p, x, y)
      BY <1>2 DEF Next, vars, Prepare, Recommit, Decide, PreparePOL, AdvanceRound,
                  Lock, LockOnCommits, Discard, Leave, Restart
    <2> QED
      BY <1>2, <2>1 DEF CommitOldBlock
  <1> QED
    BY <1>1, <1>2

\* A superset of a quorum is a quorum.
LEMMA QuorumGrows ==
  ASSUME NEW S, NEW T \in SUBSET Validators, S \subseteq T,
         IsQuorum(Validators, S)
  PROVE  IsQuorum(Validators, T)
  <1>1. IsFiniteSet(Validators) /\ IsFiniteSet(T) /\ IsFiniteSet(S)
    BY ValidatorsAssumption, FS_Subset
  <1>2. /\ Cardinality(S) \in Nat /\ Cardinality(T) \in Nat
        /\ Cardinality(Validators) \in Nat
        /\ Cardinality(S) <= Cardinality(T)
    BY <1>1, FS_CardinalityType, FS_Subset
  <1> QED
    BY <1>2 DEF IsQuorum, Threshold, F, Size

\* Votes are never taken back.
LEMMA PrepareQuorumStable ==
  ASSUME [Next]_vars, NEW a, NEW c, PrepareQuorum(a, c)
  PROVE  PrepareQuorum(a, c)'
  <1>1. prepares \subseteq prepares'
    BY DEF Next, vars, Prepare, Recommit, Decide, PreparePOL, AdvanceRound,
           CommitOldBlock, Lock, LockOnCommits, Discard, Leave, Restart
  <1>2. Prepared(a, c) \subseteq Prepared(a, c)'
    BY <1>1 DEF Prepared
  <1>3. Prepared(a, c)' \in SUBSET Validators
    BY DEF Prepared
  <1> QED
    BY <1>2, <1>3, QuorumGrows DEF PrepareQuorum

\* Once released, a validator has left the rounds of its old lock.
LEMMA ReleasedStable ==
  ASSUME TypeOK, OfHeight, [Next]_vars,
         NEW n \in Reliable, NEW b \in Blocks, NEW l \in Rounds,
         NEW r \in Rounds,
         NEW a \in Rounds, NEW c \in Blocks,
         Released(n, b, l, r, a, c)
  PROVE  Released(n, b, l, r, a, c)'
  <1> USE RoundsAssumption, BlocksAssumption, UnreliableAssumption
      DEF TypeOK, Votes, Reliable, Voted, Rivals
  <1> DEFINE Past == /\ \A s \in Rounds, d \in Rivals(b) :
                            Voted(n, s, d) => s < l \/ (a < s /\ r < s)
                     /\ \/ b.number < height[n]
                        \/ b.number = height[n] /\ a < round[n] /\ r < round[n]
  <1>0. /\ n \in Validators /\ l \in Nat /\ r \in Nat /\ a \in Nat
        /\ round[n] \in Nat /\ round'[n] \in Nat
        /\ b.number \in Nat /\ height[n] \in Nat
        /\ Past
    <2>1. TypeOK'
      BY TypeStep
    <2> QED
      BY <2>1 DEF Released
  <1> SUFFICES Past'
    BY PrepareQuorumStable DEF Released
  <1> HIDE DEF Past
  <1>1. CASE UNCHANGED vars
    BY <1>0, <1>1 DEF vars, OfHeight, Past
  <1>2. ASSUME NEW p \in Validators, NEW x \in Blocks, Prepare(p, x)
        PROVE  Past'
    BY <1>0, <1>2 DEF Prepare, CanAccept, OfHeight, Past
  <1>3. ASSUME NEW p \in Validators, NEW x \in Blocks, Recommit(p, x)
        PROVE  Past'
    BY <1>0, <1>3 DEF Recommit, CanAccept, OfHeight, Past
  <1>4. ASSUME NEW p \in Validators, NEW x \in Blocks, Decide(p, x)
        PROVE  Past'
    BY <1>0, <1>4 DEF Decide, OfHeight, Past
  <1>5. ASSUME NEW p \in Validators, NEW x \in Blocks, NEW y \in Rounds,
               PreparePOL(p, x, y)
        PROVE  Past'
    BY <1>0, <1>5 DEF PreparePOL, CanAccept, OfHeight, Past
  <1>6. ASSUME NEW p \in Validators, NEW y \in Rounds, AdvanceRound(p, y)
        PROVE  Past'
    BY <1>0, <1>6 DEF AdvanceRound, OfHeight, Past
  <1>7. ASSUME NEW p \in Validators, NEW x \in Blocks, NEW y \in Rounds,
               CommitOldBlock(p, x, y)
        PROVE  Past'
    BY <1>0, <1>7 DEF CommitOldBlock, OfHeight, Past
  <1>8. ASSUME NEW p \in Validators, Lock(p)
        PROVE  Past'
    <2>1. CASE p = n
      <3>1. accepted[n] \in Blocks /\ accepted[n].number = height[n]
        BY <1>0, <1>8, <2>1 DEF Lock, OfHeight
      <3>2. ASSUME NEW s \in Rounds, NEW d \in Rivals(b), Voted(n, s, d)'
            PROVE  s < l \/ (a < s /\ r < s)
        <4>1. CASE Voted(n, s, d)
          BY <1>0, <4>1 DEF Past
        <4>2. CASE ~Voted(n, s, d)
          <5>1. s = round[n] /\ d = accepted[n]
            BY <1>8, <2>1, <3>2, <4>2 DEF Lock
          <5> QED
            BY <1>0, <3>1, <5>1 DEF Past
        <4> QED
          BY <4>1, <4>2
      <3> QED
        BY <1>0, <1>8, <3>2 DEF Lock, Past
    <2>2. CASE p # n
      BY <1>0, <1>8, <2>2 DEF Lock, Past
    <2> QED
      BY <2>1, <2>2
  <1>9. ASSUME NEW p \in Validators, LockOnCommits(p)
        PROVE  Past'
    BY <1>0, <1>9 DEF LockOnCommits, OfHeight, Past
  <1>10. ASSUME NEW p \in Validators, Discard(p)
         PROVE  Past'
    BY <1>0, <1>10 DEF Discard, OfHeight, Past
  <1>11. ASSUME NEW p \in Validators, NEW x \in Blocks, Leave(p, x)
         PROVE  Past'
    BY <1>0, <1>11 DEF Leave, OfHeight, Past
  <1>12. ASSUME NEW p \in Validators, Restart(p)
         PROVE  Past'
    BY <1>0, <1>12 DEF Restart, OfHeight, Past
  <1> QED
    BY <1>1, <1>2, <1>3, <1>4, <1>5, <1>6, <1>7, <1>8, <1>9, <1>10, <1>11,
       <1>12 DEF Next

\* Only handlePOLPreprepare ends the lock on a block that can be kept.
LEMMA StillBoundStep ==
  ASSUME TypeOK, OfHeight, VotesInPast, LockFits, [Next]_vars,
         NEW n \in Reliable, NEW b \in Blocks \ EmptyBlocks,
         NEW l \in Rounds, NEW r \in Rounds, l <= r,
         <<n, r, b>> \in commits, StillBound(n, b, l)
  PROVE  \/ StillBound(n, b, l)'
         \/ \E a \in Rounds, c \in Rivals(b) : Released(n, b, l, r, a, c)'
  <1> USE RoundsAssumption, BlocksAssumption, UnreliableAssumption
      DEF TypeOK, Votes, Reliable, Voted, Rivals
  <1>0. /\ n \in Validators /\ b # NoBlock /\ b \in Blocks
        /\ l \in Nat /\ r \in Nat /\ round[n] \in Nat /\ lockedRound[n] \in Nat
        /\ b.number \in Nat /\ height[n] \in Nat
    OBVIOUS
  <1> DEFINE Free == \E a \in Rounds, c \in Rivals(b) : Released(n, b, l, r, a, c)'
  <1> HIDE DEF Free
  <1> SUFFICES StillBound(n, b, l)' \/ Free
    BY DEF Free
  <1>1. CASE UNCHANGED vars
    BY <1>0, <1>1 DEF vars, OfHeight, StillBound, LockFits
  <1>2. ASSUME NEW p \in Validators, NEW x \in Blocks, Prepare(p, x)
        PROVE  StillBound(n, b, l)' \/ Free
    BY <1>0, <1>2 DEF Prepare, CanAccept, OfHeight, StillBound, LockFits
  <1>3. ASSUME NEW p \in Validators, NEW x \in Blocks, Recommit(p, x)
        PROVE  StillBound(n, b, l)' \/ Free
    BY <1>0, <1>3 DEF Recommit, CanAccept, OfHeight, StillBound, LockFits
  <1>4. ASSUME NEW p \in Validators, NEW x \in Blocks, Decide(p, x)
        PROVE  StillBound(n, b, l)' \/ Free
    BY <1>0, <1>4 DEF Decide, OfHeight, StillBound, LockFits
  <1>5. ASSUME NEW p \in Validators, NEW x \in Blocks, NEW y \in Rounds,
               PreparePOL(p, x, y)
        PROVE  StillBound(n, b, l)' \/ Free
    <2>1. CASE p = n /\ lockedHash[n] = b
      <3>1. /\ accepted[n] = NoBlock /\ x.number = height[n]
            /\ b.number = height[n] /\ x \in Rivals(b)
            /\ l <= lockedRound[n]
            /\ lockedRound[n] <= y /\ y < round[n] /\ y \in Nat
        BY <1>0, <1>5, <2>1 DEF PreparePOL, CanAccept, StillBound, OfHeight
      <3>2. r < round[n]
        <4>1. Voted(n, r, b)
          OBVIOUS
        <4>2. ~(b.number < height[n]) /\ accepted[n] # b
          BY <1>0, <3>1
        <4>3. r <= round[n] /\ r # round[n]
          BY <4>1, <4>2 DEF VotesInPast
        <4> QED
          BY <1>0, <4>3
      <3>3. PrepareQuorum(y, x)'
        BY <1>5, PrepareQuorumStable DEF PreparePOL
      <3>4. ASSUME NEW s \in Rounds, NEW d \in Rivals(b), Voted(n, s, d)'
            PROVE  s < l \/ (y < s /\ r < s)
        BY <1>0, <1>5, <2>1, <3>1, <3>2, <3>4
           DEF PreparePOL, CanAccept, StillBound
      <3>5. /\ l <= y /\ y < round'[n] /\ r < round'[n]
            /\ b.number = height'[n]
        BY <1>0, <1>5, <3>1, <3>2 DEF PreparePOL
      <3>6. Released(n, b, l, r, y, x)'
        BY <3>3, <3>4, <3>5 DEF Released
      <3> QED
        BY <3>1, <3>6 DEF Free
    <2>2. CASE ~(p = n /\ lockedHash[n] = b)
      BY <1>0, <1>5, <2>2 DEF PreparePOL, CanAccept, StillBound
    <2> QED
      BY <2>1, <2>2
  <1>6. ASSUME NEW p \in Validators, NEW y \in Rounds, AdvanceRound(p, y)
        PROVE  StillBound(n, b, l)' \/ Free
    BY <1>0, <1>6 DEF AdvanceRound, OfHeight, StillBound, LockFits
  <1>7. ASSUME NEW p \in Validators, NEW x \in Blocks, NEW y \in Rounds,
               CommitOldBlock(p, x, y)
        PROVE  StillBound(n, b, l)' \/ Free
    BY <1>0, <1>7 DEF CommitOldBlock, OfHeight, StillBound, LockFits
  <1>8. ASSUME NEW p \in Validators, Lock(p)
        PROVE  StillBound(n, b, l)' \/ Free
    BY <1>0, <1>8 DEF Lock, OfHeight, StillBound, LockFits
  <1>9. ASSUME NEW p \in Validators, LockOnCommits(p)
        PROVE  StillBound(n, b, l)' \/ Free
    <2>1. CASE p = n /\ lockedHash[n] = b
      <3>1. /\ accepted[n] = b
            /\ lockedRound[n] <= round[n]
        BY <1>0, <1>9, <2>1 DEF LockOnCommits, LockFits
      <3>2. lockedHash'[n] = b /\ lockedRound'[n] = round[n]
        BY <1>0, <1>9, <2>1, <3>1 DEF LockOnCommits
      <3> QED
        BY <1>0, <1>9, <3>1, <3>2 DEF LockOnCommits, StillBound
    <2>2. CASE ~(p = n /\ lockedHash[n] = b)
      BY <1>0, <1>9, <2>2 DEF LockOnCommits, StillBound
    <2> QED
      BY <2>1, <2>2
  <1>10. ASSUME NEW p \in Validators, Discard(p)
         PROVE  StillBound(n, b, l)' \/ Free
    BY <1>0, <1>10 DEF Discard, OfHeight, StillBound, LockFits
  <1>11. ASSUME NEW p \in Validators, NEW x \in Blocks, Leave(p, x)
         PROVE  StillBound(n, b, l)' \/ Free
    BY <1>0, <1>11 DEF Leave, OfHeight, StillBound, LockFits
  <1>12. ASSUME NEW p \in Validators, Restart(p)
         PROVE  StillBound(n, b, l)' \/ Free
    BY <1>0, <1>12 DEF Restart, OfHeight, StillBound, LockFits
  <1> QED
    BY <1>1, <1>2, <1>3, <1>4, <1>5, <1>6, <1>7, <1>8, <1>9, <1>10, <1>11,
       <1>12 DEF Next

\* A COMMIT is sent by a validator that is locked on its block.
LEMMA CommitBindsStep ==
  ASSUME TypeOK, OfHeight, VotesInPast, LockFits, LockHeld,
         LockFits', LockHeld', CommitBinds, [Next]_vars
  PROVE  CommitBinds'
  <1> USE RoundsAssumption, BlocksAssumption, UnreliableAssumption
      DEF TypeOK, Votes, Reliable
  <1> SUFFICES ASSUME NEW n \in Reliable, NEW r \in Rounds,
                      NEW b \in Blocks \ EmptyBlocks,
                      (<<n, r, b>> \in commits)'
               PROVE  \E l \in Rounds :
                         /\ l <= r
                         /\ \/ StillBound(n, b, l)'
                            \/ \E a \in Rounds, c \in Rivals(b) :
                                  Released(n, b, l, r, a, c)'
    BY DEF CommitBinds
  <1>1. CASE <<n, r, b>> \in commits
    <2>1. PICK l \in Rounds :
             /\ l <= r
             /\ \/ StillBound(n, b, l)
                \/ \E a \in Rounds, c \in Rivals(b) :
                      Released(n, b, l, r, a, c)
      BY <1>1 DEF CommitBinds
    <2>2. CASE StillBound(n, b, l)
      BY <1>1, <2>1, <2>2, StillBoundStep
    <2>3. CASE \E a \in Rounds, c \in Rivals(b) : Released(n, b, l, r, a, c)
      BY <2>1, <2>3, ReleasedStable DEF Rivals
    <2> QED
      BY <2>1, <2>2, <2>3
  <1>2. CASE <<n, r, b>> \notin commits
    \* A new COMMIT of n, which is locked on b after the step.
    <2>1. r = round'[n] /\ lockedHash'[n] = b
      <3>1. \A p \in Validators, x \in Blocks : Recommit(p, x) =>
               p = n /\ x = b /\ r = round'[n] /\ lockedHash'[n] = b
        BY <1>2 DEF Recommit, CanAccept
      <3>2. \A p \in Validators : Lock(p) =>
               p = n /\ r = round'[n] /\ lockedHash'[n] = b
        BY <1>2 DEF Lock
      <3> QED
        BY <1>2, <3>1, <3>2
           DEF Next, vars, Prepare, Decide, PreparePOL, AdvanceRound,
               CommitOldBlock, LockOnCommits, Discard, Leave, Restart
    <2>2. TypeOK'
      BY TypeStep
    <2>3. lockedRound'[n] \in Rounds /\ lockedRound'[n] <= r
      BY <2>1, <2>2 DEF LockFits
    <2>4. lockedRound'[n] \in Nat /\ b # NoBlock
      BY <2>3
    <2>5. \A s \in Rounds, c \in Rivals(b) :
             Voted(n, s, c)' => s < lockedRound'[n]
      BY <2>1, <2>4 DEF LockHeld
    <2>6. StillBound(n, b, lockedRound[n])'
      BY <2>1, <2>4, <2>5 DEF StillBound
    <2> QED
      BY <2>3, <2>6
  <1> QED
    BY <1>1, <1>2

\* COMMITs for old blocks never decide a block nobody had decided.
LEMMA DecidedCommittedStep ==
  ASSUME TypeOK, OldCommitsDecided, DecidedCommitted, [Next]_vars
  PROVE  DecidedCommitted'
  <1> USE BlocksAssumption DEF TypeOK, Votes
  <1> DEFINE Certified(b) == \E r \in Rounds : IsQuorum(Validators, Committed(r, b))
  <1>1. ASSUME NEW b, Certified(b)
        PROVE  Certified(b)'
    <2>1. commits \subseteq commits'
      BY DEF Next, vars, Prepare, Recommit, Decide, PreparePOL, AdvanceRound,
             CommitOldBlock, Lock, LockOnCommits, Discard, Leave, Restart
    <2>2. PICK r \in Rounds : IsQuorum(Validators, Committed(r, b))
      BY <1>1
    <2>3. /\ Committed(r, b) \subseteq Committed(r, b)'
          /\ Committed(r, b)' \in SUBSET Validators
      BY <2>1 DEF Committed
    <2> QED
      BY <2>2, <2>3, QuorumGrows
  <1>2. ASSUME NEW b \in Blocks, NEW r \in Rounds, CommitQuorum(r, b)
        PROVE  Certified(b)
    <2>1. CASE OldCommitted(r, b) = {}
      <3>1. Committed(r, b) \cup OldCommitted(r, b) = Committed(r, b)
        BY <2>1
      <3> QED
        BY <1>2, <3>1 DEF CommitQuorum
    <2>2. CASE OldCommitted(r, b) # {}
      BY <2>2 DEF OldCommitted, OldCommitsDecided, DecidedCommitted
    <2> QED
      BY <2>1, <2>2
  <1>3. ASSUME NEW n \in Validators, NEW b \in Blocks, <<n, b>> \in decided'
        PROVE  b \notin EmptyBlocks /\ Certified(b)
    <2>1. CASE <<n, b>> \in decided
      BY <2>1 DEF DecidedCommitted
    <2>2. CASE <<n, b>> \notin decided
      <3>1. b \notin EmptyBlocks /\ \E r \in Rounds : CommitQuorum(r, b)
        <4>1. ASSUME NEW p \in Validators, NEW x \in Blocks, Decide(p, x)
              PROVE  x = b
          BY <1>3, <2>2, <4>1 DEF Decide
        <4>2. ASSUME NEW p \in Validators, LockOnCommits(p)
              PROVE  /\ b \notin EmptyBlocks /\ round[p] \in Rounds
                     /\ CommitQuorum(round[p], b)
          BY <1>3, <2>2, <4>2 DEF LockOnCommits
        <4>3. \/ \E p \in Validators, x \in Blocks : Decide(p, x)
              \/ \E p \in Validators : LockOnCommits(p)
          BY <1>3, <2>2
             DEF Next, vars, Prepare, Recommit, PreparePOL, AdvanceRound,
                 CommitOldBlock, Lock, Discard, Leave, Restart
        <4> QED
          BY <4>1, <4>2, <4>3 DEF Decide
      <3> QED
        BY <3>1, <1>2
    <2> QED
      BY <2>1, <2>2
  <1> QED
    BY <1>1, <1>3 DEF DecidedCommitted

(* ----------------------------------------------------------------------- *)
(* Part 3: the counting argument.                                          *)

\* n will never send COMMIT for b in round r.
CannotCommit(n, r, b) ==
    /\ <<n, r, b>> \notin commits
    /\ \/ b.number < height[n]
       \/ b.number = height[n] /\ r < round[n]
       \/ \E c \in Rivals(b) : Voted(n, r, c)

\* Too many validators to leave a quorum of COMMITs for b in round r.
Blocking(r, b) == {n \in Reliable : CannotCommit(n, r, b)}

Voters(r, b) == Prepared(r, b) \cup Committed(r, b)

\* A non-empty set of natural numbers has a least element.
LEMMA LeastNatural ==
  ASSUME NEW T \in SUBSET Nat, T # {}
  PROVE  \E x \in T : \A y \in T : x <= y
  <1>1. PICK x \in T : \A y \in T : ~(<<y, x>> \in OpToRel(<, Nat))
    BY WFMin, NatLessThanWellFounded
  <1>2. \A y \in T : ~(y < x)
    BY <1>1 DEF OpToRel
  <1> QED
    BY <1>2

LEMMA Counts ==
  ASSUME NEW S \in SUBSET Validators
  PROVE  /\ IsFiniteSet(S)
         /\ Cardinality(S) \in Nat
         /\ Cardinality(S) <= Size(Validators)
         /\ Cardinality(Validators \ S) = Size(Validators) - Cardinality(S)
         /\ Size(Validators) \in Nat \ {0}
         /\ F(Validators) \in Nat
         /\ 3 * F(Validators) < Size(Validators)
  <1>1. /\ IsFiniteSet(Validators) /\ IsFiniteSet(S)
        /\ Cardinality(S) <= Cardinality(Validators)
    BY ValidatorsAssumption, FS_Subset
  <1>2. Cardinality(S) \in Nat /\ Cardinality(Validators) \in Nat
    BY <1>1, FS_CardinalityType
  <1>3. Cardinality(Validators) # 0
    BY <1>1, FS_EmptySet, ValidatorsAssumption
  <1>4. Validators \cap S = S
    OBVIOUS
  <1>5. Cardinality(Validators \ S) = Cardinality(Validators) - Cardinality(S)
    BY <1>1, <1>4, FS_Difference
  <1> QED
    BY <1>1, <1>2, <1>3, <1>5 DEF Size, F

LEMMA UnionBound ==
  ASSUME NEW S \in SUBSET Validators, NEW T \in SUBSET Validators
  PROVE  Cardinality(S \cup T) <= Cardinality(S) + Cardinality(T)
  <1>1. IsFiniteSet(S) /\ IsFiniteSet(T) /\ IsFiniteSet(S \cap T)
    BY Counts
  <1>2. /\ Cardinality(S \cap T) \in Nat
        /\ Cardinality(S) \in Nat /\ Cardinality(T) \in Nat
    BY <1>1, FS_CardinalityType
  <1>3. Cardinality(S \cup T)
           = Cardinality(S) + Cardinality(T) - Cardinality(S \cap T)
    BY <1>1, FS_Union
  <1> QED
    BY <1>2, <1>3

LEMMA SubsetBound ==
  ASSUME NEW T \in SUBSET Validators, NEW S \in SUBSET T
  PROVE  Cardinality(S) <= Cardinality(T)
  BY Counts, FS_Subset

\* The heart of the argument.  Once a quorum has voted for c in round s, more
\* than F reliable validators can never COMMIT another block b in a round r
\* up to s.  Take the first such s that has at most F of them.  Every other
\* reliable voter of (s, c) committed b in round r and was later released by
\* PREPAREs of a round before r, at a time when its lock on b was already
\* taken: it is outside the latest of those PREPARE quorums, so there are at
\* most F of them as well, and 2F + |Unreliable| voters are not a quorum.
LEMMA QuorumBlocks ==
  ASSUME Invariant, Tolerated,
         NEW r \in Rounds, NEW b \in Blocks \ EmptyBlocks,
         NEW t \in Rounds, r <= t, NEW d \in Rivals(b),
         IsQuorum(Validators, Voters(t, d))
  PROVE  F(Validators) < Cardinality(Blocking(r, b))
  <1> DEFINE N == Size(Validators)
             f == F(Validators)
             X == Blocking(r, b)
             Bad == {s \in Rounds : r <= s /\ \E c \in Rivals(b) :
                        IsQuorum(Validators, Voters(s, c))}
  <1> SUFFICES ASSUME ~(f < Cardinality(X)) PROVE FALSE
    OBVIOUS
  <1> USE RoundsAssumption, BlocksAssumption
  <1>1. PICK s \in Bad : \A y \in Bad : s <= y
    <2>1. Bad \in SUBSET Nat /\ t \in Bad
      OBVIOUS
    <2> QED
      BY <2>1, LeastNatural
  <1>2. PICK c \in Rivals(b) : IsQuorum(Validators, Voters(s, c))
    BY <1>1
  <1>3. /\ s \in Rounds /\ s \in Nat /\ r \in Nat /\ r <= s
        /\ b \in Blocks /\ b.number \in Nat
        /\ c \in Blocks /\ c.number = b.number /\ c # b
    BY <1>1 DEF Rivals
  <1> DEFINE Q == Voters(s, c)
             U == (Q \cap Reliable) \ X
  <1>4. /\ Q \in SUBSET Validators /\ X \in SUBSET Validators
        /\ U \in SUBSET Validators /\ Unreliable \in SUBSET Validators
    BY UnreliableAssumption
       DEF Voters, Prepared, Committed, Blocking, Reliable
  <1>5. \A n \in Q : Voted(n, s, c)
    BY DEF Voters, Prepared, Committed, Voted
  <1>6. ASSUME NEW n \in U
        PROVE  <<n, r, b>> \in commits /\ r < s
    <2>1. n \in Reliable /\ Voted(n, s, c) /\ ~CannotCommit(n, r, b)
      BY <1>5 DEF Blocking
    <2>2. b.number < height[n] \/ (b.number = height[n] /\ s <= round[n])
      BY <2>1, <1>3 DEF Invariant, VotesInPast
    <2>3. n \in Validators /\ round[n] \in Nat /\ height[n] \in Nat
      BY <2>1 DEF Invariant, TypeOK, Reliable
    <2>4. CASE r = s
      <3>1. <<n, r, b>> \in commits
        BY <1>2, <2>1, <2>4 DEF CannotCommit
      <3>2. Voted(n, s, b)
        BY <3>1, <2>4 DEF Voted
      <3> QED
        BY <1>2, <1>3, <2>1, <3>2 DEF Invariant, OneVotePerRound
    <2>5. CASE r < s
      BY <1>3, <2>1, <2>2, <2>3, <2>5 DEF CannotCommit
    <2> QED
      BY <1>3, <2>4, <2>5
  \* a is the round of PREPAREs that released n.
  <1> DEFINE Rel(n, a) ==
        /\ a \in Rounds /\ a < r
        /\ \E e \in Rivals(b) : PrepareQuorum(a, e)
        /\ \A q \in Rounds, e \in Rivals(b) :
              Voted(n, q, e) => q < a \/ r <= q
  <1>7. ASSUME NEW n \in U
        PROVE  \E a \in Rounds : Rel(n, a)
    <2>1. n \in Reliable /\ Voted(n, s, c)
      BY <1>5
    <2>2. <<n, r, b>> \in commits /\ r < s
      BY <1>6
    <2>3. PICK l \in Rounds :
             /\ l <= r
             /\ \/ StillBound(n, b, l)
                \/ \E a \in Rounds, e \in Rivals(b) :
                      Released(n, b, l, r, a, e)
      BY <2>1, <2>2 DEF Invariant, CommitBinds
    <2>4. l \in Nat /\ l <= s
      BY <1>3, <2>2, <2>3
    <2>5. ~StillBound(n, b, l)
      BY <1>2, <1>3, <2>1, <2>4 DEF StillBound
    <2>6. PICK a \in Rounds, e \in Rivals(b) : Released(n, b, l, r, a, e)
      BY <2>3, <2>5
    <2>7. a \in Nat /\ l <= a /\ a < s /\ PrepareQuorum(a, e)
      BY <1>2, <1>3, <2>1, <2>4, <2>6 DEF Released
    <2>8. a < r
      <3>1. /\ Prepared(a, e) \subseteq Voters(a, e)
            /\ Voters(a, e) \in SUBSET Validators
        BY DEF Voters, Prepared, Committed
      <3>2. IsQuorum(Validators, Voters(a, e))
        BY <2>7, <3>1, QuorumGrows DEF PrepareQuorum
      <3>3. r <= a => a \in Bad
        BY <2>6, <3>2
      <3> QED
        BY <1>1, <1>3, <2>7, <3>3
    <2>9. ASSUME NEW q \in Rounds, NEW g \in Rivals(b), Voted(n, q, g)
          PROVE  q < a \/ r <= q
      BY <1>3, <2>4, <2>6, <2>7, <2>9 DEF Released
    <2> QED
      BY <2>6, <2>7, <2>8, <2>9
  <1>8. Cardinality(U) <= f
    <2>1. CASE U = {}
      BY <2>1, Counts, FS_EmptySet
    <2>2. CASE U # {}
      <3> DEFINE Ages == {k \in Nat : \E n \in U, a \in Rounds :
                                         Rel(n, a) /\ k = r - a}
      <3>1. Ages \in SUBSET Nat /\ Ages # {}
        <4>1. PICK n \in U : TRUE
          BY <2>2
        <4>2. PICK a \in Rounds : Rel(n, a)
          BY <1>7
        <4>3. r - a \in Nat
          BY <1>3, <4>2
        <4>4. r - a \in Ages
          BY <4>2, <4>3
        <4> QED
          BY <4>4
      <3>2. PICK k \in Ages : \A j \in Ages : k <= j
        BY <3>1, LeastNatural
      <3>3. PICK m \in U, top \in Rounds : Rel(m, top) /\ k = r - top
        BY <3>2
      <3>4. PICK e \in Rivals(b) : PrepareQuorum(top, e)
        BY <3>3
      <3>5. ASSUME NEW n \in U
            PROVE  n \notin Prepared(top, e)
        <4>1. PICK a \in Rounds : Rel(n, a)
          BY <1>7
        <4>2. r - a \in Nat /\ a \in Nat /\ top \in Nat /\ top < r
          BY <1>3, <3>3, <4>1
        <4>3. r - a \in Ages
          BY <4>1, <4>2
        <4>4. k <= r - a
          BY <3>2, <4>3
        <4>5. a <= top
          BY <1>3, <3>3, <4>2, <4>4
        <4>6. ~Voted(n, top, e)
          BY <3>4, <4>1, <4>2, <4>5
        <4> QED
          BY <4>6 DEF Prepared, Voted
      <3>6. /\ Prepared(top, e) \in SUBSET Validators
            /\ U \in SUBSET (Validators \ Prepared(top, e))
        BY <1>4, <3>5 DEF Prepared
      <3> DEFINE P == Prepared(top, e)
      <3>7. Cardinality(U) <= Cardinality(Validators \ P)
        BY <3>6, SubsetBound
      <3>8. /\ Cardinality(U) \in Nat /\ Cardinality(P) \in Nat
            /\ Size(Validators) \in Nat /\ F(Validators) \in Nat
            /\ Cardinality(Validators \ P) = Size(Validators) - Cardinality(P)
        BY <1>4, <3>6, Counts
      <3>9. Cardinality(P) >= Size(Validators) - F(Validators)
        BY <3>4 DEF PrepareQuorum, IsQuorum, Threshold
      <3> HIDE DEF U, P
      <3> QED
        BY <3>7, <3>8, <3>9
    <2> QED
      BY <2>1, <2>2
  <1>9. Cardinality(Q) <= Cardinality(U) + Cardinality(X) + Cardinality(Unreliable)
    <2>1. Q \in SUBSET ((U \cup X) \cup Unreliable)
      BY <1>4 DEF Reliable
    <2>2. (U \cup X) \in SUBSET Validators /\ (U \cup X) \cup Unreliable \in SUBSET Validators
      BY <1>4
    <2>3. /\ Cardinality(Q) <= Cardinality((U \cup X) \cup Unreliable)
          /\ Cardinality((U \cup X) \cup Unreliable)
                <= Cardinality(U \cup X) + Cardinality(Unreliable)
          /\ Cardinality(U \cup X) <= Cardinality(U) + Cardinality(X)
      BY <1>4, <2>1, <2>2, SubsetBound, UnionBound
    <2>4. /\ Cardinality(Q) \in Nat /\ Cardinality(U) \in Nat
          /\ Cardinality(X) \in Nat /\ Cardinality(Unreliable) \in Nat
          /\ Cardinality(U \cup X) \in Nat
          /\ Cardinality((U \cup X) \cup Unreliable) \in Nat
      BY <1>4, <2>2, Counts
    <2> HIDE DEF Q, U, X
    <2> QED
      BY <2>3, <2>4
  <1>10. /\ Cardinality(Q) \in Nat /\ Cardinality(U) \in Nat
         /\ Cardinality(X) \in Nat /\ Cardinality(Unreliable) \in Nat
         /\ N \in Nat /\ f \in Nat
    BY <1>4, Counts
  <1>11. Cardinality(Q) >= N - f /\ 3 * f + Cardinality(Unreliable) < N
    BY <1>2 DEF IsQuorum, Threshold, Tolerated
  <1> HIDE DEF Q, U, X, N, f
  <1> QED
    BY <1>8, <1>9, <1>10, <1>11

\* Two quorums of COMMITs, in any two rounds, are for the same block.
LEMMA CommitQuorumsAgree ==
  ASSUME Invariant, Tolerated,
         NEW r \in Rounds, NEW b \in Blocks \ EmptyBlocks,
         NEW s \in Rounds, NEW c \in Blocks \ EmptyBlocks, r <= s,
         c.number = b.number,
         IsQuorum(Validators, Committed(r, b)),
         IsQuorum(Validators, Committed(s, c))
  PROVE  b = c
  <1> SUFFICES ASSUME c # b PROVE FALSE
    OBVIOUS
  <1>1. IsQuorum(Validators, Voters(s, c))
    <2>1. Committed(s, c) \subseteq Voters(s, c) /\ Voters(s, c) \in SUBSET Validators
      BY DEF Voters, Prepared, Committed
    <2> QED
      BY <2>1, QuorumGrows
  <1> DEFINE X == Blocking(r, b)
             C == Committed(r, b)
  <1>2. F(Validators) < Cardinality(X)
    <2>1. c \in Rivals(b)
      BY DEF Rivals
    <2> QED
      BY <1>1, <2>1, QuorumBlocks
  <1>3. C \in SUBSET Validators /\ X \in SUBSET (Validators \ C)
    BY DEF Blocking, CannotCommit, Committed, Reliable
  <1>4. Cardinality(X) <= Cardinality(Validators \ C)
    BY <1>3, SubsetBound
  <1>5. /\ Cardinality(X) \in Nat /\ Cardinality(C) \in Nat
        /\ Size(Validators) \in Nat /\ F(Validators) \in Nat
        /\ Cardinality(Validators \ C) = Size(Validators) - Cardinality(C)
    BY <1>3, Counts
  <1>6. Cardinality(C) >= Size(Validators) - F(Validators)
    BY DEF IsQuorum, Threshold
  <1> HIDE DEF X, C
  <1> QED
    BY <1>2, <1>4, <1>5, <1>6

LEMMA InvariantAgreement == Invariant /\ Tolerated => Agreement
  <1> SUFFICES ASSUME Invariant, Tolerated,
                      NEW n \in Validators, NEW m \in Validators,
                      NEW b \in Blocks, NEW c \in Blocks,
                      <<n, b>> \in decided, <<m, c>> \in decided,
                      c.number = b.number
               PROVE  b = c
    BY DEF Agreement, Rivals
  <1>1. b \notin EmptyBlocks /\ c \notin EmptyBlocks
    BY DEF Invariant, DecidedCommitted
  <1>2. PICK r \in Rounds : IsQuorum(Validators, Committed(r, b))
    BY DEF Invariant, DecidedCommitted
  <1>3. PICK s \in Rounds : IsQuorum(Validators, Committed(s, c))
    BY DEF Invariant, DecidedCommitted
  <1>4. r <= s \/ s <= r
    BY RoundsAssumption
  <1> QED
    BY <1>1, <1>2, <1>3, <1>4, CommitQuorumsAgree

(* ----------------------------------------------------------------------- *)
(* The theorems.                                                           *)

LEMMA InvariantInit == Init => Invariant
  BY TypeInit, BlocksAssumption
     DEF Init, Invariant, OfHeight, VotesInPast, OneVotePerRound, LockFits, LockHeld,
         CommitBinds, OldCommitsDecided, DecidedCommitted, Voted, Reliable

LEMMA InvariantStep == Invariant /\ [Next]_vars => Invariant'
  <1> SUFFICES ASSUME Invariant, [Next]_vars PROVE Invariant'
    OBVIOUS
  <1>1. /\ TypeOK /\ OfHeight /\ VotesInPast /\ OneVotePerRound
        /\ LockFits /\ LockHeld
        /\ CommitBinds /\ OldCommitsDecided /\ DecidedCommitted
    BY DEF Invariant
  <1>2. TypeOK' /\ OfHeight' /\ VotesInPast' /\ OneVotePerRound'
    BY <1>1, TypeStep, OfHeightStep, VotesInPastStep, OneVotePerRoundStep
  <1>3. LockFits' /\ LockHeld'
    BY <1>1, LockFitsStep, LockHeldStep
  <1>4. CommitBinds' /\ OldCommitsDecided' /\ DecidedCommitted'
    BY <1>1, <1>3, CommitBindsStep, OldCommitsDecidedStep, DecidedCommittedStep
  <1> QED
    BY <1>2, <1>3, <1>4 DEF Invariant

\* The variables of the voting rules keep their types.
THEOREM TypeCorrect == Spec => []TypeOK
  BY TypeInit, TypeStep, PTL DEF Spec

\* The lock discipline of handlePreprepare, handlePrepare and handleCommit:
\* one vote per round, votes for the locked block only, and a COMMIT that
\* binds its sender until a PREPARE quorum of another block releases it.
THEOREM LockDiscipline == Spec => []Invariant
  BY InvariantInit, InvariantStep, PTL DEF Spec

\* No two validators store different blocks of one number, for any number of
\* validators, of which fewer than Size - 3F may restart or lose their lock.
THEOREM AgreementHolds ==
  ASSUME Tolerated
  PROVE  Spec => []Agreement
  <1>1. Invariant => Agreement
    BY InvariantAgreement
  <1> QED
    BY <1>1, LockDiscipline, PTL
=============================================================================
