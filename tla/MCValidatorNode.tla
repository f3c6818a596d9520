--------------------------- MODULE MCValidatorNode ---------------------------
(***************************************************************************)
(* Instances of ValidatorNode for TLC: three validators of equal stake, so *)
(* two make a quorum and two a round skip.  Each instance fixes the        *)
(* messages the two others may send, in any order, any number of times.    *)
(***************************************************************************)
EXTENDS ValidatorNode

CONSTANTS me, v1, v2, A, B

MCValidators == {me, v1, v2}
MCPower == [S \in SUBSET MCValidators |-> Cardinality(S)]

Prevote(v, r, b) == Vote("prevote", v, r, b)
Precommit(v, r, b) == Vote("precommit", v, r, b)
Proposal(r, b, vr, v) ==
    [round |-> r, block |-> b, valid_round |-> vr, proposer |-> v]

\* Crashes: a lock on B taken in round 0 with or without its block, a commit
\* quorum of round 0, and round 1, which this validator leads, with block A.
CrashLeader == [r \in Rounds |-> IF r = 1 THEN me ELSE v1]
CrashVotes ==
    {Prevote(v1, 0, B), Prevote(v2, 0, B), Precommit(v1, 0, B), Precommit(v2, 0, B),
     Prevote(v1, 1, A)}
CrashProposals == {Proposal(0, B, -1, v1)}

\* Skipping: v1 precommits B in round 0, and it and v2 then vote in round 1 as
\* validators that follow the protocol do.
SkipVotes ==
    {Prevote(v1, 0, B), Precommit(v1, 0, B), Prevote(v1, 1, B), Prevote(v2, 1, Nil)}

\* Rounds: a lock on B in round 0, a polka for A in round 1 and its proposal
\* in round 2, so that the lock is released; a nil quorum; two different
\* prevotes of v1; enough votes in round 1 to skip to it.
RoundsVotes ==
    {Prevote(v1, 0, B), Prevote(v1, 0, Nil), Prevote(v1, 1, A), Prevote(v2, 1, A),
     Precommit(v1, 0, Nil), Precommit(v1, 1, A)}
RoundsProposals == {Proposal(0, B, -1, v1), Proposal(2, A, 1, v1)}

\* Leading: this validator leads rounds 0 and 1 and may build A or B.
LeadingLeader == [r \in Rounds |-> IF r < 2 THEN me ELSE v1]
LeadingVotes ==
    {Prevote(v1, 0, A), Precommit(v1, 0, A), Prevote(v2, 1, Nil), Precommit(v1, 1, Nil)}
LeadingProposals == {Proposal(0, B, -1, v2)}
=============================================================================
