----------------------------- MODULE MCBftVoting -----------------------------
(***************************************************************************)
(* BftVoting on a small instance: three honest validators and a Byzantine  *)
(* one, each of stake 1 (a quorum is any three), two blocks, two rounds.   *)
(* MaxVotes bounds the honest votes, MaxNil the nil votes among them and   *)
(* MaxUnsent the votes signed but not yet broadcast.                       *)
(***************************************************************************)
EXTENDS BftAgreement, FiniteSets, TLC

CONSTANTS v1, v2, v3, z, blockA, blockB, MaxVotes, MaxNil, MaxUnsent

MCValidators == {v1, v2, v3, z}
MCBlocks == {blockA, blockB}
MCRounds == 0 .. 1
MCPower == [S \in SUBSET MCValidators |-> Cardinality(S)]

\* The Byzantine validator signs every vote, before the others start.
MCForgeries ==
    {[type : {"prevote", "precommit"}, validator : {z}, round : MCRounds,
      value : MCBlocks \cup {Nil}]}

SignedVotes == UNION {own[v] : v \in Honest}

WithinBounds ==
    /\ Cardinality(SignedVotes) =< MaxVotes
    /\ Cardinality({m \in SignedVotes : m.value = Nil}) =< MaxNil
    /\ Cardinality(SignedVotes \ sent) =< MaxUnsent
    /\ UNION Forgeries \subseteq sent

MCSpec == Init /\ [][Next /\ WithinBounds']_vars

\* Equal stakes make the honest validators interchangeable, and so are the blocks.
Symmetry == Permutations({v1, v2, v3}) \cup Permutations(MCBlocks)
=============================================================================
