----------------------------- MODULE MCBlockSync -----------------------------
(***************************************************************************)
(* Instances of BlockSync for TLC: a short committed chain and, for some   *)
(* runs, a block without certificate that competes with one of its blocks. *)
(***************************************************************************)
EXTENDS BlockSync

CONSTANTS g, a1, a2, b2, v, w

Block(s, val, h, p, c) ==
    [slot |-> s, validator |-> val, hash |-> h, parent |-> p, certified |-> c]

MCGenesis == Block(0, v, g, g, TRUE)
A1 == Block(1, v, a1, g, TRUE)
A2 == Block(2, v, a2, a1, TRUE)
B2 == Block(2, w, b2, g, FALSE)

Chain == {MCGenesis, A1, A2}
Forked == Chain \cup {B2}
NoGossip == {}
LateGossip == {A2}

\* FairSpec up to the point where the node has caught up.  A behaviour that
\* violates CatchesUp never gets there, so none is lost.
JoinSpec == Init /\ [][Tip.slot < MaxSlot /\ Next]_vars /\ Fairness

================================================================================
