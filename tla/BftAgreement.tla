---------------------------- MODULE BftAgreement ----------------------------
(***************************************************************************)
(* Agreement of one height, and the inductive invariant behind it.         *)
(*                                                                         *)
(* The argument is the usual one for locking protocols, with two twists    *)
(* that come from this code: a validator counts votes it signed but never  *)
(* broadcast, and after a crash it may lose them, and even drop a lock.    *)
(* Both are harmless because what is said about a validator is anchored    *)
(* in votes it did broadcast (Blocked), or is the validator's own concern. *)
(***************************************************************************)
EXTENDS BftVoting

\* Fewer than a third of the voting power is Byzantine.
ASSUME ByzantineMinority == Power[Byzantine] * 3 < Power[Validators]

\* Two honest validators never store different blocks for the height, the
\* safety invariant consensus.rs states for its locked-value rule.
Agreement ==
    \A v, w \in Honest :
        committed[v] # Nil /\ committed[w] # Nil => committed[v] = committed[w]

-----------------------------------------------------------------------------
Quorums == {Q \in SUBSET Validators : has_supermajority_power(Q)}

\* w has broadcast a vote of a later round and holds no precommit for b in
\* round r: it will never sign one.
Blocked(w, r, b) ==
    /\ \E m \in sent : m.validator = w /\ m.round > r
    /\ Vote("precommit", w, r, b) \notin own[w]

\* Block b cannot be committed by the precommits of round r.
AllBlocked(r, b) ==
    \A Q \in Quorums : \E w \in Q \cap Honest : Blocked(w, r, b)

\* A broadcast vote is remembered by the validator that signed it.
SentIsOwn == \A m \in sent : m.validator \in Honest => m \in own[m.validator]

\* Votes and locks are of rounds the validator has entered.
RoundsEntered ==
    \A w \in Honest :
        /\ \A m \in own[w] : m.validator = w /\ m.round =< round[w]
        /\ \A k \in locks[w] : k.round =< round[w]
        /\ lock[w] = NoLock \/ lock[w] \in locks[w]

\* One vote per type and round.
OneVote ==
    \A w \in Honest : \A m, n \in own[w] :
        m.type = n.type /\ m.round = n.round => m.value = n.value

\* A precommit for a block is guarded by the lock in force, or superseded
\* by a later lock on another block.
PrecommitCovered ==
    \A w \in Honest : \A m \in own[w] :
        m.type = "precommit" /\ m.value # Nil =>
            /\ [round |-> m.round, value |-> m.value] \in locks[w]
            /\ \/ Covers(lock[w], m)
               \/ \E k \in locks[w] : k.round > m.round /\ k.value # m.value

\* Who prevotes for a block after precommitting another one knows that the
\* earlier precommit is dead.
PrevoteSafe ==
    \A w \in Honest : \A m \in own[w] :
        m.type = "prevote" /\ m.value # Nil =>
            \A r \in Rounds, b \in Blocks :
                /\ r < m.round
                /\ b # m.value
                /\ Vote("precommit", w, r, b) \in own[w]
                => AllBlocked(r, b)

\* A lock rules out every other block in every earlier round.
LockSafe ==
    \A w \in Honest : \A k \in locks[w] :
        \A r \in Rounds, b \in Blocks, Q \in Quorums :
            r < k.round /\ b # k.value =>
                \E u \in Q \cap Honest :
                    \/ Blocked(u, r, b)
                    \/ u = w /\ Vote("precommit", w, r, b) \notin own[w]

\* A stored block is backed by a precommit quorum.
CommitBacked ==
    \A v \in Honest :
        committed[v] # Nil => \E r \in Rounds : has_commit_for(v, r, committed[v])

IInv ==
    /\ TypeOK
    /\ SentIsOwn
    /\ RoundsEntered
    /\ OneVote
    /\ PrecommitCovered
    /\ PrevoteSafe
    /\ LockSafe
    /\ CommitBacked
=============================================================================
