---------------------------- MODULE ConsensusWal ----------------------------
(***************************************************************************)
(* The consensus write-ahead log (validator/src/wal.rs) for one height.    *)
(* The log is the sequence of its entries; an entry is durable once its    *)
(* append returned.  Entries of committed heights do not survive the       *)
(* checkpoint that follows the commit, so only one height is kept.         *)
(***************************************************************************)
EXTENDS Integers, Sequences, SequencesExt, FiniteSetsExt

CONSTANT Nil   \* the nil vote

ProposalBlock(r, b) == [entry |-> "ProposalBlock", round |-> r, value |-> b]
SignedVote(m) == [entry |-> "SignedVote", vote |-> m]
Locked(r, b) == [entry |-> "Locked", round |-> r, value |-> b]

Entries(wal, kind) == {x \in ToSet(wal) : x.entry = kind}

\* One proposal block per round: the same block again is accepted without an
\* append, another one is refused.
ConflictingProposal(wal, r, b) ==
    \E x \in Entries(wal, "ProposalBlock") : x.round = r /\ x.value # b

log_proposal_block(wal, r, b) ==
    IF \E x \in Entries(wal, "ProposalBlock") : x.round = r THEN wal
    ELSE Append(wal, ProposalBlock(r, b))

has_proposal_block(wal, b) ==
    \E x \in Entries(wal, "ProposalBlock") : x.value = b

ensure_no_conflicting_signed_vote(wal, m) ==
    \A x \in Entries(wal, "SignedVote") :
        x.vote.type = m.type /\ x.vote.round = m.round => x.vote = m

log_signed_vote(wal, m) == Append(wal, SignedVote(m))
log_lock(wal, r, b) == Append(wal, Locked(r, b))

-----------------------------------------------------------------------------
(***************************************************************************)
(* Recovery.  The lock is the last one logged, or a later precommit for a  *)
(* block, which implies one.                                               *)
(***************************************************************************)
ReplayLock(lock, x) ==
    CASE x.entry = "Locked" -> [round |-> x.round, value |-> x.value]
      [] /\ x.entry = "SignedVote"
         /\ x.vote.type = "precommit"
         /\ x.vote.value # Nil
         /\ x.vote.round >= lock.round ->
             [round |-> x.vote.round, value |-> x.vote.value]
      [] OTHER -> lock

\* Fault: the round is that of the lock, not that of the last vote.
fault_round_of_lock(wal) ==
    LET lock == FoldLeft(ReplayLock, [round |-> -1, value |-> Nil], wal)
        blocks == SelectSeq(wal, LAMBDA x : x.entry = "ProposalBlock")
    IN  [lock |-> lock,
         votes |-> {x.vote : x \in Entries(wal, "SignedVote")},
         proposals |-> [i \in DOMAIN blocks |->
                           [round |-> blocks[i].round, block |-> blocks[i].value]],
         round |-> lock.round]

recover(wal) ==
    LET lock == FoldLeft(ReplayLock, [round |-> -1, value |-> Nil], wal)
        votes == {x.vote : x \in Entries(wal, "SignedVote")}
        blocks == SelectSeq(wal, LAMBDA x : x.entry = "ProposalBlock")
    IN  [lock |-> lock,
         votes |-> votes,
         proposals |-> [i \in DOMAIN blocks |->
                           [round |-> blocks[i].round, block |-> blocks[i].value]],
         round |-> Max({lock.round} \cup {m.round : m \in votes})]
=============================================================================
