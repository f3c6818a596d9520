--------------------------- MODULE ConsensusEngine ---------------------------
(***************************************************************************)
(* The consensus engine of one validator for one height                    *)
(* (validator/src/consensus.rs).  The engine is a pure state machine: each *)
(* handler takes the engine and an input and returns the new engine and    *)
(* the actions that the driver has to carry out, in order.                 *)
(*                                                                         *)
(* Signatures, timestamps and block contents are left out: a block is its  *)
(* hash, and a message that reaches a handler is well signed.  The seen_*  *)
(* maps, the vote buckets and the signed_*_rounds maps always hold the     *)
(* same votes and are one set; the cached tallies are functions of it.     *)
(***************************************************************************)
EXTENDS Integers, Sequences

CONSTANTS
    Self,           \* this validator
    Validators,     \* the height-frozen eligible validators
    Blocks, Nil,    \* block hashes, and the nil vote
    Power,          \* voting power of every set of validators
    Leader,         \* Leader[r]: the proposer of round r
    CatchUpLimit    \* iterations of the fast catch-up loop (100 in the code)

Values == Blocks \cup {Nil}
Steps == {"Propose", "Prevote", "Precommit", "Commit"}
Vote(t, v, r, b) == [type |-> t, validator |-> v, round |-> r, value |-> b]
NoLock == [round |-> -1, value |-> Nil]

-----------------------------------------------------------------------------
(***************************************************************************)
(* The engine, and the results of its handlers.                            *)
(***************************************************************************)
start_height ==
    [round |-> 0, step |-> "Propose",
     locked |-> NoLock,      \* locked_round, locked_value
     valid |-> NoLock,       \* valid_round, valid_value
     proposals |-> {},       \* at most one proposal per round
     blocks |-> {},          \* the hashes of proposal_blocks
     votes |-> {}]           \* the votes counted, the own ones included

Result(e, acts) == [eng |-> e, acts |-> acts]
Ignore(e) == Result(e, <<>>)
Prepend(acts, res) == Result(res.eng, acts \o res.acts)

StartRound(r) == [kind |-> "start_round", round |-> r]
BroadcastProposal(r, b) == [kind |-> "proposal", round |-> r, value |-> b]
BroadcastVote(t, r, b) == [kind |-> t, round |-> r, value |-> b]
CommitBlock(r, b) == [kind |-> "commit", round |-> r, value |-> b]
RequestBlockRange(b) == [kind |-> "request", value |-> b]

-----------------------------------------------------------------------------
(***************************************************************************)
(* Votes and voting power.                                                 *)
(***************************************************************************)
Seen(e, t, r, v) == \E b \in Values : Vote(t, v, r, b) \in e.votes
Bucket(e, t, r, b) == {v \in Validators : Vote(t, v, r, b) \in e.votes}

has_supermajority_power(S) ==
    /\ Power[Validators] > 0
    /\ Power[S] * 3 >= Power[Validators] * 2

Supermajority(e, t, r, b) == has_supermajority_power(Bucket(e, t, r, b))
Record(e, m) == [e EXCEPT !.votes = @ \cup {m}]

-----------------------------------------------------------------------------
(***************************************************************************)
(* Steps and rounds.                                                       *)
(***************************************************************************)
ValidTransitions ==
    {<<"Propose", "Prevote">>, <<"Prevote", "Precommit">>,
     <<"Precommit", "Commit">>, <<"Propose", "Commit">>,
     <<"Prevote", "Commit">>, <<"Prevote", "Prevote">>,
     <<"Precommit", "Precommit">>}

transition_to(e, s) ==
    IF <<e.step, s>> \in ValidTransitions THEN [e EXCEPT !.step = s] ELSE e

\* Fault: the step of the old round is kept.
fault_step_kept(e, r) ==
    Result([e EXCEPT !.round = r], <<StartRound(r)>>)

start_round(e, r) ==
    Result([e EXCEPT !.round = r, !.step = "Propose"], <<StartRound(r)>>)

\* Signs a precommit for the current round, at most once.  The own vote can
\* complete a commit quorum, or a nil quorum that ends the round.
do_precommit(e, b) ==
    IF Seen(e, "precommit", e.round, Self) THEN Ignore(e)
    ELSE LET e1 == Record(e, Vote("precommit", Self, e.round, b))
             quorum == Supermajority(e1, "precommit", e.round, b)
         IN  Prepend(<<BroadcastVote("precommit", e.round, b)>>,
                 CASE quorum /\ b \in e.blocks ->
                          Result(transition_to(e1, "Commit"),
                                 <<CommitBlock(e.round, b)>>)
                   [] quorum /\ b = Nil -> start_round(e1, e.round + 1)
                   [] OTHER -> Ignore(e1))

\* A polka of the current round: the block becomes the valid value if it is
\* known, is locked in any case, and is precommitted.
LockAndPrecommit(e, b) ==
    do_precommit(
        transition_to(
            [e EXCEPT !.valid = [round |-> e.round,
                                 value |-> IF b \in e.blocks THEN b
                                           ELSE e.valid.value],
                      !.locked = [round |-> e.round, value |-> b]],
            "Precommit"),
        b)

\* Fault: a nil precommit drops the lock.
fault_nil_precommit_unlocks(e) ==
    do_precommit(transition_to([e EXCEPT !.locked = NoLock], "Precommit"), Nil)

PrecommitNil(e) == do_precommit(transition_to(e, "Precommit"), Nil)

\* Signs a prevote for the current round, at most once.  The own vote can
\* complete a polka.
do_prevote(e, b) ==
    IF Seen(e, "prevote", e.round, Self) THEN Ignore(e)
    ELSE LET e1 == Record(transition_to(e, "Prevote"),
                          Vote("prevote", Self, e.round, b))
         IN  Prepend(<<BroadcastVote("prevote", e.round, b)>>,
                 CASE ~Supermajority(e1, "prevote", e.round, b) -> Ignore(e1)
                   [] b = Nil -> PrecommitNil(e1)
                   [] OTHER -> LockAndPrecommit(e1, b))

-----------------------------------------------------------------------------
(***************************************************************************)
(* Proposals.                                                              *)
(***************************************************************************)
\* Fault: the proposer's word is taken for the polka.
fault_unlock_without_polka(e, p) ==
    \/ e.locked = NoLock
    \/ e.locked.value = p.block
    \/ p.valid_round > e.locked.round

should_prevote_proposal_block(e, p) ==
    \/ e.locked = NoLock
    \/ e.locked.value = p.block
    \/ /\ p.valid_round >= 0
       /\ p.valid_round > e.locked.round
       /\ Supermajority(e, "prevote", p.valid_round, p.block)

prevote_for_current_round_proposal(e, p) ==
    IF p.round # e.round \/ e.step # "Propose" THEN Ignore(e)
    ELSE do_prevote(e, IF should_prevote_proposal_block(e, p)
                       THEN p.block ELSE Nil)

process_current_round_proposal_if_present(e) ==
    IF \E p \in e.proposals : p.round = e.round
    THEN prevote_for_current_round_proposal(
             e, CHOOSE p \in e.proposals : p.round = e.round)
    ELSE Ignore(e)

StoreProposal(e, p) ==
    [e EXCEPT !.blocks = @ \cup {p.block},
              !.proposals = {q \in @ : q.round # p.round} \cup {p}]

\* A proposal of a past round, or not from the round's leader, is ignored; one
\* of a future round is kept for later.
on_proposal(e, p) ==
    IF p.round < e.round \/ p.proposer # Leader[p.round] THEN Ignore(e)
    ELSE prevote_for_current_round_proposal(StoreProposal(e, p), p)

\* The leader proposes the block it is locked on, else its valid value, else
\* the fresh block, and prevotes for it.  Locked on a block it does not have,
\* it proposes nothing.
create_proposal(e, fresh) ==
    LET locked == e.locked # NoLock
        b == CASE locked -> e.locked.value
               [] ~locked /\ e.valid.value # Nil -> e.valid.value
               [] OTHER -> fresh
        vr == CASE locked -> e.locked.round
                [] ~locked /\ e.valid.value # Nil -> e.valid.round
                [] OTHER -> -1
        p == [round |-> e.round, block |-> b, valid_round |-> vr,
              proposer |-> Self]
    IN  IF \/ e.step # "Propose"
           \/ locked /\ b \notin e.blocks \cup {e.valid.value}
        THEN Ignore(e)
        ELSE Prepend(<<BroadcastProposal(e.round, b)>>,
                     do_prevote(StoreProposal(e, p), b))

-----------------------------------------------------------------------------
(***************************************************************************)
(* Round skip.  When more than a third of the power has voted in later     *)
(* rounds, the engine joins the highest of them.  It prevotes for the      *)
(* proposal it holds for that round, or nil; a nil quorum that its own     *)
(* votes complete takes it one round further, where it starts over.        *)
(***************************************************************************)
FutureVotes(e) == {m \in e.votes : m.round > e.round}

JoinRound(res) ==
    LET e == res.eng
        stored == \E p \in e.proposals : p.round = e.round
        vote == IF stored THEN process_current_round_proposal_if_present(e)
                ELSE do_prevote(e, Nil)
    IN  [eng |-> vote.eng, acts |-> res.acts \o vote.acts,
         again |-> ~stored /\ vote.eng.round > e.round]

check_round_skip(e) ==
    LET future == FutureVotes(e)
        max == CHOOSE r \in {m.round : m \in future} :
                   \A m \in future : m.round =< r
        enter == start_round(e, max)
        join[k \in 0 .. CatchUpLimit] ==
            IF k = 0 THEN [eng |-> enter.eng, acts |-> enter.acts, again |-> TRUE]
            ELSE LET res == join[k - 1]
                 IN  IF res.again THEN JoinRound(res) ELSE res
    IN  IF future # {} /\ Power[{m.validator : m \in future}] * 3 > Power[Validators]
        THEN Result(join[CatchUpLimit].eng, join[CatchUpLimit].acts)
        ELSE Ignore(e)

-----------------------------------------------------------------------------
(***************************************************************************)
(* Votes of other validators.  Two blocks cannot both have a supermajority *)
(* of the votes counted for one round, so the CHOOSE is unique.            *)
(***************************************************************************)
Winners(e, t, r) == {b \in Blocks : Supermajority(e, t, r, b)}
Winner(e, t, r) == CHOOSE b \in Blocks : b \in Winners(e, t, r)

on_prevote(e, m) ==
    LET e1 == Record(e, m)
        current == m.round = e.round /\ e.step = "Prevote"
    IN  IF Seen(e, "prevote", m.round, m.validator) THEN Ignore(e)
        ELSE CASE m.round > e.round -> check_round_skip(e1)
               [] current /\ Winners(e1, "prevote", m.round) # {} ->
                      LockAndPrecommit(e1, Winner(e1, "prevote", m.round))
               [] current /\ Supermajority(e1, "prevote", m.round, Nil) ->
                      PrecommitNil(e1)
               [] OTHER -> Ignore(e1)

\* A commit quorum of any round commits the block, in any step, or has it
\* fetched from peers when it is not known here.
on_precommit(e, m) ==
    LET e1 == Record(e, m)
        quorum == Winners(e1, "precommit", m.round) # {}
        b == Winner(e1, "precommit", m.round)
        rest == CASE m.round > e.round -> check_round_skip(e1)
                  [] /\ m.round = e.round
                     /\ Supermajority(e1, "precommit", m.round, Nil) ->
                         start_round(e1, e.round + 1)
                  [] OTHER -> Ignore(e1)
    IN  IF Seen(e, "precommit", m.round, m.validator) \/ e.step = "Commit"
        THEN Ignore(e)
        ELSE CASE ~quorum -> rest
               [] quorum /\ b \in e.blocks ->
                      Result(transition_to(e1, "Commit"),
                             <<CommitBlock(m.round, b)>>)
               [] OTHER -> Prepend(<<RequestBlockRange(b)>>, rest)

\* Fault: the prevote timeout is ignored.
fault_prevote_timeout_ignored(e, step, round) ==
    IF round # e.round \/ step # e.step THEN Ignore(e)
    ELSE CASE step = "Propose" -> do_prevote(e, Nil)
           [] step = "Precommit" -> start_round(e, e.round + 1)
           [] OTHER -> Ignore(e)

on_timeout(e, step, round) ==
    IF round # e.round \/ step # e.step THEN Ignore(e)
    ELSE CASE step = "Propose" -> do_prevote(e, Nil)
           [] step = "Prevote" -> PrecommitNil(e)
           [] step = "Precommit" -> start_round(e, e.round + 1)
           [] OTHER -> Ignore(e)

-----------------------------------------------------------------------------
(***************************************************************************)
(* Recovery.  rec holds what the log gave back: the lock, the proposal     *)
(* blocks as a sequence of [round, block] and the own signed votes.        *)
(***************************************************************************)
LastRoundOf(rec, b) ==
    LET is == {i \in DOMAIN rec.proposals : rec.proposals[i].block = b}
    IN  rec.proposals[CHOOSE i \in is : \A j \in is : j =< i].round

\* Proposal blocks are restored before the precommits can raise the lock.
restore_proposal_blocks(e, rec) ==
    LET known == {rec.proposals[i].block : i \in DOMAIN rec.proposals}
    IN  [e EXCEPT !.blocks = known,
                  !.valid = IF e.locked.value \in known
                            THEN [round |-> LastRoundOf(rec, e.locked.value),
                                  value |-> e.locked.value]
                            ELSE NoLock]

restore_signed_votes(e, rec) ==
    LET higher == {m \in rec.votes : /\ m.type = "precommit" /\ m.value # Nil
                                     /\ m.round >= e.locked.round}
        top == CHOOSE m \in higher : \A n \in higher : n.round =< m.round
    IN  [e EXCEPT !.votes = rec.votes,
                  !.locked = IF higher = {} THEN @
                             ELSE [round |-> top.round, value |-> top.value]]

release_unrecoverable_lock_without_value(e, b) ==
    IF e.locked.value # b \/ b \in e.blocks THEN e
    ELSE [e EXCEPT !.locked = NoLock,
                   !.valid = IF @.value = b THEN NoLock ELSE @]

\* Fault: the engine resumes in the last round it voted in.
fault_resume_same_round(e, r) ==
    IF r > e.round THEN [e EXCEPT !.round = r - 1, !.step = "Propose"] ELSE e

resume_at_round_if_higher(e, r) ==
    IF r > e.round THEN [e EXCEPT !.round = r, !.step = "Propose"] ELSE e

\* What the driver does with the engine at startup.
Recover(rec) ==
    LET e1 == [start_height EXCEPT !.locked = rec.lock]
        e2 == restore_signed_votes(restore_proposal_blocks(e1, rec), rec)
        e3 == release_unrecoverable_lock_without_value(e2, rec.lock.value)
    IN  resume_at_round_if_higher(e3, rec.round + 1)
=============================================================================
