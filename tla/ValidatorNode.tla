---------------------------- MODULE ValidatorNode ----------------------------
(***************************************************************************)
(* One validator at one height: the consensus engine, its write-ahead log  *)
(* and the driver loop of validator/src/main.rs that connects them to the  *)
(* network, to timers and to the block store.  The other validators are    *)
(* the environment and may send any vote and any proposal.                 *)
(*                                                                         *)
(* The driver handles one event at a time.  A handler of the engine        *)
(* returns actions (todo), which the driver carries out one after the      *)
(* other: it logs a vote, then sends it.  It then logs a new lock and      *)
(* rearms the timer (settle).  The process may crash between any two of    *)
(* these steps, and an append to the log may fail.                         *)
(***************************************************************************)
EXTENDS ConsensusEngine, FiniteSets

CONSTANTS
    OwnBlocks,      \* the blocks this validator builds itself
    MaxRound,       \* bound: no round after MaxRound is entered
    OtherVotes,     \* bound: the votes that other validators may send
    OtherProposals, \* bound: the proposals [round, block, valid_round, proposer]
    MaxVotes,       \* bound: number of votes of other validators
    MaxFaults       \* bound: crashes, failed appends and failed commits

Wal == INSTANCE ConsensusWal

Others == Validators \ {Self}
Rounds == 0 .. MaxRound
NoTimer == [step |-> "None", round |-> -1]
NoBlock == Nil      \* build_block failed

VARIABLES
    up,             \* is the process running?
    eng,            \* bft: the engine
    wal,            \* consensus_wal: the entries
    last_wal_lock,  \* the lock last written by settle
    todo,           \* actions of the current event still to be carried out
    phase,          \* "idle", "event" or "timeout": where the loop stands
    timeout_handle, \* the armed timeout, or NoTimer
    propose_timer,  \* is the delayed proposal timer armed?
    net,            \* the votes sent by this validator and sent to it
    proposed,       \* the proposals [round, block] this validator has sent
    committed,      \* the block stored for this height, or Nil
    faults,         \* number of faults so far
    done            \* history: round, lock, locks and own votes of the engine
                    \* as far as its actions have been carried out

vars == <<up, eng, wal, last_wal_lock, todo, phase, timeout_handle,
          propose_timer, net, proposed, committed, faults, done>>

OwnVotes(S) == {m \in S : m.validator = Self}
LockSet == [round : Rounds, value : Blocks]

\* Between two events the history agrees with the engine.
TypeOK ==
    /\ up \in BOOLEAN
    /\ eng.round \in Rounds /\ eng.step \in Steps
    /\ eng.locked \in LockSet \cup {NoLock}
    /\ eng.blocks \subseteq Blocks
    /\ \A p, q \in eng.proposals : p.round = q.round => p = q
    /\ timeout_handle = NoTimer
       \/ timeout_handle \in [step : Steps, round : Rounds]
    /\ phase \in {"idle", "event", "timeout"}
    /\ committed \in Values
    /\ faults \in 0 .. MaxFaults
    /\ up /\ phase = "idle" /\ todo = <<>> =>
           /\ done.round = eng.round
           /\ done.lock = eng.locked
           /\ done.own = OwnVotes(eng.votes)

-----------------------------------------------------------------------------
Armed(step, round) == [step |-> step, round |-> round]

Init ==
    /\ up = TRUE
    /\ eng = start_height
    /\ wal = <<>>
    /\ last_wal_lock = NoLock
    /\ todo = <<>>
    /\ phase = "idle"
    /\ timeout_handle = Armed("Propose", 0)
    /\ propose_timer = (Leader[0] = Self)
    /\ net = {}
    /\ proposed = {}
    /\ committed = Nil
    /\ faults = 0
    /\ done = [round |-> 0, lock |-> NoLock, locks |-> {}, own |-> {}]

Running == up /\ committed = Nil
Idle == Running /\ phase = "idle" /\ todo = <<>>

\* The engine handled an event; its actions are to be carried out next.
Handle(res, next) ==
    /\ res.eng.round =< MaxRound
    /\ eng' = res.eng
    /\ todo' = res.acts
    /\ phase' = next

-----------------------------------------------------------------------------
(***************************************************************************)
(* Events.                                                                 *)
(***************************************************************************)

\* A proposal is logged before the engine sees it, and dropped if the log
\* holds another block for its round.
recv_proposal(m) ==
    /\ Idle
    /\ IF Wal!ConflictingProposal(wal, m.round, m.block)
       THEN Handle(Ignore(eng), "event") /\ UNCHANGED wal
       ELSE /\ Handle(on_proposal(eng, m), "event")
            /\ wal' = Wal!log_proposal_block(wal, m.round, m.block)
    /\ UNCHANGED <<up, last_wal_lock, timeout_handle, propose_timer, net, proposed,
                   committed, faults, done>>

\* A vote may be new, or arrive again, before or after a restart.
recv_vote(m) ==
    /\ Idle
    /\ net' = net \cup {m}
    /\ Cardinality(net' \ OwnVotes(net')) =< MaxVotes
    /\ Handle(IF m.type = "prevote" THEN on_prevote(eng, m)
              ELSE on_precommit(eng, m), "event")
    /\ UNCHANGED <<up, wal, last_wal_lock, timeout_handle, propose_timer,
                   proposed, committed, faults, done>>

\* The block the leader proposes: NoBlock if it cannot build one.
Propose(e, fresh) == IF fresh = NoBlock THEN Ignore(e) ELSE create_proposal(e, fresh)

TimerAfter(e) ==
    IF e.step \in {"Prevote", "Precommit"} THEN Armed(e.step, e.round) ELSE NoTimer

propose_timer_fires(fresh) ==
    /\ Idle /\ propose_timer
    /\ propose_timer' = FALSE
    /\ IF eng.step = "Propose" /\ Leader[eng.round] = Self /\ fresh # NoBlock
       THEN LET res == create_proposal(eng, fresh)
            IN  Handle(res, "event") /\ timeout_handle' = TimerAfter(res.eng)
       ELSE Handle(Ignore(eng), "event") /\ UNCHANGED timeout_handle
    /\ UNCHANGED <<up, wal, last_wal_lock, net, proposed, committed, faults, done>>

timeout_fires ==
    /\ Idle /\ timeout_handle # NoTimer
    /\ timeout_handle' = NoTimer
    /\ Handle(on_timeout(eng, timeout_handle.step, timeout_handle.round), "timeout")
    /\ UNCHANGED <<up, wal, last_wal_lock, propose_timer, net, proposed, committed,
                   faults, done>>

\* The timeout took the leader of the new round to its Propose step.
propose_after_timeout(fresh) ==
    /\ Running /\ phase = "timeout" /\ todo = <<>>
    /\ Handle(IF eng.step = "Propose" /\ Leader[eng.round] = Self
              THEN Propose(eng, fresh) ELSE Ignore(eng), "event")
    /\ UNCHANGED <<up, wal, last_wal_lock, timeout_handle, propose_timer, net, proposed,
                   committed, faults, done>>

-----------------------------------------------------------------------------
(***************************************************************************)
(* execute_consensus_actions: the first action of todo, in the steps       *)
(* between which a crash matters.                                          *)
(***************************************************************************)
Pending(kinds) == Running /\ todo # <<>> /\ Head(todo).kind \in kinds
OwnVote(a) == Vote(a.kind, Self, a.round, a.value)
LockOf(a) == [round |-> a.round, value |-> a.value]
Takes(a) == a.kind = "precommit" /\ a.value # Nil

Fault == faults < MaxFaults /\ faults' = faults + 1
NoFault == UNCHANGED faults

execute_round ==
    /\ Pending({"start_round", "request"})
    /\ todo' = Tail(todo)
    /\ done' = IF Head(todo).kind = "start_round"
               THEN [done EXCEPT !.round = Head(todo).round] ELSE done
    /\ UNCHANGED <<up, eng, wal, last_wal_lock, phase, timeout_handle,
                   propose_timer, net, proposed, committed, faults>>

\* Fault: a proposal that conflicts with the log is sent all the same.
fault_conflicting_proposal_sent ==
    /\ Pending({"proposal"})
    /\ todo' = Tail(todo)
    /\ proposed' = proposed \cup {LockOf(Head(todo))}
    /\ wal' = Wal!log_proposal_block(wal, Head(todo).round, Head(todo).value)
    /\ UNCHANGED <<up, eng, last_wal_lock, phase, timeout_handle,
                   propose_timer, net, committed, faults, done>>

\* An own proposal is logged, then sent.  It is not sent if the append fails
\* or the log holds another block for the round.
execute_proposal ==
    /\ Pending({"proposal"})
    /\ todo' = Tail(todo)
    /\ LET a == Head(todo)
       IN  \/ /\ ~Wal!ConflictingProposal(wal, a.round, a.value) /\ NoFault
              /\ wal' = Wal!log_proposal_block(wal, a.round, a.value)
              /\ proposed' = proposed \cup {LockOf(a)}
           \/ /\ Wal!ConflictingProposal(wal, a.round, a.value) /\ NoFault
              /\ UNCHANGED <<wal, proposed>>
           \/ UNCHANGED <<wal, proposed>> /\ Fault
    /\ UNCHANGED <<up, eng, last_wal_lock, phase, timeout_handle,
                   propose_timer, net, committed, done>>

\* Fault: the block need not be in the log.
fault_vote_without_block(m) == Wal!ensure_no_conflicting_signed_vote(wal, m)

\* A vote is logged only if its block is in the log and no other vote is.
Loggable(m) ==
    /\ m.value # Nil => Wal!has_proposal_block(wal, m.value)
    /\ Wal!ensure_no_conflicting_signed_vote(wal, m)

Follow(a) ==
    (IF Takes(a) THEN <<[a EXCEPT !.kind = "lock"]>> ELSE <<>>)
        \o <<[kind |-> "send", vote |-> OwnVote(a)]>>

\* The engine has counted the vote already.  A vote that cannot be logged is
\* not sent.
execute_vote ==
    /\ Pending({"prevote", "precommit"})
    /\ LET a == Head(todo)
           m == OwnVote(a)
       IN  /\ done' = [done EXCEPT
                          !.own = @ \cup {m},
                          !.lock = IF Takes(a) THEN LockOf(a) ELSE @,
                          !.locks = IF Takes(a) THEN @ \cup {LockOf(a)} ELSE @]
           /\ \/ /\ Loggable(m) /\ NoFault
                 /\ wal' = Wal!log_signed_vote(wal, m)
                 /\ todo' = Follow(a) \o Tail(todo)
              \/ /\ ~Loggable(m) /\ NoFault
                 /\ UNCHANGED wal /\ todo' = Tail(todo)
              \/ /\ Loggable(m) /\ Fault
                 /\ UNCHANGED wal /\ todo' = Tail(todo)
    /\ UNCHANGED <<up, eng, last_wal_lock, phase, timeout_handle,
                   propose_timer, net, proposed, committed>>

execute_lock ==
    /\ Pending({"lock"})
    /\ \/ /\ wal' = Wal!log_lock(wal, Head(todo).round, Head(todo).value)
          /\ todo' = Tail(todo) /\ NoFault
       \/ UNCHANGED wal /\ todo' = Tail(Tail(todo)) /\ Fault
    /\ UNCHANGED <<up, eng, last_wal_lock, phase, timeout_handle,
                   propose_timer, net, proposed, committed, done>>

execute_send ==
    /\ Pending({"send"})
    /\ net' = net \cup {Head(todo).vote}
    /\ todo' = Tail(todo)
    /\ UNCHANGED <<up, eng, wal, last_wal_lock, phase, timeout_handle,
                   propose_timer, proposed, committed, faults, done>>

\* The committed block is replayed and stored, or its replay fails and the
\* block is left to the sync path.
execute_commit ==
    /\ Pending({"commit"})
    /\ todo' = Tail(todo)
    /\ \/ committed' = Head(todo).value /\ NoFault
       \/ UNCHANGED committed /\ Fault
    /\ UNCHANGED <<up, eng, wal, last_wal_lock, phase, timeout_handle,
                   propose_timer, net, proposed, done>>

execute_consensus_actions ==
    \/ execute_round \/ execute_proposal \/ execute_vote
    \/ execute_lock \/ execute_send \/ execute_commit

-----------------------------------------------------------------------------
(***************************************************************************)
(* The end of an event: a new lock is logged, and the timer follows the    *)
(* engine's step.  In a new round the engine first looks for a proposal it *)
(* holds, and the leader proposes.                                         *)
(***************************************************************************)
persist_lock ==
    IF eng.locked \in {NoLock, last_wal_lock} THEN UNCHANGED <<wal, last_wal_lock>>
    ELSE /\ wal' = Wal!log_lock(wal, eng.locked.round, eng.locked.value)
         /\ last_wal_lock' = eng.locked

Current == Armed(eng.step, eng.round)

settle(fresh) ==
    /\ Running /\ phase = "event" /\ todo = <<>>
    /\ persist_lock
    /\ LET stored == process_current_round_proposal_if_present(eng)
           leading == Leader[eng.round] = Self
       IN  CASE eng.step = "Commit" \/ timeout_handle = Current ->
                    Handle(Ignore(eng), "idle") /\ UNCHANGED <<timeout_handle, propose_timer>>
             [] eng.step # "Commit" /\ timeout_handle # Current ->
                    CASE eng.step # "Propose" ->
                             /\ Handle(Ignore(eng), "idle")
                             /\ timeout_handle' = Current
                             /\ UNCHANGED propose_timer
                      [] eng.step = "Propose" /\ stored.acts # <<>> ->
                             /\ Handle(stored, "idle")
                             /\ timeout_handle' = TimerAfter(stored.eng)
                             /\ UNCHANGED propose_timer
                      [] eng.step = "Propose" /\ stored.acts = <<>> /\ leading ->
                             LET res == Propose(eng, fresh)
                             IN  /\ Handle(res, "idle")
                                 /\ timeout_handle' = IF fresh = NoBlock THEN timeout_handle
                                                      ELSE TimerAfter(res.eng)
                                 /\ UNCHANGED propose_timer
                      [] OTHER ->
                             /\ Handle(Ignore(eng), "idle")
                             /\ timeout_handle' = Current
                             /\ propose_timer' = FALSE
    /\ UNCHANGED <<up, net, proposed, committed, faults, done>>

-----------------------------------------------------------------------------
(***************************************************************************)
(* Crash and restart.                                                      *)
(***************************************************************************)
crash ==
    /\ Running /\ Fault
    /\ eng.round < MaxRound
    /\ up' = FALSE
    /\ eng' = start_height
    /\ last_wal_lock' = NoLock
    /\ todo' = <<>>
    /\ phase' = "idle"
    /\ timeout_handle' = NoTimer
    /\ propose_timer' = FALSE
    /\ UNCHANGED <<wal, net, proposed, committed, done>>

LoggedLocks ==
    {[round |-> x.round, value |-> x.value] : x \in Wal!Entries(wal, "Locked")}
    \cup {[round |-> m.round, value |-> m.value] :
             m \in {n \in Wal!recover(wal).votes : n.type = "precommit" /\ n.value # Nil}}

restart ==
    /\ ~up
    /\ LET rec == Wal!recover(wal)
           e == Recover(rec)
       IN  /\ eng' = e
           /\ last_wal_lock' = e.locked
           /\ timeout_handle' = Armed("Propose", e.round)
           /\ propose_timer' = (Leader[e.round] = Self)
           /\ done' = [round |-> e.round, lock |-> e.locked,
                       locks |-> LoggedLocks, own |-> rec.votes]
    /\ up' = TRUE
    /\ UNCHANGED <<wal, todo, phase, net, proposed, committed, faults>>

Next ==
    \/ \E m \in OtherProposals : recv_proposal(m)
    \/ \E m \in OtherVotes : recv_vote(m)
    \/ \E b \in OwnBlocks \cup {NoBlock} : \/ propose_timer_fires(b)
                                        \/ propose_after_timeout(b)
                                        \/ settle(b)
    \/ timeout_fires
    \/ execute_consensus_actions
    \/ crash
    \/ restart

Spec == Init /\ [][Next]_vars

-----------------------------------------------------------------------------
(***************************************************************************)
(* Properties.                                                             *)
(***************************************************************************)

\* The validator keeps the locking discipline of BftVoting, the others being
\* arbitrary: it signs one vote per round and type, prevotes against its lock
\* only on a later polka, precommits only on a polka, commits only on a quorum,
\* and a restart, at whatever point of the driver loop the crash came, gives
\* back every vote it broadcast and a lock that covers them.
Voting == INSTANCE BftVoting WITH
    Byzantine <- Others,
    Forgeries <- {{m} : m \in OtherVotes},
    round <- [v \in {Self} |-> done.round],
    lock <- [v \in {Self} |-> done.lock],
    locks <- [v \in {Self} |-> done.locks],
    own <- [v \in {Self} |-> done.own],
    sent <- net,
    committed <- [v \in {Self} |-> committed]

ImplementsVoting == Voting!Spec

\* A vote for a block is broadcast only when the block can be recovered, so a
\* validator that restarts can propose and commit what it voted for.
VotedBlockDurable ==
    \A m \in OwnVotes(net) : m.value # Nil => Wal!has_proposal_block(wal, m.value)

\* Killed at this very moment, the validator would come back with every vote
\* it broadcast, in a round in which it broadcast none, and with a lock that
\* covers each precommit, unless the log shows a later lock on another block.
RestartIsSafe ==
    LET e == Recover(Wal!recover(wal))
    IN  \A m \in OwnVotes(net) :
            /\ m \in e.votes /\ m.round < e.round
            /\ m.type = "precommit" /\ m.value # Nil =>
                   \/ Voting!Covers(e.locked, m)
                   \/ \E l \in LoggedLocks : l.round > m.round /\ l.value # m.value

\* The leader never sends two different blocks for one round, even when it
\* crashes after sending the first and comes back in the same round.
NoDoubleProposal ==
    \A x, y \in proposed : x.round = y.round => x.value = y.value

\* The step says which votes of the round are signed.  A validator that waits
\* in Propose can still prevote, one in Prevote can still precommit, and one in
\* Precommit waits for others only: no round is entered in which the validator
\* silently declines to vote.
StepTracksOwnVotes ==
    Idle => LET signed(t) == Seen(eng, t, eng.round, Self)
            IN  CASE eng.step = "Propose" -> ~signed("prevote") /\ ~signed("precommit")
                  [] eng.step = "Prevote" -> signed("prevote") /\ ~signed("precommit")
                  [] eng.step = "Precommit" -> signed("prevote") /\ signed("precommit")
                  [] OTHER -> TRUE


\* A leader to which create_proposal answered ScheduleTimeout, because it is
\* locked on a block it does not have, has a timeout armed for its step.
RequestedTimeoutArmed ==
    /\ Idle /\ eng.step = "Propose" /\ Leader[eng.round] = Self
    /\ eng.locked.value \notin eng.blocks \cup {Nil, eng.valid.value}
    => timeout_handle = Current

\* A round in which more than a third of the stake has moved on, as far as this
\* validator knows, cannot gather a commit quorum any more.
SkippedRoundIsDead ==
    \A r \in Rounds :
        Power[{m.validator : m \in {n \in eng.votes : n.round > r}}] * 3
            > Power[Validators]
        => Winners(eng, "precommit", r) = {}

\* The log never holds a lock without the block it is on.
LoggedLockHasValue ==
    \A l \in LoggedLocks : Wal!has_proposal_block(wal, l.value)

-----------------------------------------------------------------------------
(***************************************************************************)
(* Liveness.  The loop runs on, a restart is attempted after every crash,  *)
(* and select! picks a ready branch at random, so a timer that is due is   *)
(* handled even if messages keep arriving.                                 *)
(***************************************************************************)
Fairness ==
    /\ WF_vars(execute_consensus_actions)
    /\ WF_vars(\E b \in OwnBlocks \cup {NoBlock} : settle(b))
    /\ WF_vars(\E b \in OwnBlocks \cup {NoBlock} : propose_after_timeout(b))
    /\ SF_vars(timeout_fires)
    /\ WF_vars(restart)

FairSpec == Spec /\ Fairness

\* No validator stays in a round for ever on account of lost or conflicting
\* messages, whatever was lost in crashes: the timeouts take it through
\* prevote and precommit to the next round.  Excepted are a leader that has not
\* proposed, for which no timeout may be armed, and a validator that decided a
\* block it could not store.
RoundProgress ==
    \A r \in 0 .. MaxRound - 1 :
        up /\ eng.round = r ~> \/ eng.round # r
                               \/ committed # Nil
                               \/ eng.step = "Commit"
                               \/ eng.step = "Propose" /\ Leader[r] = Self
=============================================================================
