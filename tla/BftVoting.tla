------------------------------ MODULE BftVoting ------------------------------
(***************************************************************************)
(* What the validators of one height promise each other: the locking       *)
(* discipline of the BFT engine (validator/src/consensus.rs) as it is seen *)
(* through the write-ahead log (validator/src/wal.rs) and the driver loop  *)
(* (validator/src/main.rs), with messages, timers and block bodies left    *)
(* out.  A validator signs a vote in memory first (own), where it counts   *)
(* it itself, and the vote may or may not reach the others (sent).  A      *)
(* crash forgets the votes and locks that were not yet durable.            *)
(*                                                                         *)
(* ValidatorNode, the detailed model of one validator, implements this     *)
(* specification; BftAgreement states the agreement it is meant to give.   *)
(***************************************************************************)
EXTENDS Integers

CONSTANTS
    Validators,   \* the height-frozen eligible validators
    Byzantine,    \* those that may sign anything
    Blocks,       \* block hashes
    Nil,          \* the nil vote, Option::<Hash>::None
    Rounds,       \* rounds of this height
    Power,        \* voting power of every set of validators
    Forgeries     \* the sets of votes that Byzantine validators may release

Honest == Validators \ Byzantine
VoteTypes == {"prevote", "precommit"}
Values == Blocks \cup {Nil}
Votes == [type : VoteTypes, validator : Validators, round : Rounds,
          value : Values]
Vote(t, v, r, b) == [type |-> t, validator |-> v, round |-> r, value |-> b]

ASSUME ConstantsAssumption ==
    /\ Byzantine \subseteq Validators
    /\ Nil \notin Blocks
    /\ Rounds \subseteq Nat
    /\ \A S \in Forgeries : \A m \in S : m \in Votes /\ m.validator \in Byzantine

\* Power sums the stake of the members: it is monotone and modular.
ASSUME PowerAssumption ==
    /\ Power \in [SUBSET Validators -> Nat]
    /\ \A S, T \in SUBSET Validators :
           /\ S \subseteq T => Power[S] =< Power[T]
           /\ Power[S \cup T] + Power[S \cap T] = Power[S] + Power[T]

VARIABLES
    round,      \* round[v]: the current round of v
    lock,       \* lock[v]: the lock in force at v
    locks,      \* locks[v]: the locks v has taken and not forgotten
    own,        \* own[v]: the votes v has signed and not forgotten
    sent,       \* the votes that were broadcast
    committed   \* committed[v]: the block v stored for this height, or Nil

vars == <<round, lock, locks, own, sent, committed>>

Locks == [round : Rounds, value : Blocks]
NoLock == [round |-> -1, value |-> Nil]

TypeOK ==
    /\ round \in [Honest -> Rounds]
    /\ lock \in [Honest -> Locks \cup {NoLock}]
    /\ locks \in [Honest -> SUBSET Locks]
    /\ own \in [Honest -> SUBSET Votes]
    /\ sent \in SUBSET Votes
    /\ committed \in [Honest -> Values]

-----------------------------------------------------------------------------
(***************************************************************************)
(* Voting power.                                                           *)
(***************************************************************************)
has_supermajority_power(S) ==
    /\ Power[Validators] > 0
    /\ Power[S] * 3 >= Power[Validators] * 2

\* The votes v can count: those it may have received and its own.
View(v) == sent \cup own[v]
Voters(v, t, r, b) == {w \in Validators : Vote(t, w, r, b) \in View(v)}

has_polka_for(v, r, b) ==
    has_supermajority_power(Voters(v, "prevote", r, b))
has_commit_for(v, r, b) ==
    has_supermajority_power(Voters(v, "precommit", r, b))

Signed(v, t, r) == \E b \in Values : Vote(t, v, r, b) \in own[v]

-----------------------------------------------------------------------------
Init ==
    /\ 0 \in Rounds
    /\ round = [v \in Honest |-> 0]
    /\ lock = [v \in Honest |-> NoLock]
    /\ locks = [v \in Honest |-> {}]
    /\ own = [v \in Honest |-> {}]
    /\ sent = {}
    /\ committed = [v \in Honest |-> Nil]

start_round(v, r) ==
    /\ committed[v] = Nil
    /\ r > round[v]
    /\ round' = [round EXCEPT ![v] = r]
    /\ UNCHANGED <<lock, locks, own, sent, committed>>

\* Fault: the locked block is not compared with the proposal.
fault_lock_ignored(v, b) ==
    lock[v] = NoLock \/ lock[v].value \in Blocks

should_prevote_proposal_block(v, b) ==
    \/ lock[v] = NoLock
    \/ lock[v].value = b
    \/ \E vr \in Rounds : vr > lock[v].round /\ has_polka_for(v, vr, b)

do_prevote(v, b) ==
    /\ committed[v] = Nil
    /\ ~Signed(v, "prevote", round[v])
    /\ b # Nil => should_prevote_proposal_block(v, b)
    /\ own' = [own EXCEPT ![v] = @ \cup {Vote("prevote", v, round[v], b)}]
    /\ UNCHANGED <<round, lock, locks, sent, committed>>

\* Fault: a nil precommit takes the lock as well.
fault_lock_on_nil(v, b) ==
    /\ committed[v] = Nil
    /\ ~Signed(v, "precommit", round[v])
    /\ own' = [own EXCEPT ![v] = @ \cup {Vote("precommit", v, round[v], b)}]
    /\ lock' = [lock EXCEPT ![v] = [round |-> round[v], value |-> b]]
    /\ UNCHANGED <<round, locks, sent, committed>>

\* A precommit for a block is signed together with taking the lock.
do_precommit(v, b) ==
    /\ committed[v] = Nil
    /\ ~Signed(v, "precommit", round[v])
    /\ own' = [own EXCEPT ![v] = @ \cup {Vote("precommit", v, round[v], b)}]
    /\ \/ b = Nil /\ UNCHANGED <<lock, locks>>
       \/ /\ b # Nil
          /\ has_polka_for(v, round[v], b)
          /\ LET l == [round |-> round[v], value |-> b]
             IN  /\ lock' = [lock EXCEPT ![v] = l]
                 /\ locks' = [locks EXCEPT ![v] = @ \cup {l}]
    /\ UNCHANGED <<round, sent, committed>>

\* The driver broadcasts a vote after recording it in the log.
broadcast(v, m) ==
    /\ committed[v] = Nil
    /\ m \in own[v] \ sent
    /\ sent' = sent \cup {m}
    /\ UNCHANGED <<round, lock, locks, own, committed>>

commit(v, r, b) ==
    /\ committed[v] = Nil
    /\ has_commit_for(v, r, b)
    /\ committed' = [committed EXCEPT ![v] = b]
    /\ UNCHANGED <<round, lock, locks, own, sent>>

\* Crash and recovery.  The votes S and the locks L come back from the log.
\* Every vote that was broadcast is among S.  The lock in force afterwards
\* covers each recovered precommit, unless a later lock on another block
\* shows that the precommit cannot be part of a commit any more.  The
\* validator resumes in a round in which it has neither voted nor locked.
Covers(l, m) ==
    l.round >= m.round /\ (l.round = m.round => l.value = m.value)

\* Fault: votes are broadcast before they are durable.
fault_votes_not_durable(v, S, L, l, r) ==
    /\ committed[v] = Nil
    /\ \A m \in S : m.round < r
    /\ \A k \in L : k.round < r
    /\ round' = [round EXCEPT ![v] = r]
    /\ lock' = [lock EXCEPT ![v] = l]
    /\ locks' = [locks EXCEPT ![v] = L]
    /\ own' = [own EXCEPT ![v] = S]
    /\ UNCHANGED <<sent, committed>>

recover(v, S, L, l, r) ==
    /\ committed[v] = Nil
    /\ round' = [round EXCEPT ![v] = r]
    /\ lock' = [lock EXCEPT ![v] = l]
    /\ locks' = [locks EXCEPT ![v] = L]
    /\ own' = [own EXCEPT ![v] = S]
    /\ UNCHANGED <<sent, committed>>
    /\ {m \in sent : m.validator = v} \subseteq S
    /\ \A m \in S : m.type = "precommit" /\ m.value # Nil =>
           /\ [round |-> m.round, value |-> m.value] \in L
           /\ \/ Covers(l, m)
              \/ \E k \in L : k.round > m.round /\ k.value # m.value
    /\ \A m \in S : m.round < r
    /\ \A k \in L : k.round < r

\* Byzantine validators sign what they like, conflicting votes included.
forge(S) ==
    /\ sent' = sent \cup S
    /\ UNCHANGED <<round, lock, locks, own, committed>>

Next ==
    \/ \E v \in Honest :
        \/ \E r \in Rounds : start_round(v, r)
        \/ \E b \in Values : do_prevote(v, b)
        \/ \E b \in Values : do_precommit(v, b)
        \/ \E m \in own[v] : broadcast(v, m)
        \/ \E r \in Rounds, b \in Blocks : commit(v, r, b)
        \/ \E S \in SUBSET own[v], L \in SUBSET locks[v] :
               \E l \in L \cup {NoLock}, r \in Rounds : recover(v, S, L, l, r)
    \/ \E S \in Forgeries : forge(S)

Spec == Init /\ [][Next]_vars

-----------------------------------------------------------------------------
(***************************************************************************)
(* Properties.                                                             *)
(***************************************************************************)

\* An honest validator never broadcasts two different prevotes, or two
\* different precommits, for one round, whatever crashes happen in between:
\* its peers find no equivocation to slash.
NoDoubleSign ==
    \A m, n \in sent :
        /\ m.validator \in Honest
        /\ m.type = n.type /\ m.validator = n.validator /\ m.round = n.round
        => m.value = n.value
=============================================================================
