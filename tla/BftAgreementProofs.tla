------------------------- MODULE BftAgreementProofs -------------------------
(***************************************************************************)
(* Proof that BftVoting keeps Agreement and NoDoubleSign for every set of  *)
(* validators, stake distribution, set of blocks and set of rounds, when   *)
(* less than a third of the voting power is Byzantine.                     *)
(***************************************************************************)
EXTENDS BftAgreement, TLAPS

\* Any two supermajorities share an honest validator: the two-thirds test of
\* has_supermajority_power is strong enough.
LEMMA QuorumIntersection ==
    ASSUME NEW P \in Quorums, NEW Q \in Quorums
    PROVE  \E u \in P \cap Q : u \in Honest
<1> SUFFICES ASSUME P \cap Q \subseteq Byzantine PROVE FALSE
    BY DEF Honest, Quorums
<1> DEFINE total == Power[Validators]
<1>1. /\ P \in SUBSET Validators /\ Q \in SUBSET Validators
      /\ P \cup Q \in SUBSET Validators /\ P \cap Q \in SUBSET Validators
      /\ Byzantine \in SUBSET Validators /\ Validators \in SUBSET Validators
    BY ConstantsAssumption DEF Quorums
<1>2. /\ Power[P] \in Nat /\ Power[Q] \in Nat /\ Power[P \cup Q] \in Nat
      /\ Power[P \cap Q] \in Nat /\ Power[Byzantine] \in Nat /\ total \in Nat
    BY <1>1, PowerAssumption
<1>3. Power[P] * 3 >= total * 2 /\ Power[Q] * 3 >= total * 2
    BY DEF Quorums, has_supermajority_power
<1>4. Power[P \cup Q] + Power[P \cap Q] = Power[P] + Power[Q]
    BY <1>1, PowerAssumption
<1>5. Power[P \cup Q] =< total
    BY <1>1, PowerAssumption
<1>6. Power[P \cap Q] =< Power[Byzantine]
    BY <1>1, PowerAssumption
<1>7. Power[Byzantine] * 3 < total
    BY ByzantineMinority
<1> HIDE DEF total
<1> QED
    BY <1>2, <1>3, <1>4, <1>5, <1>6, <1>7

-----------------------------------------------------------------------------
\* The variables keep their types.
LEMMA TypeStep ==
    TypeOK /\ [Next]_vars => TypeOK'
<1> SUFFICES ASSUME TypeOK, [Next]_vars PROVE TypeOK'
    OBVIOUS
<1> USE DEF TypeOK
<1>1. CASE UNCHANGED vars
    BY <1>1 DEF vars
<1>2. ASSUME NEW v \in Honest, NEW r \in Rounds, start_round(v, r)
      PROVE  TypeOK'
    BY <1>2 DEF start_round
<1>3. ASSUME NEW v \in Honest, NEW b \in Values, do_prevote(v, b)
      PROVE  TypeOK'
  <2>1. Vote("prevote", v, round[v], b) \in Votes
    BY DEF Vote, Votes, VoteTypes, Honest
  <2> QED BY <1>3, <2>1 DEF do_prevote
<1>4. ASSUME NEW v \in Honest, NEW b \in Values, do_precommit(v, b)
      PROVE  TypeOK'
  <2>1. Vote("precommit", v, round[v], b) \in Votes
    BY DEF Vote, Votes, VoteTypes, Honest
  <2>2. own' \in [Honest -> SUBSET Votes]
    BY <1>4, <2>1 DEF do_precommit
  <2>3. /\ lock' \in [Honest -> Locks \cup {NoLock}]
        /\ locks' \in [Honest -> SUBSET Locks]
    <3>1. CASE b = Nil
      BY <1>4, <3>1 DEF do_precommit
    <3>2. CASE b # Nil
      <4>1. [round |-> round[v], value |-> b] \in Locks
        BY <3>2 DEF Locks, Values
      <4> QED BY <1>4, <3>2, <4>1 DEF do_precommit
    <3> QED BY <3>1, <3>2
  <2> QED BY <1>4, <2>2, <2>3 DEF do_precommit
<1>5. ASSUME NEW v \in Honest, NEW m \in own[v], broadcast(v, m)
      PROVE  TypeOK'
    BY <1>5 DEF broadcast
<1>6. ASSUME NEW v \in Honest, NEW r \in Rounds, NEW b \in Blocks,
             commit(v, r, b)
      PROVE  TypeOK'
    BY <1>6 DEF commit, Values
<1>7. ASSUME NEW v \in Honest, NEW S \in SUBSET own[v],
             NEW L \in SUBSET locks[v], NEW l \in L \cup {NoLock},
             NEW r \in Rounds, recover(v, S, L, l, r)
      PROVE  TypeOK'
    BY <1>7 DEF recover
<1>8. ASSUME NEW S \in Forgeries, forge(S) PROVE TypeOK'
    BY <1>8, ConstantsAssumption DEF forge
<1> QED
    BY <1>1, <1>2, <1>3, <1>4, <1>5, <1>6, <1>7, <1>8 DEF Next

-----------------------------------------------------------------------------
\* What any step does to the votes and locks of a validator: it broadcasts
\* more, it signs only in the current round, it locks only on a polka of the
\* current round, and it changes nothing once a block is stored.
LEMMA StepFacts ==
    ASSUME TypeOK, [Next]_vars
    PROVE  /\ sent \subseteq sent'
           /\ \A w \in Honest :
                /\ \A m \in own'[w] :
                     \/ m \in own[w]
                     \/ m.validator = w /\ m.round = round[w]
                /\ \A k \in locks'[w] :
                     \/ k \in locks[w]
                     \/ k.round = round[w] /\ has_polka_for(w, round[w], k.value)
                /\ committed[w] # Nil =>
                     own'[w] = own[w] /\ committed'[w] = committed[w]
<1> DEFINE Goal ==
        /\ sent \subseteq sent'
        /\ \A w \in Honest :
             /\ \A m \in own'[w] :
                  \/ m \in own[w]
                  \/ m.validator = w /\ m.round = round[w]
             /\ \A k \in locks'[w] :
                  \/ k \in locks[w]
                  \/ k.round = round[w] /\ has_polka_for(w, round[w], k.value)
             /\ committed[w] # Nil =>
                  own'[w] = own[w] /\ committed'[w] = committed[w]
<1> USE DEF TypeOK
<1>1. CASE UNCHANGED vars
    BY <1>1 DEF vars
<1>2. ASSUME NEW v \in Honest, NEW r \in Rounds, start_round(v, r)
      PROVE  Goal
    BY <1>2 DEF start_round
<1>3. ASSUME NEW v \in Honest, NEW b \in Values, do_prevote(v, b)
      PROVE  Goal
    BY <1>3 DEF do_prevote, Vote
<1>4. ASSUME NEW v \in Honest, NEW b \in Values, do_precommit(v, b)
      PROVE  Goal
  <2>1. CASE b = Nil
    BY <1>4, <2>1 DEF do_precommit, Vote
  <2>2. CASE b # Nil
    BY <1>4, <2>2 DEF do_precommit, Vote
  <2> QED BY <2>1, <2>2
<1>5. ASSUME NEW v \in Honest, NEW m \in own[v], broadcast(v, m)
      PROVE  Goal
    BY <1>5 DEF broadcast
<1>6. ASSUME NEW v \in Honest, NEW r \in Rounds, NEW b \in Blocks,
             commit(v, r, b)
      PROVE  Goal
    BY <1>6 DEF commit
<1>7. ASSUME NEW v \in Honest, NEW S \in SUBSET own[v],
             NEW L \in SUBSET locks[v], NEW l \in L \cup {NoLock},
             NEW r \in Rounds, recover(v, S, L, l, r)
      PROVE  Goal
    BY <1>7 DEF recover
<1>8. ASSUME NEW S \in Forgeries, forge(S) PROVE Goal
    BY <1>8 DEF forge
<1> QED
    BY <1>1, <1>2, <1>3, <1>4, <1>5, <1>6, <1>7, <1>8 DEF Next

\* Once a validator can no longer sign a precommit, it never can again.
LEMMA BlockedStable ==
    ASSUME IInv, [Next]_vars,
           NEW w \in Honest, NEW r \in Rounds, NEW b \in Blocks, Blocked(w, r, b)
    PROVE  Blocked(w, r, b)'
<1>1. PICK m \in sent : m.validator = w /\ m.round > r
    BY DEF Blocked
<1>2. m \in own[w] /\ m.round =< round[w]
    BY <1>1 DEF IInv, SentIsOwn, RoundsEntered
<1>3. round[w] > r
  <2>1. m.round \in Nat /\ round[w] \in Nat /\ r \in Nat
    BY <1>1, ConstantsAssumption DEF IInv, TypeOK, Votes
  <2> QED BY <1>1, <1>2, <2>1
<1>4. Vote("precommit", w, r, b).round # round[w]
    BY <1>3, ConstantsAssumption DEF Vote, IInv, TypeOK
<1>5. Vote("precommit", w, r, b) \notin own'[w]
    BY <1>4, StepFacts DEF Blocked, IInv
<1>6. m \in sent'
    BY StepFacts DEF IInv
<1> QED
    BY <1>1, <1>5, <1>6 DEF Blocked

LEMMA AllBlockedStable ==
    ASSUME IInv, [Next]_vars,
           NEW r \in Rounds, NEW b \in Blocks, AllBlocked(r, b)
    PROVE  AllBlocked(r, b)'
<1>1. \A w \in Honest : Blocked(w, r, b) => Blocked(w, r, b)'
    BY BlockedStable
<1> QED
    BY <1>1 DEF AllBlocked

\* A polka for a block rules out every other block in every earlier round:
\* its honest members that precommitted another block knew it was dead, and
\* the others have moved on.
LEMMA PolkaSafe ==
    ASSUME IInv, NEW v \in Honest, NEW vr \in Rounds, NEW c \in Blocks,
           has_polka_for(v, vr, c),
           NEW r \in Rounds, NEW b \in Blocks, r < vr, b # c,
           NEW Q \in Quorums
    PROVE  \E u \in Q \cap Honest :
               \/ Blocked(u, r, b)
               \/ u = v /\ Vote("precommit", v, r, b) \notin own[v]
<1> DEFINE P == Voters(v, "prevote", vr, c)
<1>1. P \in Quorums
    BY DEF has_polka_for, Quorums, Voters
<1>2. PICK u \in P \cap Q : u \in Honest
    BY <1>1, QuorumIntersection
<1> DEFINE m == Vote("prevote", u, vr, c)
<1>3. m \in sent \cup own[v]
    BY <1>2 DEF Voters, View, Honest
<1>4. /\ m.validator = u /\ m.round = vr /\ m.value = c /\ m.type = "prevote"
      /\ c # Nil
    BY ConstantsAssumption DEF Vote
<1>5. m \in own[u] /\ (u # v => m \in sent)
    BY <1>2, <1>3, <1>4 DEF IInv, SentIsOwn, RoundsEntered
<1>6. CASE Vote("precommit", u, r, b) \in own[u]
  <2>1. AllBlocked(r, b)
    BY <1>2, <1>4, <1>5, <1>6 DEF IInv, PrevoteSafe
  <2> QED BY <2>1 DEF AllBlocked
<1>7. CASE Vote("precommit", u, r, b) \notin own[u] /\ u # v
  <2>1. Blocked(u, r, b)
    BY <1>4, <1>5, <1>7, ConstantsAssumption DEF Blocked
  <2> QED BY <1>2, <2>1
<1>8. CASE Vote("precommit", u, r, b) \notin own[u] /\ u = v
    BY <1>2, <1>8
<1> QED
    BY <1>6, <1>7, <1>8

-----------------------------------------------------------------------------
\* The bookkeeping of votes, rounds and locks survives every step.
LEMMA BookkeepingStep ==
    ASSUME IInv, [Next]_vars
    PROVE  /\ SentIsOwn'
           /\ RoundsEntered'
           /\ OneVote'
           /\ PrecommitCovered'
<1> DEFINE Goal == SentIsOwn' /\ RoundsEntered' /\ OneVote' /\ PrecommitCovered'
<1>a. TypeOK /\ SentIsOwn /\ RoundsEntered /\ OneVote /\ PrecommitCovered
    BY DEF IInv
<1>b. /\ \A w \in Honest : round[w] \in Nat
      /\ \A r \in Rounds : r \in Nat
      /\ \A w \in Honest : \A m \in own[w] : m \in Votes /\ m.round \in Nat
      /\ \A w \in Honest : \A k \in locks[w] : k.round \in Nat
  <2>1. \A r \in Rounds : r \in Nat
    BY ConstantsAssumption
  <2>2. \A w \in Honest : round[w] \in Rounds
    BY <1>a DEF TypeOK
  <2>3. \A w \in Honest : \A m \in own[w] : m \in Votes
    BY <1>a DEF TypeOK
  <2>4. \A m \in Votes : m.round \in Rounds
    BY DEF Votes
  <2>5. \A w \in Honest : \A k \in locks[w] : k \in Locks
    BY <1>a DEF TypeOK
  <2>6. \A k \in Locks : k.round \in Rounds
    BY DEF Locks
  <2> QED BY <2>1, <2>2, <2>3, <2>4, <2>5, <2>6
<1>1. CASE UNCHANGED vars
    BY <1>1, <1>a DEF vars, SentIsOwn, RoundsEntered, OneVote,
       PrecommitCovered
<1>2. ASSUME NEW v \in Honest, NEW r \in Rounds, start_round(v, r)
      PROVE  Goal
  <2>1. UNCHANGED <<lock, locks, own, sent, committed>>
    BY <1>2 DEF start_round
  <2>2. \A w \in Honest : round[w] =< round'[w]
    BY <1>2, <1>a, <1>b DEF start_round, TypeOK
  <2>3. \A w \in Honest : round'[w] \in Nat
    BY <1>2, <1>a, <1>b DEF start_round, TypeOK
  <2>4. RoundsEntered'
    BY <2>1, <2>2, <2>3, <1>a, <1>b DEF RoundsEntered
  <2> QED BY <2>1, <2>4, <1>a DEF SentIsOwn, OneVote, PrecommitCovered
<1>3. ASSUME NEW v \in Honest, NEW b \in Values, do_prevote(v, b)
      PROVE  Goal
  <2> DEFINE m == Vote("prevote", v, round[v], b)
  <2>1. /\ own' = [own EXCEPT ![v] = @ \cup {m}]
        /\ UNCHANGED <<round, lock, locks, sent, committed>>
    BY <1>3 DEF do_prevote
  <2>2. m.type = "prevote" /\ m.validator = v /\ m.round = round[v]
    BY DEF Vote
  <2>3. \A n \in own[v] : n.type = "prevote" => n.round # round[v]
    <3> SUFFICES ASSUME NEW n \in own[v], n.type = "prevote",
                        n.round = round[v]
                 PROVE  FALSE
      OBVIOUS
    <3>1. n = Vote("prevote", v, round[v], n.value) /\ n.value \in Values
      BY <1>a, <1>b DEF Vote, Votes, RoundsEntered
    <3> QED BY <3>1, <1>3 DEF do_prevote, Signed
  <2>4. /\ own'[v] = own[v] \cup {m}
        /\ \A w \in Honest : w # v => own'[w] = own[w]
    BY <2>1, <1>a DEF TypeOK
  <2> HIDE DEF m
  <2>5. SentIsOwn'
    BY <2>1, <2>4, <1>a DEF SentIsOwn, TypeOK, Votes
  <2>6. RoundsEntered'
    BY <2>1, <2>2, <2>4, <1>a, <1>b DEF RoundsEntered
  <2>7. OneVote'
    BY <2>2, <2>3, <2>4, <1>a DEF OneVote
  <2>8. PrecommitCovered'
    BY <2>1, <2>2, <2>4, <1>a DEF PrecommitCovered
  <2> QED BY <2>5, <2>6, <2>7, <2>8
<1>4. ASSUME NEW v \in Honest, NEW b \in Values, do_precommit(v, b)
      PROVE  Goal
  <2> DEFINE m == Vote("precommit", v, round[v], b)
             l == [round |-> round[v], value |-> b]
  <2>1. /\ own' = [own EXCEPT ![v] = @ \cup {m}]
        /\ UNCHANGED <<round, sent, committed>>
    BY <1>4 DEF do_precommit
  <2>2. /\ m.type = "precommit" /\ m.validator = v
        /\ m.round = round[v] /\ m.value = b
    BY DEF Vote
  <2>3. \A n \in own[v] : n.type = "precommit" => n.round # round[v]
    <3> SUFFICES ASSUME NEW n \in own[v], n.type = "precommit",
                        n.round = round[v]
                 PROVE  FALSE
      OBVIOUS
    <3>1. n = Vote("precommit", v, round[v], n.value) /\ n.value \in Values
      BY <1>a, <1>b DEF Vote, Votes, RoundsEntered
    <3> QED BY <3>1, <1>4 DEF do_precommit, Signed
  <2>4. /\ own'[v] = own[v] \cup {m}
        /\ \A w \in Honest : w # v => own'[w] = own[w]
    BY <2>1, <1>a DEF TypeOK
  <2>5. l.round = round[v] /\ l.value = b
    OBVIOUS
  <2>6. \/ b = Nil /\ lock' = lock /\ locks' = locks
        \/ /\ b # Nil
           /\ lock'[v] = l /\ locks'[v] = locks[v] \cup {l}
           /\ \A w \in Honest : w # v =>
                  lock'[w] = lock[w] /\ locks'[w] = locks[w]
    BY <1>4, <1>a DEF do_precommit, TypeOK
  <2>7. [round |-> m.round, value |-> m.value] = l
    BY <2>2
  <2> HIDE DEF m, l
  <2>8. SentIsOwn'
    BY <2>1, <2>4, <1>a DEF SentIsOwn, TypeOK, Votes
  <2>9. RoundsEntered'
    BY <2>1, <2>2, <2>4, <2>5, <2>6, <1>a, <1>b DEF RoundsEntered
  <2>10. OneVote'
    BY <2>2, <2>3, <2>4, <1>a DEF OneVote
  <2>11. PrecommitCovered'
    <3> SUFFICES ASSUME NEW w \in Honest, NEW n \in own'[w],
                        n.type = "precommit", n.value # Nil
                 PROVE  /\ [round |-> n.round, value |-> n.value] \in locks'[w]
                        /\ \/ Covers(lock'[w], n)
                           \/ \E k \in locks'[w] :
                                  k.round > n.round /\ k.value # n.value
      BY DEF PrecommitCovered, Covers
    <3>1. CASE n = m /\ w = v
      BY <3>1, <2>2, <2>5, <2>6, <2>7, <1>b DEF Covers
    <3>2. CASE n \in own[w] /\ (w # v \/ b = Nil)
      BY <3>2, <2>6, <1>a DEF PrecommitCovered
    <3>3. CASE n \in own[v] /\ w = v /\ b # Nil
      <4>1. n.round < round[v]
        BY <3>3, <2>3, <1>a, <1>b DEF RoundsEntered
      <4>2. Covers(l, n)
        BY <4>1, <2>5, <1>b, <3>3 DEF Covers
      <4>3. [round |-> n.round, value |-> n.value] \in locks[v]
        BY <3>3, <1>a DEF PrecommitCovered
      <4> QED BY <3>3, <4>2, <4>3, <2>6
    <3> QED BY <3>1, <3>2, <3>3, <2>4
  <2> QED BY <2>8, <2>9, <2>10, <2>11
<1>5. ASSUME NEW v \in Honest, NEW m \in own[v], broadcast(v, m)
      PROVE  Goal
    BY <1>5, <1>a DEF broadcast, SentIsOwn, RoundsEntered, OneVote,
       PrecommitCovered
<1>6. ASSUME NEW v \in Honest, NEW r \in Rounds, NEW b \in Blocks,
             commit(v, r, b)
      PROVE  Goal
    BY <1>6, <1>a DEF commit, SentIsOwn, RoundsEntered, OneVote,
       PrecommitCovered
<1>7. ASSUME NEW v \in Honest, NEW S \in SUBSET own[v],
             NEW L \in SUBSET locks[v], NEW l \in L \cup {NoLock},
             NEW r \in Rounds, recover(v, S, L, l, r)
      PROVE  Goal
  <2>1. /\ own'[v] = S /\ locks'[v] = L /\ lock'[v] = l /\ round'[v] = r
        /\ \A w \in Honest : w # v =>
               /\ own'[w] = own[w] /\ locks'[w] = locks[w]
               /\ lock'[w] = lock[w] /\ round'[w] = round[w]
        /\ sent' = sent
    BY <1>7, <1>a DEF recover, TypeOK
  <2>2. SentIsOwn'
    BY <2>1, <1>7, <1>a DEF recover, SentIsOwn, TypeOK, Votes
  <2>3. RoundsEntered'
    BY <2>1, <1>7, <1>a, <1>b DEF recover, RoundsEntered
  <2>4. OneVote'
    BY <2>1, <1>a DEF OneVote
  <2>5. PrecommitCovered'
    BY <2>1, <1>7, <1>a DEF recover, PrecommitCovered
  <2> QED BY <2>2, <2>3, <2>4, <2>5
<1>8. ASSUME NEW S \in Forgeries, forge(S) PROVE Goal
    BY <1>8, <1>a, ConstantsAssumption DEF forge, Honest, SentIsOwn,
       RoundsEntered, OneVote, PrecommitCovered
<1> QED
    BY <1>1, <1>2, <1>3, <1>4, <1>5, <1>6, <1>7, <1>8 DEF Next

\* Only do_prevote signs a prevote, under the locking rule.
LEMMA NewPrevote ==
    ASSUME IInv, [Next]_vars, NEW w \in Honest,
           NEW m \in own'[w], m \notin own[w], m.type = "prevote"
    PROVE  m.value # Nil => should_prevote_proposal_block(w, m.value)
<1> USE DEF IInv, TypeOK
<1>1. CASE UNCHANGED vars
    BY <1>1 DEF vars
<1>2. ASSUME NEW v \in Honest, NEW r \in Rounds, start_round(v, r)
      PROVE  FALSE
    BY <1>2 DEF start_round
<1>3. ASSUME NEW v \in Honest, NEW b \in Values, do_prevote(v, b)
      PROVE  w = v /\ m.value = b
    BY <1>3 DEF do_prevote, Vote
<1>4. ASSUME NEW v \in Honest, NEW b \in Values, do_precommit(v, b)
      PROVE  FALSE
    BY <1>4 DEF do_precommit, Vote
<1>5. ASSUME NEW v \in Honest, NEW n \in own[v], broadcast(v, n)
      PROVE  FALSE
    BY <1>5 DEF broadcast
<1>6. ASSUME NEW v \in Honest, NEW r \in Rounds, NEW b \in Blocks,
             commit(v, r, b)
      PROVE  FALSE
    BY <1>6 DEF commit
<1>7. ASSUME NEW v \in Honest, NEW S \in SUBSET own[v],
             NEW L \in SUBSET locks[v], NEW l \in L \cup {NoLock},
             NEW r \in Rounds, recover(v, S, L, l, r)
      PROVE  FALSE
    BY <1>7 DEF recover
<1>8. ASSUME NEW v \in Honest, NEW b \in Values, do_prevote(v, b), b # Nil
      PROVE  should_prevote_proposal_block(v, b)
    BY <1>8 DEF do_prevote
<1>9. ASSUME NEW S \in Forgeries, forge(S)
      PROVE  FALSE
    BY <1>9 DEF forge
<1> QED
    BY <1>1, <1>2, <1>3, <1>4, <1>5, <1>6, <1>7, <1>8, <1>9 DEF Next

\* The locking rule: a validator that may prevote a block and holds an
\* earlier precommit for another one knows that this one is dead.
LEMMA LockingRule ==
    ASSUME IInv, NEW w \in Honest, NEW c \in Blocks,
           should_prevote_proposal_block(w, c),
           NEW r \in Rounds, NEW b \in Blocks, b # c,
           Vote("precommit", w, r, b) \in own[w]
    PROVE  AllBlocked(r, b)
<1> DEFINE m == Vote("precommit", w, r, b)
<1> SUFFICES ASSUME NEW Q \in Quorums
             PROVE  \E u \in Q \cap Honest : Blocked(u, r, b)
    BY DEF AllBlocked
<1>1. m.type = "precommit" /\ m.round = r /\ m.value = b /\ b # Nil
    BY ConstantsAssumption DEF Vote
<1>2. \/ Covers(lock[w], m)
      \/ \E k \in locks[w] : k.round > r /\ k.value # b
  <2>1. m \in own[w]
    OBVIOUS
  <2> HIDE DEF m
  <2>2. \/ Covers(lock[w], m)
        \/ \E k \in locks[w] : k.round > m.round /\ k.value # m.value
    BY <1>1, <2>1 DEF IInv, PrecommitCovered
  <2> QED BY <1>1, <2>2
<1>3. ASSUME NEW k \in locks[w], k.round > r, k.value # b
      PROVE  \E u \in Q \cap Honest : Blocked(u, r, b)
    BY <1>3 DEF IInv, LockSafe
<1>4. ASSUME NEW vr \in Rounds, vr > r, has_polka_for(w, vr, c)
      PROVE  \E u \in Q \cap Honest : Blocked(u, r, b)
  <2>1. r < vr
    BY <1>4, ConstantsAssumption
  <2> QED BY <1>4, <2>1, PolkaSafe
<1>5. CASE Covers(lock[w], m)
  <2>0. r \in Nat /\ r >= 0
    BY ConstantsAssumption
  <2>1. lock[w] # NoLock
    BY <1>1, <1>5, <2>0 DEF Covers, NoLock
  <2>2. lock[w] \in locks[w]
    BY <2>1 DEF IInv, RoundsEntered
  <2>3. lock[w].round \in Nat
    <3>1. lock[w] \in Locks
      BY <2>2 DEF IInv, TypeOK
    <3> QED BY <3>1, ConstantsAssumption DEF Locks
  <2>4. CASE lock[w].value = c
    <3>1. lock[w].round > r
      BY <1>1, <1>5, <2>0, <2>3, <2>4 DEF Covers
    <3> QED BY <1>3, <2>2, <2>4, <3>1
  <2>5. CASE \E vr \in Rounds : vr > lock[w].round /\ has_polka_for(w, vr, c)
    <3>1. PICK vr \in Rounds : vr > lock[w].round /\ has_polka_for(w, vr, c)
      BY <2>5
    <3>2. vr > r
      BY <3>1, <1>1, <1>5, <2>0, <2>3, ConstantsAssumption DEF Covers
    <3> QED BY <3>1, <3>2, <1>4
  <2> QED BY <2>1, <2>4, <2>5 DEF should_prevote_proposal_block
<1> QED
    BY <1>2, <1>3, <1>5

\* PrevoteSafe survives every step.
LEMMA PrevoteSafeStep ==
    ASSUME IInv, [Next]_vars PROVE PrevoteSafe'
<1> SUFFICES ASSUME NEW w \in Honest, NEW m \in own'[w],
                    m.type = "prevote", m.value # Nil,
                    NEW r \in Rounds, NEW b \in Blocks,
                    r < m.round, b # m.value,
                    Vote("precommit", w, r, b) \in own'[w]
             PROVE  AllBlocked(r, b)'
    BY DEF PrevoteSafe
<1>1. m \in Votes /\ m.round =< round[w] /\ round[w] \in Nat
  <2>1. TypeOK'
    BY TypeStep DEF IInv
  <2>2. m \in own[w] \/ m.round = round[w]
    BY StepFacts DEF IInv
  <2>3. round[w] \in Nat
    BY ConstantsAssumption DEF IInv, TypeOK
  <2> QED BY <2>1, <2>2, <2>3 DEF TypeOK, IInv, RoundsEntered
<1>2. Vote("precommit", w, r, b) \in own[w]
  <2>0. m.round \in Nat /\ r \in Nat
    BY <1>1, ConstantsAssumption DEF Votes
  <2>1. r # round[w]
    BY <1>1, <2>0
  <2>2. Vote("precommit", w, r, b).round = r
    BY DEF Vote
  <2> QED BY <2>1, <2>2, StepFacts DEF IInv
<1>3. AllBlocked(r, b)
  <2>1. CASE m \in own[w]
    BY <1>2, <2>1 DEF IInv, PrevoteSafe
  <2>2. CASE m \notin own[w]
    <3>1. should_prevote_proposal_block(w, m.value)
      BY <2>2, NewPrevote
    <3>2. m.value \in Blocks
      BY <1>1 DEF Votes, Values
    <3> QED BY <1>2, <3>1, <3>2, LockingRule
  <2> QED BY <2>1, <2>2
<1> QED
    BY <1>3, AllBlockedStable

\* LockSafe survives every step.
LEMMA LockSafeStep ==
    ASSUME IInv, [Next]_vars PROVE LockSafe'
<1> SUFFICES ASSUME NEW w \in Honest, NEW k \in locks'[w],
                    NEW r \in Rounds, NEW b \in Blocks, NEW Q \in Quorums,
                    r < k.round, b # k.value
             PROVE  \E u \in Q \cap Honest :
                        \/ Blocked(u, r, b)'
                        \/ u = w /\ Vote("precommit", w, r, b) \notin own'[w]
    BY DEF LockSafe
<1>0. k \in Locks /\ round[w] \in Nat /\ round[w] \in Rounds
  <2>1. TypeOK'
    BY TypeStep DEF IInv
  <2> QED BY <2>1, ConstantsAssumption DEF TypeOK, IInv
<1>1. \/ k \in locks[w]
      \/ k.round = round[w] /\ has_polka_for(w, round[w], k.value)
    BY StepFacts DEF IInv
<1>2. k.round =< round[w]
    BY <1>0, <1>1 DEF IInv, RoundsEntered
<1>3. \E u \in Q \cap Honest :
          \/ Blocked(u, r, b)
          \/ u = w /\ Vote("precommit", w, r, b) \notin own[w]
  <2>1. CASE k \in locks[w]
    BY <2>1 DEF IInv, LockSafe
  <2>2. CASE k.round = round[w] /\ has_polka_for(w, round[w], k.value)
    <3>1. k.value \in Blocks
      BY <1>0 DEF Locks
    <3> QED BY <1>0, <2>2, <3>1, PolkaSafe
  <2> QED BY <1>1, <2>1, <2>2
<1>4. Vote("precommit", w, r, b) \notin own[w] =>
          Vote("precommit", w, r, b) \notin own'[w]
  <2>0. k.round \in Nat /\ r \in Nat
    BY <1>0, ConstantsAssumption DEF Locks
  <2>1. r # round[w]
    BY <1>0, <1>2, <2>0
  <2>2. Vote("precommit", w, r, b).round = r
    BY DEF Vote
  <2> QED BY <2>1, <2>2, StepFacts DEF IInv
<1>5. \A u \in Honest : Blocked(u, r, b) => Blocked(u, r, b)'
    BY BlockedStable
<1> QED
    BY <1>3, <1>4, <1>5

\* The precommit quorum behind a stored block stays.
LEMMA CommitBackedStep ==
    ASSUME IInv, [Next]_vars PROVE CommitBacked'
<1> SUFFICES ASSUME NEW v \in Honest, committed'[v] # Nil
             PROVE  (\E r \in Rounds : has_commit_for(v, r, committed[v]))'
    BY DEF CommitBacked
<1>1. CASE committed[v] # Nil
  <2>1. PICK r \in Rounds : has_commit_for(v, r, committed[v])
    BY <1>1 DEF IInv, CommitBacked
  <2>2. own'[v] = own[v] /\ committed'[v] = committed[v] /\ sent \subseteq sent'
    BY <1>1, StepFacts DEF IInv
  <2> DEFINE P == Voters(v, "precommit", r, committed[v])
             R == Voters(v, "precommit", r, committed[v])'
  <2>3. P \subseteq R /\ P \in SUBSET Validators /\ R \in SUBSET Validators
    BY <2>2 DEF Voters, View
  <2>4. Power[P] * 3 >= Power[Validators] * 2 /\ Power[Validators] > 0
    BY <2>1 DEF has_commit_for, has_supermajority_power
  <2>5. /\ Power[P] =< Power[R] /\ Power[P] \in Nat /\ Power[R] \in Nat
        /\ Power[Validators] \in Nat
    BY <2>3, PowerAssumption
  <2>6. Power[R] * 3 >= Power[Validators] * 2
    <3> HIDE DEF P, R
    <3> QED BY <2>4, <2>5
  <2> QED BY <2>2, <2>4, <2>6 DEF has_commit_for, has_supermajority_power
<1>2. CASE committed[v] = Nil
  <2> USE DEF IInv, TypeOK
  <2>1. PICK r \in Rounds, b \in Blocks : commit(v, r, b)
    <3>1. committed'[v] # committed[v]
      BY <1>2
    <3>2. \A w \in Honest : \A r \in Rounds : ~ start_round(w, r)
      BY <3>1 DEF start_round
    <3>3. \A w \in Honest : \A b \in Values :
              ~ do_prevote(w, b) /\ ~ do_precommit(w, b)
      BY <3>1 DEF do_prevote, do_precommit
    <3>4. \A w \in Honest : \A m \in own[w] : ~ broadcast(w, m)
      BY <3>1 DEF broadcast
    <3>5. \A w \in Honest : \A S, L, l, r : ~ recover(w, S, L, l, r)
      BY <3>1 DEF recover
    <3>6. \A w \in Honest : \A r \in Rounds, b \in Blocks :
              commit(w, r, b) => w = v
      BY <3>1 DEF commit
    <3>7. ~ UNCHANGED vars
      BY <3>1 DEF vars
    <3>8. \A S \in Forgeries : ~ forge(S)
      BY <3>1 DEF forge
    <3> QED BY <3>2, <3>3, <3>4, <3>5, <3>6, <3>7, <3>8 DEF Next
  <2>2. /\ has_commit_for(v, r, b) /\ committed'[v] = b
        /\ sent' = sent /\ own' = own
    BY <2>1 DEF commit
  <2>3. has_commit_for(v, r, b)'
    BY <2>2 DEF has_commit_for, Voters, View
  <2> QED BY <2>2, <2>3
<1> QED
    BY <1>1, <1>2

-----------------------------------------------------------------------------
\* IInv is an inductive invariant of the voting discipline.
THEOREM Invariance ==
    Spec => []IInv
<1>1. Init => IInv
  <2> SUFFICES ASSUME Init PROVE IInv
    OBVIOUS
  <2>1. TypeOK
    BY DEF Init, TypeOK, Values
  <2> QED BY <2>1 DEF Init, IInv, SentIsOwn, RoundsEntered, OneVote,
          PrecommitCovered, PrevoteSafe, LockSafe, CommitBacked
<1>2. IInv /\ [Next]_vars => IInv'
  <2> SUFFICES ASSUME IInv, [Next]_vars PROVE IInv'
    OBVIOUS
  <2>1. TypeOK'
    BY TypeStep DEF IInv
  <2>2. SentIsOwn' /\ RoundsEntered' /\ OneVote' /\ PrecommitCovered'
    BY BookkeepingStep
  <2>3. PrevoteSafe' /\ LockSafe' /\ CommitBacked'
    BY PrevoteSafeStep, LockSafeStep, CommitBackedStep
  <2> QED BY <2>1, <2>2, <2>3 DEF IInv
<1> QED
    BY <1>1, <1>2, PTL DEF Spec

\* Every variable keeps its type.
THEOREM TypeCorrect ==
    Spec => []TypeOK
<1>1. IInv => TypeOK
    BY DEF IInv
<1> QED
    BY <1>1, Invariance, PTL

\* An honest validator never broadcasts two different votes of one type and
\* round, however often it crashes and recovers from its log.
THEOREM NoDoubleSignHolds ==
    Spec => []NoDoubleSign
<1>1. IInv => NoDoubleSign
    BY DEF IInv, SentIsOwn, OneVote, NoDoubleSign, TypeOK, Votes
<1> QED
    BY <1>1, Invariance, PTL

\* A vote that v counts is remembered by the validator that signed it.
LEMMA CountedIsOwn ==
    ASSUME IInv, NEW v \in Honest, NEW u \in Honest, NEW t, NEW r, NEW b,
           u \in Voters(v, t, r, b)
    PROVE  Vote(t, u, r, b) \in own[u]
<1>1. Vote(t, u, r, b).validator = u
    BY DEF Vote
<1>2. Vote(t, u, r, b) \in sent \cup own[v]
    BY DEF Voters, View, Honest
<1> QED
    BY <1>1, <1>2 DEF IInv, SentIsOwn, RoundsEntered

\* Two precommit quorums for different blocks cannot both form: not in one
\* round, because an honest validator precommits once per round, and not in
\* two rounds, because the later one needs a lock that rules out the earlier.
LEMMA OneCommit ==
    ASSUME IInv, NEW v \in Honest, NEW w \in Honest,
           NEW r \in Rounds, NEW s \in Rounds, NEW b \in Blocks, NEW c \in Blocks,
           has_commit_for(v, r, b), has_commit_for(w, s, c), r =< s
    PROVE  b = c
<1> DEFINE P == Voters(v, "precommit", r, b)
           Q == Voters(w, "precommit", s, c)
<1> SUFFICES ASSUME b # c PROVE FALSE
    OBVIOUS
<1>1. P \in Quorums /\ Q \in Quorums
    BY DEF has_commit_for, Quorums, Voters
<1>2. CASE r = s
  <2>1. PICK u \in P \cap Q : u \in Honest
    BY <1>1, QuorumIntersection
  <2>2. /\ Vote("precommit", u, r, b) \in own[u]
        /\ Vote("precommit", u, s, c) \in own[u]
    BY <2>1, CountedIsOwn
  <2> QED BY <1>2, <2>1, <2>2 DEF IInv, OneVote, Vote
<1>3. CASE r < s
  <2>1. PICK u \in Q : u \in Honest
    BY <1>1, QuorumIntersection
  <2> DEFINE m == Vote("precommit", u, s, c)
             k == [round |-> s, value |-> c]
  <2>2. m \in own[u]
    BY <2>1, CountedIsOwn
  <2>3. m.type = "precommit" /\ m.round = s /\ m.value = c /\ c # Nil
    BY ConstantsAssumption DEF Vote
  <2>4. k \in locks[u]
    <3> HIDE DEF m
    <3>1. [round |-> m.round, value |-> m.value] \in locks[u]
      BY <2>1, <2>2, <2>3 DEF IInv, PrecommitCovered
    <3> QED BY <2>3, <3>1
  <2>5. PICK x \in P \cap Honest :
            \/ Blocked(x, r, b)
            \/ x = u /\ Vote("precommit", u, r, b) \notin own[u]
    <3>1. k.round = s /\ k.value = c
      OBVIOUS
    <3> HIDE DEF k, P
    <3> QED BY <1>1, <1>3, <2>1, <2>4, <3>1 DEF IInv, LockSafe
  <2>6. Vote("precommit", x, r, b) \in own[x]
    BY <2>5, CountedIsOwn
  <2> QED BY <2>5, <2>6 DEF Blocked
<1> QED
    BY <1>2, <1>3, ConstantsAssumption

\* No two honest validators store different blocks for the height.
THEOREM AgreementHolds ==
    Spec => []Agreement
<1>1. IInv => Agreement
  <2> SUFFICES ASSUME IInv, NEW v \in Honest, NEW w \in Honest,
                      committed[v] # Nil, committed[w] # Nil
               PROVE  committed[v] = committed[w]
    BY DEF Agreement
  <2>1. committed[v] \in Blocks /\ committed[w] \in Blocks
    BY DEF IInv, TypeOK, Values
  <2>2. PICK r \in Rounds : has_commit_for(v, r, committed[v])
    BY DEF IInv, CommitBacked
  <2>3. PICK s \in Rounds : has_commit_for(w, s, committed[w])
    BY DEF IInv, CommitBacked
  <2>4. r =< s \/ s =< r
    BY ConstantsAssumption
  <2> QED BY <2>1, <2>2, <2>3, <2>4, OneCommit
<1> QED
    BY <1>1, Invariance, PTL
=============================================================================
