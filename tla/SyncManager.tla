----------------------------- MODULE SyncManager -----------------------------
(***************************************************************************)
(* The sync manager of validator/src/sync.rs: what a node behind the       *)
(* network has asked for, what it holds without being able to apply it,    *)
(* and the one catch-up batch it works on.  Its state is a record, and     *)
(* every method is an operator on that record.                             *)
(*                                                                         *)
(* Time is abstract.  A requested slot is "fresh" until its retry time has *)
(* passed and "due" from then on; cooled says whether the cooldown since   *)
(* the last batch is over (its length, and with it the failure count, is   *)
(* left out).                                                              *)
(***************************************************************************)
EXTENDS Integers, Sequences, SequencesExt, FiniteSets

CONSTANTS
    MaxSlot,                     \* bound: the network's last slot
    Blocks,                      \* [slot, validator, hash, parent, certified]
    SYNC_BATCH_SIZE,
    P2P_BLOCK_RANGE_LIMIT,
    SYNC_PIPELINE_DEPTH,
    INITIAL_SYNC_FORWARD_WINDOW,
    MAX_PENDING_BLOCKS,
    MAX_REQUESTED_SLOTS

ASSUME SyncConstants ==
    /\ MaxSlot \in Nat
    /\ \A b \in Blocks : b.slot \in 0 .. MaxSlot
    /\ {SYNC_BATCH_SIZE, P2P_BLOCK_RANGE_LIMIT, SYNC_PIPELINE_DEPTH,
        INITIAL_SYNC_FORWARD_WINDOW, MAX_PENDING_BLOCKS,
        MAX_REQUESTED_SLOTS} \subseteq Nat \ {0}

Slots == 0 .. MaxSlot
None == <<>>
Batches == {None} \cup (Slots \X Slots)
Lower(a, b) == IF a < b THEN a ELSE b
Upper(a, b) == IF a > b THEN a ELSE b
Minus(a, b) == Upper(a - b, 0)          \* saturating_sub

NewManager ==
    [pending_blocks |-> [s \in Slots |-> <<>>],
     requested_slots |-> [s \in Slots |-> "none"],
     is_syncing |-> FALSE, current_sync_batch |-> None,
     highest_seen_slot |-> 0, sync_phase |-> "InitialSync", cooled |-> TRUE]

Manager ==
    [pending_blocks : [Slots -> Seq(Blocks)],
     requested_slots : [Slots -> {"none", "fresh", "due"}],
     is_syncing : BOOLEAN, current_sync_batch : Batches,
     highest_seen_slot : Slots, sync_phase : {"InitialSync", "LiveSync"},
     cooled : BOOLEAN]

--------------------------------------------------------------------------------
(* Slots seen and the phase *)

note_seen(m, slot) ==
    [m EXCEPT !.highest_seen_slot = Upper(@, slot)]

fault_seen_beyond(m, slot, max_ahead) ==
    note_seen(m, Upper(slot, m.highest_seen_slot + max_ahead))

note_seen_bounded(m, slot, max_ahead) ==
    note_seen(m, Lower(slot, m.highest_seen_slot + max_ahead))

\* Called when no higher slot was seen for stale_secs.
decay_highest_seen(m, current_tip) ==
    [m EXCEPT !.highest_seen_slot = Lower(@, current_tip)]

is_caught_up(m, current_slot) == current_slot >= m.highest_seen_slot

transition_to_live(m) == [m EXCEPT !.sync_phase = "LiveSync"]

transition_to_initial_if_behind(m, current_slot, observed_slot) ==
    IF observed_slot <= current_slot + INITIAL_SYNC_FORWARD_WINDOW
    THEN m
    ELSE [m EXCEPT !.sync_phase = "InitialSync"]

should_defer_far_future_block(m, current_slot, block_slot) ==
    /\ block_slot > current_slot + INITIAL_SYNC_FORWARD_WINDOW
    /\ m.sync_phase = "InitialSync"

--------------------------------------------------------------------------------
(* Requested slots *)

is_requested(m, slot) == m.requested_slots[slot] # "none"

clear_requested_range(m, start, end) ==
    [m EXCEPT !.requested_slots =
        [s \in Slots |-> IF s \in start .. end THEN "none" ELSE @[s]]]

make_requested_range_retryable(m, start, end) ==
    [m EXCEPT !.requested_slots =
        [s \in Slots |-> IF s \in start .. end /\ @[s] = "fresh" THEN "due"
                                                                 ELSE @[s]]]

\* The map is cleared when the range would not fit.
WithRoom(m, start, end) ==
    LET held == {s \in Slots : is_requested(m, s)}
    IN  IF Cardinality(held) + (end - start + 1) > MAX_REQUESTED_SLOTS
        THEN clear_requested_range(m, 0, MaxSlot)
        ELSE m

\* The slots of the range that still need a request.
claimable(m, start, end) ==
    {s \in start .. end : WithRoom(m, start, end).requested_slots[s] # "fresh"}

claim_unrequested_ranges(m, start, end) ==
    [WithRoom(m, start, end) EXCEPT !.requested_slots =
        [s \in Slots |-> IF s \in start .. end THEN "fresh" ELSE @[s]]]

--------------------------------------------------------------------------------
(* The active batch *)

start_sync(m, start, end) ==
    [m EXCEPT !.is_syncing = TRUE, !.current_sync_batch = <<start, end>>,
              !.cooled = FALSE]

EndBatch(m) ==
    [m EXCEPT !.is_syncing = FALSE, !.current_sync_batch = None]


complete_sync_if_current(m, start, end) ==
    IF m.current_sync_batch = <<start, end>> THEN EndBatch(m) ELSE m

fault_check_keeps_guard(m, start, end, current_slot) ==
    IF current_slot >= end
    THEN clear_requested_range(complete_sync_if_current(m, start, end), start, end)
    ELSE m

\* A check of a batch that is no longer active changes nothing.
finish_sync_batch_check(m, start, end, current_slot) ==
    LET done == complete_sync_if_current(m, start, end)
    IN  IF done = m THEN m
        ELSE IF current_slot >= end
             THEN clear_requested_range(done, start, end)
             ELSE make_requested_range_retryable(done, start, end)

record_progress(m, slot) ==
    LET batch == m.current_sync_batch
    IN  IF batch # None /\ slot >= batch[2]
        THEN [clear_requested_range(complete_sync_if_current(m, batch[1], batch[2]),
                                    batch[1], batch[2])
              EXCEPT !.cooled = TRUE]
        ELSE m

PendingSlots(m) == {s \in Slots : m.pending_blocks[s] # <<>>}
has_pending(m) == PendingSlots(m) # {}

release_caught_up_sync_guard(m, current_slot) ==
    LET batch == m.current_sync_batch
    IN  IF ~has_pending(m) /\ m.is_syncing /\ batch # None /\ current_slot >= batch[2]
        THEN clear_requested_range(EndBatch(m), batch[1], batch[2])
        ELSE m

\* With a batch active, only a live node near the batch's end and still far
\* from the tip may start the next one.
BatchBlocks(m, current_slot) ==
    LET batch == m.current_sync_batch
    IN  /\ m.is_syncing
        /\ \/ batch = None
           \/ current_slot < batch[1]
           \/ m.sync_phase = "InitialSync"
           \/ Minus(batch[2], current_slot) >= P2P_BLOCK_RANGE_LIMIT
           \/ Minus(m.highest_seen_slot, current_slot) <= SYNC_BATCH_SIZE \div 2

\* A live node with pending blocks asks for its own tip again, since a fork
\* may start there.  (At slot 0 it starts from the last checkpoint; before
\* the first one that is slot 0.)
StartSlot(m, current_slot) ==
    IF m.sync_phase = "LiveSync" /\ (current_slot = 0 \/ has_pending(m))
    THEN current_slot
    ELSE current_slot + 1

EffectiveBatch(m, start) ==
    IF m.sync_phase = "InitialSync" THEN INITIAL_SYNC_FORWARD_WINDOW
    ELSE IF Minus(m.highest_seen_slot, start) > SYNC_BATCH_SIZE
         THEN SYNC_BATCH_SIZE * SYNC_PIPELINE_DEPTH
         ELSE SYNC_BATCH_SIZE

should_sync(m, current_slot) ==
    LET start == StartSlot(m, current_slot)
        end == Lower(start + EffectiveBatch(m, start) - 1, m.highest_seen_slot)
    IN  IF /\ m.cooled
           /\ ~BatchBlocks(m, current_slot)
           /\ m.highest_seen_slot > current_slot
           /\ end >= start
        THEN <<start, end>>
        ELSE None

--------------------------------------------------------------------------------
(* Pending blocks: for each slot the candidates, in order of arrival *)

pending_total_count(p) == MapThenSumSet(LAMBDA s : Len(p[s]), Slots)

\* The newest candidate of the highest slot makes room.
DropNewest(p) ==
    [p EXCEPT ![Max({s \in Slots : p[s] # <<>>})] = Front(@)]

add_pending_block(m, block) ==
    LET p == m.pending_blocks
        room == IF pending_total_count(p) >= MAX_PENDING_BLOCKS THEN DropNewest(p)
                                                                ELSE p
    IN  note_seen(IF Contains(p[block.slot], block)
                  THEN m
                  ELSE [m EXCEPT !.pending_blocks =
                            [room EXCEPT ![block.slot] = Append(@, block)]],
                  block.slot)

PendingBlocks(m) == UNION {ToSet(m.pending_blocks[s]) : s \in Slots}

has_pending_child(m, hash) == \E b \in PendingBlocks(m) : b.parent = hash

\* The candidate that extends the tip: the first one of the lowest slot.
NextPending(m, tip) ==
    LET extends(b) == b.parent = tip.hash
        slots == {s \in PendingSlots(m) :
                    s > tip.slot /\ SelectSeq(m.pending_blocks[s], extends) # <<>>}
    IN  IF slots = {} THEN {}
        ELSE {Head(SelectSeq(m.pending_blocks[Min(slots)], extends))}

\* The pending blocks that chain from the tip, each block's parent being the
\* one before it.
try_apply_pending(m, tip) ==
    LET chain[b \in Blocks] ==
            LET next == NextPending(m, b)
            IN  IF next = {} THEN <<>>
                ELSE LET c == CHOOSE x \in next : TRUE IN <<c>> \o chain[c]
    IN  chain[tip]

\* What try_apply_pending leaves in the queue.
drop_applied(m, tip) ==
    LET chain == try_apply_pending(m, tip)
        last == IF chain = <<>> THEN tip.slot ELSE Last(chain).slot
    IN  [m EXCEPT !.pending_blocks =
            [s \in Slots |-> IF s > last THEN @[s] ELSE <<>>]]

================================================================================
