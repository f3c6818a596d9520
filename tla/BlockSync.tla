------------------------------ MODULE BlockSync ------------------------------
(***************************************************************************)
(* How a running validator catches up: three kinds of tasks of             *)
(* validator/src/main.rs that share the block store and the sync manager.  *)
(*                                                                         *)
(*  - the block receiver (rx) takes blocks from the network, applies the   *)
(*    one that extends the tip, keeps the others pending, and starts       *)
(*    catch-up batches, also from a periodic check;                        *)
(*  - the consensus loop (bft) commits the next height, or steps aside and *)
(*    starts catch-up batches itself when the network is ahead;            *)
(*  - every batch leaves a delayed check, a task of its own.               *)
(*                                                                         *)
(* block_apply_lock makes applying a block atomic.  Everything else a task *)
(* has read (the tip, whether a batch should start) may be stale by the    *)
(* time it acts on it; the fields cur, batch and tip hold what was read.   *)
(***************************************************************************)
EXTENDS SyncManager

CONSTANTS
    Genesis,                \* the block of slot 0, stored at the start
    LIVE_BFT_CATCH_UP_GAP,
    MaxAhead,               \* how far an unverified slot may raise highest_seen
    Gossiped,               \* bound: the blocks that arrive unasked
    Joining,                \* does the node start outside consensus?
    MaxChecks,              \* bound: delayed checks at the same time
    MaxMisses,              \* bound: slots a peer fails to answer or answers wrongly
    MaxStoreFaults          \* bound: failed writes of a block

ASSUME BlockSyncConstants ==
    /\ Genesis \in Blocks /\ Genesis.slot = 0
    /\ \A s \in Slots : \E b \in Blocks : b.slot = s /\ b.certified
    /\ \A b, c \in Blocks : b.certified /\ c.certified /\ b.slot = c.slot => b = c

VARIABLES
    sm,         \* the sync manager
    stored,     \* the blocks applied to canonical state
    replays,    \* history: how often a block of each slot was executed
    finalized,  \* the last slot committed by consensus
    seen,       \* seen_blocks of the receiver
    rx,         \* the receiver: where it stands and what it has read
    bft,        \* the consensus loop; owns: bft_committing_slot is set
    checks,     \* delayed batch checks
    net,        \* blocks on their way to the receiver
    misses,     \* slots not answered so far
    faults,     \* failed writes so far
    batch_from  \* history: the tip its starter had read for the active batch

vars == <<sm, stored, replays, finalized, seen, rx, bft, checks, net, misses,
          faults, batch_from>>

Canonical(slot) == CHOOSE b \in Blocks : b.slot = slot /\ b.certified
Tip == CHOOSE b \in stored : \A c \in stored : c.slot <= b.slot
IsStored(slot) == \E b \in stored : b.slot = slot
Messages == [block : Blocks, sync : BOOLEAN]

Idle == [pc |-> "idle", block |-> Genesis, sync |-> FALSE, cur |-> 0, batch |-> None]

TypeOK ==
    /\ sm \in Manager
    /\ pending_total_count(sm.pending_blocks) <= MAX_PENDING_BLOCKS
    /\ Genesis \in stored /\ stored \subseteq Blocks
    /\ seen \subseteq Blocks /\ net \subseteq Messages
    /\ \A b, c \in seen : b.slot = c.slot /\ b.validator = c.validator => b = c
    /\ finalized \in 0 .. Tip.slot
    /\ rx.pc \in {"idle", "place", "apply", "tip", "decide", "start", "request"}
    /\ rx.block \in Blocks /\ rx.cur \in 0 .. Tip.slot /\ rx.batch \in Batches
    /\ bft.pc \in {"join", "top", "run", "commit", "start", "request"}
    /\ bft.height \in 0 .. MaxSlot + 1 /\ bft.batch \in Batches
    /\ checks \subseteq [task : {"rx", "bft"}, start : Slots, end : Slots, from : Slots]
    /\ misses \in 0 .. MaxMisses /\ faults \in 0 .. MaxStoreFaults

Init ==
    /\ sm = IF Joining THEN NewManager ELSE transition_to_live(NewManager)
    /\ stored = {Genesis} /\ replays = [s \in Slots |-> 0] /\ finalized = 0
    /\ seen = {} /\ rx = Idle
    /\ bft = [pc |-> IF Joining THEN "join" ELSE "top", height |-> IF Joining THEN 0 ELSE 1,
              owns |-> ~Joining, batch |-> None, tip |-> 0]
    /\ checks = {} /\ net = {} /\ misses = 0 /\ faults = 0 /\ batch_from = 0

--------------------------------------------------------------------------------
(* Requests: some of the slots cannot be asked for and are released again;   *)
(* peers answer any part of the others with any blocks of those slots.       *)

Answers(slots) == SUBSET {b \in Blocks : b.slot \in slots}

Missed(slots, answer) == Cardinality({s \in slots : Canonical(s) \notin answer})

request_unrequested_block_range_from_peers(m, start, end) ==
    LET slots == claimable(m, start, end)
    IN  \E unsent \in SUBSET slots : \E answer \in Answers(slots \ unsent) :
            /\ misses' = misses + Missed(slots, answer) /\ misses' <= MaxMisses
            /\ net' = net \cup {[block |-> b, sync |-> TRUE] : b \in answer}
            /\ sm' = [claim_unrequested_ranges(m, start, end) EXCEPT !.requested_slots =
                        [s \in Slots |-> IF s \in unsent THEN "none" ELSE @[s]]]

--------------------------------------------------------------------------------
(* The block receiver *)

Conflicts(b) ==
    \E c \in seen : c # b /\ c.slot = b.slot /\ c.validator = b.validator

should_reconsider_duplicate_block(b) ==
    has_pending_child(sm, b.hash) /\ b.slot = Tip.slot

\* The block is already known and of no further use.
Redundant(m) ==
    /\ m.block \in seen
    /\ \/ m.sync /\ m.block.slot <= finalized
       \/ ~should_reconsider_duplicate_block(m.block)

recv_ignored(m) ==
    /\ m.sync /\ ~is_requested(sm, m.block.slot)
    /\ UNCHANGED <<sm, seen, rx>>

fault_deferred_seen(m, s) ==
    /\ should_defer_far_future_block(s, Tip.slot, m.block.slot)
    /\ sm' = note_seen(s, m.block.slot)
    /\ seen' = seen \cup {m.block}
    /\ UNCHANGED rx

recv_deferred(m, s) ==
    /\ should_defer_far_future_block(s, Tip.slot, m.block.slot)
    /\ sm' = note_seen(s, m.block.slot)
    /\ UNCHANGED <<seen, rx>>

recv_known(m, s) ==
    /\ ~should_defer_far_future_block(s, Tip.slot, m.block.slot)
    /\ Conflicts(m.block) \/ Redundant(m)
    /\ sm' = IF m.block \in seen /\ m.sync /\ m.block.slot <= finalized
             THEN record_progress(s, m.block.slot)
             ELSE s
    /\ UNCHANGED <<seen, rx>>

recv_admitted(m, s) ==
    /\ ~should_defer_far_future_block(s, Tip.slot, m.block.slot)
    /\ ~Conflicts(m.block) /\ ~Redundant(m)
    /\ seen' = seen \cup {m.block}
    /\ sm' = note_seen(s, m.block.slot)
    /\ rx' = [Idle EXCEPT !.pc = "place", !.block = m.block, !.sync = m.sync]

recv(m) ==
    /\ rx.pc = "idle" /\ m \in net
    /\ net' = net \ {m}
    /\ LET s == transition_to_initial_if_behind(sm, Tip.slot, m.block.slot)
       IN  \/ recv_ignored(m)
           \/ /\ m.sync => is_requested(sm, m.block.slot)
              /\ recv_deferred(m, s) \/ recv_known(m, s) \/ recv_admitted(m, s)
    /\ UNCHANGED <<stored, replays, finalized, bft, checks, misses, faults, batch_from>>

\* A live block that extends the tip is left to the consensus loop while that
\* is running, and forgotten so that a later copy is not a duplicate.
place_yielded ==
    /\ rx.block.slot > Tip.slot /\ rx.block.parent = Tip.hash
    /\ ~rx.sync /\ bft.owns
    /\ seen' = seen \ {rx.block}
    /\ rx' = Idle
    /\ UNCHANGED <<sm, net, misses>>

fault_place_any_parent ==
    /\ rx.block.slot > Tip.slot
    /\ rx.sync \/ ~bft.owns
    /\ rx' = [rx EXCEPT !.pc = "apply", !.cur = Tip.slot]
    /\ UNCHANGED <<sm, seen, net, misses>>

place_next ==
    /\ rx.block.slot > Tip.slot /\ rx.block.parent = Tip.hash
    /\ rx.sync \/ ~bft.owns
    /\ rx' = [rx EXCEPT !.pc = "apply", !.cur = Tip.slot]
    /\ UNCHANGED <<sm, seen, net, misses>>

\* A block that does not extend the tip is kept.  If it is the very next one
\* the tip may be on a fork and is asked for again; if slots are missing in
\* between, a live node asks for them at once.
place_pending ==
    LET cur == Tip.slot
        slot == rx.block.slot
        m == add_pending_block(sm, rx.block)
    IN  /\ slot > cur /\ rx.block.parent # Tip.hash
        /\ rx' = [rx EXCEPT !.pc = "decide", !.cur = cur]
        /\ \/ /\ slot = cur + 1
              /\ request_unrequested_block_range_from_peers(m, cur, cur)
           \/ /\ slot > cur + 1 /\ sm.sync_phase = "LiveSync"
              /\ request_unrequested_block_range_from_peers(m, cur + 1, slot - 1)
           \/ /\ slot > cur + 1 /\ sm.sync_phase = "InitialSync"
              /\ sm' = m
              /\ UNCHANGED <<net, misses>>
        /\ UNCHANGED seen

place_old ==
    /\ rx.block.slot <= Tip.slot
    /\ LET same == rx.sync /\ rx.block = Tip /\ ~has_pending_child(sm, Tip.hash)
       IN  /\ sm' = IF same THEN record_progress(sm, Tip.slot) ELSE sm
           /\ rx' = IF same \/ rx.block.slot < Tip.slot
                    THEN Idle
                    ELSE [rx EXCEPT !.pc = "tip"]
    /\ UNCHANGED <<seen, net, misses>>

place ==
    /\ rx.pc = "place"
    /\ place_yielded \/ place_next \/ place_pending \/ place_old
    /\ UNCHANGED <<stored, replays, finalized, bft, checks, faults, batch_from>>

\* The bookkeeping for an applied block.
Applied(m, b) ==
    LET p == record_progress(m, b.slot)
    IN  IF is_caught_up(p, b.slot) THEN transition_to_live(p) ELSE p

\* apply_pending_from_tip: apply the pending blocks that chain from the tip;
\* one without a valid commit certificate is dropped.
DrainedManager(m, tip) ==
    FoldLeft(LAMBDA a, c : IF c.certified THEN Applied(a, c) ELSE a,
             drop_applied(m, tip), try_apply_pending(m, tip))

DrainedBlocks(m, tip) == {c \in ToSet(try_apply_pending(m, tip)) : c.certified}

Execute(bs) ==
    /\ stored' = stored \cup bs
    /\ replays' = [s \in Slots |-> replays[s] + Cardinality({b \in bs : b.slot = s})]

fault_apply_unguarded ==
    LET m == Applied(sm, rx.block)
    IN  /\ rx.pc = "apply" /\ rx.block.certified
        /\ Execute({rx.block} \cup DrainedBlocks(m, rx.block))
        /\ sm' = DrainedManager(m, rx.block)
        /\ rx' = [rx EXCEPT !.pc = "decide"]
        /\ UNCHANGED <<finalized, seen, bft, checks, net, misses, faults, batch_from>>


\* Under block_apply_lock, with the slot found empty, the certificate valid
\* and the write successful.
apply_next ==
    LET m == Applied(sm, rx.block)
    IN  /\ rx.pc = "apply" /\ ~IsStored(rx.block.slot) /\ rx.block.certified
        /\ Execute({rx.block} \cup DrainedBlocks(m, rx.block))
        /\ sm' = DrainedManager(m, rx.block)
        /\ rx' = [rx EXCEPT !.pc = "decide"]
        /\ UNCHANGED <<finalized, seen, bft, checks, net, misses, faults, batch_from>>

\* Another path stored a block of this slot, the certificate is not valid, or
\* the write fails.
apply_refused ==
    /\ rx.pc = "apply"
    /\ \/ /\ IsStored(rx.block.slot)
          /\ sm' = record_progress(sm, rx.block.slot)
          /\ UNCHANGED faults
       \/ /\ ~IsStored(rx.block.slot) /\ ~rx.block.certified
          /\ UNCHANGED <<sm, faults>>
       \/ /\ ~IsStored(rx.block.slot) /\ rx.block.certified
          /\ faults < MaxStoreFaults /\ faults' = faults + 1
          /\ UNCHANGED sm
    /\ rx' = Idle
    /\ UNCHANGED <<stored, replays, finalized, seen, bft, checks, net, misses, batch_from>>

\* A block of the tip's slot, under block_apply_lock: if it is the tip, the
\* pending blocks are tried; a committed tip is never replaced.
retry_from_tip ==
    /\ rx.pc = "tip"
    /\ IF rx.block = Tip /\ has_pending_child(sm, Tip.hash)
       THEN Execute(DrainedBlocks(sm, Tip)) /\ sm' = DrainedManager(sm, Tip)
       ELSE UNCHANGED <<stored, replays, sm>>
    /\ rx' = Idle
    /\ UNCHANGED <<finalized, seen, bft, checks, net, misses, faults, batch_from>>

\* Whether to start a batch: after a block with the tip read before it was
\* placed, and periodically with the current tip.
decide ==
    /\ rx.pc = "decide"
    /\ LET batch == should_sync(sm, rx.cur)
       IN  rx' = IF batch = None THEN Idle
                 ELSE [Idle EXCEPT !.pc = "start", !.cur = rx.cur, !.batch = batch]
    /\ UNCHANGED <<sm, stored, replays, finalized, seen, bft, checks, net, misses,
                   faults, batch_from>>

sync_check_tick ==
    /\ rx.pc = "idle"
    /\ LET batch == should_sync(sm, Tip.slot)
       IN  /\ batch # None
           /\ rx' = [Idle EXCEPT !.pc = "start", !.cur = Tip.slot, !.batch = batch]
    /\ UNCHANGED <<sm, stored, replays, finalized, seen, bft, checks, net, misses,
                   faults, batch_from>>

rx_start ==
    /\ rx.pc = "start" /\ Cardinality(checks) < MaxChecks
    /\ sm' = start_sync(sm, rx.batch[1], rx.batch[2])
    /\ batch_from' = rx.cur
    /\ rx' = [rx EXCEPT !.pc = "request"]
    /\ UNCHANGED <<stored, replays, finalized, seen, bft, checks, net, misses, faults>>

Check(task, batch, from) ==
    [task |-> task, start |-> batch[1], end |-> batch[2], from |-> from]

rx_request ==
    /\ rx.pc = "request"
    /\ request_unrequested_block_range_from_peers(sm, rx.batch[1], rx.batch[2])
    /\ checks' = checks \cup {Check("rx", rx.batch, rx.cur)}
    /\ rx' = Idle
    /\ UNCHANGED <<stored, replays, finalized, seen, bft, faults, batch_from>>

--------------------------------------------------------------------------------
(* The consensus loop, as far as it concerns the tip.  What is decided for a *)
(* height is the certified block of that slot (see BftVoting).               *)

should_yield_live_bft_for_catch_up(m, tip, height) ==
    height > tip + 1 \/ m.highest_seen_slot > tip + LIVE_BFT_CATCH_UP_GAP

\* Before consensus: enter it once a tip was observed and is reached and
\* nothing is pending.
bft_join ==
    /\ bft.pc = "join"
    /\ sm.highest_seen_slot > 0
    /\ LET m == release_caught_up_sync_guard(sm, Tip.slot)
       IN  IF is_caught_up(m, Tip.slot) /\ ~has_pending(m)
           THEN /\ sm' = transition_to_live(m)
                /\ bft' = [bft EXCEPT !.pc = "top", !.height = Tip.slot + 1, !.owns = TRUE]
           ELSE sm' = m /\ UNCHANGED bft
    /\ UNCHANGED <<stored, replays, finalized, seen, rx, checks, net, misses, faults,
                   batch_from>>

\* Too far behind: give up the height and start a batch if one is due.
bft_pause ==
    /\ bft.pc = "top"
    /\ should_yield_live_bft_for_catch_up(sm, Tip.slot, bft.height)
    /\ LET batch == should_sync(sm, Tip.slot)
       IN  bft' = [bft EXCEPT !.owns = FALSE, !.batch = batch, !.tip = Tip.slot,
                              !.pc = IF batch = None THEN "top" ELSE "start"]
    /\ UNCHANGED <<sm, stored, replays, finalized, seen, rx, checks, net, misses, faults,
                   batch_from>>

\* Otherwise work on the height after the tip; what was seen long ago and
\* never arrived is forgotten.
bft_height ==
    /\ bft.pc = "top"
    /\ ~should_yield_live_bft_for_catch_up(sm, Tip.slot, bft.height)
    /\ sm' \in {sm, decay_highest_seen(sm, Tip.slot)}
    /\ bft' = IF Tip.slot >= bft.height
              THEN [bft EXCEPT !.pc = "run", !.height = Tip.slot + 1, !.owns = TRUE]
              ELSE [bft EXCEPT !.pc = "run"]
    /\ UNCHANGED <<stored, replays, finalized, seen, rx, checks, net, misses, faults,
                   batch_from>>

\* An event of the loop: it decides the height, learns that a block it has
\* not got was decided, or something else.
bft_event ==
    /\ bft.pc = "run"
    /\ \/ /\ should_yield_live_bft_for_catch_up(sm, Tip.slot, bft.height)
          /\ bft' = [bft EXCEPT !.pc = "top", !.owns = FALSE]
          /\ UNCHANGED <<sm, net, misses>>
       \/ /\ ~should_yield_live_bft_for_catch_up(sm, Tip.slot, bft.height)
          /\ bft.height <= MaxSlot
          /\ bft' = [bft EXCEPT !.pc = "commit"]
          /\ UNCHANGED <<sm, net, misses>>
       \/ /\ ~should_yield_live_bft_for_catch_up(sm, Tip.slot, bft.height)
          /\ bft.height <= MaxSlot
          /\ request_unrequested_block_range_from_peers(
                note_seen(sm, bft.height), bft.height, bft.height)
          /\ bft' = [bft EXCEPT !.pc = "top"]
       \/ /\ bft' = [bft EXCEPT !.pc = "top"]
          /\ UNCHANGED <<sm, net, misses>>
    /\ UNCHANGED <<stored, replays, finalized, seen, rx, checks, faults, batch_from>>

classify_bft_commit_storage(height) ==
    CASE IsStored(height) /\ Canonical(height) \notin stored -> "ConflictingStoredHash"
      [] Canonical(height) \in stored /\ height < Tip.slot -> "StaleAlreadyApplied"
      [] Canonical(height) \in stored /\ height = Tip.slot -> "DuplicateAtTip"
      [] Canonical(height) \in stored /\ height > Tip.slot -> "StoredAheadOfTip"
      [] ~IsStored(height) /\ height <= Tip.slot -> "StaleMissingBlock"
      [] ~IsStored(height) /\ height > Tip.slot + 1 -> "MissingParentGap"
      [] ~IsStored(height) /\ height = Tip.slot + 1 -> "FreshNextBlock"

\* CommitBlock, under block_apply_lock.  Only the three cases that
\* CommitIsOrderly allows are spelled out.
bft_commit ==
    /\ bft.pc = "commit"
    /\ \/ /\ classify_bft_commit_storage(bft.height) = "FreshNextBlock"
          /\ Execute({Canonical(bft.height)})
          /\ finalized' = Upper(finalized, bft.height)
          /\ sm' = record_progress(sm, bft.height)
       \/ /\ classify_bft_commit_storage(bft.height) = "DuplicateAtTip"
          /\ sm' = record_progress(sm, bft.height)
          /\ UNCHANGED <<stored, replays, finalized>>
       \/ /\ classify_bft_commit_storage(bft.height) = "StaleAlreadyApplied"
          /\ UNCHANGED <<sm, stored, replays, finalized>>
    /\ bft' = [bft EXCEPT !.pc = "top"]
    /\ UNCHANGED <<seen, rx, checks, net, misses, faults, batch_from>>

bft_start ==
    /\ bft.pc = "start" /\ Cardinality(checks) < MaxChecks
    /\ sm' = start_sync(sm, bft.batch[1], bft.batch[2])
    /\ batch_from' = bft.tip
    /\ bft' = [bft EXCEPT !.pc = "request"]
    /\ UNCHANGED <<stored, replays, finalized, seen, rx, checks, net, misses, faults>>

fault_bft_request_unchecked ==
    /\ bft.pc = "request"
    /\ request_unrequested_block_range_from_peers(sm, bft.batch[1], bft.batch[2])
    /\ bft' = [bft EXCEPT !.pc = "top", !.batch = None, !.tip = 0]
    /\ UNCHANGED <<stored, replays, finalized, seen, rx, checks, faults, batch_from>>

bft_request ==
    /\ bft.pc = "request"
    /\ request_unrequested_block_range_from_peers(sm, bft.batch[1], bft.batch[2])
    /\ checks' = checks \cup {Check("bft", bft.batch, bft.tip)}
    /\ bft' = [bft EXCEPT !.pc = "top", !.batch = None, !.tip = 0]
    /\ UNCHANGED <<stored, replays, finalized, seen, rx, faults, batch_from>>

--------------------------------------------------------------------------------
(* Delayed checks, peers and time *)

check_fires(c) ==
    /\ c \in checks
    /\ checks' = checks \ {c}
    /\ sm' = finish_sync_batch_check(sm, c.start, c.end, Tip.slot)
    /\ UNCHANGED <<stored, replays, finalized, seen, rx, bft, net, misses, faults,
                   batch_from>>

\* A peer announces its tip.
announce(slot) ==
    /\ slot > sm.highest_seen_slot
    /\ sm' = note_seen_bounded(sm, slot, MaxAhead)
    /\ UNCHANGED <<stored, replays, finalized, seen, rx, bft, checks, net, misses,
                   faults, batch_from>>

\* A compact block arrives; consensus does not want those of its own heights.
gossip(b) ==
    /\ sm' = note_seen_bounded(sm, b.slot, MaxAhead)
    /\ net' = IF bft.owns /\ b.slot >= bft.height THEN net
              ELSE net \cup {[block |-> b, sync |-> FALSE]}
    /\ UNCHANGED <<stored, replays, finalized, seen, rx, bft, checks, misses, faults,
                   batch_from>>

cooldown_ends ==
    /\ ~sm.cooled
    /\ sm' = [sm EXCEPT !.cooled = TRUE]
    /\ UNCHANGED <<stored, replays, finalized, seen, rx, bft, checks, net, misses,
                   faults, batch_from>>

\* A requested slot becomes due for a retry, and later it is dropped.  Both
\* take longer than the delayed checks of the batches it belongs to.  An answer
\* still on its way when the slot is dropped comes too late: it is a miss.
request_ages(slot) ==
    /\ is_requested(sm, slot)
    /\ \A c \in checks : slot \notin c.start .. c.end
    /\ sm' = [sm EXCEPT !.requested_slots[slot] = IF @ = "fresh" THEN "due" ELSE "none"]
    /\ misses' = misses + Cardinality({m \in net : m.sync /\ m.block = Canonical(slot)
                                                   /\ sm.requested_slots[slot] = "due"})
    /\ misses' <= MaxMisses
    /\ UNCHANGED <<stored, replays, finalized, seen, rx, bft, checks, net, faults,
                   batch_from>>

--------------------------------------------------------------------------------
Receiver ==
    \/ place \/ apply_next \/ apply_refused \/ retry_from_tip \/ decide
    \/ rx_start \/ rx_request

Consensus ==
    \/ bft_join \/ bft_pause \/ bft_height \/ bft_event \/ bft_commit
    \/ bft_start \/ bft_request

Next ==
    \/ \E m \in net : recv(m)
    \/ Receiver \/ sync_check_tick \/ Consensus
    \/ \E c \in checks : check_fires(c)
    \/ \E slot \in Slots : announce(slot) \/ request_ages(slot)
    \/ \E b \in Gossiped : gossip(b)
    \/ cooldown_ends

Spec == Init /\ [][Next]_vars

\* The receiver takes every answer in the end and its periodic check
\* recurs; every task runs on; delayed checks fire and time passes; peers
\* announce their tip again and again.
Fairness ==
    /\ \A b \in Blocks \ {Genesis} : SF_vars(recv([block |-> b, sync |-> TRUE]))
    /\ SF_vars(sync_check_tick)
    /\ WF_vars(Receiver) /\ WF_vars(Consensus)
    /\ WF_vars(\E c \in checks : check_fires(c))
    /\ WF_vars(cooldown_ends)
    /\ WF_vars(\E slot \in Slots : request_ages(slot))
    /\ WF_vars(announce(MaxSlot))

FairSpec == Spec /\ Fairness

--------------------------------------------------------------------------------
(* Properties *)

\* However the receiver, its pending queue and the consensus loop race for a
\* slot, its block is executed at most once ("Processing it here causes double
\* TX replay").
ExecutedOnce == \A s \in Slots : replays[s] <= 1


\* When the consensus loop gets to store what it decided, the block is the next
\* one, or already applied: the receiver never leaves the store in one of the
\* states from which CommitBlock would need a repair.
CommitIsOrderly ==
    bft.pc = "commit" =>
        classify_bft_commit_storage(bft.height) \in
            {"FreshNextBlock", "DuplicateAtTip", "StaleAlreadyApplied"}

\* The batch guard is never left behind: an active batch has a delayed check to
\* end it, or the task that started it is about to leave one, even when two
\* tasks have started batches at the same time.
ActiveBatchHasCheck ==
    /\ sm.is_syncing <=> sm.current_sync_batch # None
    /\ sm.is_syncing =>
        \/ \E c \in checks : <<c.start, c.end>> = sm.current_sync_batch
        \/ rx.pc = "request" /\ rx.batch = sm.current_sync_batch
        \/ bft.pc = "request" /\ bft.batch = sm.current_sync_batch


\* "This prevents a stalled chain from permanently blocking catch-up": as long
\* as peers answer in the end, the node reaches the network's tip.
CatchesUp == <>(Tip.slot = MaxSlot)

================================================================================
