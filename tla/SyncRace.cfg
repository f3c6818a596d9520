SPECIFICATION Spec
CONSTANTS
    g = g
    a1 = a1
    a2 = a2
    b2 = b2
    v = v
    w = w
    Genesis <- MCGenesis
    Blocks <- Chain
    Gossiped <- LateGossip
    MaxSlot = 2
    SYNC_BATCH_SIZE = 3
    P2P_BLOCK_RANGE_LIMIT = 1
    SYNC_PIPELINE_DEPTH = 2
    INITIAL_SYNC_FORWARD_WINDOW = 2
    MAX_PENDING_BLOCKS = 3
    MAX_REQUESTED_SLOTS = 4
    LIVE_BFT_CATCH_UP_GAP = 1
    MaxAhead = 3
    Joining = FALSE
    MaxChecks = 1
    MaxMisses = 0
    MaxStoreFaults = 0
INVARIANTS
    ExecutedOnce
    CommitIsOrderly
CHECK_DEADLOCK FALSE
