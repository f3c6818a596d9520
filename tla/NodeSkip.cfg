SPECIFICATION Spec
CONSTANTS
    me = me
    v1 = v1
    v2 = v2
    A = A
    B = B
    Nil = Nil
    Self <- me
    Validators <- MCValidators
    Blocks = {A, B}
    OwnBlocks = {A}
    Power <- MCPower
    Leader <- CrashLeader
    OtherVotes <- SkipVotes
    OtherProposals <- CrashProposals
    CatchUpLimit = 3
    MaxRound = 1
    MaxVotes = 3
    MaxFaults = 0
INVARIANT
    SkippedRoundIsDead
CHECK_DEADLOCK FALSE
