SPECIFICATION Spec
CONSTANTS
    me = me
    v1 = v1
    v2 = v2
    A = A
    B = B
    Nil = Nil
    Self <- me
    Validators <- MCValidators
    Blocks = {A, B}
    OwnBlocks = {A}
    Power <- MCPower
    Leader <- CrashLeader
    OtherVotes <- RoundsVotes
    OtherProposals <- RoundsProposals
    CatchUpLimit = 3
    MaxRound = 2
    MaxVotes = 3
    MaxFaults = 0
INVARIANTS
    RestartIsSafe
    StepTracksOwnVotes
    
PROPERTY
    ImplementsVoting
CHECK_DEADLOCK FALSE
