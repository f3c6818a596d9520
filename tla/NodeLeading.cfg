SPECIFICATION FairSpec
CONSTANTS
    me = me
    v1 = v1
    v2 = v2
    A = A
    B = B
    Nil = Nil
    Self <- me
    Validators <- MCValidators
    Blocks = {A, B}
    OwnBlocks = {A, B}
    Power <- MCPower
    Leader <- LeadingLeader
    OtherVotes <- LeadingVotes
    OtherProposals <- LeadingProposals
    CatchUpLimit = 3
    MaxRound = 1
    MaxVotes = 2
    MaxFaults = 1
INVARIANTS
    NoDoubleProposal
PROPERTY
    RoundProgress
CHECK_DEADLOCK FALSE
