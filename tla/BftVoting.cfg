SPECIFICATION MCSpec
CONSTANTS
    v1 = v1
    v2 = v2
    v3 = v3
    z = z
    blockA = blockA
    blockB = blockB
    Nil = Nil
    Validators <- MCValidators
    Byzantine = {z}
    Blocks <- MCBlocks
    Rounds <- MCRounds
    Power <- MCPower
    Forgeries <- MCForgeries
    MaxVotes = 8
    MaxNil = 1
    MaxUnsent = 1
SYMMETRY Symmetry
CHECK_DEADLOCK FALSE
INVARIANTS
    TypeOK
    Agreement
    NoDoubleSign
