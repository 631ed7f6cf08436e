SPECIFICATION Spec
CONSTANTS
    c1 = c1
    c2 = c2
    j1 = j1
    s1 = s1
    s2 = s2
    None = None
    Unsat = Unsat
    Conns = {c1, c2}
    Jobs = {j1}
    Shards = {s1, s2}
    JobOf <- OneJob
    Cubes <- OneJobSeq
    SatShards = {}
    MayRefuse = FALSE
    MayGiveUp = TRUE
    MaxBad = 1
    MaxFaults = 1
    MaxCrashes = 1
SYMMETRY ConnSymmetry
INVARIANT OnePlace
INVARIANT LossesAreFaults
INVARIANT VerdictBacked
INVARIANT PaidOnce
INVARIANT MemoryMatchesDB
PROPERTY ImplementsVerdicts
CHECK_DEADLOCK FALSE
