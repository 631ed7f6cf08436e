SPECIFICATION FairSpec
CONSTANTS
    c1 = c1
    c2 = c2
    j1 = j1
    s1 = s1
    s2 = s2
    None = None
    Unsat = Unsat
    Conns = {c1, c2}
    Jobs = {j1}
    Shards = {s1, s2}
    JobOf <- OneJob
    Cubes <- OneJobSeq
    SatShards = {s1}
    MayRefuse = FALSE
    MayGiveUp = FALSE
    MaxBad = 1
    MaxFaults = 0
    MaxCrashes = 0
PROPERTY SatJobFinishes
CHECK_DEADLOCK FALSE
