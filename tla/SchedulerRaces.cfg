SPECIFICATION Spec
CONSTANTS
    c1 = c1
    c2 = c2
    j1 = j1
    s1 = s1
    s2 = s2
    None = None
    Unsat = Unsat
    Conns = {c1, c2}
    Jobs = {j1}
    Shards = {s1, s2}
    JobOf <- OneJob
    Cubes <- OneJobSeq
    SatShards = {s1, s2}
    MayRefuse = TRUE
    MayGiveUp = FALSE
    MaxBad = 1
    MaxFaults = 1
    MaxCrashes = 1
SYMMETRY ConnSymmetry
INVARIANT TypeOK
INVARIANT DebtOnRecord
INVARIANT NoOrphan
INVARIANT NoLostWakeup
INVARIANT CancelAfterVerdict
PROPERTY ImplementsOwing
PROPERTY VerdictStable
CHECK_DEADLOCK FALSE
