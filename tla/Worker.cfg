SPECIFICATION TestSpec
CONSTANTS
    s1 = s1
    s2 = s2
    s3 = s3
    j1 = j1
    j2 = j2
    None = None
    Shards = {s1, s2, s3}
    Jobs = {j1, j2}
    JobOf <- Layout
    SatShards = {s1}
    Modes = {"worker", "none", "crash_mid", "wrong_sat", "wrong_unsat", "timeout", "random_crash"}
    failAfterN = 1
    MaxErrors = 2
    MaxExits = 2
INVARIANT TypeOK
INVARIANT CancelHitsItsJob
INVARIANT ProofFirst
INVARIANT RevokedEarnsNoMore
PROPERTY ImplementsOwing
PROPERTY WorkerFreesUp
PROPERTY StartedIsAnswered
PROPERTY OnlyHangsBlock
CHECK_DEADLOCK FALSE
