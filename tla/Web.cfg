SPECIFICATION Spec
CONSTANTS
    s1 = s1
    s2 = s2
    s3 = s3
    j1 = j1
    j2 = j2
    None = None
    Unsat = Unsat
    Shards = {s1, s2, s3}
    Jobs = {j1, j2}
    JobOf <- Layout
    MaxFailed = 1
    MaxRejected = 1
    Users = {ann, bob}
    Browsers = {b1, b2}
    SessionIds = {i1, i2}
    Tokens = {t1, t2}
    Nobody = Nobody
    MaxErrors = 1
    MaxLost = 1
    MaxRestarts = 1
INVARIANT TypeOK
INVARIANT SessionIsOwn
INVARIANT PageBacked
INVARIANT StoppedIsFinal
PROPERTY RevokedByOwner
PROPERTY PageCatchesUp
CHECK_DEADLOCK FALSE
