SPECIFICATION Spec
CONSTANTS
    Files <- Uploads
    WorkerCounts = {0, 2, 3, 5}
    maxDepthCap = 2
INVARIANT CubesPartition
INVARIANT EnoughShards
INVARIANT VerdictRight
INVARIANT HonestAccepted
INVARIANT AcceptedHasModel
CHECK_DEADLOCK FALSE
