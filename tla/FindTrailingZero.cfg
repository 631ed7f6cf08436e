SPECIFICATION Spec
CONSTANTS
    Files <- Uploads
    WorkerCounts = {0, 2, 3, 5}
    maxDepthCap = 3
INVARIANT ExtraLinesIgnored
CHECK_DEADLOCK FALSE
