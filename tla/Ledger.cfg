SPECIFICATION FairSpec
CONSTANTS
    a = a
    b = b
    wa = wa
    wb = wb
    ja = ja
    jb = jb
    sa1 = sa1
    sa2 = sa2
    sb1 = sb1
    Nobody = Nobody
    Users = {a, b}
    Workers = {wa, wb}
    Jobs = {ja, jb}
    Shards = {sa1, sa2, sb1}
    SatShards = {sa1}
    Txs = {t1, t2}
    UserOf <- Owner
    ClientOf <- Client
    JobOf <- Cube
    SizeOf <- Size
    VarsOf <- Vars
    ClausesOf <- Clauses
    depositSatc = 4
    withdrawSatc = 1
    perKB = 1000
    workerPenaltySatc = 1
    rewardPerVarSatc = 1
    rewardPerClauseSatc = 1
    MaxWallet = 2
    MaxBad = 1
    MaxFaults = 1
INVARIANT TypeOK
INVARIANT NoOverdraft
INVARIANT FeeForJob
INVARIANT Conserved
INVARIANT RewardsBooked
PROPERTY ImplementsBank
PROPERTY MoneySettles
CHECK_DEADLOCK FALSE
