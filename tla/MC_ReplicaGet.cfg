CONSTANTS
    Reqs = {q1, q2}
    Servers = {s1, s2, s3}
    s1 = s1
    s2 = s2
    s3 = s3
    NONE = NONE
    R = 2
    Configs <- MCConfigs
    Modes = {"ANY", "ALL", "IDX1", "IDX2"}
    MaxBatches = 1
    UseCollections = TRUE

SPECIFICATION Spec

INVARIANT TypeOK
INVARIANT CookieTracksPackets
INVARIANT FinalEndsRequest
INVARIANT FanOutReportsEveryReplica
INVARIANT FirstStopsAtSuccess

PROPERTY SentCompletes
PROPERTY RefinesReplicaRead
