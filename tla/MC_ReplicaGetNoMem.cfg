CONSTANTS
    Reqs = {q1}
    Servers = {s1, s2, s3}
    s1 = s1
    s2 = s2
    s3 = s3
    NONE = NONE
    R = 2
    Configs <- MCConfigs
    Modes = {"ANY", "ALL", "IDX1"}
    MaxBatches = 1
    UseCollections = FALSE

SPECIFICATION SpecNoMem

INVARIANT CookieTracksPackets
