CONSTANTS
    Ops = {o1, o2, o3}
    Colls = {dflt, c1}
    Default = dflt
    CollId <- MCCollId
    UseCollections = TRUE
    SyncSupported = TRUE
    CompressOpts = {"OUT"}
    StoreCmds <- MCStoreCmds
    GetCmds <- MCGetCmds

SPECIFICATION Spec

INVARIANTS
    SentGetsEncodedPerSpec
    TypeOK
    OneOutcome
    SentWithCollectionId
    ConflictsRejectedSynchronously
    SentStoresEncodedPerSpec

PROPERTY GetAnswered
