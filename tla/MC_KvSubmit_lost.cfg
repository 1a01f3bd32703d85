CONSTANTS
    Ops = {o1}
    Colls = {dflt, c1}
    Default = dflt
    CollId <- MCCollId
    UseCollections = TRUE
    SyncSupported = TRUE
    CompressOpts = {"OUT"}
    StoreCmds <- MCStoreCmds
    GetCmds <- MCGetCmds

SPECIFICATION Spec

PROPERTY Answered
