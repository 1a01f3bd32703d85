CONSTANTS
    Reqs = {q1}
    MaxChunks = 1
    Retriable = {TRUE, FALSE}
    N1qlTimeout <- MCN1qlTimeout
    TmoVals <- MCTmoVals
    AnaCmds <- MCAnaCmds
    Metas = {"none", "hnd", "emptyhnd"}
    HndCbInit = {"null", "garbage"}
    CmdHandleSet = TRUE

SPECIFICATION Spec

PROPERTY Released

CHECK_DEADLOCK FALSE
