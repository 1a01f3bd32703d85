CONSTANTS
    Reqs = {q1}
    MaxChunks = 1
    Retriable = {FALSE}
    N1qlTimeout <- MCN1qlTimeout
    TmoVals <- MCTmoVals
    AnaCmds <- MCAnaCmds
    Metas = {"none", "hnd", "emptyhnd"}
    HndCbInit = {"null", "garbage"}
    CmdHandleSet = FALSE

SPECIFICATION Spec

INVARIANT QueryHandleIssued
