CONSTANTS
    Reqs = {q1, q2}
    MaxChunks = 2
    Retriable = {FALSE}
    N1qlTimeout <- MCN1qlTimeout
    TmoVals <- MCTmoVals
    AnaCmds <- MCAnaCmds
    Metas = {"none", "hnd", "emptyhnd"}
    HndCbInit = {"null", "garbage"}
    CmdHandleSet = TRUE

SPECIFICATION Spec

INVARIANTS
    NoCallbackIntoDeleted
    FinalLastSilentAfterCancel
    HandleValid
    TimeoutMatchesBody
    PollFromDeferredResult

PROPERTIES
    Released
    RefinesAnalyticsStream
