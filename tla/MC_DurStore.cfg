CONSTANTS
    Stores = {w1, w2}
    ReplicaMax = 1
    Requests <- MCRequests
    MaxPolls = 2
    MaxBatches = 1

SPECIFICATION Spec

INVARIANTS
    TypeOK
    DurStoreCtxOwned
    OneCallback
    SuccessMeetsRequest
    

PROPERTY StoreAnswered
