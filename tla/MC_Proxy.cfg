CONSTANTS
    Clients = {"a", "b"}
    Script <- MCScript
    MaxPerRead = 1
    MaxRows = 1

SPECIFICATION Spec

INVARIANTS
    RequestAccounting

PROPERTY Served
