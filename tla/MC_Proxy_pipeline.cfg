CONSTANTS
    Clients = {"a", "b"}
    Script <- MCScript
    MaxPerRead = 2
    MaxRows = 1

SPECIFICATION Spec

PROPERTY Served
