CONSTANTS
    Clients = {"a"}
    Script <- MCScriptSearch6
    MaxPerRead = 1
    MaxRows = 1

SPECIFICATION Spec

INVARIANT SearchPayloadInBounds
