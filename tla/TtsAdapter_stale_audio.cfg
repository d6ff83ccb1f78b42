SPECIFICATION Spec
CONSTANTS
    MaxStreams = 2
    MaxChunks = 2
INVARIANT AudioIsOwn
CHECK_DEADLOCK FALSE
