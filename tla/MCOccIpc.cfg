SPECIFICATION Spec
CONSTANTS
    Messages = {Bound, Query}
    Bound = Bound
    Query = Query
    Update = Update
    NULL = NULL
    Procs <- MCProcs
    Owner <- MCOwner
    Target <- MCTarget
    Handling <- MCHandling
    Callback <- MCCallback
    Answers <- Success
    Closers <- OneCloser
    IPC_CBUF_SIZE = 1
    CountMod = 4
    SemMod = 2
INVARIANTS
    TypeOK
    BuffersBounded
    NoStrandedMessage
    OnePlace
    NoWaitWithMessage
