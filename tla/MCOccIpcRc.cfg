SPECIFICATION Spec
CONSTANTS
    Messages = {Bound}
    Bound = Bound
    Query = Query
    Update = Update
    NULL = NULL
    Procs <- MCProcs
    Owner <- MCOwner
    Target <- MCTarget
    Handling <- MCHandling
    Callback <- MCCallback
    Answers <- SuccessOrFailure
    Closers <- NoClosers
    IPC_CBUF_SIZE = 1
    CountMod = 4
    SemMod = 2
INVARIANT
    RcDelivered
