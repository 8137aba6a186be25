SPECIFICATION FairSpec
CONSTANTS
    Messages = {Query, Update}
    Bound = Bound
    Query = Query
    Update = Update
    NULL = NULL
    Procs <- MCProcs
    Owner <- MCOwner
    Target <- MCTarget
    Handling <- PlainHandling
    Callback <- PlainCallback
    Answers <- Success
    Closers <- NoClosers
    IPC_CBUF_SIZE = 2
    CountMod = 8
    SemMod = 2
PROPERTIES
    EveryCommandAnswered
    FifoChannel
