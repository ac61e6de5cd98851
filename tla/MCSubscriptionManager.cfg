CONSTANTS
    Filters = {"f1", "wild"}
    Callbacks = {"cb1", "cb2"}
    NULL = NULL
    Contexts = {NULL}
    Topics = {"t1", "t2", "t3"}
    Matches <- MCMatches
    MaxSubscriptions = 3
SPECIFICATION ManagerSpec
INVARIANT NoDuplicates
PROPERTY ImplementsSet
