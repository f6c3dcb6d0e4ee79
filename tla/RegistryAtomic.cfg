CONSTANTS
    m1 = m1
    m2 = m2
    a = a
    b = b
    NULL = NULL
    Managers <- MCManagers
    Names <- MCNames
    HeartbeatTimeout = 2

SPECIFICATION Spec

INVARIANT TypeOK
INVARIANT FreshRegistrationVisible
INVARIANT RowsReachableByDecay

PROPERTY DecayCompletes
PROPERTY NameServiceRefined
