CONSTANTS
    m1 = m1
    m2 = m2
    a = a
    b = b
    NULL = NULL
    Managers <- MCManagers
    Names <- MCNames
    HeartbeatTimeout = 1

SPECIFICATION Spec

INVARIANT FreshRegistrationVisible
