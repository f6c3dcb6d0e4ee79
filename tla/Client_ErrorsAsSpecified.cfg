CONSTANTS
    m1 = m1
    a = a
    b = b
    NULL = NULL
    Managers <- MCManagers
    Names <- MCNames
    HeartbeatTimeout = 1
    MaxCrashes = 1

SPECIFICATION SystemSpec


INVARIANT ErrorsAsSpecified
