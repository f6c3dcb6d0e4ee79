CONSTANTS
    c1 = c1
    c2 = c2
    Callers <- MCCallers
    Kinds <- MCKinds

SPECIFICATION Spec

PROPERTY RequestsAnswered
CHECK_DEADLOCK FALSE
