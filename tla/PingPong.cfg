CONSTANTS
    pingM = pingM
    pongM = pongM
    pongN = pongN
    NULL = NULL
    Managers <- MCManagers
    Names <- MCNames
    PingManager = pingM
    PongManager = pongM
    PongName = pongN
    HeartbeatTimeout = 1
    MaxCrashes = 1
    Rounds = 2

SPECIFICATION PPSpec

INVARIANT PingPongTypeOK
INVARIANT ExactlyRoundsExchanged

PROPERTY GameCompletesWithPong
