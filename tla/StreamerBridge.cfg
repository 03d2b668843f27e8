SPECIFICATION FairSpec
CONSTANTS
    r1 = r1
    r2 = r2
    w1 = w1
    w2 = w2
    x = x
    y = y
    Readers = {r1, r2, w1, w2}
    Sockets = {w1, w2}
    Symbols = {x, y}
    Asks <- MCAsks
    Together <- MCTogether
    MaxRotations = 2
    MaxLosses = 2
    Rotation = Rotation
    Shutdown = Shutdown
    Nobody = Nobody
INVARIANTS
    TypeOK
    HeldIsRouted
    UpstreamExact
PROPERTY
    IdleCloses
CHECK_DEADLOCK FALSE
