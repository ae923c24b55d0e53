SPECIFICATION FairSpec
CONSTANTS
    Starts = {s1, s2}
    Stops = {p1}
    Ticks = {t1, t2}
    Timers = {h1, h2, h3, h4}
    None = None
    OrdersPerTick = 2
INVARIANTS
    TypeOK
    StopOverrun
PROPERTIES
    TickReleases
    
