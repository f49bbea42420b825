CONSTANTS
    w1 = w1
    w2 = w2
    t1 = t1
    t2 = t2
    None = None
    Backends = {"sqlite", "mongodb"}
    Worker = {w1, w2}
    Thread = {t1, t2}
    Home <- TwoWorkers
    Session = {s1}
    Ttl = 1
    PurgeInterval = 1
    MaxMessages = 2
    MaxValues = 3
    Kept = 1
    Start = 1
    End = 3
    Ops = {"get", "set", "pop", "claim", "append"}
SPECIFICATION Spec
INVARIANTS TypeOK HistoryIsRecent
PROPERTIES FreshSurvives TakeOnce
SYMMETRY Symmetry
