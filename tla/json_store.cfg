CONSTANTS
    t1 = t1
    t2 = t2
    s1 = s1
    s2 = s2
    None = None
    Thread = {t1, t2}
    Session = {s1, s2}
    MaxValues = 2
    MaxCrashes = 2
SPECIFICATION Spec
SYMMETRY Symmetry
INVARIANTS TypeOK ClaimedIsGone SettledIsDurable QuiescentIsDurable
PROPERTY ClaimedOnce
