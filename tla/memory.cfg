SPECIFICATION Spec
CONSTANTS
    Models = {"mrl", "fixed", "known_fixed", "openai"}
    Actor = {a1, a2}
    RuleKey = {k}
    FactKey = {f}
    RuleText = {c1, c2}
    FactText = {c3}
    None = None
    Ops = {"propose", "put", "update", "load"}
INVARIANTS TypeOK RulesAreActivated LoadedWasLive IndexMirrors
PROPERTY RulesAreKept
CONSTRAINT Bound
SYMMETRY Symmetry
