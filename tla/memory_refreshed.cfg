SPECIFICATION Spec
CONSTANTS
    Models = {"fixed"}
    Actor = {a1}
    RuleKey = {k}
    FactKey = {}
    RuleText = {c1, c2}
    FactText = {}
    None = None
    Ops = {"propose", "update"}
PROPERTY RefreshKeepsStatus
SYMMETRY Symmetry
