SPECIFICATION Spec
CONSTANTS
    Session = {s1}
    Request = {r1, r2}
    Program = {p1, p2}
    Message <- Decisions
    DryRun = {FALSE}
    Outcome = {"completed"}
    NoTicket = NoTicket
    NoSession = NoSession
    AgentMode = {"pipeline", "tools"}
    SessionTtl = FALSE
SYMMETRY Symmetry
CHECK_DEADLOCK FALSE
INVARIANT ExecutedAsReviewed

