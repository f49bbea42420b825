SPECIFICATION Spec
CONSTANTS
    Session = {s1}
    Request = {r1, r2, r3}
    Program = {p1, p2}
    Message <- Decisions
    DryRun = {FALSE}
    Outcome = {"unfinished"}
    NoTicket = NoTicket
    NoSession = NoSession
    AgentMode = {"pipeline"}
    SessionTtl = FALSE
SYMMETRY Symmetry
CHECK_DEADLOCK FALSE
INVARIANT RejectedNeverRuns

