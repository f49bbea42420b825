SPECIFICATION FairSpec
CONSTANTS
    Session = {s1, s2}
    Request = {r1, r2}
    Program = {p1}
    Message <- Distinct
    DryRun = {TRUE, FALSE}
    Outcome = {"requires_clarification", "completed"}
    NoTicket = NoTicket
    NoSession = NoSession
    AgentMode = {"pipeline", "tools"}
    SessionTtl = FALSE
CHECK_DEADLOCK FALSE
INVARIANT ConsentedExecution
PROPERTY EveryRequestEnds
