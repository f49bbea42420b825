SPECIFICATION Spec
CONSTANTS
    Session = {s1}
    Request = {r1, r2, r3}
    Program = {p1, p2}
    Message <- Decisions
    DryRun = {FALSE}
    Outcome = {"table"}
    NoTicket = NoTicket
    NoSession = NoSession
    AgentMode = {"pipeline"}
    SessionTtl = TRUE
SYMMETRY Symmetry
CHECK_DEADLOCK FALSE
INVARIANTS TypeOK AtMostOnce ExecutedAsReviewed ShownWasStored
PROPERTIES ReviewKeptUntilDecided TakeOnce
