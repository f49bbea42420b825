SPECIFICATION FairSpec
CONSTANTS
    None = None
    Self = Self
    Run = {Self}
    Program <- Queried
    MaxRetries = 1
    Database <- Databases
    Default = "warehouse"
    Within <- Containing
    Offers <- Calls
    Wires = {"chat_completions_httpx", "responses"}
    TransportRetries = 3
    MaxIterations = 2
    MaxBatch = 2
    MaxCalls = 3
INVARIANTS
    TypeOK
    EveryCallAnswered
    ReviewedFirst
    QueriedOnce
    RunsWhereAsked
    DispatchedOnce
PROPERTY
    EveryRunEnds
