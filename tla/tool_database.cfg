SPECIFICATION Spec
CONSTANTS
    None = None
    Self = Self
    Run = {Self}
    Program <- Queried
    MaxRetries = 1
    Database <- Databases
    Default = "warehouse"
    Within <- Containing
    Offers <- Calls
    Wires = {"responses"}
    TransportRetries = 0
    MaxIterations = 2
    MaxBatch = 1
    MaxCalls = 1
INVARIANT
    SqlRunsInItsDatabase
