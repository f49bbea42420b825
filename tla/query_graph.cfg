SPECIFICATION Spec
CONSTANTS
    select = select
    drop = drop
    report = report
    text1 = text1
    text2 = text2
    None = None
    Run = {r1}
    Program = {select, drop, report, mbql1, mbql2}
    Sql = {select, drop, report}
    Unsafe = {drop}
    Report = report
    Preview = {text1, text2}
    Question <- Questions
    DryRun = {TRUE, FALSE}
    MaxRetries = 2
    Checkpointing = TRUE
INVARIANTS
    TypeOK
    ExecutesOnlyTheApproved
    ExecutesOnce
    
    PastedSqlIsKept
SYMMETRY Symmetry
