SPECIFICATION FairSpec
CONSTANTS
    Programs <- MCPrograms
    BytecodeOf <- MCBytecodeOf
    Nest <- MCNest
    CallReturns = {"val"}
    CallThrows = {"Throwable", "Leave", "Exit"}
    MaxItems = 1
    MaxStack = 4
    AmbientExit = FALSE
INVARIANTS
    TypeOK
    ContextsMatchNesting
    LeaveContextHasContext
PROPERTIES
    FinishUnwound
    ReturnReturns
    ExitEnds
    UncaughtIsReported
