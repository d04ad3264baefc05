SPECIFICATION FairSpec
CONSTANTS
    LabelNames = {"a", "b", "c", "d", "e", "f", "g", "h", "i", "j", "k", "l"}
    Statements = {"conditional", "for_loop", "context_block", "break",
                  "continue", "return_stmt"}
    Exprs = {}
    Options = {}
    MaxStatements = 3
    MaxExprs = 0
    CallReturns = {"val"}
    CallThrows = {"Throwable", "Exit"}
    MaxItems = 1
    MaxStack = 3
    AmbientExit = TRUE
CHECK_DEADLOCK FALSE
PROPERTIES
    NoBlockLeftOpen
    ReturnReturns
