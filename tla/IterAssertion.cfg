SPECIFICATION Spec
CONSTANTS
    LabelNames = {"a", "b", "c", "d", "e", "f", "g", "h", "i", "j", "k", "l"}
    Statements = {"for_loop", "continue"}
    Exprs = {}
    Options = {}
    MaxStatements = 3
    MaxExprs = 0
    CallReturns = {"val"}
    CallThrows = {}
    MaxItems = 1
    MaxStack = 5
    AmbientExit = FALSE
CHECK_DEADLOCK FALSE
INVARIANTS
    IterAssertion
