SPECIFICATION Spec
CONSTANTS
    LabelNames = {"a", "b", "c", "d", "e", "f", "g", "h", "i", "j", "k", "l"}
    Statements = {"call"}
    Exprs = {"comprehension"}
    Options = {}
    MaxStatements = 1
    MaxExprs = 3
    CallReturns = {"val"}
    CallThrows = {}
    MaxItems = 1
    MaxStack = 5
    AmbientExit = FALSE
CHECK_DEADLOCK FALSE
INVARIANTS
    CallableAssertion
