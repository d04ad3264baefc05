SPECIFICATION Spec
CONSTANTS
    LabelNames = {"a", "b", "c", "d", "e", "f", "g", "h", "i", "j", "k", "l"}
    Statements = {"assignment"}
    Exprs = {"comprehension", "reduction"}
    Options = {}
    MaxStatements = 1
    MaxExprs = 2
CHECK_DEADLOCK FALSE
INVARIANTS
    RollupAssertion
