SPECIFICATION Spec
CONSTANTS
    LabelNames = {"a", "b", "c", "d", "e", "f", "g", "h", "i", "j", "k", "l"}
    Statements = {"conditional", "while_loop", "for_loop", "break", "continue", "switch", "func_def",
                  "return_stmt", "yield_stmt", "import_stmt", "new", "context_block",
                  "throw", "leave", "pass", "assignment", "call", "standalone_expr"}
    Exprs = {"variable", "call", "operation", "ternary", "subscript", "reduction",
             "signed_number", "empty_list", "list", "comprehension", "dict", "query",
             "lambda", "new"}
    Options = {"case_list", "baseclasses"}
    MaxStatements = 2
    MaxExprs = 2
CHECK_DEADLOCK FALSE
INVARIANTS
    LabelsResolved
    FinishedNested
    ParserBalanced
    BalancedOperands
