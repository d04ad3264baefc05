------------------------------- MODULE Compiler -------------------------------
(***************************************************************************)
(* The compilation of an Obelix script: the parser expands the grammar of  *)
(* share/grammar/obelix.grammar (parser.c drives it from the tokens; here  *)
(* every script is possible) and runs the parse actions between the        *)
(* symbols.  Tokens without an action are left out, and so are the         *)
(* nonterminals that only encode precedence: an operand is any expression, *)
(* as it is in parentheses.                                                *)
(***************************************************************************)
EXTENDS ScriptParse

CONSTANTS Statements,     \* the forms of statement scripts are made of
          Exprs,          \* the forms of expression beyond a constant
          Options,        \* the optional parts they may have
          MaxStatements,  \* the most statements in a script
          MaxExprs        \* the most expressions that are not a constant

VARIABLES parser,   \* the parser state
          todo,     \* the parser's production stack, the next symbol first
          budget    \* statements and expressions the script may still have

compilerVars == <<parser, todo, budget>>

N(name) == [kind |-> "nonterminal", name |-> name, arg |-> ""]

-------------------------------------------------------------------------------
(* The grammar *)

Call_ == <<A("init_function"), N("arglist"), A("func_call")>>
Var == <<AV("instruction", "PushScope"), N("identifier"), A("deref")>>
New == <<A("setup_function"), A("incr"), N("identifier"), A("pushval_from_stack"),
         N("arglist"), A("func_call")>>

StatementForms ==
    [conditional |-> <<A("if"), N("expr"), A("test"), N("statements"), N("elif_seq"),
                       N("else"), A("end_conditional")>>,
     while_loop |-> <<A("start_loop"), N("expr"), A("test"), N("statements"),
                      A("end_loop")>>,
     for_loop |-> <<N("identifier"), N("expr"), A("for"), N("statements"),
                    A("end_loop")>>,
     break |-> <<A("break")>>,
     continue |-> <<A("continue")>>,
     switch |-> <<A("if"), N("expr"), AV("stash", "0"), A("new_counter"),
                  N("cases"), A("else"), N("statements"), A("discard_counter"),
                  A("end_conditional")>>,
     func_def |-> <<A("pushval"), A("push"), A("bookmark"), A("rollup_list"),
                    N("func_block")>>,
     return_stmt |-> <<N("expr"), AV("instruction", "Return")>>,
     yield_stmt |-> <<N("expr"), AV("instruction", "Yield")>>,
     import_stmt |-> <<A("setup_function"), A("incr"), N("identifier"),
                       A("pushval_from_stack"), A("func_call"), A("pop")>>,
     new |-> New,
     context_block |-> <<N("identifier"), N("assignment_or_empty"),
                         A("begin_context_block"), N("statements"),
                         A("end_context_block")>>,
     throw |-> <<N("expr"), A("throw_exception")>>,
     leave |-> <<A("leave")>>,
     pass |-> <<A("nop")>>,
     assignment |-> <<N("identifier"), N("expr"), A("assign")>>,
     call |-> Var \o Call_ \o <<A("pop")>>,
     standalone_expr |-> <<N("expr")>>]

ExprForms ==
    [variable |-> Var,
     call |-> Var \o Call_,
     operation |-> <<N("expr"), A("infix_op"), N("expr"), A("call_op")>>,
     ternary |-> <<N("expr"), A("if"), A("test"), N("expr"), A("else"), N("expr"),
                   A("end_conditional")>>,
     subscript |-> <<N("expr"), N("expr"), AV("instruction", "Subscript")>>,
     reduction |-> <<N("expr"), A("deref_function"), N("expr"),
                     N("reduction_init"), A("reduce")>>,
     signed_number |-> <<A("push"), A("push_signed_val")>>,
     empty_list |-> <<A("setup_function"), A("func_call")>>,
     list |-> <<A("setup_function"), A("instruction_bookmark"), N("expr"), A("incr"),
                A("discard_instruction_bookmark"), N("arglist"), A("func_call")>>,
     comprehension |->
        <<A("setup_function"), A("instruction_bookmark"), N("expr"), A("incr"),
          N("identifier"), A("defer_bookmarked_block"), A("pushconst"), N("expr"),
          A("for"), N("where_or_empty"), A("comprehension"), A("end_loop"),
          A("set_varargs"), A("func_call")>>,
     dict |-> <<A("setup_function"), N("attrlist"), A("func_call")>>,
     query |-> <<A("init_query"), N("arglist"), A("query")>>,
     lambda |-> <<A("bookmark"), A("rollup_list"), A("start_lambda"),
                  N("statements"), A("end_lambda")>>,
     new |-> New]

OptionNames == {"no_case", "case_list", "baseclasses"}
Option(name, form) == IF name \in Options THEN {form} ELSE {}

ASSUME FormsAssumption ==
    /\ Statements \subseteq DOMAIN StatementForms /\ Exprs \subseteq DOMAIN ExprForms
    /\ Options \subseteq OptionNames
    /\ MaxStatements \in Nat /\ MaxExprs \in Nat

\* A statement or an expression is taken from the budget; a constant is free.
Productions ==
    [statements |-> {<<>>, <<N("statement"), N("statements")>>},
     statement |-> {StatementForms[s] : s \in Statements},
     expr |-> {<<A("push_token")>>} \cup {ExprForms[e] : e \in Exprs},
     identifier |-> {<<A("bookmark"), A("push"), A("rollup_name")>>},
     elif_seq |-> {<<>>, <<A("elif"), N("expr"), A("test"), N("statements"),
                           N("elif_seq")>>},
     else |-> {<<>>, <<A("else"), N("statements")>>},
     cases |-> {<<N("case_block"), N("cases_seq")>>} \cup Option("no_case", <<>>),
     cases_seq |-> {<<>>, <<N("case_block"), N("cases_seq")>>},
     case_block |-> {<<A("case_prolog"), N("case_stmt"), N("case_stmts"),
                       A("rollup_cases"), A("test"), N("statements")>>},
     case_stmts |-> {<<>>} \cup Option("case_list", <<N("case_stmt"), N("case_stmts")>>),
     case_stmt |-> {<<A("incr"), N("expr"), A("case")>>},
     func_block |-> {<<A("start_function"), N("baseclasses"), N("statements"),
                       A("end_function")>>,
                     <<A("native_function")>>},
     baseclasses |-> {<<>>} \cup Option("baseclasses",
                        <<A("baseclass_constructors"), N("baseclass"),
                          N("baseclass_tail"), A("end_constructors")>>),
     baseclass |-> {<<N("identifier"), A("setup_constructor"), N("arglist"),
                      A("func_call")>>},
     baseclass_tail |-> {<<>>, <<N("baseclass"), N("baseclass_tail")>>},
     assignment_or_empty |-> {<<>>, <<A("dup"), N("expr"), A("assign")>>},
     arglist |-> {<<>>, <<N("expr"), A("incr"), N("arglist")>>},
     attrlist |-> {<<>>, <<A("push"), N("expr"), N("attrlist")>>},
     reduction_init |-> {<<AV("pushval", "0")>>, <<N("expr"), AV("pushval", "1")>>},
     where_or_empty |-> {<<>>, <<N("expr"), A("where")>>}]

\* Parts that may be repeated count as expressions, to keep scripts finite.
Repeated == {"elif_seq", "case_stmts", "cases_seq", "arglist", "attrlist",
             "baseclass_tail"}
Cost(name, form) ==
    CASE name = "statement" -> [statements |-> 1, exprs |-> 0]
      [] name = "expr" /\ form # <<A("push_token")>>
                            -> [statements |-> 0, exprs |-> 1]
      [] name \in Repeated /\ form # <<>>
                            -> [statements |-> 0, exprs |-> 1]
      [] OTHER              -> [statements |-> 0, exprs |-> 0]

-------------------------------------------------------------------------------
(* The parser *)

CompilerInit == /\ parser = script_parse_init
                /\ todo = <<N("statements"), A("done")>>
                /\ budget = [statements |-> MaxStatements, exprs |-> MaxExprs]

\* The next symbol is a nonterminal: one of its rules takes its place.
Expand == /\ todo # <<>> /\ Head(todo).kind = "nonterminal"
          /\ \E form \in Productions[Head(todo).name] :
                LET cost == Cost(Head(todo).name, form) IN
                /\ cost.statements <= budget.statements
                /\ cost.exprs <= budget.exprs
                /\ form = <<N("statement"), N("statements")>> => budget.statements > 0
                /\ budget' = [statements |-> budget.statements - cost.statements,
                              exprs |-> budget.exprs - cost.exprs]
                /\ todo' = form \o Tail(todo)
          /\ UNCHANGED parser

\* There are labels left: an action needs two at most.
LabelsLeft(p) == ~\A l, m \in LabelNames \ p.labels : l = m

\* It is a parse action.
Run == /\ todo # <<>> /\ Head(todo).kind = "action"
       /\ ~parser.aborted
       /\ LabelsLeft(parser)
       /\ parser' = Effect(Head(todo), parser)
       /\ todo' = Tail(todo)
       /\ UNCHANGED budget

Compiled == todo = <<>>

CompilerNext == Expand \/ Run
CompilerSpec == CompilerInit /\ [][CompilerNext]_compilerVars
===============================================================================
