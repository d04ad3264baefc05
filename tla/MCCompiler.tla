------------------------------ MODULE MCCompiler -------------------------------
(***************************************************************************)
(* What the compiler guarantees of the functions it finishes, for all      *)
(* scripts made of a few statements and expressions.                       *)
(***************************************************************************)
EXTENDS Compiler

VARIABLE used   \* the forms that may leave something behind, and what they spoil

vars == <<compilerVars, used>>

Watched(name) ==
    CASE name = "statement" ->
           {<<s, StatementForms[s]>> : s \in {"break", "continue", "context_block", "new",
                                              "standalone_expr", "switch"}}
      [] name = "expr" ->
           {<<e, ExprForms[e]>> : e \in {"comprehension", "reduction", "dict"}}
      [] name \in {"case_stmts", "baseclasses"} ->
           {<<name, form>> : form \in Productions[name] \ {<<>>}}
      [] OTHER -> {}

Init == CompilerInit /\ used = {}

Next ==
    /\ CompilerNext
    /\ used' = used \cup {w[1] : w \in {w \in Watched(Head(todo).name) :
                                           todo' = w[2] \o Tail(todo)}}

Spec == Init /\ [][Next]_vars

\* break, continue and context blocks jump over what is on the operand stack; a
\* statement that is an expression leaves its value there; comprehensions count
\* their arguments at run time; reductions and lists of cases are known defects.
tidy == used \subseteq {"switch", "dict"}

\* A reduction keeps its bookmark and, like a comprehension, a counter. The keys
\* of a dict around it stay on the stack then, and a switch around either counts
\* its cases wrong: both take labels for what they are not.
apart == /\ "switch" \in used => used \cap {"comprehension", "reduction"} = {}
         /\ "reduction" \in used => "dict" \notin used

Finished == {Program(parser.finished[i]) : i \in DOMAIN parser.finished}

\* Every push, bookmark and counter of the parser is taken back by the time the
\* script is done (parserlib.c, datastack.c), no deferred instruction is lost.
ParserBalanced ==
    Compiled /\ tidy =>
                /\ parser.stack = <<>> /\ parser.bookmarks = <<>>
                /\ parser.counters = <<>>
                /\ \A i \in DOMAIN parser.finished :
                      /\ parser.finished[i].deferred_blocks = <<>>
                      /\ parser.finished[i].bookmarks = <<>>

\* The machine finds every label an instruction names (vm.c:204), also when the
\* instruction that bears it was cut out and pasted elsewhere.
LabelsResolved ==
    apart => \A p \in Finished : \A i \in DOMAIN p.code :
       p.code[i].op \in Branches \cup {"EnterContext"} => p.code[i].name \in DOMAIN p.labels

\* Context blocks are nested, and no branch leaves or enters one.
FinishedNested == apart => \A p \in Finished : WellNested(p, NestOf(p))

\* No instruction lacks an operand, no round of a loop leaves one behind, and
\* the arms of a conditional agree on what they leave.
BalancedOperands == tidy => \A p \in Finished : OperandsBalanced(p)

\* datastack_rollup's assertion (datastack.c:233).
RollupAssertion == ~parser.aborted
===============================================================================
