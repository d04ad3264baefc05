----------------------------- MODULE ScriptParse ------------------------------
(***************************************************************************)
(* The compiler of Obelix: the script_parse_* functions of scriptparse.c   *)
(* that the grammar calls, and the parser's own stack operations           *)
(* (parserlib.c, datastack.c).  Each is an operator from a parser state to *)
(* the next one.  A parser state has the parse stack (top first), its      *)
(* bookmarks (as depths) and counters, the two flags kept between actions, *)
(* whether an assertion has failed, the bytecode of the function being     *)
(* compiled and of those around it, the finished ones, and the labels      *)
(* generated so far.  Labels are random strings in the code; here they     *)
(* never collide.  Operators marked "Wrong" are mistakes the properties    *)
(* must notice; nothing uses them.                                         *)
(***************************************************************************)
EXTENDS Bytecode, SequencesExt

CONSTANT LabelNames   \* the random strings there are to choose from

\* None begins with a capital letter (scriptparse.c:96), so none is a label the
\* compiler names itself.
ASSUME LabelAssumption == LabelNames \cap {"ERROR", "END"} = {}

\* NoValue is what popping an empty parse stack yields (NULL).
NoValue == "NULL"

Peek(p, depth) == IF depth < Len(p.stack) THEN p.stack[depth + 1] ELSE NoValue
PushStack(p, x) == [p EXCEPT !.stack = <<x>> \o @]
PopStack(p, n) == [p EXCEPT !.stack = SubSeq(@, n + 1, Len(@))]

-------------------------------------------------------------------------------
(* datastack.c and parserlib.c *)

datastack_bookmark(p) == [p EXCEPT !.bookmarks = <<Len(p.stack)>> \o @]

\* Drops what was pushed since the bookmark; fails the assertion that the stack
\* still reaches up to it (datastack.c:233).
Rollup(p) ==
    IF Head(p.bookmarks) > Len(p.stack) THEN [p EXCEPT !.aborted = TRUE]
    ELSE [p EXCEPT !.stack = SubSeq(@, Len(@) - Head(p.bookmarks) + 1, Len(@)),
                   !.bookmarks = Tail(@)]
parser_rollup(p, x) == PushStack(Rollup(p), x)

datastack_new_counter(p) == [p EXCEPT !.counters = <<0>> \o @]
datastack_increment(p) ==
    IF p.counters = <<>> THEN p
    ELSE [p EXCEPT !.counters = <<Head(@) + 1>> \o Tail(@)]
CurrentCount(p) == IF p.counters = <<>> THEN 0 - 1 ELSE Head(p.counters)
DropCounter(p) ==
    IF p.counters = <<>> THEN p ELSE [p EXCEPT !.counters = Tail(@)]

parser_dup(p) == PushStack(p, Peek(p, 0))

-------------------------------------------------------------------------------
(* The current bytecode and labels *)

Bytecode(p) == Head(p.scripts)
WithBytecode(p, b) == [p EXCEPT !.scripts = <<b>> \o Tail(@)]
push_instruction(p, instr) ==
    WithBytecode(p, bytecode_push_instruction(Bytecode(p), instr))
p ++ instr == push_instruction(p, instr)
Pending(p, label) == WithBytecode(p, AddPending(Bytecode(p), label))

\* The next label to be generated.
_script_parse_gen_label(p) == CHOOSE label \in LabelNames : label \notin p.labels
Generated(p) == [p EXCEPT !.labels = @ \cup {_script_parse_gen_label(p)}]

_script_parse_prolog(p) == push_instruction(p, Enter("ERROR", FALSE))

\* A function that ends in a jump target returns 0; every function ends in the
\* LeaveContext its exceptions go to.
_script_parse_epilog(p) ==
    LET b == Bytecode(p)
        last == b.instructions[Len(b.instructions)].instr
        ended == IF last.op = "Jump" \/ b.pending_labels = <<>> THEN p
                 ELSE IF Len(b.pending_labels) = 1 THEN p ++ PushValue(Num(0))
                 ELSE p ++ Plain("Nop") ++ PushValue(Num(0))
        left == push_instruction(Pending(ended, "ERROR"), Plain("LeaveContext"))
    IN  push_instruction(Pending(left, "END"), Plain("Nop"))

script_parse_init ==
    _script_parse_prolog([stack |-> <<>>, bookmarks |-> <<>>, counters |-> <<>>,
                          constructor |-> FALSE, varargs |-> FALSE, aborted |-> FALSE,
                          scripts |-> <<bytecode_create>>, finished |-> <<>>,
                          labels |-> {}])

\* The function is complete; compilation goes on in the one around it.
Complete(p) == LET q == _script_parse_epilog(p) IN
               [q EXCEPT !.scripts = Tail(@),
                         !.finished = Append(@, Bytecode(q))]

script_parse_done(p) == Complete(p)

-------------------------------------------------------------------------------
(* Expressions *)

script_parse_push_token(p) == push_instruction(p, PushValue(Data))
script_parse_pushval_from_stack(p) == push_instruction(PopStack(p, 1), PushValue(Data))
script_parse_push_signed_val(p) == push_instruction(PopStack(p, 1), PushValue(Data))
script_parse_instruction(p, type) == push_instruction(p, Plain(type))
script_parse_assign(p) == push_instruction(PopStack(p, 1), Plain("Assign"))

\* Wrong: leaves the name.
DerefWithoutPop(p) == push_instruction(p, Plain("Deref"))

script_parse_deref(p) == push_instruction(PopStack(p, 1), Plain("Deref"))
script_parse_stash(p, i) == push_instruction(p, Slot("Stash", i))
script_parse_pop(p) == push_instruction(p, Plain("Pop"))
script_parse_nop(p) == push_instruction(p, Plain("Nop"))

\* The call of an infix operator waits on the parse stack for its right operand.
script_parse_infix_op(p) == PushStack(push_instruction(p, Plain("Deref")), Call(1))
script_parse_call_op(p) == push_instruction(PopStack(p, 1), Peek(p, 0))

script_parse_reduce(p) ==
    push_instruction(PopStack(p, 1), Call(IF Peek(p, 0) = "1" THEN 2 ELSE 1))

script_parse_init_function(p) ==
    [datastack_bookmark(datastack_new_counter(p)) EXCEPT !.constructor = FALSE]

script_parse_deref_function(p) ==
    script_parse_init_function(push_instruction(p, Plain("Deref")))

script_parse_setup_function(p) ==
    script_parse_init_function(p ++ Plain("PushScope") ++ Plain("Deref"))

script_parse_setup_constructor(p) ==
    LET q == PopStack(p, 1) ++ Plain("PushScope") ++ Plain("Deref") IN
    [datastack_bookmark(datastack_new_counter(q)) EXCEPT !.constructor = TRUE]

\* Keyword arguments are what lies above the bookmark; with varargs the counter
\* of the other arguments is left where it is.
script_parse_func_call(p) ==
    LET rolled == Rollup(p)
        kwargs == Len(p.stack) - Head(p.bookmarks)
        counted == IF p.varargs THEN rolled ELSE DropCounter(rolled)
        argc == (IF p.varargs THEN 0 ELSE CurrentCount(rolled)) + kwargs
        flags == IF p.varargs THEN "varargs"
                 ELSE IF p.constructor THEN "constructor" ELSE ""
    IN  [push_instruction(counted, Instr("FunctionCall", flags, Num(argc)))
            EXCEPT !.varargs = FALSE, !.constructor = FALSE]

script_parse_init_query(p) ==
    datastack_new_counter(p) ++ Plain("PushCtx") ++ Plain("Deref") ++ PushValue(Data)

\* Wrong: the text of the query would not be counted.
QueryWithoutText(p) ==
    push_instruction(DropCounter(p), Call(CurrentCount(p)))

script_parse_query(p) ==
    push_instruction(DropCounter(p), Call(CurrentCount(p) + 1))

-------------------------------------------------------------------------------
(* Comprehensions *)

\* The deferred element expression is pasted in, and its value is moved below
\* the number of values and the iterator.
script_parse_comprehension(p) ==
    WithBytecode(p, bytecode_pop_deferred_block(Bytecode(p)))
    ++ Slot("Stash", 0) ++ Slot("Stash", 1) ++ Slot("Stash", 2)
    ++ Slot("Unstash", 0) ++ Slot("Unstash", 2) ++ Plain("Incr") ++ Slot("Unstash", 1)

script_parse_where(p) == push_instruction(p, To("Test", Peek(p, 1)))

-------------------------------------------------------------------------------
(* Loops: the labels to go on at and to end at are on the parse stack *)

script_parse_for(p) ==
    LET next == _script_parse_gen_label(p)
        end  == _script_parse_gen_label(Generated(p))
        q == PushStack(PushStack(PopStack(Generated(Generated(p)), 1), next), end)
    IN  Pending(q ++ Plain("Iter"), next) ++ To("Next", end) ++ Plain("Assign")

script_parse_start_loop(p) ==
    LET label == _script_parse_gen_label(p) IN
    PushStack(Pending(Generated(p), label), label)

script_parse_end_loop(p) ==
    Pending(push_instruction(PopStack(p, 2), To("EndLoop", Peek(p, 1))), Peek(p, 0))

script_parse_break(p) == push_instruction(p, Status("Break"))
script_parse_continue(p) == push_instruction(p, Status("Continue"))

-------------------------------------------------------------------------------
(* Conditionals and switch: the end label, above it the label of the next arm *)

script_parse_if(p) ==
    PushStack(Generated(p), _script_parse_gen_label(p))

script_parse_test(p) ==
    LET label == _script_parse_gen_label(p) IN
    push_instruction(PushStack(Generated(p), label), To("Test", label))

script_parse_elif(p) ==
    Pending(push_instruction(PopStack(p, 1), To("Jump", Peek(p, 1))), Peek(p, 0))

script_parse_else(p) == PushStack(script_parse_elif(p), Peek(p, 1))

\* Wrong: the last arm's own label would get lost.
EndConditionalOneLabel(p) == Pending(PopStack(p, 2), Peek(p, 1))

script_parse_end_conditional(p) ==
    Pending(Pending(PopStack(p, 2), Peek(p, 0)), Peek(p, 1))

\* From the second sequence of cases on, the one before it ends here.
script_parse_case_prolog(p) ==
    LET q == datastack_new_counter(datastack_increment(p)) IN
    IF CurrentCount(p) # 0 THEN script_parse_elif(q) ELSE q

script_parse_case(p) == p ++ Plain("Deref") ++ Slot("Unstash", 0) ++ Call(1)

\* The call of "or" is created but never pushed.
script_parse_rollup_cases(p) ==
    IF CurrentCount(p) > 1 THEN push_instruction(DropCounter(p), Plain("Deref"))
    ELSE DropCounter(p)

-------------------------------------------------------------------------------
(* Functions *)

Nested(p) == _script_parse_prolog([p EXCEPT !.scripts = <<bytecode_create>> \o @])

\* Parameters, name and type of the function are on the parse stack.
script_parse_start_function(p) == Nested(PopStack(p, 3))
script_parse_native_function(p) == PopStack(p, 3)
script_parse_end_function(p) == Complete(p)

script_parse_start_lambda(p) == Nested(PopStack(p, 1))
script_parse_end_lambda(p) == push_instruction(Complete(p), PushValue(Data))

script_parse_baseclass_constructors(p) ==
    script_parse_test(p ++ Plain("PushScope") ++ Plain("Deref")
                        ++ PushValue(Data) ++ Call(1))
script_parse_end_constructors(p) == Pending(PopStack(p, 1), Peek(p, 0))

-------------------------------------------------------------------------------
(* Context blocks *)

script_parse_begin_context_block(p) ==
    LET label == _script_parse_gen_label(p) IN
    PushStack(push_instruction(Generated(p), Enter(label, TRUE)), label)

\* Wrong: exceptions would skip the LeaveContext.
EndContextBlockLabelLast(p) ==
    Pending(PopStack(p, 2) ++ PushValue(Num(0)) ++ Plain("LeaveContext"), Peek(p, 0))

script_parse_end_context_block(p) ==
    push_instruction(Pending(push_instruction(PopStack(p, 2), PushValue(Num(0))),
                             Peek(p, 0)),
                     Plain("LeaveContext"))

script_parse_throw_exception(p) == push_instruction(p, Plain("Throw"))
script_parse_leave(p) == p ++ PushValue(Err("Leave")) ++ Plain("Throw")
-------------------------------------------------------------------------------
(* The parse actions, as the grammar names them *)

A(name) == [kind |-> "action", name |-> name, arg |-> ""]
AV(name, arg) == [kind |-> "action", name |-> name, arg |-> arg]

Effect(a, p) ==
    CASE a.name = "push" \/ a.name = "pushval" ->
           PushStack(p, IF a.arg = "" THEN "token" ELSE a.arg)
      [] a.name = "bookmark" -> datastack_bookmark(p)
      [] a.name = "rollup_list" -> parser_rollup(p, "list")
      [] a.name = "rollup_name" -> parser_rollup(p, "name")
      [] a.name = "dup" -> parser_dup(p)
      [] a.name = "new_counter" -> datastack_new_counter(p)
      [] a.name = "incr" -> datastack_increment(p)
      [] a.name = "discard_counter" -> DropCounter(p)
      [] a.name = "set_varargs" -> [p EXCEPT !.varargs = TRUE]
      [] a.name = "done" -> script_parse_done(p)
      [] a.name \in {"push_token", "pushconst"} -> script_parse_push_token(p)
      [] a.name = "pushval_from_stack" -> script_parse_pushval_from_stack(p)
      [] a.name = "push_signed_val" -> script_parse_push_signed_val(p)
      [] a.name = "instruction" -> script_parse_instruction(p, a.arg)
      [] a.name = "assign" -> script_parse_assign(p)
      [] a.name = "deref" -> script_parse_deref(p)
      [] a.name = "stash" -> script_parse_stash(p, 0)
      [] a.name = "pop" -> script_parse_pop(p)
      [] a.name = "nop" -> script_parse_nop(p)
      [] a.name = "infix_op" -> script_parse_infix_op(p)
      [] a.name = "call_op" -> script_parse_call_op(p)
      [] a.name = "reduce" -> script_parse_reduce(p)
      [] a.name = "init_function" -> script_parse_init_function(p)
      [] a.name = "deref_function" -> script_parse_deref_function(p)
      [] a.name = "setup_function" -> script_parse_setup_function(p)
      [] a.name = "setup_constructor" -> script_parse_setup_constructor(p)
      [] a.name = "func_call" -> script_parse_func_call(p)
      [] a.name = "init_query" -> script_parse_init_query(p)
      [] a.name = "query" -> script_parse_query(p)
      [] a.name = "instruction_bookmark" ->
           WithBytecode(p, bytecode_bookmark(Bytecode(p)))
      [] a.name = "discard_instruction_bookmark" ->
           WithBytecode(p, bytecode_discard_bookmark(Bytecode(p)))
      [] a.name = "defer_bookmarked_block" ->
           WithBytecode(p, bytecode_defer_bookmarked_block(Bytecode(p)))
      [] a.name = "comprehension" -> script_parse_comprehension(p)
      [] a.name = "where" -> script_parse_where(p)
      [] a.name = "for" -> script_parse_for(p)
      [] a.name = "start_loop" -> script_parse_start_loop(p)
      [] a.name = "end_loop" -> script_parse_end_loop(p)
      [] a.name = "break" -> script_parse_break(p)
      [] a.name = "continue" -> script_parse_continue(p)
      [] a.name = "if" -> script_parse_if(p)
      [] a.name = "test" -> script_parse_test(p)
      [] a.name = "elif" -> script_parse_elif(p)
      [] a.name = "else" -> script_parse_else(p)
      [] a.name = "end_conditional" -> script_parse_end_conditional(p)
      [] a.name = "case_prolog" -> script_parse_case_prolog(p)
      [] a.name = "case" -> script_parse_case(p)
      [] a.name = "rollup_cases" -> script_parse_rollup_cases(p)
      [] a.name = "start_function" -> script_parse_start_function(p)
      [] a.name = "end_function" -> script_parse_end_function(p)
      [] a.name = "native_function" -> script_parse_native_function(p)
      [] a.name = "start_lambda" -> script_parse_start_lambda(p)
      [] a.name = "end_lambda" -> script_parse_end_lambda(p)
      [] a.name = "baseclass_constructors" -> script_parse_baseclass_constructors(p)
      [] a.name = "end_constructors" -> script_parse_end_constructors(p)
      [] a.name = "begin_context_block" -> script_parse_begin_context_block(p)
      [] a.name = "end_context_block" -> script_parse_end_context_block(p)
      [] a.name = "throw_exception" -> script_parse_throw_exception(p)
      [] a.name = "leave" -> script_parse_leave(p)
===============================================================================
