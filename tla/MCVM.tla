--------------------------------- MODULE MCVM ---------------------------------
(***************************************************************************)
(* The virtual machine running a handful of functions, given by the parse  *)
(* actions that compile them.                                              *)
(***************************************************************************)
EXTENDS VMSafety

S == INSTANCE ScriptParse
       WITH LabelNames <- {"a", "b", "c", "d", "e", "f", "g", "h", "i", "j", "k", "l"}

RECURSIVE ParseAll(_, _)
ParseAll(p, actions) ==
    IF p.scripts = <<>> \/ actions = <<>> THEN p
    ELSE ParseAll(S!Effect(Head(actions), p), Tail(actions))

\* What the body of a function compiles to.
Compile(actions) ==
    S!Program(S!Bytecode(S!_script_parse_epilog(ParseAll(S!script_parse_init, actions))))

A(name) == S!A(name)
Names(ns) == [i \in 1..Len(ns) |-> A(ns[i])]
Ident == Names(<<"bookmark", "push", "rollup_name">>)
Const == Names(<<"push_token">>)
CallF == <<S!AV("instruction", "PushScope")>> \o Ident
         \o Names(<<"deref", "init_function", "push_token", "incr", "func_call">>)
CallStatement == CallF \o Names(<<"pop">>)

\* while 1  context x = f(1)  if 1 break end  f(1) end  end  return f(1)
LoopContext ==
    Names(<<"start_loop">>) \o Const \o Names(<<"test">>)
    \o Ident \o Names(<<"dup">>) \o CallF \o Names(<<"assign", "begin_context_block">>)
    \o Names(<<"if">>) \o Const \o Names(<<"test", "break", "end_conditional">>)
    \o CallStatement
    \o Names(<<"end_context_block", "end_loop">>)
    \o CallF \o <<S!AV("instruction", "Return")>>

\* context x  context y  throw 1 end  f(1) end  context z  return 1 end
NestedContexts ==
    Ident \o Names(<<"begin_context_block">>)
    \o Ident \o Names(<<"begin_context_block">>)
    \o Const \o Names(<<"throw_exception", "end_context_block">>)
    \o CallStatement \o Names(<<"end_context_block">>)
    \o Ident \o Names(<<"begin_context_block">>)
    \o Const \o <<S!AV("instruction", "Return")>> \o Names(<<"end_context_block">>)

\* for a in 1  for b in 1  x = f(1)  end  if 1 continue elif 1 leave end  end
\* yield [ 1 for c in 1 where 1 ]
Loops ==
    Ident \o Const \o Names(<<"for">>)
    \o Ident \o Const \o Names(<<"for">>)
    \o Ident \o CallF \o Names(<<"assign", "end_loop">>)
    \o Names(<<"if">>) \o Const \o Names(<<"test", "continue", "elif">>)
    \o Const \o Names(<<"test", "leave", "end_conditional", "end_loop">>)
    \o Names(<<"setup_function", "instruction_bookmark">>) \o Const
    \o Names(<<"incr">>) \o Ident \o Names(<<"defer_bookmarked_block", "pushconst">>)
    \o Const \o Names(<<"for">>) \o Const
    \o Names(<<"where", "comprehension", "end_loop", "set_varargs", "func_call">>)
    \o <<S!AV("instruction", "Yield")>>

\* context x  query(1) end  switch 1 case 1: case 1[1]: f(1) default: ; end
\* and the instructions no statement compiles to
Rest ==
    Ident \o Names(<<"begin_context_block", "init_query", "query", "pop",
                     "end_context_block">>)
    \o Names(<<"if">>) \o Const \o <<S!AV("stash", "0")>>
    \o Names(<<"new_counter", "case_prolog", "incr">>) \o Const \o Names(<<"case", "incr">>)
    \o Const \o Const \o <<S!AV("instruction", "Subscript")>>
    \o Names(<<"case", "rollup_cases", "test">>) \o CallStatement
    \o Names(<<"else", "nop", "discard_counter", "end_conditional">>)
    \o Const \o <<S!AV("instruction", "Dup"), S!AV("instruction", "Swap"),
                  S!AV("instruction", "Decr"), S!AV("instruction", "Pop")>>

MCFunctions == [LoopContext |-> LoopContext, NestedContexts |-> NestedContexts,
                Loops |-> Loops, Rest |-> Rest]
MCPrograms == DOMAIN MCFunctions
MCBytecodes == [p \in MCPrograms |-> Compile(MCFunctions[p])]
MCBytecodeOf(p) == MCBytecodes[p]
MCNest == [p \in MCPrograms |-> S!NestOf(MCBytecodes[p])]
===============================================================================
