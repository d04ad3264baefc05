------------------------------- MODULE Exceptions -------------------------------
(***************************************************************************)
(* exception.c: the table of the exception codes, which grows when a       *)
(* module registers its own, and what an exception makes of the value that *)
(* was thrown.  The table is short of two of the codes of exception.h.     *)
(* Below, the methods of a script object that may throw one or are told of *)
(* one: object.c.                                                          *)
(***************************************************************************)
EXTENDS Integers, Sequences, FiniteSets, TLC

CONSTANTS
  TableSize,       \* entries of the built-in table
  Listed,          \* the codes it has, in the order of its entries
  Codes,           \* the codes of exception.h
  Callables,       \* values that can be thrown and are callable
  Values,          \* the others
  MaxRegistered    \* bound: codes that are registered

ASSUME ExceptionsAssumption ==
  /\ TableSize \in Nat \ {0} /\ Len(Listed) <= TableSize
  /\ \A i \in DOMAIN Listed : Listed[i] \in Codes
  /\ Codes \subseteq Nat \ {0}

VARIABLES
  exTable,         \* [code, label] by index from 0; code 0 is free, label 0 is NULL
  registered,      \* history: what registrations returned, in order
  exception,       \* the last one made: [code, throwable]
  exAnswer         \* what it answered: <<question, answer>>
exVars == <<exTable, registered, exception, exAnswer>>

NoThrowable == "nothing"
ErrorThrowable == 17
FreeEntry == [code |-> 0, label |-> 0]
Size == Cardinality(DOMAIN exTable)

(* The labels are numbers: a listed one that of its code, the n-th that is *)
(* registered -n.                                                          *)
_builtin_exceptions == [i \in 0 .. TableSize - 1 |-> IF i < Len(Listed) THEN [code |-> Listed[i + 1], label |-> Listed[i + 1]] ELSE FreeEntry]

\* Wrong: the table would grow by what it had in the beginning, and lose the rest.
ForgetsRegistered(label) ==
  LET newest == [i \in 0 .. 2 * Size - 1 |-> IF i < TableSize THEN _builtin_exceptions[i] ELSE FreeEntry]
      free == {i \in DOMAIN exTable : exTable[i].code = 0}
      ix == IF free = {} THEN Size ELSE CHOOSE i \in free : \A j \in free : i <= j
      table == IF free = {} THEN newest ELSE exTable
  IN [table EXCEPT ![ix] = [code |-> ix, label |-> label]]

\* The first free entry, of a table twice as long if there is none.
_exception_register(label) ==
  LET free == {i \in DOMAIN exTable : exTable[i].code = 0}
      ix == IF free = {} THEN Size ELSE CHOOSE i \in free : \A j \in free : i <= j
      table == IF free = {} THEN [i \in 0 .. 2 * Size - 1 |-> IF i < Size THEN exTable[i] ELSE FreeEntry] ELSE exTable
  IN [table EXCEPT ![ix] = [code |-> ix, label |-> label]]

TakenBy(table) == CHOOSE i \in DOMAIN table : table[i].label = -(Len(registered) + 1)

Register ==
  /\ Len(registered) < MaxRegistered
  /\ \E table \in {_exception_register(-(Len(registered) + 1))} :
       exTable' = table /\ registered' = Append(registered, table[TakenBy(table)].code)
  /\ UNCHANGED <<exception, exAnswer>>

\* The first entry of the code, before the first without a label.
label_for_code(code) ==
  LET end == {i \in DOMAIN exTable : exTable[i].label = 0}
      has == {i \in DOMAIN exTable : exTable[i].code = code /\ \A e \in end : i < e}
  IN IF has = {} THEN 0 ELSE exTable[CHOOSE i \in has : \A j \in has : i <= j].label

exception_create ==
  /\ \/ \E code \in Codes \cup {registered[i] : i \in DOMAIN registered} : exception' = [code |-> code, throwable |-> NoThrowable]
     \/ \E v \in Callables \cup Values : exception' = [code |-> ErrorThrowable, throwable |-> v]
  /\ exAnswer' = <<"made", 0>> /\ UNCHANGED <<exTable, registered>>

\* A number: of what was thrown, or the negative code.
_exception_intval == IF exception.throwable = NoThrowable THEN -exception.code ELSE 0

\* The name of the code is looked up by its index, and not by the code.
_exception_resolve(name) ==
  CASE name = "code" -> exception.code
    [] name = "codename" -> IF exception.code \in DOMAIN exTable THEN exTable[exception.code].label ELSE 0
    [] OTHER -> IF exception.throwable = NoThrowable THEN 0 ELSE 1

_exception_call == IF exception.throwable \in Callables THEN 1 ELSE 0

AskException ==
  /\ \E question \in {"intval", "code", "codename", "attribute", "call", "label"} :
       exAnswer' = <<question, CASE question = "intval" -> _exception_intval
                                 [] question = "call" -> _exception_call
                                 [] question = "label" -> label_for_code(exception.code)
                                 [] OTHER -> _exception_resolve(question)>>
  /\ UNCHANGED <<exTable, registered, exception>>

ExceptionsInit ==
  exTable = _builtin_exceptions /\ registered = <<>> /\ exception = [code |-> 1, throwable |-> NoThrowable] /\ exAnswer = <<"made", 0>>

ExceptionsNext == Register \/ exception_create \/ AskException
-----------------------------------------------------------------------------
(* exception.c:97 -- no two registrations get the same code, what was      *)
(* registered stays over every growth of the table, and the codes of the   *)
(* table keep their names.  The codes registered first are also codes of   *)
(* exception.h: an entry is its index, and the table lacks two of them.    *)
CodesStay ==
  /\ \A i, j \in DOMAIN registered : registered[i] = registered[j] => i = j
  /\ \A i \in DOMAIN registered : exTable[registered[i]] = [code |-> registered[i], label |-> -i]
  /\ exAnswer[1] = "label" /\ exception.code \in {Listed[i] : i \in DOMAIN Listed} => exAnswer[2] = exception.code
-----------------------------------------------------------------------------
(* The methods by which a script object takes part in the language.  Each  *)
(* of them may be there or not, may be no function, and may return         *)
(* anything or throw.                                                      *)
HandlerNames == {"__enter__", "__catch__", "__exit__", "__call__", "__cmp__"}
\* What an attribute is: not there, no function, or a function with that outcome.
Outcomes == {"absent", "constant", "null", "value", "throws"}

VARIABLES
  handlers,      \* [HandlerNames -> Outcomes]
  handled,       \* what has been called: Seq(<<name, argument>>)
  handlerDid,    \* the operation, and what the body of the context did; "" before
  handlerGot     \* its result
handlerVars == <<handlers, handled, handlerDid, handlerGot>>

NoData == "null"
\* What the method returns: an exception carries the name of who threw it.
MethodGives(name) ==
  CASE handlers[name] = "value" -> <<"value", name>>
    [] handlers[name] = "throws" -> <<"exception", name>>
    [] handlers[name] = "null" -> <<"value", NoData>>
    [] OTHER -> <<"none", NoData>>
IsThrown(v) == v[1] = "exception"
Callable(name) == handlers[name] \notin {"absent", "constant"}

\* The calls that _object_call_attribute makes: none if it is no function.
_object_call_attribute(name, arg) == IF Callable(name) THEN <<<<name, arg>>>> ELSE <<>>
-----------------------------------------------------------------------------
object_ctx_enter ==
  /\ handlerDid = "" /\ handlerDid' = "enter"
  /\ handled' = _object_call_attribute("__enter__", NoData)
  /\ handlerGot' = IF IsThrown(MethodGives("__enter__")) THEN MethodGives("__enter__") ELSE <<"none", NoData>>
  /\ UNCHANGED handlers

\* Wrong: __exit__ would be told of the exception of the body in any case.
ForgetsCatch(arg) == arg

\* __catch__ may only replace the exception, it does not hold it back.
PassedOn(arg) == IF IsThrown(arg) /\ IsThrown(MethodGives("__catch__")) THEN MethodGives("__catch__") ELSE arg

\* The context was entered; the argument is what its block came to.
object_ctx_leave ==
  /\ handlerDid = "enter" /\ ~IsThrown(handlerGot)
  /\ \E arg \in {<<"exception", "body">>, <<"value", NoData>>} :
       /\ handlerDid' = IF IsThrown(arg) THEN "leave after exception" ELSE "leave"
       /\ handled' = handled \o (IF IsThrown(arg) THEN _object_call_attribute("__catch__", arg) ELSE <<>>)
                             \o _object_call_attribute("__exit__", PassedOn(arg))
  /\ handlerGot' = MethodGives("__exit__")
  /\ UNCHANGED handlers

\* Whatever goes wrong in __call__, the object is called not callable.
object_call ==
  /\ handlerDid = "" /\ handlerDid' = "call"
  /\ handled' = _object_call_attribute("__call__", NoData)
  /\ handlerGot' = IF MethodGives("__call__")[1] # "value" THEN <<"exception", "ErrorNotCallable">> ELSE MethodGives("__call__")
  /\ UNCHANGED handlers

\* Without an answer the places in memory are compared.
object_cmp ==
  /\ handlerDid = "" /\ handlerDid' = "cmp"
  /\ handled' = _object_call_attribute("__cmp__", NoData)
  /\ handlerGot' = IF MethodGives("__cmp__")[1] = "value" THEN MethodGives("__cmp__") ELSE <<"value", "place">>
  /\ UNCHANGED handlers

HandlersInit ==
  /\ handlers \in [HandlerNames -> Outcomes]
  /\ \A n \in {"__call__", "__cmp__"} : handlers[n] # "absent" => handlers["__enter__"] = "absent"
  /\ handled = <<>> /\ handlerDid = "" /\ handlerGot = <<"none", NoData>>

HandlersNext == object_ctx_enter \/ object_ctx_leave \/ object_call \/ object_cmp

HandlersSpec == HandlersInit /\ [][HandlersNext]_handlerVars
-----------------------------------------------------------------------------
CallsOf(name) == {i \in DOMAIN handled : handled[i][1] = name}
CalledOnce(name) == \E i \in DOMAIN handled : CallsOf(name) = {i}
NeverCalled(name) == CallsOf(name) = {}

(* object.c:345 -- a context that was entered and has an __exit__ gets it  *)
(* called once, after __catch__ if the block threw, with the exception of  *)
(* __catch__ if that threw too; and an exception of __exit__ is the result.*)
ContextIsLeft ==
  handlerDid \in {"leave", "leave after exception"} =>
    LET threw == handlerDid = "leave after exception"
    IN /\ IF Callable("__exit__") THEN CalledOnce("__exit__") ELSE NeverCalled("__exit__")
       /\ IF threw /\ Callable("__catch__") THEN CalledOnce("__catch__") ELSE NeverCalled("__catch__")
       /\ Callable("__exit__") =>
            /\ handled[Len(handled)][1] = "__exit__"
            /\ IsThrown(handled[Len(handled)][2]) <=> threw
            /\ threw => (handled[Len(handled)][2][2] = "__catch__" <=> handlers["__catch__"] = "throws")
       /\ handlers["__exit__"] = "throws" => IsThrown(handlerGot)
=============================================================================
