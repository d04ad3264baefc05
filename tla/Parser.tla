------------------------------- MODULE Parser -------------------------------
(***************************************************************************)
(* The LL(1) driver of src/parser/parser.c: the production stack holds     *)
(* what is still to be read and the actions to be executed on the way.  A  *)
(* token is handled until the stack asks for the next one.                 *)
(***************************************************************************)
EXTENDS Grammar

CONSTANTS
  Tokens,        \* the codes of the tokens a text is made of
  MaxTokens,     \* bound: no text has more tokens
  Failing        \* the actions whose function answers NULL

VARIABLES
  parStack,      \* prod_stack, its top last
  parState,      \* the bits of the parser's state
  parToken,      \* the token at hand, "" between two of them
  parError,      \* parser -> error is set
  parReading,    \* the lexer still delivers tokens
  parMore,       \* the text goes on behind the tokens that were delivered
  parText,       \* history: the tokens that were delivered
  parDone        \* history: the actions that were executed

parVars == <<parStack, parState, parToken, parError, parReading, parMore, parText, parDone>>

NonTerminalEntry(name) == [type |-> "NonTerminal", nt |-> name, code |-> ""]
EntryEntry(code) == [type |-> "Entry", nt |-> None, code |-> code]
ActionEntry(action) == [type |-> "Action", nt |-> None, code |-> action]

_parser_push_grammar_element(actions) ==
  [i \in DOMAIN actions |-> ActionEntry(actions[i])]

(* What a rule puts on the stack, in the order in which it is popped.      *)
Production(rule) ==
  LET of(e) == IF e.terminal
               THEN <<EntryEntry(e.token)>> \o _parser_push_grammar_element(e.actions)
               ELSE _parser_push_grammar_element(gram.actions[e.nt]) \o <<NonTerminalEntry(e.nt)>>
                      \o _parser_push_grammar_element(e.actions)
  IN _parser_push_grammar_element(rule.actions)
       \o FoldLeft(LAMBDA s, e : s \o of(e), <<>>, rule.entries)

\* Wrong: what was pushed last would be what is read last.
PushInOrder(stack, production) == stack \o production

PushAll(stack, production) == stack \o Reverse(production)
-----------------------------------------------------------------------------
(* What executing an entry makes of [stack, state, error, done]; a state   *)
(* with the bit Done puts the entry back.                                  *)
Blocked(p) == [p EXCEPT !.state = @ \cup {"Done"}]

Filter(type) ==
  {"None", "NonTerminal"} \cup IF type = "NonTerminal" THEN {} ELSE {"Terminal", "Rule"}

_pse_execute_NonTerminal(p, name) ==
  LET table == gramTable[name]
  IN IF parToken = CodeEOF THEN Blocked(p)
     ELSE IF parToken \notin DOMAIN table THEN [p EXCEPT !.error = TRUE, !.state = {"Error"}]
     ELSE [p EXCEPT !.stack = PushAll(@, Production(gram.rules[name][table[parToken]])),
                    !.state = @ \cup {"NonTerminal"}]

_pse_execute_Entry(p, code) ==
  IF "Terminal" \in p.state THEN [p EXCEPT !.state = {"Done"}]
  ELSE [p EXCEPT !.error = (code # parToken), !.state = (@ \cup {"Terminal"}) \ {"NonTerminal"}]

_pse_execute_Action(p, action) ==
  [p EXCEPT !.done = Append(@, action), !.error = (action \in Failing)]

_parser_stack_entry_call(p, e) ==
  IF p.state \cap Filter(e.type) = {} THEN Blocked(p)
  ELSE CASE e.type = "NonTerminal" -> _pse_execute_NonTerminal(p, e.nt)
         [] e.type = "Entry" -> _pse_execute_Entry(p, e.code)
         [] e.type = "Action" -> _pse_execute_Action(p, e.code)

(* An empty stack is an error only for the first entry a token asks for: a *)
(* token that takes the last entry ends the parse, and the lexer stops.    *)
_parser_ll1_token_handler ==
  LET e == Last(parStack)
      p == _parser_stack_entry_call([stack |-> Front(parStack), state |-> parState,
                                     error |-> FALSE, done |-> parDone], e)
  IN IF parStack = <<>>
     THEN [stack |-> <<>>, state |-> parState \cup {"Error"}, done |-> parDone,
           error |-> (parState = {"None"} /\ parToken # TokenCodeEnd)]
     ELSE [p EXCEPT !.state = @ \ {"None"},
                    !.stack = IF "Done" \in p.state THEN Append(@, e) ELSE @]

(* One turn of the loop of _parser_ll1.                                    *)
_parser_ll1 ==
  /\ gramPhase = "parse" /\ parToken # ""
  /\ \E p \in {_parser_ll1_token_handler} :
     LET over == p.error \/ p.state \cap {"Done", "Error"} # {}
         null == p.error \/ "Error" \in p.state
     IN /\ parStack' = p.stack /\ parState' = p.state /\ parDone' = p.done
        /\ parError' = p.error
        /\ parToken' = IF over THEN "" ELSE parToken
        /\ parReading' = (parReading /\ ~null)
        /\ gramPhase' = IF over /\ (p.error \/ parToken = TokenCodeEnd) THEN "ended" ELSE "parse"
  /\ UNCHANGED <<gram, analysis, parMore, parText>>

(* parser_parse_reader: the lexer delivers a token, and EOF at the end.    *)
NextToken ==
  /\ gramPhase = "parse" /\ parToken = "" /\ parReading
  /\ IF parMore
     THEN \E code \in Tokens :
            /\ parToken' = code /\ parText' = Append(parText, code)
            /\ parMore' \in IF Len(parText') < MaxTokens THEN BOOLEAN ELSE {FALSE}
            /\ UNCHANGED parReading
     ELSE parToken' = CodeEOF /\ parReading' = FALSE /\ UNCHANGED <<parMore, parText>>
  /\ parState' = {"None"}
  /\ UNCHANGED <<gram, gramPhase, analysis, parStack, parError, parDone>>

parser_end ==
  /\ gramPhase = "parse" /\ parToken = "" /\ ~parReading
  /\ parToken' = TokenCodeEnd /\ parState' = {"None"}
  /\ UNCHANGED <<gram, gramPhase, analysis, parStack, parError, parReading, parMore, parText, parDone>>

parser_start ==
  /\ gramPhase = "built" /\ gramPhase' = "parse"
  /\ parStack' = <<NonTerminalEntry(gram.entrypoint)>>
  /\ parMore' \in BOOLEAN
  /\ UNCHANGED <<gram, analysis, parState, parToken, parError, parReading, parText, parDone>>

ParserNext == parser_start \/ NextToken \/ _parser_ll1 \/ parser_end

ParserInit ==
  /\ parStack = <<>> /\ parState = {} /\ parToken = "" /\ parError = FALSE
  /\ parReading = TRUE /\ parMore = FALSE /\ parText = <<>> /\ parDone = <<>>
=============================================================================
