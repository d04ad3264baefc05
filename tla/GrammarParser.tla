--------------------------- MODULE GrammarParser ----------------------------
(***************************************************************************)
(* The parser of grammar files, src/grammar/grammarparser.c: one state for *)
(* each place in the text, and nonterminals made up for the modifiers ?, * *)
(* and +.  Tokens are records of a code and a text.                        *)
(***************************************************************************)
EXTENDS Grammar

VARIABLES
  gpText,        \* the tokens that are left
  gp,            \* the parser: [state, old_state, nonterminal, known, entry, ge, modifier, last_token]
  gpKeywords     \* the keywords of the grammar

gpVars == <<gpText, gp, gpKeywords>>

NoEntry == Terminal("")

Error(h) == [h EXCEPT !.gp.state = "Error"]
Goto(h, state) == [h EXCEPT !.gp.state = state]

(* What the elements are that the handlers work on; a nonterminal that was *)
(* not registered takes rules nobody will see.                             *)
AddRule(h) ==
  LET name == h.gp.nonterminal
  IN [gp |-> [h.gp EXCEPT !.state = "Rule", !.ge = "rule"],
      gram |-> IF h.gp.known THEN rule_create(h.gram, name, Rule(<<>>)) ELSE h.gram]

Current(h) == Len(h.gram.rules[h.gp.nonterminal])

Entries(h, entries) ==
  IF ~h.gp.known THEN h.gram
  ELSE [h.gram EXCEPT !.rules[h.gp.nonterminal][Current(h)].entries = entries]
Written(h) == IF h.gp.known THEN h.gram.rules[h.gp.nonterminal][Current(h)].entries ELSE <<>>

ReplaceLast(h, e) == Entries(h, Append(SubSeq(Written(h), 1, Len(Written(h)) - 1), e))

AddEntry(h, e) ==
  [gp |-> [h.gp EXCEPT !.state = "Entry", !.entry = e, !.ge = "entry"],
   gram |-> Entries(h, Append(Written(h), e))]

_grammar_parser_replace_entry(h, name) ==
  [gp |-> [h.gp EXCEPT !.entry = NonTerminal(name), !.ge = "entry"],
   gram |-> ReplaceLast(h, NonTerminal(name))]

(* An option is an action of the element it is written behind.             *)
_grammar_parser_set_option(h) ==
  LET name == h.gp.nonterminal
      action == h.gp.last_token
      done == [h EXCEPT !.gp.last_token = ""]
      e == [h.gp.entry EXCEPT !.actions = Append(@, action)]
  IN CASE action # "" /\ h.gp.ge = "entry" ->
            [gp |-> [done.gp EXCEPT !.entry = e], gram |-> ReplaceLast(h, e)]
       [] action # "" /\ h.gp.ge = "rule" /\ h.gp.known ->
            [done EXCEPT !.gram.rules[name][Current(h)].actions = Append(@, action)]
       [] action # "" /\ h.gp.ge = "nonterminal" /\ h.gp.known ->
            [done EXCEPT !.gram.actions[name] = Append(@, action)]
       [] OTHER -> done
-----------------------------------------------------------------------------
(* What a token of a rule stands for: a keyword gets a code of its own and *)
(* is told to the lexer, a single character is its own code.               *)
Xform(token) ==
  CASE token.code = "dq" -> IF token.text = "" THEN "" ELSE token.text
    [] token.code = "sq" -> IF Len(token.text) = 1 THEN token.text ELSE ""
    [] token.code \in {"EOF", ":="} -> ""
    [] OTHER -> token.code

EntryName(e) == IF e.terminal THEN <<"'", e.token, "'">> ELSE e.nt

_grammar_parser_make_optional(h) ==
  LET name == EntryName(h.gp.entry) \o <<"?">>
      made == rule_create(rule_create(nonterminal_create(h.gram, name), name,
                                      Rule(<<h.gp.entry>>)), name, Rule(<<>>))
  IN Goto(_grammar_parser_replace_entry(
          [h EXCEPT !.gram = IF name \in DOMAIN h.gram.rules THEN h.gram ELSE made], name), "Rule")

\* Wrong: behind a separator the list could end.
SeparatorMayEnd(h, sep) ==
  LET g == h.gram
      e == h.gp.entry
      sepstr == IF sep = "" THEN <<"[None]">> ELSE <<sep>>
      star == EntryName(e) \o <<"*">> \o sepstr
      plus == EntryName(e) \o <<"+">> \o sepstr
      more == sepstr \o EntryName(e)
      create(g0, name, rules) ==
        IF name \in DOMAIN g0.rules THEN g0
        ELSE FoldLeft(LAMBDA g1, rule : rule_create(g1, name, rule), nonterminal_create(g0, name), rules)
      separator == IF sep = "" THEN <<>> ELSE <<Terminal(sep)>>
      made == create(create(create(g, star, <<Rule(<<NonTerminal(plus)>>), Rule(<<>>)>>),
                            plus, <<Rule(<<e, NonTerminal(more)>>)>>),
                     more, <<Rule(separator \o <<NonTerminal(star)>>), Rule(<<>>)>>)
  IN Goto(_grammar_parser_replace_entry([h EXCEPT !.gram = made],
                                      IF h.gp.modifier = "+" THEN plus ELSE star), "Rule")

(* x*sep is x+sep or nothing, x+sep is x and sepx, and sepx is sep and     *)
(* x+sep or nothing.                                                       *)
_grammar_parser_expand_modifier(h, sep) ==
  LET g == h.gram
      e == h.gp.entry
      sepstr == IF sep = "" THEN <<"[None]">> ELSE <<sep>>
      star == EntryName(e) \o <<"*">> \o sepstr
      plus == EntryName(e) \o <<"+">> \o sepstr
      more == sepstr \o EntryName(e)
      create(g0, name, rules) ==
        IF name \in DOMAIN g0.rules THEN g0
        ELSE FoldLeft(LAMBDA g1, rule : rule_create(g1, name, rule), nonterminal_create(g0, name), rules)
      separator == IF sep = "" THEN <<>> ELSE <<Terminal(sep)>>
      made == create(create(create(g, star, <<Rule(<<NonTerminal(plus)>>), Rule(<<>>)>>),
                            plus, <<Rule(<<e, NonTerminal(more)>>)>>),
                     more, <<Rule(separator \o <<NonTerminal(plus)>>), Rule(<<>>)>>)
  IN Goto(_grammar_parser_replace_entry([h EXCEPT !.gram = made],
                                      IF h.gp.modifier = "+" THEN plus ELSE star), "Rule")
-----------------------------------------------------------------------------
(* The handlers: one for each state, with the token that was read.         *)
NewNonTerminal(h, token) ==
  [gp |-> [h.gp EXCEPT !.state = "NonTerminal", !.nonterminal = <<token.text>>,
             !.known = <<token.text>> \notin DOMAIN h.gram.rules, !.entry = NoEntry, !.ge = "nonterminal"],
   gram |-> nonterminal_create(h.gram, <<token.text>>)]

OpenOptions(h, old) == [h EXCEPT !.gp.state = "Options", !.gp.old_state = old]

_grammar_parser_state_start(h, token) ==
  CASE token.code = "i" -> NewNonTerminal(h, token)
    [] token.code = "%" -> [OpenOptions(h, "Start") EXCEPT !.gp.ge = "grammar"]
    [] token.code = "[" -> OpenOptions(h, "NonTerminal")
    [] OTHER -> Error(h)

OptionsEnd(h, token) ==
  IF (token.code = "%") = (h.gp.old_state = "Start")
  THEN Goto(_grammar_parser_set_option(h), h.gp.old_state) ELSE Error(h)

_grammar_parser_state_options(h, token) ==
  CASE token.code = "i" -> [Goto(h, "OptionName") EXCEPT !.gp.last_token = token.text]
    [] token.code \in {"%", "]"} -> OptionsEnd(h, token)
    [] OTHER -> Error(h)

_grammar_parser_state_option_name(h, token) ==
  CASE token.code \in {":", "="} -> Goto(h, "OptionValue")
    [] token.code = "i" -> _grammar_parser_state_options(_grammar_parser_set_option(h), token)
    [] token.code \in {"%", "]"} -> OptionsEnd(h, token)
    [] OTHER -> Error(h)

_grammar_parser_state_option_value(h, token) ==
  IF token.code \in {"i", "d", "x", "f", "sq", "dq", "bq"}
  THEN Goto(_grammar_parser_set_option(h), "Options") ELSE Error(h)

_grammar_parser_state_nonterminal(h, token) ==
  CASE token.code = "i" -> NewNonTerminal(h, token)
    [] token.code = "[" -> OpenOptions(h, "NonTerminal")
    [] token.code = ":=" /\ h.gp.nonterminal # None -> AddRule(h)
    [] token.code = "EOF" /\ h.gp.nonterminal = None -> h
    [] OTHER -> Error(h)

_grammar_parser_state_rule(h, token) ==
  IF Xform(token) = "" THEN Error(h)
  ELSE CASE token.code = "|" -> AddRule(h)
         [] token.code = ";" ->
              [h EXCEPT !.gp.state = "NonTerminal", !.gp.nonterminal = None, !.gp.entry = NoEntry]
         [] token.code = "[" -> OpenOptions(h, h.gp.state)
         [] token.code = "i" -> AddEntry(h, NonTerminal(<<token.text>>))
         [] OTHER -> AddEntry(h, Terminal(Xform(token)))

_grammar_parser_state_entry(h, token) ==
  CASE token.code = "?" -> _grammar_parser_make_optional(h)
    [] token.code \in {"+", "*"} -> [Goto(h, "Modifier") EXCEPT !.gp.modifier = token.code]
    [] OTHER -> _grammar_parser_state_rule(h, token)

_grammar_parser_state_modifier(h, token) ==
  IF token.code = "," THEN Goto(h, "Separator")
  ELSE _grammar_parser_state_rule(_grammar_parser_expand_modifier(h, ""), token)

_grammar_parser_state_separator(h, token) ==
  IF Xform(token) = "" THEN Error(h) ELSE _grammar_parser_expand_modifier(h, Xform(token))

Handle(h, token) ==
  CASE h.gp.state = "Start" -> _grammar_parser_state_start(h, token)
    [] h.gp.state = "Options" -> _grammar_parser_state_options(h, token)
    [] h.gp.state = "OptionName" -> _grammar_parser_state_option_name(h, token)
    [] h.gp.state = "OptionValue" -> _grammar_parser_state_option_value(h, token)
    [] h.gp.state = "NonTerminal" -> _grammar_parser_state_nonterminal(h, token)
    [] h.gp.state = "Rule" -> _grammar_parser_state_rule(h, token)
    [] h.gp.state = "Entry" -> _grammar_parser_state_entry(h, token)
    [] h.gp.state = "Modifier" -> _grammar_parser_state_modifier(h, token)
    [] h.gp.state = "Separator" -> _grammar_parser_state_separator(h, token)
-----------------------------------------------------------------------------
GrammarParserInit(text) ==
  /\ gpText = text /\ gpKeywords = {}
  /\ gp = [state |-> "Start", old_state |-> "Start", nonterminal |-> None, known |-> TRUE,
           entry |-> NoEntry, ge |-> "none", modifier |-> "", last_token |-> ""]

(* Nothing is read behind an error.                                        *)
_grammar_token_handler ==
  /\ gramPhase = "read" /\ gpText # <<>> /\ gp.state # "Error"
  /\ \E token \in {Head(gpText)} : \E h \in {Handle([gp |-> gp, gram |-> gram], token)} :
        /\ gp' = h.gp /\ gram' = h.gram
        /\ gpKeywords' =
             IF token.code = "dq" /\ token.text # "" /\ gp.state \in {"Rule", "Entry", "Modifier", "Separator"}
             THEN gpKeywords \cup {token.text} ELSE gpKeywords
  /\ gpText' = Tail(gpText)
  /\ UNCHANGED <<gramPhase, analysis>>

(* The grammar is handed out also when it could not be read or analyzed.   *)
grammar_parser_parse ==
  /\ gramPhase = "read" /\ (gpText = <<>> \/ gp.state = "Error")
  /\ gramPhase' = IF gp.state = "Error" THEN "ended" ELSE "firsts"
  /\ UNCHANGED <<gram, analysis, gpVars>>
=============================================================================
