------------------------------ MODULE Language ------------------------------
(***************************************************************************)
(* From the text of a grammar to the texts its parser accepts: the parser  *)
(* of grammar files, the analysis and the LL(1) driver, one behind the     *)
(* other, for small grammars with the modifiers ?, * and +.  The reference *)
(* is the language of the grammar as it was written: the texts it derives, *)
(* each with the actions met on the way.                                   *)
(***************************************************************************)
EXTENDS GrammarParser, Parser, Functions

VARIABLE written     \* the grammar as it was written, in its notation

langVars == <<gramVars, gpVars, parVars, written>>

MaxActions == 8      \* bound: a parse is followed this far if it does not end

Tok(code) == [code |-> code, text |-> ""]
\* An entry as it is written: a name or a character, its actions, a modifier
\* with its separator.
E(name, actions, mod, sep) == [name |-> name, actions |-> actions, mod |-> mod, sep |-> sep]
P(name) == E(name, <<>>, "", "")
PA(name, action) == E(name, <<action>>, "", "")
IsName(name) == name \in {"S", "A"}

SRules == {
  <<<<PA("A", "f"), PA("b", "g")>>>>,
  <<<<P("a")>>, <<PA("A", "f"), P("A")>>>>,
  <<<<P("A"), PA("a", "f"), P("S")>>, <<>>>>,
  <<<<E("A", <<"f">>, "?", ""), PA("c", "g")>>>>,
  <<<<E("A", <<"f">>, "*", ","), PA("c", "g")>>>>,
  <<<<P("c"), E("A", <<"f">>, "+", "")>>>>,
  <<<<P("A"), E("b", <<"f">>, "?", ""), P("c"), P("a")>>>>,
  <<<<P("c"), P("A")>>, <<P("S"), P("b")>>>>,
  <<<<P("A"), P("b")>>, <<P("a")>>>>,
  <<<<PA("a", "k"), E("A", <<>>, "?", "")>>, <<P("b"), PA("A", "f")>>>>}
ARules == {
  <<<<PA("a", "h")>>>>,
  <<<<PA("a", "h")>>, <<>>>>,
  <<<<>>, <<PA("a", "h")>>>>,
  <<<<P("b"), P("A")>>, <<P("a")>>>>,
  <<<<P("A"), P("b")>>, <<P("a")>>>>,
  <<<<PA("a", "h"), P("A")>>, <<>>>>,
  <<<<E("b", <<>>, "*", "")>>>>}
Written2 == [S : SRules, A : ARules]

\* The text of a grammar.
FlatMap(F(_), s) == FoldLeft(LAMBDA r, x : r \o F(x), <<>>, s)
Options(actions) ==
  IF actions = <<>> THEN <<>>
  ELSE <<Tok("[")>> \o FlatMap(LAMBDA a : <<[code |-> "i", text |-> a]>>, actions) \o <<Tok("]")>>
EntryText(e) ==
  <<IF IsName(e.name) THEN [code |-> "i", text |-> e.name] ELSE [code |-> "sq", text |-> e.name]>>
    \o Options(e.actions)
    \o (IF e.mod = "" THEN <<>> ELSE <<Tok(e.mod)>>)
    \o (IF e.sep = "" THEN <<>> ELSE <<Tok(","), [code |-> "sq", text |-> e.sep]>>)
RuleText(rule) == FlatMap(EntryText, rule)
NonTerminalText(name, rules) ==
  <<[code |-> "i", text |-> name], Tok(":=")>>
    \o Tail(FlatMap(LAMBDA r : <<Tok("|")>> \o RuleText(r), rules)) \o <<Tok(";")>>
TextOf(w) == NonTerminalText("S", w.S) \o NonTerminalText("A", w.A) \o <<Tok("EOF")>>

\* Texts that are no such grammar: options and keywords everywhere they may
\* stand, nonterminals that are missing or come twice, and errors.
I(name) == [code |-> "i", text |-> name]
DQ(word) == [code |-> "dq", text |-> word]
OddTexts == {
  <<Tok("%"), I("lib"), Tok(":"), DQ("x"), I("strict"), Tok("%"), I("S"), Tok("["), I("f"), I("g"), Tok("]"),
    Tok(":="), Tok("["), I("h"), Tok("]"), DQ("a"), Tok("["), I("f"), Tok("="), Tok("d"), Tok("]"), Tok("|"),
    DQ("b"), Tok("*"), Tok(","), DQ("c"), Tok(";"), Tok("EOF")>>,
  <<I("S"), Tok(":="), I("A"), DQ("b"), Tok(";"), Tok("EOF")>>,
  <<I("S"), Tok(":="), Tok("a"), I("A"), Tok("?"), Tok(";"), Tok("EOF")>>,
  <<I("S"), Tok(":="), Tok("a"), Tok(";"), I("S"), Tok("["), I("f"), Tok("]"), Tok(":="), Tok("["), I("g"),
    Tok("]"), Tok("b"), Tok("["), I("h"), Tok("]"), Tok(";"), Tok("EOF")>>,
  <<Tok("["), I("f"), Tok("]"), I("S"), Tok(":="), Tok("a"), Tok(";"), Tok("EOF")>>,
  <<I("S"), Tok(":="), Tok("a"), Tok("]"), Tok(";"), Tok("EOF")>>,
  <<I("S"), Tok(":="), Tok("a"), Tok("["), Tok("%")>>,
  <<I("S"), Tok(":="), Tok("a"), Tok("*"), Tok(","), DQ("")>>,
  <<I("S"), Tok(":="), [code |-> "sq", text |-> "ab"]>>,
  <<I("S"), Tok("["), I("f"), Tok(":"), Tok(":")>>,
  <<I("S"), Tok("["), I("f"), Tok("|")>>,
  <<I("S"), Tok("EOF")>>, <<Tok("|")>>, <<Tok("[") , Tok("|")>>}

Unwritten == [S |-> <<>>, A |-> <<>>]

LangInit ==
  /\ written \in Written2 \cup {Unwritten}
  /\ \E text \in IF written = Unwritten THEN OddTexts ELSE {TextOf(written)} : GrammarParserInit(text)
  /\ GrammarInit /\ ParserInit

Bounded(A) == Len(parDone) < MaxActions /\ UNCHANGED written /\ A

Reads == (_grammar_token_handler \/ grammar_parser_parse) /\ UNCHANGED parVars
Analyzes == grammar_analyze /\ UNCHANGED <<gpVars, parVars>>
Parses == ParserNext /\ UNCHANGED gpVars

LangNext == Bounded(Reads \/ Analyzes \/ Parses)

\* A FIRST set takes its nonterminal from those that were not visited.
Visits == gramPhase = "firsts" /\ \E name \in Unvisited : gramVisited' = gramVisited \cup {name}

\* The steps of the analysis that are not made one nonterminal at a time.
Sums == (FirstsDone \/ GetFollows \/ PassDone \/ CheckAndBuild) /\ UNCHANGED <<gpVars, parVars>>
-----------------------------------------------------------------------------
(* The texts a written grammar derives, with their actions.                *)
Empty == <<<<>>, <<>>>>
Concat(X, Y) ==
  {<<x[1] \o y[1], x[2] \o y[2]>> : x \in X, y \in {y \in Y : TRUE}}
UpToMax(X) == {x \in X : Len(x[1]) <= MaxTokens}

RECURSIVE Repeated(_, _, _)
Repeated(base, sep, got) ==
  LET more == base \cup UpToMax(Concat(Concat(base, sep), got))
  IN IF more = got THEN got ELSE Repeated(base, sep, more)

EntryTexts(e, L) ==
  LET base == {<<x[1], x[2] \o e.actions>> :
                 x \in IF IsName(e.name) THEN L[e.name] ELSE {<<<<e.name>>, <<>>>>}}
      sep == IF e.sep = "" THEN {Empty} ELSE {<<<<e.sep>>, <<>>>>}
  IN CASE e.mod = "" -> base
       [] e.mod = "?" -> base \cup {Empty}
       [] e.mod = "+" -> Repeated(base, sep, {})
       [] e.mod = "*" -> Repeated(base, sep, {}) \cup {Empty}
RuleTexts(rule, L) ==
  FoldLeft(LAMBDA X, e : UpToMax(Concat(X, EntryTexts(e, L))), {Empty}, rule)

RECURSIVE TextsOf(_, _)
TextsOf(w, L) ==
  LET more == [name \in {"S", "A"} |-> UNION {RuleTexts(w[name][i], L) : i \in DOMAIN w[name]}]
  IN IF more = L THEN L ELSE TextsOf(w, more)

(* A repetition of something that may be empty has no end.                 *)
MayBeEmpty(w) == \E i \in DOMAIN w.A : \A j \in DOMAIN w.A[i] : w.A[i][j].mod \in {"?", "*"}
RepeatsNothing(w) ==
  MayBeEmpty(w) /\ \E i \in DOMAIN w.S : \E j \in DOMAIN w.S[i] :
    w.S[i][j].name = "A" /\ w.S[i][j].mod \in {"*", "+"}
LanguageOf == [w \in {v \in Written2 : ~RepeatsNothing(v)} |->
                 TextsOf(w, [name \in {"S", "A"} |-> {}])["S"]]
-----------------------------------------------------------------------------
(* The textbook FIRST and FOLLOW of the grammar that was built.            *)
Entries2(name) == {<<i, j>> \in (1 .. 4) \X (1 .. 4) :
  i \in DOMAIN gram.rules[name] /\ j \in DOMAIN gram.rules[name][i].entries}

First(e, F) == IF e.terminal THEN {e.token} ELSE F[e.nt]
FirstOfAll(es, F) ==
  FoldLeft(LAMBDA X, e : IF TokenCodeEmpty \in X THEN (X \ {TokenCodeEmpty}) \cup First(e, F) ELSE X,
           {TokenCodeEmpty}, es)
RECURSIVE Firsts(_)
Firsts(F) ==
  LET more == [name \in Names |->
        UNION {FirstOfAll(gram.rules[name][i].entries, F) : i \in DOMAIN gram.rules[name]}]
  IN IF more = F THEN F ELSE Firsts(more)

Behind(name, i, j) == SubSeq(gram.rules[name][i].entries, j + 1, Len(gram.rules[name][i].entries))
RECURSIVE Follows(_, _)
Follows(F, W) ==
  LET from(nt, name) == UNION {
        LET e == gram.rules[name][p[1]].entries[p[2]]
            next == FirstOfAll(Behind(name, p[1], p[2]), F)
        IN IF e.terminal \/ e.nt # nt THEN {}
           ELSE (next \ {TokenCodeEmpty}) \cup IF TokenCodeEmpty \in next THEN W[name] ELSE {} :
        p \in Entries2(name)}
      more == [nt \in Names |-> W[nt] \cup UNION {from(nt, name) : name \in Names}]
  IN IF more = W THEN W ELSE Follows(F, more)

Analysis ==
  LET F == Firsts([name \in Names |-> {}])
  IN [firsts |-> F,
      follows |-> Follows(F, [name \in Names |-> IF name = gram.entrypoint THEN {TokenCodeEnd} ELSE {}])]

Predict(name, i, A) ==
  LET firsts == FirstOfAll(gram.rules[name][i].entries, A.firsts)
  IN (firsts \ {TokenCodeEmpty}) \cup IF TokenCodeEmpty \in firsts THEN A.follows[name] ELSE {}
IsLL1(A) ==
  \A name \in Names : \A i, j \in DOMAIN gram.rules[name] :
    i # j => /\ Predict(name, i, A) \cap Predict(name, j, A) = {}
             /\ Predict(name, i, A) # {}
-----------------------------------------------------------------------------
(* nonterminal.c:106, grammar.c:245 -- for an LL(1) grammar the analysis   *)
(* finds what the textbook defines, in whatever order it comes to the      *)
(* nonterminals: FIRST exactly, and of FOLLOW at least all of it; and it   *)
(* takes the grammar for LL(1).                                            *)
AnalysisRight ==
  gramPhase \in {"built", "ended"} /\ gp.state # "Error" /\ parText = <<>> =>
    \A A \in {Analysis} : IsLL1(A) =>
      /\ gramFirsts.nt = A.firsts
      /\ \A name \in Names : A.follows[name] \subseteq gramFollows[name]
      /\ gramTable # <<>>

(* The rules are told apart by what the analysis found.                    *)
ToldApart ==
  \A name \in Names : \A i, j \in DOMAIN gram.rules[name] :
    i # j => Chosen(name, i) \cap Chosen(name, j) = {}

LL1Parsed ==
  /\ gramPhase = "ended" /\ gramTable # <<>> /\ written # Unwritten
  /\ ~RepeatsNothing(written) /\ ToldApart /\ \E A \in {Analysis} : IsLL1(A)

(* parser.c:194, grammarparser.c:138 -- what the parser of an LL(1)        *)
(* grammar whose rules are told apart reads until it accepts is a text the *)
(* grammar derives, as it was written, with the actions in the order of    *)
(* the derivation; it leaves text behind that only where no text of the    *)
(* language goes on.  And it stops with an error at the first token no     *)
(* text of the language goes on with.                                      *)
ParsesLanguage ==
  LL1Parsed =>
    IF parError
    THEN \/ parDone # <<>> /\ Last(parDone) \in Failing
         \/ ~\E x \in LanguageOf[written] : IsPrefix(parText, x[1])
         \/ ~parMore /\ ~\E x \in LanguageOf[written] : x[1] = parText
    ELSE /\ <<parText, parDone>> \in LanguageOf[written]
         /\ parMore => ~\E x \in LanguageOf[written] : IsStrictPrefix(parText, x[1])

(* grammar.c:374, parser.c:411 -- the analysis of a grammar, and the parse *)
(* of any text with it, end; unless the grammar repeats what may be empty. *)
EveryParseEnds ==
  written # Unwritten /\ ~RepeatsNothing(written) => <>(gramPhase \in {"ended", "aborted"})

(* grammar.c:242 (if there is a production A -> aBb then everything in     *)
(* FIRST(b) except for the empty word is placed in FOLLOW(B)) -- the       *)
(* FOLLOW sets hold nothing but that.                                      *)
FollowsAreFollow ==
  gramPhase = "built" => \A A \in {Analysis} : IsLL1(A) => gramFollows = A.follows
=============================================================================
