------------------------------ MODULE Scanners ------------------------------
(***************************************************************************)
(* The scanners of src/lexer: each reads characters through the lexer and  *)
(* pushes, discards, accepts or skips them.  A run of a scanner is a       *)
(* record the scanner's step function updates for every character it is    *)
(* handed, until it is done.                                               *)
(***************************************************************************)
EXTENDS Str, FiniteSets

CONSTANTS
  Reader,        \* "stream" or "string": what the lexer reads from
  QuoteChars,    \* the quotes of the qstring scanner
  Markers,       \* the comment markers: <<[start, end, hashpling], ...>>, end = <<>> for a line
  Keyword,       \* the keywords, a set of sequences of characters
  IgnoreNewLine, \* the ignorenl parameter of the whitespace scanner
  IgnoreSpace,   \* the ignorews parameter of the whitespace scanner
  Signed         \* the signed parameter of the number scanner

ASSUME ReaderAssumption == Reader \subseteq {"stream", "string"}

\* Characters by their code, 0 for the end; one below 0 is not ASCII.
Char == -128 .. 127
Printed == 1 .. 127

ASSUME ScannersAssumption ==
  /\ QuoteChars \subseteq Printed
  /\ Keyword \subseteq Seq(Printed) \ {<<>>} /\ IsFiniteSet(Keyword)
  /\ Markers \in Seq([start : Seq(Printed), end : Seq(Printed), hashpling : BOOLEAN])
  /\ {IgnoreNewLine, IgnoreSpace, Signed} \subseteq BOOLEAN

NewLine == 10   CR == 13   Space == 32   Plus == 43   Minus == 45   Period == 46
Backslash == 92   Underscore == 95
IsDigit(c) == c \in 48 .. 57
IsAlpha(c) == c \in (65 .. 90) \cup (97 .. 122)
IsSpace(c) == c \in (9 .. 13) \cup {32}
IsHex(c) == IsDigit(c) \/ c \in (65 .. 70) \cup (97 .. 102)
tolower(c) == IF c \in 65 .. 90 THEN c + 32 ELSE c

\* Token codes; a single character and a quoted string have their own.
TokenCodeNone == 0   TokenCodeError == 200   TokenCodeWhitespace == 201
TokenCodeNewLine == 202   TokenCodeIdentifier == 203   TokenCodeInteger == 204
TokenCodeHexNumber == 205   TokenCodeFloat == 206   TokenCodeEOF == 207
TokenCodeKeyword == 300   \* and the length of the keyword

NoToken == [code |-> TokenCodeNone, text |-> <<>>]
-----------------------------------------------------------------------------
(* What is handed out of the buffer `str' and the `left' of the stream: a  *)
(* character that is not above 0 asks the stream for more.                 *)

lexer_get_char(reader, str, left) ==
  LET c == str_peek(str)
      more == str_replenish(Advance(str), left)
  IN IF c > 0 \/ reader = "string"
     THEN [ch |-> c, str |-> Advance(str), left |-> left]
     ELSE IF more.got = 0 THEN [ch |-> 0, str |-> more.str, left |-> more.left]
     ELSE [ch |-> str_peek(more.str), str |-> Advance(more.str), left |-> more.left]

\* A run that begins, at the top of the text or further down.
FreshRun(top) ==
  [ch |-> 0, top |-> top, state |-> "Init", token |-> <<>>, scan_count |-> 0,
   known |-> <<>>, quote |-> 0, end |-> <<>>, done |-> FALSE, out |-> NoToken, skips |-> FALSE]

\* Wrong: a scanner would go on where the one before it stopped.
NotRewound(str, left, top) == [run |-> FreshRun(top), str |-> str, left |-> left]

lexer_rewind(str, left, top) == [run |-> FreshRun(top), str |-> str_rewind(str), left |-> left]

lexer_push_as(run, c) ==
  [run EXCEPT !.token = IF c > 0 THEN Append(@, c) ELSE @, !.scan_count = @ + 1]
lexer_push(run) == lexer_push_as(run, run.ch)
lexer_discard(run) == lexer_push_as(run, 0)

lexer_accept(run, code) ==
  [run EXCEPT !.done = TRUE,
              !.out = [code |-> code, text |-> IF code = TokenCodeError THEN <<>> ELSE run.token]]
lexer_skip(run) == [run EXCEPT !.done = TRUE, !.skips = TRUE]
NoMatch(run) == [run EXCEPT !.done = TRUE]
To(run, state) == [run EXCEPT !.state = state]
-----------------------------------------------------------------------------
(* number.c: _num_scanner_process.  What the last state says of the text   *)
(* when the next character does not belong to it.                          *)

\* Wrong: an exponent that was begun would be left to the next token.
CodeWithoutError(state) ==
  IF state \in {"SciFloat", "SciFloatExpSign"} THEN TokenCodeFloat
  ELSE CASE state \in {"Zero", "Number"} -> TokenCodeInteger
         [] state \in {"Float", "SciFloatExp"} -> TokenCodeFloat
         [] state = "HexInteger" -> TokenCodeHexNumber
         [] OTHER -> TokenCodeNone

NumCode(state) ==
  CASE state \in {"Zero", "Number"} -> TokenCodeInteger
    [] state \in {"Float", "SciFloatExp"} -> TokenCodeFloat
    [] state = "HexInteger" -> TokenCodeHexNumber
    [] state \in {"SciFloat", "SciFloatExpSign"} -> TokenCodeError
    [] OTHER -> TokenCodeNone

NumNext(run, c) ==
  LET digitTo(zero, other) == IF c = 48 THEN zero ELSE other
  IN CASE run.state = "Init" ->
            IF Signed /\ c \in {Plus, Minus} THEN "PlusMinus"
            ELSE IF IsDigit(c) THEN digitTo("Zero", "Number")
            ELSE IF c = Period THEN "Period" ELSE "Done"
       [] run.state = "PlusMinus" ->
            IF IsDigit(c) THEN digitTo("Zero", "Number")
            ELSE IF c = Period THEN "Period" ELSE "Done"
       [] run.state = "Period" ->
            IF IsDigit(c) THEN "Float"
            ELSE IF c = 101 /\ Len(run.token) > 1 THEN "SciFloat" ELSE "Done"
       [] run.state = "Zero" ->
            IF IsDigit(c) THEN digitTo("Zero", "Number")
            ELSE IF c = Period THEN "Float"
            ELSE IF c = 120 THEN "HexInteger" ELSE "Done"
       [] run.state = "Number" ->
            IF IsDigit(c) THEN "Number" ELSE IF c = Period THEN "Period"
            ELSE IF c = 101 THEN "SciFloat" ELSE "Done"
       [] run.state = "Float" ->
            IF IsDigit(c) THEN "Float" ELSE IF c = 101 THEN "SciFloat" ELSE "Done"
       [] run.state = "SciFloat" ->
            IF IsDigit(c) THEN "SciFloatExp"
            ELSE IF c \in {Plus, Minus} THEN "SciFloatExpSign" ELSE "Done"
       [] run.state \in {"SciFloatExpSign", "SciFloatExp"} ->
            IF IsDigit(c) THEN "SciFloatExp" ELSE "Done"
       [] run.state = "HexInteger" -> IF IsHex(c) THEN "HexInteger" ELSE "Done"

NumStep(run) ==
  LET c == tolower(run.ch)
      next == NumNext(run, c)
      \* a leading zero goes when another digit follows
      token == IF run.state = "Zero" /\ IsDigit(c)
               THEN SubSeq(run.token, 1, Len(run.token) - 1) ELSE run.token
  IN IF next # "Done" THEN To(lexer_push_as([run EXCEPT !.token = token], run.ch), next)
     ELSE IF NumCode(run.state) = TokenCodeNone THEN NoMatch(run)
     ELSE lexer_accept(run, NumCode(run.state))
-----------------------------------------------------------------------------
(* identifier.c, as the language configures it: letters, digits and        *)
(* underscores, not a digit first.                                         *)
_id_config_filter(run) ==
  \/ IsAlpha(run.ch) \/ run.ch = Underscore
  \/ IsDigit(run.ch) /\ run.token # <<>>

IdStep(run) ==
  IF _id_config_filter(run) THEN lexer_push(run) ELSE lexer_accept(run, TokenCodeIdentifier)
-----------------------------------------------------------------------------
(* qstring.c: a backslash takes the next character as it is, except that   *)
(* r, n and t are turned into control characters.                          *)
Escaped(c) == CASE c = 114 -> CR [] c = 110 -> NewLine [] c = 116 -> 9 [] OTHER -> c

\* Wrong: a quote behind a backslash would end the string.
EscapeIgnored(run) ==
  CASE run.ch = 0 -> IF run.state = "Init" THEN NoMatch(run) ELSE lexer_accept(run, TokenCodeError)
    [] run.ch # 0 /\ run.state = "Init" ->
         IF run.ch \in QuoteChars
         THEN [To(lexer_discard(run), "QString") EXCEPT !.quote = run.ch] ELSE NoMatch(run)
    [] OTHER ->
         IF run.ch = run.quote THEN lexer_accept(lexer_discard(run), run.quote)
         ELSE lexer_push(run)

QStrStep(run) ==
  CASE run.ch = 0 -> IF run.state = "Init" THEN NoMatch(run) ELSE lexer_accept(run, TokenCodeError)
    [] run.ch # 0 /\ run.state = "Init" ->
         IF run.ch \in QuoteChars
         THEN [To(lexer_discard(run), "QString") EXCEPT !.quote = run.ch] ELSE NoMatch(run)
    [] run.ch # 0 /\ run.state = "QString" ->
         IF run.ch = run.quote THEN lexer_accept(lexer_discard(run), run.quote)
         ELSE IF run.ch = Backslash THEN To(lexer_discard(run), "Escape")
         ELSE lexer_push(run)
    [] run.ch # 0 /\ run.state = "Escape" -> To(lexer_push_as(run, Escaped(run.ch)), "QString")
-----------------------------------------------------------------------------
(* whitespace.c: line ends are white space of their own unless newlines    *)
(* alone are ignored.                                                      *)
NlIsWs == IgnoreNewLine /\ ~IgnoreSpace

WsStep(run) ==
  LET eol == run.ch \in {CR, NewLine}
      ends(ignore, code) == IF ignore THEN lexer_skip(run) ELSE lexer_accept(run, code)
  IN CASE run.state = "Init" ->
            IF ~IsSpace(run.ch) THEN NoMatch(run)
            ELSE To(lexer_push(run), IF eol /\ ~NlIsWs THEN "Newline" ELSE "Whitespace")
       [] run.state = "Newline" ->
            IF eol THEN lexer_push(run) ELSE ends(IgnoreNewLine, TokenCodeNewLine)
       [] run.state = "Whitespace" ->
            IF ~IsSpace(run.ch) \/ (eol /\ ~NlIsWs)
            THEN ends(IgnoreSpace, TokenCodeWhitespace) ELSE lexer_push(run)
-----------------------------------------------------------------------------
(* keyword.c: the keywords that start with what was read, and the last one *)
(* that was read in full.  The token stays when only longer keywords are   *)
(* left, and the length of what was read goes with it.                     *)
Candidates(cs) == {kw \in Keyword : IsPrefix(cs, kw)}

\* Wrong: a keyword that was read in full would not be kept.
ForgetsFull(run, cs) == IF cs \in Keyword THEN cs ELSE <<>>

FullMatch(run, cs) == IF cs \in Keyword THEN cs ELSE run.known

KwAccept(run) == lexer_accept(run, TokenCodeKeyword + Len(run.known))

KwStep(run) ==
  LET cs == Append(run.token, run.ch)
      left == Candidates(cs)
      known == FullMatch(run, cs)
  IN IF run.ch = 0
     THEN IF run.state = "FullMatch" THEN KwAccept(run) ELSE NoMatch(run)
     ELSE IF left = {}
     THEN IF run.state \in {"FullMatch", "FullMatchAndPrefixes"} THEN KwAccept(run) ELSE NoMatch(run)
     ELSE [To(lexer_push(run),
              CASE Cardinality(left) = 1 /\ known # <<>> -> "FullMatch"
                [] Cardinality(left) > 1 /\ known # <<>> -> "FullMatchAndPrefixes"
                [] OTHER -> "PrefixMatched") EXCEPT !.known = known]
-----------------------------------------------------------------------------
(* comment.c: the markers that start with what was read; one that is alone *)
(* and complete begins a comment.                                          *)

Matching(run, cs) ==
  {i \in DOMAIN Markers : (Markers[i].hashpling => run.top) /\ IsPrefix(cs, Markers[i].start)}

(* A comment to the end of the line: the end is not part of it.            *)
_comment_find_eol(run) ==
  IF run.ch \in {0, CR, NewLine} THEN lexer_skip(run) ELSE lexer_discard(run)

\* Wrong: an end marker that was lost would be waited for for ever.
NeverLost(run, end) ==
  LET read == lexer_discard(run)
  IN IF run.ch = 0 THEN lexer_accept(run, TokenCodeError)
     ELSE IF run.state = "Text"
     THEN IF run.ch = Head(end) THEN [To(read, "EndMarker") EXCEPT !.known = <<run.ch>>] ELSE read
     ELSE IF Append(run.known, run.ch) = end THEN lexer_skip(read)
     ELSE [read EXCEPT !.known = Append(@, run.ch)]

(* Up to the end marker.  A character that does not continue the marker is *)
(* not looked at as the beginning of a new one.                            *)
_comment_find_endmarker(run, end) ==
  LET cs == Append(run.known, run.ch)
      read == lexer_discard(run)
  IN IF run.ch = 0 THEN lexer_accept(run, TokenCodeError)
     ELSE IF run.state = "Text"
     THEN IF run.ch = Head(end) THEN [To(read, "EndMarker") EXCEPT !.known = <<run.ch>>] ELSE read
     ELSE IF cs = end THEN lexer_skip(read)   \* lexer_accept_token without a token
     ELSE IF IsPrefix(cs, end) THEN [read EXCEPT !.known = cs]
     ELSE To(read, "Text")

FullStart(run, cs) ==
  \E i \in Matching(run, cs) : Matching(run, cs) = {i} /\ Markers[i].start = cs

CommentStep(run) ==
  LET cs == Append(run.known, run.ch)
  IN IF run.state # "Init"
     THEN IF run.end = <<>> THEN _comment_find_eol(run) ELSE _comment_find_endmarker(run, run.end)
     ELSE IF run.ch = 0 \/ Matching(run, cs) = {} THEN NoMatch(run)
     ELSE IF FullStart(run, cs)
     THEN [To(lexer_discard(run), "Text") EXCEPT !.known = <<>>,
             !.end = Markers[CHOOSE i \in Matching(run, cs) : TRUE].end]
     ELSE [lexer_discard(run) EXCEPT !.known = cs]
-----------------------------------------------------------------------------
ScanStep(scanner, run) ==
  CASE scanner = "comment" -> CommentStep(run)
    [] scanner = "keyword" -> KwStep(run)
    [] scanner = "whitespace" -> WsStep(run)
    [] scanner = "identifier" -> IdStep(run)
    [] scanner = "number" -> NumStep(run)
    [] scanner = "qstring" -> QStrStep(run)

ReadOn(scanner, reader, at) ==
  LET got == lexer_get_char(reader, at.str, at.left)
  IN IF at.run.done THEN at
     ELSE [run |-> ScanStep(scanner, [at.run EXCEPT !.ch = got.ch]), str |-> got.str, left |-> got.left]

(* Read on until the run is done: never more characters than there are,    *)
(* and two ends.                                                           *)
match(scanner, reader, at) ==
  LET n == Len(at.str.chars) + Len(at.left) + 2
      after[i \in 0 .. n] == IF i = 0 THEN at ELSE ReadOn(scanner, reader, after[i - 1])
  IN after[n]
=============================================================================
