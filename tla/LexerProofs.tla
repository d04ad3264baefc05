----------------------------- MODULE LexerProofs -----------------------------
(***************************************************************************)
(* The lexer, for every text and every buffer: the scanners see the text   *)
(* and nothing of the chunks it comes in, no character is lost or read     *)
(* twice, and of all matches the longest wins, the first of them by        *)
(* priority.  And the strings the buffer is one of, for every sequence of  *)
(* operations: what they hold, split, join and answer.                     *)
(***************************************************************************)
EXTENDS Lexer, Induction

StatesOf(scanner) ==
  CASE scanner = "comment" -> {"Init", "Text", "EndMarker"}
    [] scanner = "keyword" -> {"Init", "PrefixMatched", "FullMatch", "FullMatchAndPrefixes"}
    [] scanner = "whitespace" -> {"Init", "Newline", "Whitespace"}
    [] scanner = "identifier" -> {"Init"}
    [] scanner = "number" -> {"Init", "PlusMinus", "Zero", "Number", "Period", "Float", "SciFloat",
                              "SciFloatExpSign", "SciFloatExp", "HexInteger"}
    [] scanner = "qstring" -> {"Init", "QString", "Escape"}

RunIn(states) ==
  [ch : Char, top : BOOLEAN, state : states, token : Seq(Char), scan_count : Nat,
   known : Seq(Char), quote : Char, end : Seq(Char), done : BOOLEAN,
   out : [code : Int, text : Seq(Char)], skips : BOOLEAN]

(* What holds of a run whenever a character has been handled.              *)
Valid(scanner, run) ==
  /\ run \in RunIn(StatesOf(scanner))
  /\ run.out.code # TokenCodeEOF
  /\ ~run.done => run.out = NoToken /\ ~run.skips
  /\ run.skips => run.out = NoToken /\ scanner \in {"comment", "whitespace"}
  /\ (scanner = "whitespace" /\ run.state # "Init") =>
       run.scan_count > 0 /\ (run.done => run.out # NoToken \/ run.skips)

(* What a step does: the end of the text ends the run, any other character *)
(* is counted or not.                                                      *)
Handled(run, after) ==
  /\ after.scan_count \in {run.scan_count, run.scan_count + 1}
  /\ run.ch = 0 => after.done /\ after.scan_count = run.scan_count

(* What the functions a scanner calls leave of the run.                    *)
LEMMA Pushed ==
  ASSUME NEW S, NEW run \in RunIn(S), NEW c \in Char
  PROVE  LET r == lexer_push_as(run, c)
         IN /\ r \in RunIn(S) /\ r.scan_count = run.scan_count + 1
            /\ r.ch = run.ch /\ r.state = run.state /\ r.known = run.known /\ r.quote = run.quote
            /\ r.end = run.end /\ r.done = run.done /\ r.out = run.out /\ r.skips = run.skips
<1> DEFINE token == IF c > 0 THEN Append(run.token, c) ELSE run.token
           n == run.scan_count + 1
           r == [run EXCEPT !.token = token, !.scan_count = n]
<1>1. token \in Seq(Char) /\ n \in Nat
  BY DEF RunIn
<1>2. lexer_push_as(run, c) = r
  BY DEF lexer_push_as
<1>3. /\ r \in RunIn(S) /\ r.scan_count = n
      /\ r.ch = run.ch /\ r.state = run.state /\ r.known = run.known /\ r.quote = run.quote
      /\ r.end = run.end /\ r.done = run.done /\ r.out = run.out /\ r.skips = run.skips
  <2> HIDE DEF token, n
  <2> QED BY <1>1 DEF RunIn
<1> HIDE DEF r
<1> QED BY <1>2, <1>3

\* An accepted run is done and has its token.
LEMMA Accepted ==
  ASSUME NEW S, NEW run \in RunIn(S), NEW code \in Int
  PROVE  LET r == lexer_accept(run, code)
         IN /\ r \in RunIn(S) /\ r.scan_count = run.scan_count /\ r.state = run.state
            /\ r.done /\ r.out.code = code /\ r.skips = run.skips
<1> DEFINE text == IF code = TokenCodeError THEN <<>> ELSE run.token
           out == [code |-> code, text |-> text]
           r == [run EXCEPT !.done = TRUE, !.out = out]
<1>1. text \in Seq(Char)
  BY DEF RunIn
<1>2. out \in [code : Int, text : Seq(Char)] /\ out.code = code
  BY <1>1
<1>3. lexer_accept(run, code) = r
  BY DEF lexer_accept
<1>4. /\ r \in RunIn(S) /\ r.scan_count = run.scan_count /\ r.state = run.state
      /\ r.done /\ r.out = out /\ r.skips = run.skips
  <2> HIDE DEF out
  <2> QED BY <1>2 DEF RunIn
<1> HIDE DEF r, out
<1> QED BY <1>2, <1>3, <1>4

\* A run that skips, and one without a match, is done.
LEMMA Left ==
  ASSUME NEW S, NEW run \in RunIn(S)
  PROVE  /\ LET r == lexer_skip(run)
            IN /\ r \in RunIn(S) /\ r.scan_count = run.scan_count /\ r.state = run.state
               /\ r.done /\ r.out = run.out /\ r.skips
         /\ LET r == NoMatch(run)
            IN /\ r \in RunIn(S) /\ r.scan_count = run.scan_count /\ r.state = run.state
               /\ r.done /\ r.out = run.out /\ r.skips = run.skips
BY DEF RunIn, lexer_skip, NoMatch

\* A run in another state.
LEMMA MovedTo ==
  ASSUME NEW S, NEW run \in RunIn(S), NEW state \in S
  PROVE  LET r == To(run, state)
         IN /\ r \in RunIn(S) /\ r.scan_count = run.scan_count /\ r.state = state
            /\ r.done = run.done /\ r.out = run.out /\ r.skips = run.skips
            /\ r.ch = run.ch /\ r.known = run.known /\ r.quote = run.quote /\ r.end = run.end
BY DEF RunIn, To

(* A run that ends without a match, with a token, with a skip, and one     *)
(* that goes on.                                                           *)
LEMMA EndsWithNone ==
  ASSUME NEW scanner, NEW run, Valid(scanner, run), ~run.done, scanner = "whitespace" => run.state = "Init"
  PROVE  Valid(scanner, NoMatch(run)) /\ Handled(run, NoMatch(run))
<1> QED BY Left DEF Valid, Handled

\* With a token.
LEMMA EndsWithToken ==
  ASSUME NEW scanner, NEW run, Valid(scanner, run), ~run.done, NEW code \in Int,
         code # TokenCodeEOF, scanner = "whitespace" => code # TokenCodeNone
  PROVE  Valid(scanner, lexer_accept(run, code)) /\ Handled(run, lexer_accept(run, code))
<1> DEFINE r == lexer_accept(run, code)
<1>1. /\ r \in RunIn(StatesOf(scanner)) /\ r.scan_count = run.scan_count /\ r.state = run.state
      /\ r.done /\ r.out.code = code /\ r.skips = run.skips
  BY Accepted DEF Valid
<1>2. code # TokenCodeNone => r.out # NoToken
  BY <1>1 DEF NoToken
<1>3. ~run.skips
  BY DEF Valid
<1>4. scanner = "whitespace" => r.out # NoToken /\ (r.state # "Init" => r.scan_count > 0)
  BY <1>1, <1>2 DEF Valid
<1>5. Handled(run, r)
  BY <1>1 DEF Handled
<1> HIDE DEF r
<1>6. Valid(scanner, r)
  BY <1>1, <1>3, <1>4 DEF Valid
<1> QED BY <1>5, <1>6 DEF r

\* With a skip.
LEMMA EndsWithSkip ==
  ASSUME NEW scanner \in {"comment", "whitespace"}, NEW run, Valid(scanner, run), ~run.done
  PROVE  Valid(scanner, lexer_skip(run)) /\ Handled(run, lexer_skip(run))
<1> QED BY Left DEF Valid, Handled

\* Or it goes on.
LEMMA GoesOn ==
  ASSUME NEW scanner, NEW run, Valid(scanner, run), ~run.done, run.ch # 0,
         NEW r \in RunIn(StatesOf(scanner)), r.scan_count = run.scan_count + 1,
         ~r.done, r.out = run.out, r.skips = run.skips
  PROVE  Valid(scanner, r) /\ Handled(run, r)
<1>1. run.scan_count \in Nat
  BY DEF Valid, RunIn
<1> QED BY <1>1 DEF Valid, Handled

\* The end of the text is no character of these kinds.
LEMMA EndIsNone == ~IsAlpha(0) /\ ~IsDigit(0) /\ ~IsSpace(0) /\ ~IsHex(0) /\ tolower(0) = 0
BY DEF IsAlpha, IsDigit, IsSpace, IsHex, tolower

\* Identifiers.
LEMMA IdSteps ==
  ASSUME NEW run, Valid("identifier", run), ~run.done
  PROVE  Valid("identifier", IdStep(run)) /\ Handled(run, IdStep(run))
<1>1. run \in RunIn(StatesOf("identifier")) /\ run.ch \in Char
  BY DEF Valid, RunIn
<1>2. CASE _id_config_filter(run)
  <2>1. IdStep(run) = lexer_push_as(run, run.ch)
    BY <1>2 DEF IdStep, lexer_push
  <2>2. run.ch # 0
    <3>1. run.ch = 0 => ~_id_config_filter(run)
      BY EndIsNone DEF _id_config_filter, Underscore
    <3> QED BY <3>1, <1>2
  <2> QED BY <1>1, <2>1, <2>2, Pushed, GoesOn
<1>3. CASE ~_id_config_filter(run)
  <2>1. IdStep(run) = lexer_accept(run, TokenCodeIdentifier)
    BY <1>3 DEF IdStep
  <2>2. TokenCodeIdentifier \in Int /\ TokenCodeIdentifier # TokenCodeEOF
    BY DEF TokenCodeIdentifier, TokenCodeEOF
  <2> QED BY <2>1, <2>2, EndsWithToken
<1> QED BY <1>2, <1>3

\* White space.
LEMMA WsSteps ==
  ASSUME NEW run, Valid("whitespace", run), ~run.done
  PROVE  Valid("whitespace", WsStep(run)) /\ Handled(run, WsStep(run))
<1> DEFINE S == StatesOf("whitespace")
           eol == run.ch \in {CR, NewLine}
<1>1. run \in RunIn(S) /\ run.ch \in Char /\ run.state \in S
  BY DEF Valid, RunIn
<1>2. S = {"Init", "Newline", "Whitespace"}
  BY DEF StatesOf
<1>3. \A code \in {TokenCodeWhitespace, TokenCodeNewLine} :
        code \in Int /\ code # TokenCodeEOF /\ code # TokenCodeNone
  BY DEF TokenCodeWhitespace, TokenCodeNewLine, TokenCodeEOF, TokenCodeNone
<1>4. run.ch = 0 => ~IsSpace(run.ch) /\ ~eol
  BY EndIsNone DEF CR, NewLine
<1>5. ASSUME NEW code \in {TokenCodeWhitespace, TokenCodeNewLine},
             WsStep(run) \in {lexer_skip(run), lexer_accept(run, code)}
      PROVE  Valid("whitespace", WsStep(run)) /\ Handled(run, WsStep(run))
  BY <1>3, <1>5, EndsWithToken, EndsWithSkip
<1>6. ASSUME run.ch # 0, WsStep(run) = lexer_push_as(run, run.ch)
      PROVE  Valid("whitespace", WsStep(run)) /\ Handled(run, WsStep(run))
  BY <1>1, <1>6, Pushed, GoesOn
<1>7. CASE run.state = "Init" /\ ~IsSpace(run.ch)
  <2>1. WsStep(run) = NoMatch(run)
    BY <1>7 DEF WsStep
  <2> QED BY <2>1, <1>7, EndsWithNone
<1>8. CASE run.state = "Init" /\ IsSpace(run.ch)
  <2>1. PICK state \in S : WsStep(run) = To(lexer_push_as(run, run.ch), state)
    BY <1>8, <1>2 DEF WsStep, lexer_push
  <2> DEFINE p == lexer_push_as(run, run.ch)
  <2>2. p \in RunIn(S) /\ p.scan_count = run.scan_count + 1 /\ p.out = run.out
        /\ p.done = run.done /\ p.skips = run.skips
    BY <1>1, Pushed
  <2> HIDE DEF p, S
  <2>3. LET r == To(p, state)
        IN r \in RunIn(S) /\ r.scan_count = run.scan_count + 1 /\ r.out = run.out
           /\ ~r.done /\ r.skips = run.skips
    BY <2>2, MovedTo
  <2>4. run.ch # 0 /\ WsStep(run) = To(p, state)
    BY <1>4, <1>8, <2>1 DEF p
  <2> QED BY <2>3, <2>4, GoesOn DEF S
<1>9. CASE run.state = "Newline"
  <2>1. CASE eol
    <3>1. WsStep(run) = lexer_push_as(run, run.ch)
      BY <1>9, <2>1 DEF WsStep, lexer_push
    <3> QED BY <3>1, <2>1, <1>4, <1>6
  <2>2. CASE ~eol
    <3>1. WsStep(run) \in {lexer_skip(run), lexer_accept(run, TokenCodeNewLine)}
      BY <1>9, <2>2 DEF WsStep
    <3> QED BY <3>1, <1>5
  <2> QED BY <2>1, <2>2
<1>10. CASE run.state = "Whitespace"
  <2> DEFINE ends == ~IsSpace(run.ch) \/ (eol /\ ~NlIsWs)
  <2>1. CASE ~ends
    <3>1. WsStep(run) = lexer_push_as(run, run.ch)
      BY <1>10, <2>1 DEF WsStep, lexer_push
    <3> QED BY <3>1, <2>1, <1>4, <1>6
  <2>2. CASE ends
    <3>1. WsStep(run) \in {lexer_skip(run), lexer_accept(run, TokenCodeWhitespace)}
      BY <1>10, <2>2 DEF WsStep
    <3> QED BY <3>1, <1>5
  <2> QED BY <2>1, <2>2
<1> QED BY <1>1, <1>2, <1>7, <1>8, <1>9, <1>10

\* Quoted strings.
LEMMA QStrSteps ==
  ASSUME NEW run, Valid("qstring", run), ~run.done
  PROVE  Valid("qstring", QStrStep(run)) /\ Handled(run, QStrStep(run))
<1> DEFINE S == StatesOf("qstring")
<1>1. /\ run \in RunIn(S) /\ run.ch \in Char /\ run.quote \in Char /\ run.state \in S
      /\ run.scan_count \in Nat
  BY DEF Valid, RunIn
<1>2. S = {"Init", "QString", "Escape"}
  BY DEF StatesOf
<1>3. ASSUME NEW c \in Char, NEW state \in S, run.ch # 0, QStrStep(run) = To(lexer_push_as(run, c), state)
      PROVE  Valid("qstring", QStrStep(run)) /\ Handled(run, QStrStep(run))
  <2> DEFINE p == lexer_push_as(run, c)
  <2>2. p \in RunIn(S) /\ p.scan_count = run.scan_count + 1 /\ p.out = run.out
        /\ p.done = run.done /\ p.skips = run.skips
    BY <1>1, Pushed
  <2>4. QStrStep(run) = To(p, state)
    BY <1>3
  <2> HIDE DEF p, S
  <2>3. LET r == To(p, state)
        IN r \in RunIn(S) /\ r.scan_count = run.scan_count + 1 /\ r.out = run.out
           /\ ~r.done /\ r.skips = run.skips
    BY <2>2, MovedTo
  <2> QED BY <2>3, <2>4, <1>3, GoesOn DEF S
<1>4. CASE run.ch = 0 /\ run.state = "Init"
  <2>1. QStrStep(run) = NoMatch(run)
    BY <1>4 DEF QStrStep
  <2> QED BY <2>1, EndsWithNone
<1>5. CASE run.ch = 0 /\ run.state # "Init"
  <2>1. QStrStep(run) = lexer_accept(run, TokenCodeError)
    BY <1>5 DEF QStrStep
  <2>2. TokenCodeError \in Int /\ TokenCodeError # TokenCodeEOF
    BY DEF TokenCodeError, TokenCodeEOF
  <2> QED BY <2>1, <2>2, EndsWithToken
<1>6. CASE run.ch # 0 /\ run.state = "Init"
  <2>1. CASE run.ch \in QuoteChars
    <3> DEFINE p == To(lexer_push_as(run, 0), "QString")
    <3>1. QStrStep(run) = [p EXCEPT !.quote = run.ch]
      BY <1>6, <2>1 DEF QStrStep, lexer_discard
    <3>2. p \in RunIn(S) /\ p.scan_count = run.scan_count + 1 /\ p.out = run.out
          /\ p.done = run.done /\ p.skips = run.skips
      <4> DEFINE q == lexer_push_as(run, 0)
      <4>1. 0 \in Char
        BY DEF Char
      <4>2. q \in RunIn(S) /\ q.scan_count = run.scan_count + 1 /\ q.out = run.out
            /\ q.done = run.done /\ q.skips = run.skips
        BY <1>1, <4>1, Pushed
      <4>3. "QString" \in S
        BY <1>2
      <4> HIDE DEF q, S
      <4> QED BY <4>2, <4>3, MovedTo DEF q
    <3> HIDE DEF p
    <3>3. LET r == [p EXCEPT !.quote = run.ch]
          IN r \in RunIn(S) /\ r.scan_count = run.scan_count + 1 /\ r.out = run.out
             /\ ~r.done /\ r.skips = run.skips
      <4> HIDE DEF S
      <4> QED BY <3>2, <1>1 DEF RunIn
    <3> QED BY <3>1, <3>3, <1>6, GoesOn
  <2>2. CASE run.ch \notin QuoteChars
    <3>1. QStrStep(run) = NoMatch(run)
      BY <1>6, <2>2 DEF QStrStep
    <3> QED BY <3>1, EndsWithNone
  <2> QED BY <2>1, <2>2
<1>7. CASE run.ch # 0 /\ run.state = "QString"
  <2>1. CASE run.ch = run.quote
    <3> DEFINE p == lexer_push_as(run, 0)
               r == lexer_accept(p, run.quote)
    <3>1. QStrStep(run) = r
      BY <1>7, <2>1 DEF QStrStep, lexer_discard
    <3>2. p \in RunIn(S) /\ p.scan_count = run.scan_count + 1 /\ p.skips = run.skips
      <4>1. 0 \in Char
        BY DEF Char
      <4> QED BY <1>1, <4>1, Pushed
    <3>3. run.quote \in Int /\ run.quote # TokenCodeEOF
      BY <1>1 DEF Char, TokenCodeEOF
    <3>4. r \in RunIn(S) /\ r.scan_count = run.scan_count + 1 /\ r.done
          /\ r.out.code = run.quote /\ r.skips = run.skips
      <4> HIDE DEF p, S
      <4> QED BY <3>2, <3>3, Accepted
    <3> HIDE DEF r
    <3>5. Valid("qstring", r) /\ Handled(run, r)
      BY <3>4, <3>3, <1>7 DEF Valid, Handled
    <3> QED BY <3>1, <3>5
  <2>2. CASE run.ch # run.quote /\ run.ch = Backslash
    <3>1. QStrStep(run) = To(lexer_push_as(run, 0), "Escape")
      BY <1>7, <2>2 DEF QStrStep, lexer_discard
    <3>2. 0 \in Char /\ "Escape" \in S
      BY <1>2 DEF Char
    <3> QED BY <3>1, <3>2, <1>3, <1>7
  <2>3. CASE run.ch # run.quote /\ run.ch # Backslash
    <3>1. QStrStep(run) = lexer_push_as(run, run.ch)
      BY <1>7, <2>3 DEF QStrStep, lexer_push
    <3> QED BY <3>1, <1>1, <1>7, Pushed, GoesOn
  <2> QED BY <2>1, <2>2, <2>3
<1>8. CASE run.ch # 0 /\ run.state = "Escape"
  <2>1. QStrStep(run) = To(lexer_push_as(run, Escaped(run.ch)), "QString")
    BY <1>8 DEF QStrStep
  <2>2. Escaped(run.ch) \in Char /\ "QString" \in S
    BY <1>1, <1>2 DEF Escaped, Char, CR, NewLine
  <2> QED BY <2>1, <2>2, <1>3, <1>8
<1> QED BY <1>1, <1>2, <1>4, <1>5, <1>6, <1>7, <1>8

\* Numbers.
LEMMA NumStates ==
  ASSUME NEW run, run.state \in StatesOf("number"), NEW c
  PROVE  NumNext(run, c) \in StatesOf("number") \cup {"Done"} /\ NumCode(run.state) \in Int \ {TokenCodeEOF}
<1> DEFINE S == {"Init", "PlusMinus", "Zero", "Number", "Period", "Float", "SciFloat",
                 "SciFloatExpSign", "SciFloatExp", "HexInteger"}
<1>1. StatesOf("number") = S
  BY DEF StatesOf
<1>2. NumCode(run.state) \in Int \ {TokenCodeEOF}
  BY <1>1 DEF NumCode, TokenCodeInteger, TokenCodeFloat, TokenCodeHexNumber, TokenCodeError,
              TokenCodeNone, TokenCodeEOF
<1>3. NumNext(run, c) \in S \cup {"Done"}
  BY <1>1 DEF NumNext
<1> QED BY <1>1, <1>2, <1>3

\* The end of the text belongs to no number.
LEMMA NumEnds ==
  ASSUME NEW run, run.state \in StatesOf("number")
  PROVE  NumNext(run, 0) = "Done"
BY EndIsNone DEF NumNext, StatesOf, Plus, Minus, Period

\* Numbers.
LEMMA NumSteps ==
  ASSUME NEW run, Valid("number", run), ~run.done
  PROVE  Valid("number", NumStep(run)) /\ Handled(run, NumStep(run))
<1> DEFINE S == StatesOf("number")
           next == NumNext(run, tolower(run.ch))
           token == IF run.state = "Zero" /\ IsDigit(tolower(run.ch))
                    THEN SubSeq(run.token, 1, Len(run.token) - 1) ELSE run.token
           cut == [run EXCEPT !.token = token]
           p == lexer_push_as(cut, run.ch)
<1>1. /\ run \in RunIn(S) /\ run.ch \in Char /\ run.state \in S /\ run.scan_count \in Nat
      /\ run.token \in Seq(Char)
  BY DEF Valid, RunIn
<1>2. NumStep(run) = IF next # "Done" THEN To(p, next)
                     ELSE IF NumCode(run.state) = TokenCodeNone THEN NoMatch(run)
                     ELSE lexer_accept(run, NumCode(run.state))
  BY DEF NumStep
<1>3. CASE next # "Done"
  <2>1. token \in Seq(Char)
    <3>1. Len(run.token) \in Nat
      BY <1>1
    <3>2. SubSeq(run.token, 1, Len(run.token) - 1) \in Seq(Char)
      BY <1>1, <3>1
    <3> QED BY <1>1, <3>2
  <2>2. /\ cut \in RunIn(S) /\ cut.scan_count = run.scan_count /\ cut.out = run.out
        /\ cut.done = run.done /\ cut.skips = run.skips
    <3> HIDE DEF token
    <3> QED BY <1>1, <2>1 DEF RunIn
  <2>3. /\ p \in RunIn(S) /\ p.scan_count = run.scan_count + 1 /\ p.out = run.out
        /\ p.done = run.done /\ p.skips = run.skips
    <3> HIDE DEF cut, S
    <3> QED BY <1>1, <2>2, Pushed
  <2>4. next \in S
    BY <1>1, <1>3, NumStates
  <2>5. run.ch # 0
    <3>1. run.ch = 0 => next = "Done"
      BY <1>1, EndIsNone, NumEnds
    <3> QED BY <3>1, <1>3
  <2>6. NumStep(run) = To(p, next)
    BY <1>2, <1>3
  <2> HIDE DEF p, next, S
  <2>7. LET r == To(p, next)
        IN r \in RunIn(S) /\ r.scan_count = run.scan_count + 1 /\ r.out = run.out
           /\ ~r.done /\ r.skips = run.skips
    BY <2>3, <2>4, MovedTo
  <2> QED BY <2>5, <2>6, <2>7, GoesOn DEF S
<1>4. CASE next = "Done" /\ NumCode(run.state) = TokenCodeNone
  <2>1. NumStep(run) = NoMatch(run)
    BY <1>2, <1>4
  <2> QED BY <2>1, EndsWithNone
<1>5. CASE next = "Done" /\ NumCode(run.state) # TokenCodeNone
  <2>1. NumStep(run) = lexer_accept(run, NumCode(run.state))
    BY <1>2, <1>5
  <2>2. NumCode(run.state) \in Int /\ NumCode(run.state) # TokenCodeEOF
    BY <1>1, NumStates
  <2> QED BY <2>1, <2>2, EndsWithToken
<1> QED BY <1>3, <1>4, <1>5

\* Printed characters are characters.
LEMMA Wide == Seq(Printed) \subseteq Seq(Char)
BY DEF Printed, Char

\* Keywords.
LEMMA KwSteps ==
  ASSUME NEW run, Valid("keyword", run), ~run.done
  PROVE  Valid("keyword", KwStep(run)) /\ Handled(run, KwStep(run))
<1> DEFINE S == StatesOf("keyword")
           cs == Append(run.token, run.ch)
           left == Candidates(cs)
           known == FullMatch(run, cs)
           state == CASE Cardinality(left) = 1 /\ known # <<>> -> "FullMatch"
                      [] Cardinality(left) > 1 /\ known # <<>> -> "FullMatchAndPrefixes"
                      [] OTHER -> "PrefixMatched"
           p == To(lexer_push_as(run, run.ch), state)
           r == [p EXCEPT !.known = known]
<1>1. /\ run \in RunIn(S) /\ run.ch \in Char /\ run.state \in S /\ run.scan_count \in Nat
      /\ run.token \in Seq(Char) /\ run.known \in Seq(Char)
  BY DEF Valid, RunIn
<1>2. CASE run.ch = 0 \/ left = {}
  <2>1. KwStep(run) = KwAccept(run) \/ KwStep(run) = NoMatch(run)
    BY <1>2 DEF KwStep
  <2>2. TokenCodeKeyword + Len(run.known) \in Int /\ TokenCodeKeyword + Len(run.known) # TokenCodeEOF
    <3>1. Len(run.known) \in Nat
      BY <1>1
    <3> QED BY <3>1 DEF TokenCodeKeyword, TokenCodeEOF
  <2>3. KwAccept(run) = lexer_accept(run, TokenCodeKeyword + Len(run.known))
    BY DEF KwAccept
  <2> QED BY <2>1, <2>2, <2>3, EndsWithNone, EndsWithToken
<1>3. CASE run.ch # 0 /\ left # {}
  <2>1. KwStep(run) = r
    BY <1>3 DEF KwStep, lexer_push
  <2>2. known \in Seq(Char)
    BY <1>1, Wide, ScannersAssumption DEF FullMatch
  <2>3. state \in S
    <3>1. state \in {"PrefixMatched", "FullMatch", "FullMatchAndPrefixes"}
      <4> HIDE DEF known, left
      <4> QED OBVIOUS
    <3> HIDE DEF state
    <3> QED BY <3>1 DEF StatesOf
  <2>4. /\ p \in RunIn(S) /\ p.scan_count = run.scan_count + 1 /\ p.out = run.out
        /\ p.done = run.done /\ p.skips = run.skips
    <3> DEFINE q == lexer_push_as(run, run.ch)
    <3>1. /\ q \in RunIn(S) /\ q.scan_count = run.scan_count + 1 /\ q.out = run.out
          /\ q.done = run.done /\ q.skips = run.skips
      BY <1>1, Pushed
    <3> HIDE DEF q, S, state
    <3> QED BY <2>3, <3>1, MovedTo DEF q
  <2> HIDE DEF p, known
  <2>5. r \in RunIn(S) /\ r.scan_count = run.scan_count + 1 /\ r.out = run.out
        /\ ~r.done /\ r.skips = run.skips
    <3> HIDE DEF S
    <3> QED BY <2>2, <2>4 DEF RunIn
  <2> HIDE DEF r
  <2> QED BY <2>1, <2>5, <1>3, GoesOn
<1> QED BY <1>2, <1>3

\* Comments.
LEMMA MarkerTypes ==
  ASSUME NEW i \in DOMAIN Markers
  PROVE  Markers[i].start \in Seq(Printed) /\ Markers[i].end \in Seq(Printed)
<1> DEFINE M == [start : Seq(Printed), end : Seq(Printed), hashpling : BOOLEAN]
<1>1. Markers \in Seq(M)
  BY ScannersAssumption
<1>2. Markers[i] \in M
  <2> HIDE DEF M
  <2>1. i \in 1 .. Len(Markers)
    BY <1>1
  <2> QED BY <1>1, <2>1
<1> QED BY <1>2

\* Comments.
LEMMA CommentSteps ==
  ASSUME NEW run, Valid("comment", run), ~run.done
  PROVE  Valid("comment", CommentStep(run)) /\ Handled(run, CommentStep(run))
<1> DEFINE S == StatesOf("comment")
           cs == Append(run.known, run.ch)
           read == lexer_push_as(run, 0)
<1>1. /\ run \in RunIn(S) /\ run.ch \in Char /\ run.state \in S /\ run.scan_count \in Nat
      /\ run.known \in Seq(Char)
  BY DEF Valid, RunIn
<1>2. S = {"Init", "Text", "EndMarker"}
  BY DEF StatesOf
<1>3. cs \in Seq(Char) /\ <<run.ch>> \in Seq(Char)
  BY <1>1
<1>4. /\ read \in RunIn(S) /\ read.scan_count = run.scan_count + 1 /\ read.state = run.state
      /\ read.out = run.out /\ read.done = run.done /\ read.skips = run.skips
      /\ lexer_discard(run) = read
  <2>1. 0 \in Char
    BY DEF Char
  <2> QED BY <1>1, <2>1, Pushed DEF lexer_discard
<1>5. ASSUME NEW known \in Seq(Char), NEW end \in Seq(Char), NEW state \in S, run.ch # 0,
             CommentStep(run) \in {read, [read EXCEPT !.known = known], To(read, state),
                                   [To(read, state) EXCEPT !.known = known],
                                   [To(read, state) EXCEPT !.known = known, !.end = end]}
      PROVE  Valid("comment", CommentStep(run)) /\ Handled(run, CommentStep(run))
  <2> DEFINE to == To(read, state)
             Fine(r) == /\ r \in RunIn(S) /\ r.scan_count = run.scan_count + 1 /\ r.out = run.out
                        /\ ~r.done /\ r.skips = run.skips
  <2> HIDE DEF read, S
  <2>1. Fine(read) /\ Fine([read EXCEPT !.known = known])
    BY <1>4 DEF RunIn
  <2>2. Fine(to)
    BY <2>1, MovedTo
  <2>3. Fine([to EXCEPT !.known = known]) /\ Fine([to EXCEPT !.known = known, !.end = end])
    <3> HIDE DEF to
    <3> QED BY <2>2 DEF RunIn
  <2>4. Fine(CommentStep(run))
    <3> HIDE DEF Fine
    <3> QED BY <1>5, <2>1, <2>2, <2>3
  <2> QED BY <2>4, <1>5, GoesOn DEF S
<1>6. TokenCodeError \in Int /\ TokenCodeError # TokenCodeEOF
  BY DEF TokenCodeError, TokenCodeEOF
<1>7. CASE run.state # "Init" /\ run.end = <<>>
  <2>1. CommentStep(run) = _comment_find_eol(run)
    BY <1>7 DEF CommentStep
  <2>2. CASE run.ch \in {0, CR, NewLine}
    <3>1. CommentStep(run) = lexer_skip(run)
      BY <2>1, <2>2 DEF _comment_find_eol
    <3> QED BY <3>1, EndsWithSkip
  <2>3. CASE run.ch \notin {0, CR, NewLine}
    <3>1. CommentStep(run) = read
      BY <2>1, <2>3, <1>4 DEF _comment_find_eol
    <3> QED BY <3>1, <2>3, <1>1, <1>3, <1>5
  <2> QED BY <2>2, <2>3
<1>8. CASE run.state # "Init" /\ run.end # <<>>
  <2> DEFINE end == run.end
  <2>1. CommentStep(run) = _comment_find_endmarker(run, run.end)
    BY <1>8 DEF CommentStep
  <2>2. CASE run.ch = 0
    <3>1. CommentStep(run) = lexer_accept(run, TokenCodeError)
      BY <2>1, <2>2 DEF _comment_find_endmarker
    <3> QED BY <3>1, <1>6, EndsWithToken
  <2>3. CASE run.ch # 0 /\ run.state = "Text"
    <3>1. CommentStep(run) \in {read, [To(read, "EndMarker") EXCEPT !.known = <<run.ch>>]}
      BY <2>1, <2>3, <1>4 DEF _comment_find_endmarker
    <3> QED BY <3>1, <2>3, <1>2, <1>3, <1>5
  <2>4. CASE run.ch # 0 /\ run.state # "Text" /\ cs = end
    <3> DEFINE r == lexer_skip(read)
    <3>1. CommentStep(run) = r
      BY <2>1, <2>4, <1>4 DEF _comment_find_endmarker
    <3>2. /\ r \in RunIn(S) /\ r.scan_count = run.scan_count + 1 /\ r.done
          /\ r.out = run.out /\ r.skips
      <4> HIDE DEF read, S
      <4> QED BY <1>4, Left
    <3> HIDE DEF r
    <3> QED BY <3>1, <3>2, <2>4 DEF Valid, Handled
  <2>5. CASE run.ch # 0 /\ run.state # "Text" /\ cs # end
    <3>1. CommentStep(run) \in {[read EXCEPT !.known = cs], To(read, "Text")}
      BY <2>1, <2>5, <1>4 DEF _comment_find_endmarker
    <3> QED BY <3>1, <2>5, <1>2, <1>3, <1>5
  <2> QED BY <2>2, <2>3, <2>4, <2>5
<1>9. CASE run.state = "Init" /\ (run.ch = 0 \/ Matching(run, cs) = {})
  <2>1. CommentStep(run) = NoMatch(run)
    BY <1>9 DEF CommentStep
  <2> QED BY <2>1, EndsWithNone
<1>10. CASE run.state = "Init" /\ run.ch # 0 /\ Matching(run, cs) # {}
  <2>1. CASE FullStart(run, cs)
    <3> DEFINE i == CHOOSE i \in Matching(run, cs) : TRUE
               end == Markers[i].end
    <3>1. CommentStep(run) = [To(read, "Text") EXCEPT !.known = <<>>, !.end = end]
      BY <1>10, <2>1, <1>4 DEF CommentStep
    <3>2. end \in Seq(Char)
      <4>1. i \in DOMAIN Markers
        BY <1>10 DEF Matching
      <4> HIDE DEF i
      <4>2. Markers[i].end \in Seq(Printed)
        BY <4>1, MarkerTypes
      <4> QED BY <4>2, Wide
    <3>3. <<>> \in Seq(Char) /\ "Text" \in S
      BY <1>2
    <3> HIDE DEF end, read, S
    <3> QED BY <3>1, <3>2, <3>3, <1>5, <1>10
  <2>2. CASE ~FullStart(run, cs)
    <3>1. CommentStep(run) = [read EXCEPT !.known = cs]
      BY <1>10, <2>2, <1>4 DEF CommentStep
    <3> QED BY <3>1, <1>1, <1>3, <1>5, <1>10
  <2> QED BY <2>1, <2>2
<1> QED BY <1>7, <1>8, <1>9, <1>10

(* Whatever scanner it is: its states, what it hands out, and the end.     *)
LEMMA Steps ==
  ASSUME NEW scanner \in ScannerNames, NEW run, Valid(scanner, run), ~run.done
  PROVE  Valid(scanner, ScanStep(scanner, run)) /\ Handled(run, ScanStep(scanner, run))
BY CommentSteps, KwSteps, WsSteps, IdSteps, NumSteps, QStrSteps DEF ScannerNames, ScanStep
-----------------------------------------------------------------------------
(* The buffer.  It is at least two characters big when there is a stream   *)
(* to fill it from, and then it grows when it has to.                      *)
Buffers == [chars : Seq(Char), tail : {<<>>}, pos : Nat, size : Nat]

Held(reader, str, left) ==
  /\ str \in Buffers /\ left \in Seq(Char)
  /\ IF reader = "string" THEN str.size >= 1 /\ left = <<>>
     ELSE str.size >= 2 /\ Len(str.chars) <= str.size

\* A size of two or more grows.
LEMMA SizeGrows ==
  ASSUME NEW n \in Nat
  PROVE  Growth(n) \in Nat /\ (n >= 2 => Growth(n) >= n + 1) /\ (n <= 1 => Growth(n) = n)
BY DEF Growth

(* The function by which a new size is computed exists.                    *)
LEMMA SizeExists ==
  ASSUME NEW t \in Nat
  PROVE  \E f : f = [n \in Nat |-> IF n >= t + 1 THEN n ELSE f[Growth(n)]]
<1> DEFINE S == [Nat -> Nat]
           a == [n \in Nat |-> n]
           step == [x \in Nat \X S |-> [n \in Nat |-> IF n >= t + 1 THEN n ELSE x[2][Growth(n)]]]
<1>1. a \in S
  OBVIOUS
<1>2. step \in [Nat \X S -> S]
  <2> SUFFICES ASSUME NEW x \in Nat \X S, NEW n \in Nat
               PROVE  (IF n >= t + 1 THEN n ELSE x[2][Growth(n)]) \in Nat
    OBVIOUS
  <2> QED BY SizeGrows
<1>3. PICK F \in [Nat -> S] : Recurs(F, a, step)
  <2> HIDE DEF S, a, step
  <2> QED BY <1>1, <1>2, RecursionExists
<1>4. F[0] = a
  BY <1>3 DEF Recurs
<1>5. \A k \in Nat : \A n \in Nat : F[k + 1][n] = IF n >= t + 1 THEN n ELSE F[k][Growth(n)]
  <2> TAKE k \in Nat
  <2>1. F[k + 1] = step[<<k, F[k]>>] /\ F[k] \in S
    BY <1>3 DEF Recurs
  <2> QED BY <2>1
<1> DEFINE A == {k \in Nat : \A n \in Nat : n >= 2 /\ n + k >= t + 1 => F[k + 1][n] = F[k][n]}
<1>6. 0 \in A
  BY <1>4, <1>5
<1>7. ASSUME NEW k \in Nat, k \in A PROVE k + 1 \in A
  <2> SUFFICES ASSUME NEW n \in Nat, n >= 2, n + (k + 1) >= t + 1
               PROVE  F[(k + 1) + 1][n] = F[k + 1][n]
    BY <1>7
  <2>1. Growth(n) \in Nat /\ Growth(n) >= n + 1
    BY SizeGrows
  <2>2. F[k + 1][Growth(n)] = F[k][Growth(n)]
    <3> DEFINE g == Growth(n)
    <3>0. g \in Nat /\ g >= n + 1
      BY <2>1
    <3> HIDE DEF g, A
    <3>1. g \in Nat /\ g >= 2 /\ g + k >= t + 1
      BY <3>0
    <3> USE DEF A
    <3>2. F[k + 1][g] = F[k][g]
      BY <1>7, <3>1
    <3> QED BY <3>2 DEF g
  <2>3. /\ F[(k + 1) + 1][n] = IF n >= t + 1 THEN n ELSE F[k + 1][Growth(n)]
        /\ F[k + 1][n] = IF n >= t + 1 THEN n ELSE F[k][Growth(n)]
    <3>1. k + 1 \in Nat
      OBVIOUS
    <3> QED BY <3>1, <1>5
  <2> QED BY <2>2, <2>3
<1>8. t + 1 \in A /\ t + 1 \in Nat
  <2>1. Nat \subseteq A
    <3> HIDE DEF A
    <3> QED BY <1>6, <1>7, SetInduction
  <2>2. t + 1 \in Nat
    OBVIOUS
  <2> HIDE DEF A
  <2> QED BY <2>1, <2>2
<1> DEFINE f == [n \in Nat |-> IF n >= t + 1 THEN n ELSE IF n <= 1 THEN 0 ELSE F[t + 1][n]]
<1>9. ASSUME NEW n \in Nat PROVE f[n] = IF n >= t + 1 THEN n ELSE f[Growth(n)]
  <2>1. CASE n >= t + 1 \/ n <= 1
    BY <2>1, SizeGrows
  <2>2. CASE n < t + 1 /\ n >= 2
    <3> DEFINE g == Growth(n)
    <3>1. g \in Nat /\ g >= 2
      BY <2>2, SizeGrows
    <3>2. F[t + 1][n] = F[(t + 1) + 1][n]
      BY <1>8, <2>2
    <3>3. F[(t + 1) + 1][n] = F[t + 1][g]
      BY <1>5, <1>8, <2>2
    <3>4. g >= t + 1 => F[t + 1][g] = g
      <4>1. F[t + 1][g] = IF g >= t + 1 THEN g ELSE F[t][Growth(g)]
        BY <3>1, <1>5
      <4> QED BY <4>1
    <3>5. f[n] = F[t + 1][n]
      BY <2>2
    <3>6. f[g] = F[t + 1][g]
      <4>1. f[g] = IF g >= t + 1 THEN g ELSE IF g <= 1 THEN 0 ELSE F[t + 1][g]
        <5> HIDE DEF g
        <5> QED BY <3>1
      <4> HIDE DEF g, f
      <4>2. CASE g >= t + 1
        BY <3>4, <4>1, <4>2
      <4>3. CASE ~(g >= t + 1)
        <5>1. ~(g <= 1)
          BY <3>1
        <5> QED BY <4>1, <4>3, <5>1
      <4> QED BY <4>2, <4>3
    <3> QED BY <3>2, <3>3, <3>5, <3>6, <2>2
  <2> QED BY <2>1, <2>2
<1>10. f = [n \in Nat |-> IF n >= t + 1 THEN n ELSE f[Growth(n)]]
  <2> HIDE DEF f
  <2>1. f = [n \in Nat |-> f[n]]
    BY DEF f
  <2> QED BY <1>9, <2>1
<1> HIDE DEF f
<1> QED BY <1>10

(* A buffer that is full gets room for one character at least.             *)
LEMMA Expanded ==
  ASSUME NEW str \in Buffers, str.size >= 2
  PROVE  /\ _str_expand(str, str.size) = [str EXCEPT !.size = Growth(str.size)]
         /\ Growth(str.size) \in Nat /\ Growth(str.size) >= str.size + 1
<1> DEFINE target == str.size
           sizeFrom[n \in Nat] == IF n >= target + 1 THEN n ELSE sizeFrom[Growth(n)]
<1>1. target \in Nat
  BY DEF Buffers
<1>2. Growth(target) \in Nat /\ Growth(target) >= target + 1
  BY <1>1, SizeGrows
<1>3. sizeFrom = [n \in Nat |-> IF n >= target + 1 THEN n ELSE sizeFrom[Growth(n)]]
  <2> HIDE DEF target
  <2> QED BY <1>1, SizeExists
<1>4. sizeFrom[Growth(target)] = Growth(target)
  <2> HIDE DEF sizeFrom, target
  <2> QED BY <1>2, <1>3
<1>5. ~Holds(str, target)
  BY <1>1 DEF Holds
<1>6. _str_expand(str, target) = [str EXCEPT !.size = sizeFrom[Growth(str.size)]]
  BY <1>5 DEF _str_expand
<1> QED BY <1>2, <1>4, <1>6

\* Min of what a read is bounded by.
LEMMA LeastOfThree ==
  ASSUME NEW a \in Nat, NEW b \in Nat, NEW c \in Nat
  PROVE  LET m == Min({a, b, c})
         IN m \in {a, b, c} /\ m <= a /\ m <= b /\ m <= c
BY DEF Min

(* What is read goes from the stream to the end of the buffer.             *)
LEMMA ReadInto ==
  ASSUME NEW str \in Buffers, NEW left \in Seq(Char), NEW num \in Nat, Len(str.chars) <= str.size
  PROVE  LET more == _str_readinto(str, left, num)
         IN /\ more.got \in Nat /\ more.str \in Buffers /\ more.left \in Seq(Char)
            /\ more.str.pos = str.pos /\ more.str.size = str.size
            /\ Len(more.str.chars) = Len(str.chars) + more.got /\ Len(more.str.chars) <= str.size
            /\ more.str.chars \o more.left = str.chars \o left
            /\ (num > 0 /\ Len(str.chars) < str.size /\ left # <<>>) => more.got > 0
            /\ left = <<>> => more.got = 0
<1> DEFINE room == str.size - Len(str.chars)
           got == Min({num, room, Len(left)})
           first == SubSeq(left, 1, got)
           rest == SubSeq(left, got + 1, Len(left))
           more == _str_readinto(str, left, num)
<1>1. str.chars \in Seq(Char) /\ Len(str.chars) \in Nat /\ room \in Nat /\ Len(left) \in Nat
      /\ str.size \in Nat
  BY DEF Buffers
<1>2. got \in {num, room, Len(left)} /\ got <= num /\ got <= room /\ got <= Len(left)
  <2> HIDE DEF room
  <2> QED BY <1>1, LeastOfThree
<1>3. got \in Nat
  BY <1>1, <1>2
<1>4. more.got = got /\ more.left = rest /\ more.str = [str EXCEPT !.chars = str.chars \o first]
  BY DEF _str_readinto
<1> HIDE DEF got, room, more
<1>5. first \in Seq(Char) /\ Len(first) = got /\ rest \in Seq(Char)
  BY <1>1, <1>2, <1>3
<1>6. first \o rest = left
  <2>1. 1 \in 1 .. Len(left) + 1 /\ got \in 1 - 1 .. Len(left) /\ Len(left) \in got .. Len(left)
    BY <1>1, <1>2, <1>3
  <2>2. first \o rest = SubSeq(left, 1, Len(left))
    BY <2>1, ConcatAdjacentSubSeq
  <2> QED BY <2>2, SubSeqFull
<1> HIDE DEF first, rest
<1>7. (str.chars \o first) \o rest = str.chars \o left
  <2> DEFINE old == str.chars
  <2>1. old \in Seq(Char)
    BY <1>1
  <2> HIDE DEF old
  <2>2. (old \o first) \o rest = old \o (first \o rest)
    BY <1>5, <2>1, ConcatAssociative
  <2> QED BY <1>6, <2>2 DEF old
<1>8. str.chars \o first \in Seq(Char) /\ Len(str.chars \o first) = Len(str.chars) + got
  BY <1>1, <1>5, ConcatProperties
<1> DEFINE chars == str.chars \o first
<1> HIDE DEF chars
<1>9. more.str \in Buffers /\ more.str.chars = chars /\ more.str.pos = str.pos
      /\ more.str.size = str.size
  BY <1>4, <1>8 DEF Buffers, chars
<1>10. Len(chars) = Len(str.chars) + got /\ Len(chars) <= str.size /\ chars \o rest = str.chars \o left
  BY <1>1, <1>2, <1>7, <1>8 DEF chars, room
<1>11. (num > 0 /\ Len(str.chars) < str.size /\ left # <<>>) => got > 0
  <2>1. left # <<>> => Len(left) > 0
    BY <1>1, EmptySeq
  <2>2. Len(str.chars) < str.size => room > 0
    BY <1>1 DEF room
  <2> QED BY <1>2, <2>1, <2>2
<1>12. left = <<>> => got = 0
  BY <1>2, <1>3
<1> QED BY <1>3, <1>4, <1>5, <1>9, <1>10, <1>11, <1>12 DEF more

(* From a stream that is not at its end at least one character comes.      *)
LEMMA Replenished ==
  ASSUME NEW str \in Buffers, NEW left \in Seq(Char), str.size >= 2, Len(str.chars) <= str.size
  PROVE  LET more == str_replenish(str, left)
         IN /\ more.got \in Nat /\ more.str \in Buffers /\ more.left \in Seq(Char)
            /\ more.str.size >= 2 /\ Len(more.str.chars) <= more.str.size
            /\ more.str.pos = IF str.pos > Len(str.chars) THEN Len(str.chars) ELSE str.pos
            /\ Len(more.str.chars) = Len(str.chars) + more.got
            /\ more.str.chars \o more.left = str.chars \o left
            /\ more.got = 0 <=> left = <<>>
<1> DEFINE pos == IF str.pos > Len(str.chars) THEN Len(str.chars) ELSE str.pos
           at == [str EXCEPT !.pos = pos]
           more == str_replenish(str, left)
           size == Growth(str.size)
           bigger == [at EXCEPT !.size = size]
<1>1. /\ str.chars \in Seq(Char) /\ Len(str.chars) \in Nat /\ pos \in Nat /\ str.size \in Nat
  BY DEF Buffers
<1>2. at \in Buffers /\ at.pos = pos /\ at.size = str.size /\ at.chars = str.chars
  <2> HIDE DEF pos
  <2> QED BY <1>1 DEF Buffers
<1> HIDE DEF pos
<1>3. ASSUME NEW b \in Buffers, NEW num \in Nat, b.chars = str.chars, b.pos = pos, b.size >= 2,
             Len(str.chars) < b.size, num > 0, more = _str_readinto(b, left, num)
      PROVE  /\ more.got \in Nat /\ more.str \in Buffers /\ more.left \in Seq(Char)
             /\ more.str.size >= 2 /\ Len(more.str.chars) <= more.str.size
             /\ more.str.pos = pos
             /\ Len(more.str.chars) = Len(str.chars) + more.got
             /\ more.str.chars \o more.left = str.chars \o left
             /\ (more.got = 0 <=> left = <<>>)
  <2> DEFINE r == _str_readinto(b, left, num)
  <2>1. b.size \in Nat /\ Len(b.chars) <= b.size
    BY <1>1, <1>3 DEF Buffers
  <2>2. /\ r.got \in Nat /\ r.str \in Buffers /\ r.left \in Seq(Char)
        /\ r.str.pos = b.pos /\ r.str.size = b.size
        /\ Len(r.str.chars) = Len(b.chars) + r.got /\ Len(r.str.chars) <= b.size
        /\ r.str.chars \o r.left = b.chars \o left
        /\ (num > 0 /\ Len(b.chars) < b.size /\ left # <<>>) => r.got > 0
        /\ left = <<>> => r.got = 0
    BY <2>1, ReadInto
  <2>3. more = r
    BY <1>3
  <2> HIDE DEF r, more
  <2>4. r.got = 0 <=> left = <<>>
    BY <1>3, <2>2
  <2>5. b.chars = str.chars /\ b.pos = pos /\ b.size >= 2
    BY <1>3
  <2> QED BY <2>1, <2>2, <2>3, <2>4, <2>5
<1>4. CASE Len(str.chars) < str.size
  <2> DEFINE num == at.size - Len(at.chars)
  <2>1. more = _str_readinto(at, left, num)
    BY <1>2, <1>4 DEF str_replenish, str_fillup, pos
  <2>2. num \in Nat /\ num > 0
    BY <1>1, <1>2, <1>4
  <2> HIDE DEF more, at, num
  <2> QED BY <1>2, <1>3, <1>4, <2>1, <2>2 DEF more, pos
<1>5. CASE ~(Len(str.chars) < str.size)
  <2>1. _str_expand(at, at.size) = [at EXCEPT !.size = Growth(at.size)]
        /\ Growth(at.size) \in Nat /\ Growth(at.size) >= at.size + 1
    <3> HIDE DEF at
    <3> QED BY <1>2, Expanded
  <2>2. more = _str_readinto(bigger, left, Len(at.chars))
    BY <1>2, <1>5, <2>1 DEF str_replenish, pos
  <2>3. bigger \in Buffers /\ bigger.pos = pos /\ bigger.size = size /\ bigger.chars = str.chars
    <3> HIDE DEF at, size
    <3> QED BY <1>2, <2>1 DEF Buffers, size
  <2>4. Len(at.chars) \in Nat /\ Len(at.chars) > 0 /\ Len(str.chars) < size /\ size >= 2
    BY <1>1, <1>2, <1>5, <2>1
  <2> HIDE DEF more, bigger, at, size
  <2> QED BY <1>3, <2>2, <2>3, <2>4 DEF more, pos
<1> QED BY <1>4, <1>5

\* The characters of a text that comes in two parts.
LEMMA Parts ==
  ASSUME NEW a \in Seq(Char), NEW b \in Seq(Char)
  PROVE  /\ a \o b \in Seq(Char) /\ Len(a \o b) = Len(a) + Len(b)
         /\ \A i \in 1 .. Len(a) : (a \o b)[i] = a[i]
         /\ b = <<>> => a \o b = a
<1>1. /\ a \o b \in Seq(Char) /\ Len(a \o b) = Len(a) + Len(b)
      /\ \A i \in 1 .. Len(a) + Len(b) : (a \o b)[i] = IF i <= Len(a) THEN a[i] ELSE b[i - Len(a)]
  BY ConcatProperties
<1>2. ASSUME NEW i \in 1 .. Len(a) PROVE (a \o b)[i] = a[i]
  <2>1. Len(a) \in Nat /\ Len(b) \in Nat
    OBVIOUS
  <2>2. i \in 1 .. Len(a) + Len(b) /\ i <= Len(a)
    BY <2>1
  <2> QED BY <1>1, <2>2
<1>3. b = <<>> => a \o b = a
  BY ConcatEmptySeq
<1> QED BY <1>1, <1>2, <1>3

Plain(text) == \A i \in 1 .. Len(text) : text[i] > 0

(* A character is read: nothing of the text is lost, and when all of it is *)
(* ASCII it is the next one, wherever the chunks end.                      *)
Hands(reader, str, text, got) ==
  /\ Held(reader, got.str, got.left) /\ got.str.chars \o got.left = text
  /\ got.ch \in Char /\ Len(str.chars) <= Len(got.str.chars)
  /\ got.ch # 0 => got.str.pos \in str.pos + 1 .. Len(got.str.chars)
  /\ Plain(text) => /\ got.ch = IF str.pos < Len(text) THEN text[str.pos + 1] ELSE 0
                    /\ got.ch # 0 => got.str.pos = str.pos + 1

Ready(reader, str, left, text) ==
  Held(reader, str, left) /\ str.pos <= Len(str.chars) /\ str.chars \o left = text

\* The character that is handed out.
LEMMA CharRead ==
  ASSUME NEW reader \in {"stream", "string"}, NEW str, NEW left, NEW t, Ready(reader, str, left, t)
  PROVE  Hands(reader, str, t, lexer_get_char(reader, str, left))
<1> DEFINE got == lexer_get_char(reader, str, left)
           text == str.chars \o left
           chars == str.chars
           pos == str.pos
           c == str_peek(str)
           next == Advance(str)
           more == str_replenish(next, left)
<1>a. Held(reader, str, left) /\ pos <= Len(chars) /\ t = text
  BY DEF Ready
<1>1. str \in Buffers /\ left \in Seq(Char) /\ chars \in Seq(Char) /\ pos \in Nat /\ Len(chars) \in Nat
      /\ str.size \in Nat /\ pos <= Len(chars)
  BY <1>a DEF Held, Buffers
<1>2. next \in Buffers /\ next.pos = pos + 1 /\ next.chars = chars /\ next.size = str.size
  <2> DEFINE n == pos + 1
  <2>1. n \in Nat
    BY <1>1
  <2>2. next = [str EXCEPT !.pos = n]
    BY DEF Advance
  <2> HIDE DEF n, next
  <2> QED BY <1>1, <2>1, <2>2 DEF Buffers, n
<1>3. Held(reader, next, left)
  BY <1>2, <1>a DEF Held
<1>4. /\ text \in Seq(Char) /\ Len(text) = Len(chars) + Len(left)
      /\ \A i \in 1 .. Len(chars) : text[i] = chars[i]
      /\ left = <<>> => text = chars
  <2> HIDE DEF chars
  <2> QED BY <1>1, Parts DEF chars
<1>5. c \in Char /\ (pos < Len(chars) => c = chars[pos + 1] /\ c = text[pos + 1])
      /\ (c # 0 => pos < Len(chars)) /\ (~(pos < Len(chars)) => c = 0)
  <2>1. CASE pos < Len(chars)
    <3>1. pos + 1 \in 1 .. Len(chars)
      BY <1>1, <2>1
    <3>2. c = chars[pos + 1]
      BY <2>1 DEF str_peek
    <3>3. chars[pos + 1] \in Char
      BY <1>1, <3>1
    <3> HIDE DEF chars, c, text
    <3> QED BY <2>1, <3>1, <3>2, <3>3, <1>4
  <2>2. CASE ~(pos < Len(chars))
    <3>1. c = 0
      BY <2>2 DEF str_peek
    <3>2. 0 \in Char
      BY DEF Char
    <3> QED BY <2>2, <3>1, <3>2
  <2> QED BY <2>1, <2>2
<1>6. Len(left) \in Nat /\ Len(text) \in Nat /\ Len(text) >= Len(chars)
  BY <1>1, <1>4
<1>7. CASE c > 0 \/ reader = "string"
  <2>1. got = [ch |-> c, str |-> next, left |-> left]
    BY <1>7 DEF lexer_get_char
  <2>2. got.ch = c /\ got.str = next /\ got.left = left
    BY <2>1
  <2> HIDE DEF got, next, c, text, chars, pos
  <2>3. got.ch # 0 => got.str.pos = pos + 1 /\ pos + 1 \in pos + 1 .. Len(got.str.chars)
    BY <1>1, <1>2, <1>5, <2>2
  <2>4. Plain(text) => got.ch = IF pos < Len(text) THEN text[pos + 1] ELSE 0
    <3>1. CASE pos < Len(chars)
      BY <3>1, <1>1, <1>5, <1>6, <2>2
    <3>2. CASE ~(pos < Len(chars))
      <4>1. c = 0
        BY <1>5, <3>2
      <4>2. reader = "string"
        BY <1>7, <4>1
      <4>3. left = <<>>
        BY <4>2, <1>a DEF Held
      <4> QED BY <3>2, <4>1, <4>3, <1>4, <2>2
    <3> QED BY <3>1, <3>2
  <2>5. Len(chars) <= Len(got.str.chars) /\ got.str.chars \o got.left = text
    <3>1. got.str.chars = chars
      BY <1>2, <2>2
    <3>2. got.str.chars \o got.left = text
      BY <2>2, <3>1 DEF text, chars
    <3>3. Len(chars) <= Len(got.str.chars)
      BY <1>1, <3>1
    <3> QED BY <3>2, <3>3
  <2> QED BY <1>3, <1>5, <1>a, <2>2, <2>3, <2>4, <2>5 DEF Hands, got, chars, pos
<1>8. CASE ~(c > 0 \/ reader = "string")
  <2>1. got = IF more.got = 0 THEN [ch |-> 0, str |-> more.str, left |-> more.left]
              ELSE [ch |-> str_peek(more.str), str |-> Advance(more.str), left |-> more.left]
    BY <1>8 DEF lexer_get_char
  <2>2. reader = "stream" /\ str.size >= 2 /\ Len(chars) <= str.size
    BY <1>8, <1>a DEF Held
  <2>3. /\ more.got \in Nat /\ more.str \in Buffers /\ more.left \in Seq(Char)
        /\ more.str.size >= 2 /\ Len(more.str.chars) <= more.str.size
        /\ more.str.pos = IF next.pos > Len(next.chars) THEN Len(next.chars) ELSE next.pos
        /\ Len(more.str.chars) = Len(next.chars) + more.got
        /\ more.str.chars \o more.left = next.chars \o left
        /\ (more.got = 0 <=> left = <<>>)
    <3> HIDE DEF next
    <3> QED BY <1>1, <1>2, <2>2, Replenished
  <2> HIDE DEF more, next
  <2>4. more.str.chars \o more.left = text /\ Len(more.str.chars) = Len(chars) + more.got
        /\ more.str.pos = IF pos + 1 > Len(chars) THEN Len(chars) ELSE pos + 1
    BY <1>2, <2>3
  <2>5. Plain(text) => pos = Len(chars)
    <3>1. CASE pos < Len(chars)
      <4>1. pos + 1 \in 1 .. Len(text) /\ ~(text[pos + 1] > 0)
        <5> HIDE DEF c, text, chars, pos
        <5> QED BY <3>1, <1>1, <1>5, <1>6, <1>8
      <4> QED BY <4>1 DEF Plain
    <3> QED BY <3>1, <1>1
  <2>6. CASE more.got = 0
    <3>1. got.ch = 0 /\ got.str = more.str /\ got.left = more.left
      BY <2>1, <2>6
    <3>2. 0 \in Char
      BY DEF Char
    <3>3. Held(reader, more.str, more.left)
      BY <2>2, <2>3 DEF Held
    <3> HIDE DEF got, c, text, chars, pos
    <3>4. Plain(text) => ~(pos < Len(text))
      BY <1>1, <1>4, <2>3, <2>5, <2>6
    <3>5. Len(chars) <= Len(got.str.chars)
      BY <1>1, <2>4, <2>6, <3>1
    <3>6. got.str.chars \o got.left = text
      BY <2>4, <3>1
    <3>7. Held(reader, got.str, got.left) /\ got.ch \in Char
      BY <3>1, <3>2, <3>3
    <3> QED BY <3>1, <3>4, <3>5, <3>6, <3>7, <1>a DEF Hands, got, chars, pos
  <2>7. CASE more.got # 0
    <3> DEFINE m == more.str.pos
               p == Advance(more.str)
    <3>1. got.ch = str_peek(more.str) /\ got.str = p /\ got.left = more.left
      BY <2>1, <2>7
    <3>2. /\ m \in Nat /\ m < Len(more.str.chars) /\ m + 1 \in pos + 1 .. Len(more.str.chars)
          /\ m + 1 \in 1 .. Len(more.str.chars)
      <4> DEFINE n == Len(more.str.chars)
                 l == Len(chars)
      <4>1. /\ l \in Nat /\ pos \in Nat /\ pos <= l /\ n = l + more.got
            /\ more.got \in Nat /\ more.got # 0
            /\ m = IF pos + 1 > l THEN l ELSE pos + 1
        BY <1>1, <2>3, <2>4, <2>7
      <4> HIDE DEF n, l, m, pos
      <4>2. m \in Nat /\ m < n /\ m >= pos /\ n \in Nat
        BY <4>1
      <4>3. m + 1 \in pos + 1 .. n /\ m + 1 \in 1 .. n
        BY <4>1, <4>2
      <4> QED BY <4>2, <4>3 DEF n
    <3>3. p \in Buffers /\ p.pos = m + 1 /\ p.chars = more.str.chars /\ p.size = more.str.size
      <4> DEFINE n == m + 1
      <4>1. n \in Nat
        BY <3>2
      <4>2. p = [more.str EXCEPT !.pos = n]
        BY DEF Advance
      <4> HIDE DEF n, p
      <4> QED BY <2>3, <4>1, <4>2 DEF Buffers, n
    <3>4. Held(reader, p, more.left)
      BY <2>2, <2>3, <3>3 DEF Held
    <3>5. got.ch = more.str.chars[m + 1]
      BY <3>1, <3>2 DEF str_peek
    <3>6. more.str.chars \in Seq(Char)
      BY <2>3 DEF Buffers
    <3>7. got.ch \in Char
      <4> HIDE DEF m, got
      <4> QED BY <3>2, <3>5, <3>6
    <3>8. Plain(text) => m = pos /\ pos < Len(text) /\ got.ch = text[pos + 1]
      <4>1. /\ \A i \in 1 .. Len(more.str.chars) : text[i] = more.str.chars[i]
            /\ Len(more.str.chars) <= Len(text)
        <5> DEFINE d == more.str.chars
        <5>1. Len(d) \in Nat /\ Len(more.left) \in Nat
          BY <2>3, <3>6
        <5>2. d \o more.left = text /\ d \in Seq(Char)
          BY <2>4, <3>6
        <5> HIDE DEF d, text
        <5>3. Len(text) = Len(d) + Len(more.left) /\ \A i \in 1 .. Len(d) : text[i] = d[i]
          BY <2>3, <5>2, Parts
        <5>4. Len(d) <= Len(text)
          BY <5>1, <5>3
        <5>5. \A i \in 1 .. Len(d) : text[i] = d[i]
          BY <5>3
        <5> QED BY <5>4, <5>5 DEF d
      <4>2. Plain(text) => m = pos
        BY <1>1, <2>4, <2>5
      <4> HIDE DEF m, got, text, chars, pos
      <4> QED BY <1>1, <1>6, <3>2, <3>5, <3>6, <4>1, <4>2
    <3> HIDE DEF got, c, text, chars, pos, p, m
    <3>9. Len(chars) <= Len(got.str.chars) /\ got.str.chars \o got.left = text
      <4>1. got.str.chars = more.str.chars
        BY <3>1, <3>3
      <4>2. got.str.chars \o got.left = text
        BY <2>4, <3>1, <4>1
      <4>3. Len(chars) <= Len(got.str.chars)
        BY <1>1, <2>3, <2>4, <4>1
      <4> QED BY <4>2, <4>3
    <3>10. got.str.pos = m + 1 /\ got.str.pos \in pos + 1 .. Len(got.str.chars)
      BY <3>1, <3>2, <3>3
    <3> QED BY <3>1, <3>4, <3>7, <3>8, <3>9, <3>10, <1>a DEF Hands, got, chars, pos
  <2> QED BY <2>6, <2>7
<1> QED BY <1>7, <1>8
-----------------------------------------------------------------------------
(* A scanner at work on a text: what it has counted has been read, and as  *)
(* long as it is not done it stands in the characters.                     *)
AtWork(scanner, reader, text) ==
  {at \in [run : RunIn(StatesOf(scanner)), str : Buffers, left : Seq(Char)] :
     /\ Held(reader, at.str, at.left) /\ at.str.chars \o at.left = text
     /\ Valid(scanner, at.run)
     /\ at.run.scan_count <= Len(at.str.chars)
     /\ ~at.run.done => at.run.scan_count <= at.str.pos /\ at.str.pos <= Len(at.str.chars)}

(* It has read i characters, or it is done.                                *)
Placed(text, i, at) ==
  ~at.run.done => at.str.pos >= i /\ (Plain(text) => at.str.pos = i)

\* The character a scanner is handed.
LEMMA HandedTo ==
  ASSUME NEW scanner, NEW run, Valid(scanner, run), NEW c \in Char
  PROVE  LET r == [run EXCEPT !.ch = c]
         IN /\ Valid(scanner, r) /\ r.ch = c /\ r.scan_count = run.scan_count /\ r.done = run.done
            /\ r.state = run.state /\ r.top = run.top /\ r.token = run.token /\ r.known = run.known
            /\ r.out = run.out /\ r.skips = run.skips
<1> DEFINE r == [run EXCEPT !.ch = c]
<1>1. run \in RunIn(StatesOf(scanner))
  BY DEF Valid
<1>2. /\ r \in RunIn(StatesOf(scanner)) /\ r.ch = c /\ r.scan_count = run.scan_count
      /\ r.done = run.done
      /\ r.state = run.state /\ r.top = run.top /\ r.token = run.token /\ r.known = run.known
      /\ r.out = run.out /\ r.skips = run.skips
  BY <1>1 DEF RunIn
<1> HIDE DEF r
<1>3. Valid(scanner, r)
  BY <1>2 DEF Valid
<1> QED BY <1>2, <1>3 DEF r

(* A scanner stays at work, one character further on.                      *)
LEMMA WorksOn ==
  ASSUME NEW scanner \in ScannerNames, NEW reader \in {"stream", "string"}, NEW text,
         NEW at \in AtWork(scanner, reader, text)
  PROVE  LET next == ReadOn(scanner, reader, at)
         IN /\ next \in AtWork(scanner, reader, text)
            /\ \A i \in Nat : Placed(text, i, at) => Placed(text, i + 1, next)
            /\ at.run.done => next = at
            /\ Len(at.str.chars) \in Nat /\ Len(at.str.chars) <= Len(next.str.chars)
<1> DEFINE next == ReadOn(scanner, reader, at)
           got == lexer_get_char(reader, at.str, at.left)
           run == [at.run EXCEPT !.ch = got.ch]
           r == ScanStep(scanner, run)
<1>1. CASE at.run.done
  <2>1. next = at
    BY <1>1 DEF ReadOn
  <2>2. Len(at.str.chars) \in Nat
    BY DEF AtWork, Buffers
  <2> HIDE DEF next
  <2>3. Len(at.str.chars) <= Len(next.str.chars)
    BY <2>1, <2>2
  <2> QED BY <1>1, <2>1, <2>2, <2>3 DEF Placed, next
<1>2. CASE ~at.run.done
  <2>1. next = [run |-> r, str |-> got.str, left |-> got.left]
    BY <1>2 DEF ReadOn
  <2>2. /\ Held(reader, at.str, at.left) /\ at.str.chars \o at.left = text /\ Valid(scanner, at.run)
        /\ at.run.scan_count <= at.str.pos /\ at.str.pos <= Len(at.str.chars)
        /\ at.str \in Buffers /\ Ready(reader, at.str, at.left, text)
    BY <1>2 DEF AtWork, Ready
  <2>3. /\ Held(reader, got.str, got.left) /\ got.str.chars \o got.left = text
        /\ got.ch \in Char /\ Len(at.str.chars) <= Len(got.str.chars)
        /\ got.ch # 0 => got.str.pos \in at.str.pos + 1 .. Len(got.str.chars)
        /\ (Plain(text) /\ got.ch # 0) => got.str.pos = at.str.pos + 1
    <3>1. Hands(reader, at.str, text, got)
      BY <2>2, CharRead
    <3> HIDE DEF got
    <3> QED BY <3>1 DEF Hands
  <2> HIDE DEF got
  <2>4. Valid(scanner, run) /\ ~run.done /\ run.ch = got.ch /\ run.scan_count = at.run.scan_count
    BY <1>2, <2>2, <2>3, HandedTo
  <2> HIDE DEF run
  <2>5. Valid(scanner, r) /\ Handled(run, r)
    BY <2>4, Steps
  <2>6. /\ at.str.pos \in Nat /\ Len(at.str.chars) \in Nat /\ Len(got.str.chars) \in Nat
        /\ got.str.pos \in Nat /\ at.run.scan_count \in Nat /\ r.scan_count \in Nat
    <3>1. at.str.pos \in Nat /\ Len(at.str.chars) \in Nat
      BY <2>2 DEF Held, Buffers
    <3>2. got.str.pos \in Nat /\ Len(got.str.chars) \in Nat
      BY <2>3 DEF Held, Buffers
    <3>3. at.run.scan_count \in Nat
      BY <2>2 DEF Valid, RunIn
    <3>4. r.scan_count \in Nat
      <4> HIDE DEF r
      <4> QED BY <2>5 DEF Valid, RunIn
    <3> QED BY <3>1, <3>2, <3>3, <3>4
  <2> HIDE DEF r
  <2>7. next.run = r /\ next.str = got.str /\ next.left = got.left
        /\ next \in [run : RunIn(StatesOf(scanner)), str : Buffers, left : Seq(Char)]
    BY <2>1, <2>3, <2>5 DEF Held, Valid
  <2>8. r.scan_count <= Len(got.str.chars)
        /\ (~r.done => r.scan_count <= got.str.pos /\ got.str.pos <= Len(got.str.chars))
    <3>1. CASE got.ch = 0
      <4>1. r.done /\ r.scan_count = at.run.scan_count
        BY <2>4, <2>5, <3>1 DEF Handled
      <4> QED BY <2>2, <2>3, <2>6, <4>1
    <3>2. CASE got.ch # 0
      <4>1. r.scan_count <= at.run.scan_count + 1
        BY <2>4, <2>5, <2>6 DEF Handled
      <4> QED BY <2>2, <2>3, <2>6, <3>2, <4>1
    <3> QED BY <3>1, <3>2
  <2> HIDE DEF next
  <2>9. next \in AtWork(scanner, reader, text)
    BY <2>3, <2>5, <2>7, <2>8 DEF AtWork
  <2>10. ASSUME NEW i \in Nat, Placed(text, i, at), ~next.run.done
         PROVE  next.str.pos >= i + 1 /\ (Plain(text) => next.str.pos = i + 1)
    <3>1. got.ch # 0
      BY <2>4, <2>5, <2>7, <2>10 DEF Handled
    <3>2. at.str.pos >= i /\ (Plain(text) => at.str.pos = i)
      BY <1>2, <2>10 DEF Placed
    <3> QED BY <2>3, <2>6, <2>7, <3>1, <3>2
  <2>11. \A i \in Nat : Placed(text, i, at) => Placed(text, i + 1, next)
    BY <2>10 DEF Placed
  <2>12. Len(at.str.chars) <= Len(next.str.chars)
    BY <2>3, <2>7
  <2> QED BY <1>2, <2>6, <2>9, <2>11, <2>12 DEF next
<1> QED BY <1>1, <1>2

(* Whatever the text is read from, scanners that have come as far do the   *)
(* same with it.                                                           *)
LEMMA WorkAlike ==
  ASSUME NEW scanner \in ScannerNames, NEW text, Plain(text), NEW i \in Nat,
         NEW one \in {"stream", "string"}, NEW a \in AtWork(scanner, one, text), Placed(text, i, a),
         NEW other \in {"stream", "string"}, NEW b \in AtWork(scanner, other, text), Placed(text, i, b),
         a.run = b.run
  PROVE  ReadOn(scanner, one, a).run = ReadOn(scanner, other, b).run
<1> DEFINE c == lexer_get_char(one, a.str, a.left)
           d == lexer_get_char(other, b.str, b.left)
<1>1. CASE a.run.done
  BY <1>1 DEF ReadOn
<1>2. CASE ~a.run.done
  <2>1. Ready(one, a.str, a.left, text) /\ a.str.pos = i
    BY <1>2 DEF AtWork, Placed, Ready
  <2>2. Ready(other, b.str, b.left, text) /\ b.str.pos = i
    BY <1>2 DEF AtWork, Placed, Ready
  <2>3. c.ch = IF i < Len(text) THEN text[i + 1] ELSE 0
    <3>1. Hands(one, a.str, text, c)
      BY <2>1, CharRead
    <3> HIDE DEF c
    <3> QED BY <2>1, <3>1 DEF Hands
  <2>4. d.ch = IF i < Len(text) THEN text[i + 1] ELSE 0
    <3>1. Hands(other, b.str, text, d)
      BY <2>2, CharRead
    <3> HIDE DEF d
    <3> QED BY <2>2, <3>1 DEF Hands
  <2>5. ReadOn(scanner, one, a).run = ScanStep(scanner, [a.run EXCEPT !.ch = c.ch])
    BY <1>2 DEF ReadOn
  <2>6. ReadOn(scanner, other, b).run = ScanStep(scanner, [b.run EXCEPT !.ch = d.ch])
    BY <1>2 DEF ReadOn
  <2> QED BY <2>3, <2>4, <2>5, <2>6
<1> QED BY <1>1, <1>2

(* What a scanner reads one character after the other.                     *)
ReadsOn(scanner, reader, at, f) ==
  f[0] = at /\ \A n \in Nat : f[n + 1] = ReadOn(scanner, reader, f[n])

(* A match is what has become of it after all characters and two ends.     *)
LEMMA MatchUnfolds ==
  ASSUME NEW scanner \in ScannerNames, NEW reader \in {"stream", "string"}, NEW text,
         NEW at \in AtWork(scanner, reader, text)
  PROVE  /\ Len(text) + 2 \in Nat
         /\ \E f \in [Nat -> AtWork(scanner, reader, text)] :
              /\ ReadsOn(scanner, reader, at, f)
              /\ match(scanner, reader, at) = f[Len(text) + 2]
<1> DEFINE S == AtWork(scanner, reader, text)
           step == [x \in Nat \X S |-> ReadOn(scanner, reader, x[2])]
           n == Len(at.str.chars) + Len(at.left) + 2
           after[i \in 0 .. n] == IF i = 0 THEN at ELSE ReadOn(scanner, reader, after[i - 1])
<1>1. step \in [Nat \X S -> S]
  BY WorksOn
<1>2. PICK f \in [Nat -> S] : Recurs(f, at, step)
  <2> HIDE DEF S, step
  <2> QED BY <1>1, RecursionExists DEF S
<1>3. ReadsOn(scanner, reader, at, f)
  BY <1>2 DEF Recurs, ReadsOn
<1>4. n \in Nat /\ n = Len(text) + 2
  <2> DEFINE a == at.str.chars
             b == at.left
  <2>1. a \in Seq(Char) /\ b \in Seq(Char) /\ text = a \o b
    BY DEF AtWork, Buffers
  <2>2. n = Len(a) + Len(b) + 2
    OBVIOUS
  <2> HIDE DEF a, b, n
  <2>3. Len(a \o b) = Len(a) + Len(b) /\ Len(a) \in Nat /\ Len(b) \in Nat
    BY <2>1, Parts
  <2> QED BY <2>1, <2>2, <2>3
<1> HIDE DEF n
<1>5. after = [i \in 0 .. n |-> IF i = 0 THEN at ELSE ReadOn(scanner, reader, after[i - 1])]
  <2> DEFINE g == [i \in 0 .. n |-> f[i]]
  <2>1. ASSUME NEW i \in 0 .. n
        PROVE  g[i] = IF i = 0 THEN at ELSE ReadOn(scanner, reader, g[i - 1])
    <3>1. CASE i = 0
      BY <3>1, <1>3 DEF ReadsOn
    <3>2. CASE i # 0
      <4>1. i - 1 \in Nat /\ (i - 1) + 1 = i /\ i - 1 \in 0 .. n
        BY <3>2, <1>4
      <4>2. f[i] = ReadOn(scanner, reader, f[i - 1])
        <5>1. f[(i - 1) + 1] = ReadOn(scanner, reader, f[i - 1])
          BY <4>1, <1>3 DEF ReadsOn
        <5> QED BY <4>1, <5>1
      <4> QED BY <3>2, <4>1, <4>2
    <3> QED BY <3>1, <3>2
  <2>2. g = [i \in 0 .. n |-> IF i = 0 THEN at ELSE ReadOn(scanner, reader, g[i - 1])]
    BY <2>1
  <2> HIDE DEF g
  <2> QED BY <2>2
<1>6. match(scanner, reader, at) = after[n]
  BY DEF match, n
<1> DEFINE A == {i \in Nat : i <= n => after[i] = f[i]}
<1> HIDE DEF after
<1>7. 0 \in A
  BY <1>3, <1>4, <1>5 DEF ReadsOn
<1>8. ASSUME NEW i \in Nat, i \in A PROVE i + 1 \in A
  <2> SUFFICES ASSUME i + 1 <= n PROVE after[i + 1] = f[i + 1]
    OBVIOUS
  <2>1. i <= n /\ i + 1 \in 0 .. n /\ i + 1 # 0 /\ (i + 1) - 1 = i
    BY <1>4
  <2>2. after[i + 1] = ReadOn(scanner, reader, after[i])
    BY <2>1, <1>5
  <2>3. after[i] = f[i]
    BY <1>8, <2>1
  <2> QED BY <2>2, <2>3, <1>3 DEF ReadsOn
<1>9. n \in A
  <2> HIDE DEF A
  <2> QED BY <1>4, <1>7, <1>8, SetInduction
<1>10. match(scanner, reader, at) = f[n]
  BY <1>4, <1>6, <1>9
<1> QED BY <1>3, <1>4, <1>10

(* A match is done, and what is done after the first character is it.      *)
LEMMA Matched ==
  ASSUME NEW scanner \in ScannerNames, NEW reader \in {"stream", "string"}, NEW text,
         NEW at \in AtWork(scanner, reader, text), Placed(text, 0, at)
  PROVE  LET read == match(scanner, reader, at)
         IN /\ read \in AtWork(scanner, reader, text) /\ read.run.done
            /\ ReadOn(scanner, reader, at).run.done => read = ReadOn(scanner, reader, at)
            /\ Len(at.str.chars) <= Len(read.str.chars)
<1> DEFINE S == AtWork(scanner, reader, text)
           last == Len(text) + 2
<1>1. PICK f \in [Nat -> S] : ReadsOn(scanner, reader, at, f) /\ match(scanner, reader, at) = f[last]
  BY MatchUnfolds
<1>2. last \in Nat
  BY MatchUnfolds
<1>3. \A n \in Nat : f[n] \in S /\ f[n + 1] = ReadOn(scanner, reader, f[n])
  BY <1>1 DEF ReadsOn
<1> DEFINE A == {n \in Nat : Placed(text, n, f[n])}
<1>4. A = Nat
  <2>1. 0 \in A
    BY <1>1 DEF ReadsOn
  <2>2. ASSUME NEW n \in Nat, n \in A PROVE n + 1 \in A
    <3>1. Placed(text, n, f[n]) /\ f[n] \in S /\ n + 1 \in Nat
      BY <1>3, <2>2
    <3>2. Placed(text, n + 1, ReadOn(scanner, reader, f[n]))
      BY <3>1, WorksOn
    <3> QED BY <3>1, <3>2, <1>3
  <2>3. Nat \subseteq A
    <3> HIDE DEF A
    <3> QED BY <2>1, <2>2, SetInduction
  <2> QED BY <2>3
<1>5. f[last].run.done
  <2> SUFFICES ASSUME ~f[last].run.done PROVE FALSE
    OBVIOUS
  <2>1. Placed(text, last, f[last]) /\ f[last] \in S
    BY <1>2, <1>3, <1>4
  <2> DEFINE x == f[last]
  <2> DEFINE c == x.str.chars
             left == x.left
             pos == x.str.pos
  <2>2. pos >= last /\ pos <= Len(c) /\ c \in Seq(Char) /\ left \in Seq(Char) /\ pos \in Nat
    <3> HIDE DEF last
    <3> QED BY <2>1 DEF Placed, AtWork, Buffers
  <2>3. c \o left = text
    BY <2>1 DEF AtWork
  <2> HIDE DEF x, c, left, pos
  <2>4. Len(c \o left) = Len(c) + Len(left) /\ Len(c) \in Nat /\ Len(left) \in Nat
    BY <2>2, Parts
  <2> QED BY <2>2, <2>3, <2>4
<1>6. ReadOn(scanner, reader, at).run.done => f[last] = ReadOn(scanner, reader, at)
  <2> SUFFICES ASSUME ReadOn(scanner, reader, at).run.done PROVE f[last] = ReadOn(scanner, reader, at)
    OBVIOUS
  <2> DEFINE B == {n \in Nat : f[n + 1] = ReadOn(scanner, reader, at)}
  <2>1. 0 \in B
    <3>1. f[0 + 1] = ReadOn(scanner, reader, f[0]) /\ f[0] = at
      BY <1>1, <1>3 DEF ReadsOn
    <3> QED BY <3>1
  <2>2. ASSUME NEW n \in Nat, n \in B PROVE n + 1 \in B
    <3>1. n + 1 \in Nat /\ f[n + 1] = ReadOn(scanner, reader, at) /\ f[n + 1] \in S
      BY <1>3, <2>2
    <3>2. f[n + 1].run.done
      BY <3>1
    <3>3. ReadOn(scanner, reader, f[n + 1]) = f[n + 1]
      BY <3>2 DEF ReadOn
    <3>4. f[(n + 1) + 1] = f[n + 1]
      BY <3>1, <3>3, <1>3
    <3> QED BY <3>1, <3>4
  <2>3. Nat \subseteq B
    <3> HIDE DEF B
    <3> QED BY <2>1, <2>2, SetInduction
  <2>4. Len(text) + 1 \in B
    <3>1. Len(text) + 1 \in Nat
      <4>1. at.str \in Buffers /\ at.left \in Seq(Char) /\ at.str.chars \o at.left = text
        BY DEF AtWork
      <4>2. text \in Seq(Char)
        BY <4>1, Parts DEF Buffers
      <4> QED BY <4>2
    <3> QED BY <3>1, <2>3
  <2>5. f[(Len(text) + 1) + 1] = ReadOn(scanner, reader, at)
    BY <2>4
  <2>6. (Len(text) + 1) + 1 = last
    <3>1. Len(text) \in Nat
      <4>1. at.str \in Buffers /\ at.left \in Seq(Char) /\ at.str.chars \o at.left = text
        BY DEF AtWork
      <4>2. text \in Seq(Char)
        BY <4>1, Parts DEF Buffers
      <4> QED BY <4>2
    <3> QED BY <3>1
  <2> QED BY <2>5, <2>6
<1>7. f[last] \in S
  BY <1>2, <1>3
<1>8. Len(at.str.chars) <= Len(f[last].str.chars)
  <2> DEFINE C == {n \in Nat : Len(at.str.chars) <= Len(f[n].str.chars)}
  <2>1. 0 \in C
    <3>1. f[0] = at /\ Len(at.str.chars) \in Nat
      BY <1>1, WorksOn DEF ReadsOn
    <3> QED BY <3>1
  <2>2. ASSUME NEW n \in Nat, n \in C PROVE n + 1 \in C
    <3>1. f[n] \in S /\ f[n + 1] \in S /\ f[n + 1] = ReadOn(scanner, reader, f[n]) /\ n + 1 \in Nat
      BY <1>3
    <3> DEFINE k == Len(at.str.chars)
               i == Len(f[n].str.chars)
               j == Len(f[n + 1].str.chars)
    <3>2. k \in Nat /\ i \in Nat /\ j \in Nat
      BY <3>1, WorksOn
    <3>3. i <= j
      BY <3>1, WorksOn
    <3>4. k <= i
      BY <2>2
    <3> QED BY <3>1, <3>2, <3>3, <3>4
  <2>3. Nat \subseteq C
    <3> HIDE DEF C
    <3> QED BY <2>1, <2>2, SetInduction
  <2> QED BY <1>2, <2>3
<1> QED BY <1>1, <1>5, <1>6, <1>7, <1>8

(* It makes no difference what a text is read from.                        *)
LEMMA MatchAlike ==
  ASSUME NEW scanner \in ScannerNames, NEW text, Plain(text),
         NEW one \in {"stream", "string"}, NEW a \in AtWork(scanner, one, text), Placed(text, 0, a),
         NEW other \in {"stream", "string"}, NEW b \in AtWork(scanner, other, text), Placed(text, 0, b),
         a.run = b.run
  PROVE  match(scanner, one, a).run = match(scanner, other, b).run
<1> DEFINE S == AtWork(scanner, one, text)
           T == AtWork(scanner, other, text)
<1>1. PICK f \in [Nat -> S] : ReadsOn(scanner, one, a, f) /\ match(scanner, one, a) = f[Len(text) + 2]
  BY MatchUnfolds
<1>2. PICK g \in [Nat -> T] : ReadsOn(scanner, other, b, g) /\ match(scanner, other, b) = g[Len(text) + 2]
  BY MatchUnfolds
<1> DEFINE A == {n \in Nat : Placed(text, n, f[n]) /\ Placed(text, n, g[n]) /\ f[n].run = g[n].run}
<1>3. 0 \in A
  BY <1>1, <1>2 DEF ReadsOn
<1>4. ASSUME NEW n \in Nat, n \in A PROVE n + 1 \in A
  <2>1. /\ Placed(text, n, f[n]) /\ Placed(text, n, g[n]) /\ f[n].run = g[n].run
        /\ f[n] \in S /\ g[n] \in T /\ n + 1 \in Nat
    BY <1>4
  <2>2. f[n + 1] = ReadOn(scanner, one, f[n]) /\ g[n + 1] = ReadOn(scanner, other, g[n])
    BY <1>1, <1>2 DEF ReadsOn
  <2>3. Placed(text, n + 1, ReadOn(scanner, one, f[n])) /\ Placed(text, n + 1, ReadOn(scanner, other, g[n]))
    BY <2>1, WorksOn
  <2>4. ReadOn(scanner, one, f[n]).run = ReadOn(scanner, other, g[n]).run
    BY <2>1, WorkAlike
  <2> QED BY <2>1, <2>2, <2>3, <2>4
<1>5. Nat \subseteq A
  <2> HIDE DEF A
  <2> QED BY <1>3, <1>4, SetInduction
<1>6. Len(text) + 2 \in Nat
  BY MatchUnfolds
<1> QED BY <1>1, <1>2, <1>5, <1>6

(* How a scanner begins: at the beginning of the text.                     *)
LEMMA Begins ==
  ASSUME NEW scanner \in ScannerNames, NEW reader, NEW str, NEW left, NEW top \in BOOLEAN,
         Held(reader, str, left)
  PROVE  LET at == lexer_rewind(str, left, top)
         IN /\ at \in AtWork(scanner, reader, str.chars \o left)
            /\ Placed(str.chars \o left, 0, at) /\ at.run = FreshRun(top)
            /\ ~at.run.done /\ at.run.scan_count = 0 /\ at.str.pos = 0
<1> DEFINE at == lexer_rewind(str, left, top)
           run == FreshRun(top)
           s == str_rewind(str)
<1>1. str \in Buffers /\ left \in Seq(Char)
  BY DEF Held
<1>2. s \in Buffers /\ s.pos = 0 /\ s.chars = str.chars /\ s.size = str.size
  BY <1>1 DEF str_rewind, Buffers
<1>3. Held(reader, s, left)
  BY <1>2 DEF Held
<1>4. run.scan_count = 0 /\ ~run.done /\ run.state = "Init" /\ run.out = NoToken /\ ~run.skips
  BY DEF FreshRun
<1>5. run \in RunIn(StatesOf(scanner))
  <2>1. "Init" \in StatesOf(scanner)
    BY DEF StatesOf, ScannerNames
  <2>2. 0 \in Char /\ <<>> \in Seq(Char) /\ NoToken \in [code : Int, text : Seq(Char)]
    BY DEF Char, NoToken, TokenCodeNone
  <2> QED BY <2>1, <2>2 DEF FreshRun, RunIn
<1>6. Valid(scanner, run)
  <2>1. run.out.code # TokenCodeEOF
    BY DEF FreshRun, NoToken, TokenCodeNone, TokenCodeEOF
  <2> HIDE DEF run
  <2> QED BY <2>1, <1>4, <1>5 DEF Valid
<1>7. at.run = run /\ at.str = s /\ at.left = left
      /\ at \in [run : RunIn(StatesOf(scanner)), str : Buffers, left : Seq(Char)]
  BY <1>1, <1>2, <1>5 DEF lexer_rewind
<1> HIDE DEF at, run, s
<1>8. Len(at.str.chars) \in Nat /\ at.run.scan_count = 0 /\ at.str.pos = 0
  BY <1>2, <1>4, <1>7 DEF Buffers
<1>9. at \in AtWork(scanner, reader, str.chars \o left)
  <2>1. at.run.scan_count <= Len(at.str.chars)
    BY <1>8
  <2>2. at.run.scan_count <= at.str.pos /\ at.str.pos <= Len(at.str.chars)
    BY <1>8
  <2>3. Held(reader, at.str, at.left) /\ at.str.chars \o at.left = str.chars \o left
    BY <1>2, <1>3, <1>7
  <2>4. Valid(scanner, at.run)
    BY <1>6, <1>7
  <2> QED BY <1>7, <2>1, <2>2, <2>3, <2>4 DEF AtWork
<1>10. Placed(str.chars \o left, 0, at)
  BY <1>2, <1>7 DEF Placed
<1> QED BY <1>2, <1>4, <1>7, <1>9, <1>10 DEF at, run

(* What has been read is chopped off the buffer and nothing else.          *)
LEMMA ResetHeld ==
  ASSUME NEW reader, NEW str, NEW left, Held(reader, str, left), NEW n \in 0 .. Len(str.chars)
  PROVE  LET r == lexer_reset(str, n)
             text == str.chars \o left
         IN Held(reader, r, left) /\ r.chars \o left = SubSeq(text, n + 1, Len(text))
<1> DEFINE chars == str.chars
           text == chars \o left
           s == str_rewind(str)
           k == IF n > Len(chars) THEN Len(chars) ELSE n
           t == str_skip(s, n)
           r == lexer_reset(str, n)
<1>1. str \in Buffers /\ left \in Seq(Char) /\ chars \in Seq(Char) /\ Len(chars) \in Nat
      /\ str.size \in Nat /\ str.size # 0
  BY DEF Held, Buffers
<1>2. s \in Buffers /\ s.pos = 0 /\ s.chars = chars /\ s.size = str.size
  BY <1>1 DEF str_rewind, Buffers
<1>3. n \in Nat /\ n <= Len(chars)
  BY <1>1
<1>4. t.pos = n /\ t \in Buffers /\ t.chars = chars /\ t.size = str.size
  <2>1. t = [s EXCEPT !.pos = n]
    <3> HIDE DEF s
    <3> QED BY <1>2, <1>3 DEF str_skip, Buffers
  <2> HIDE DEF s, t
  <2> QED BY <2>1, <1>2, <1>3 DEF Buffers
<1>5. r = str_lchop(t, n)
  <2> HIDE DEF s
  <2> QED BY <1>4 DEF lexer_reset, str_reset, s
<1>6. text \in Seq(Char) /\ Len(text) = Len(chars) + Len(left) /\ Len(left) \in Nat
  BY <1>1, Parts
<1> HIDE DEF t, r, s
<1>7. CASE n = Len(chars)
  <2>1. r = str_create(str.size)
    BY <1>1, <1>4, <1>5, <1>7 DEF str_lchop, str_erase
  <2>2. r.chars = <<>> /\ r \in Buffers /\ r.size = str.size
    BY <1>1, <2>1 DEF str_create, Buffers
  <2>3. SubSeq(text, n + 1, Len(text)) = left
    <3>1. SubSeq(chars \o left, Len(chars) + 1, Len(chars \o left)) = left
      <4> HIDE DEF chars, text
      <4>1. /\ chars \o left \in Seq(Char) /\ Len(chars \o left) = Len(chars) + Len(left)
            /\ \A i \in 1 .. Len(chars) + Len(left) :
                 (chars \o left)[i] = IF i <= Len(chars) THEN chars[i] ELSE left[i - Len(chars)]
        BY <1>1, ConcatProperties
      <4> DEFINE b == SubSeq(chars \o left, Len(chars) + 1, Len(chars \o left))
      <4>2. b \in Seq(Char) /\ Len(b) = Len(left)
            /\ \A i \in 1 .. Len(left) : b[i] = (chars \o left)[Len(chars) + i]
        <5> DEFINE u == chars \o left
        <5> HIDE DEF u
        <5>1. u \in Seq(Char) /\ Len(u) = Len(chars) + Len(left)
          BY <4>1 DEF u
        <5> DEFINE m == Len(chars)
        <5>2. m \in Nat /\ m <= Len(u) /\ Len(u) - m = Len(left)
          BY <5>1, <1>1, <1>6
        <5> HIDE DEF m
        <5>3. LET v == SubSeq(u, m + 1, Len(u))
              IN /\ v \in Seq(Char) /\ Len(v) = Len(u) - m
                 /\ \A i \in 1 .. Len(u) - m : v[i] = u[m + i]
          BY <5>1, <5>2, Behind
        <5> QED BY <5>2, <5>3 DEF u, m
      <4>3. ASSUME NEW i \in 1 .. Len(left) PROVE (chars \o left)[Len(chars) + i] = left[i]
        <5>1. Len(chars) + i \in 1 .. Len(chars) + Len(left) /\ ~(Len(chars) + i <= Len(chars))
              /\ (Len(chars) + i) - Len(chars) = i
          BY <1>1, <1>6
        <5> QED BY <4>1, <5>1
      <4> HIDE DEF b
      <4>4. b = left
        BY <4>2, <4>3, <1>1
      <4> QED BY <4>4 DEF b
    <3> QED BY <3>1, <1>7
  <2>4. r.chars \o left = left
    BY <1>1, <2>2, ConcatEmptySeq
  <2>5. Held(reader, r, left)
    <3>1. Len(r.chars) = 0
      BY <2>2
    <3> QED BY <1>1, <2>2, <3>1 DEF Held
  <2> QED BY <2>3, <2>4, <2>5 DEF r
<1>8. CASE n # Len(chars)
  <2> DEFINE cut == SubSeq(chars, n + 1, Len(chars))
             tail == IF n > 0 THEN <<>> ELSE t.tail
             p == IF t.pos < n THEN 0 ELSE t.pos - n
  <2>1. r = [t EXCEPT !.chars = cut, !.tail = tail, !.pos = p]
    BY <1>1, <1>3, <1>4, <1>5, <1>8 DEF str_lchop
  <2>2. cut \in Seq(Char) /\ Len(cut) = Len(chars) - n /\ tail = <<>> /\ p \in Nat
    BY <1>1, <1>3, <1>4, <1>8 DEF Buffers
  <2> HIDE DEF cut, tail, p
  <2>3. r \in Buffers /\ r.chars = cut /\ r.size = str.size
    BY <1>4, <2>1, <2>2 DEF Buffers
  <2>4. cut \o left = SubSeq(text, n + 1, Len(text))
    <3> HIDE DEF chars, text
    <3>1. /\ chars \o left \in Seq(Char) /\ Len(chars \o left) = Len(chars) + Len(left)
          /\ \A i \in 1 .. Len(chars) + Len(left) :
               (chars \o left)[i] = IF i <= Len(chars) THEN chars[i] ELSE left[i - Len(chars)]
      BY <1>1, ConcatProperties
    <3>2. /\ cut \o left \in Seq(Char) /\ Len(cut \o left) = Len(cut) + Len(left)
          /\ \A i \in 1 .. Len(cut) + Len(left) :
               (cut \o left)[i] = IF i <= Len(cut) THEN cut[i] ELSE left[i - Len(cut)]
      BY <1>1, <2>2, ConcatProperties
    <3> DEFINE u == chars \o left
               v == cut \o left
               b == SubSeq(u, n + 1, Len(u))
               m == Len(chars) - n + Len(left)
    <3>3. Len(u) = Len(chars) + Len(left) /\ u \in Seq(Char) /\ v \in Seq(Char) /\ Len(v) = m
      BY <3>1, <3>2, <2>2
    <3>4. m \in Nat
      BY <1>1, <1>3, <1>6
    <3>5. ASSUME NEW i \in 1 .. m PROVE v[i] = u[n + i]
      <4>1. i \in 1 .. Len(cut) + Len(left) /\ n + i \in 1 .. Len(chars) + Len(left)
        BY <1>1, <1>3, <1>6, <2>2
      <4>2. CASE i <= Len(cut)
        <5>1. n + i <= Len(chars) /\ i \in 1 .. Len(cut)
          BY <4>2, <2>2, <1>1, <1>3
        <5>2. cut[i] = chars[n + i]
          BY <5>1, <2>2, <1>1, <1>3 DEF cut
        <5> QED BY <4>1, <4>2, <5>1, <5>2, <3>1, <3>2
      <4>3. CASE ~(i <= Len(cut))
        <5>1. ~(n + i <= Len(chars)) /\ i - Len(cut) = (n + i) - Len(chars)
          BY <4>3, <2>2, <1>1, <1>3
        <5> QED BY <4>1, <4>3, <5>1, <3>1, <3>2
      <4> QED BY <4>2, <4>3
    <3> HIDE DEF u, v
    <3>6. b \in Seq(Char) /\ Len(b) = m /\ \A i \in 1 .. m : b[i] = u[n + i]
      <4>1. n <= Len(u) /\ Len(u) - n = m
        BY <3>3, <1>1, <1>3, <1>6
      <4> HIDE DEF m
      <4> QED BY <3>3, <1>3, <4>1, Behind
    <3> HIDE DEF b, m
    <3>7. v = b
      BY <3>3, <3>4, <3>5, <3>6
    <3> QED BY <3>7 DEF u, v, b, text
  <2>5. Held(reader, r, left)
    <3>1. Len(r.chars) <= Len(chars)
      BY <1>1, <1>3, <2>2, <2>3
    <3> QED BY <1>1, <2>2, <2>3, <3>1 DEF Held
  <2> QED BY <2>3, <2>4, <2>5 DEF r
<1> QED BY <1>7, <1>8

(* The scanners are in the order of their priority.                        *)
Ranked(scanners) ==
  /\ scanners \in Seq(ScannerNames)
  /\ \A i, j \in 1 .. Len(scanners) :
       i <= j => Priority(scanners[j]) <= Priority(scanners[i])

(* What holds of the first places and of none behind them.                 *)
LEMMA FirstPlaces ==
  ASSUME NEW n \in Nat, NEW D \in SUBSET (1 .. n),
         \A i, j \in 1 .. n : i <= j /\ j \in D => i \in D
  PROVE  Cardinality(D) \in 0 .. n /\ D = 1 .. Cardinality(D)
<1> DEFINE A == {m \in Nat : m <= n => \E k \in 0 .. m : D \cap (1 .. m) = 1 .. k}
<1>1. 0 \in A
  <2>1. 0 \in 0 .. 0 /\ D \cap (1 .. 0) = 1 .. 0
    OBVIOUS
  <2> QED BY <2>1
<1>2. ASSUME NEW m \in Nat, m \in A PROVE m + 1 \in A
  <2> SUFFICES ASSUME m + 1 <= n PROVE \E k \in 0 .. m + 1 : D \cap (1 .. m + 1) = 1 .. k
    OBVIOUS
  <2>1. PICK k \in 0 .. m : D \cap (1 .. m) = 1 .. k
    BY <1>2
  <2>2. CASE m + 1 \in D
    <3>1. D \cap (1 .. m + 1) = 1 .. m + 1
      BY <2>2
    <3> QED BY <3>1
  <2>3. CASE m + 1 \notin D
    <3>1. D \cap (1 .. m + 1) = 1 .. k
      BY <2>1, <2>3
    <3> QED BY <3>1
  <2> QED BY <2>2, <2>3
<1>3. n \in A
  <2> HIDE DEF A
  <2> QED BY <1>1, <1>2, SetInduction
<1>4. PICK k \in 0 .. n : D = 1 .. k
  <2>1. D \cap (1 .. n) = D
    OBVIOUS
  <2>2. \E k \in 0 .. n : D \cap (1 .. n) = 1 .. k
    <3>1. n <= n
      OBVIOUS
    <3> QED BY <1>3, <3>1
  <2> QED BY <2>1, <2>2
<1>5. Cardinality(1 .. k) = k
  BY FS_Interval
<1> QED BY <1>4, <1>5

\* Every scanner has a priority.
LEMMA Priorities == \A scanner \in ScannerNames : Priority(scanner) \in Nat
BY DEF Priority, ScannerNames

(* A scanner that is added finds its place.                                *)
LEMMA StaysRanked ==
  ASSUME NEW s, Ranked(s), NEW scanner \in ScannerNames
  PROVE  Ranked(_lexer_config_add_scanner(s, scanner))
<1> DEFINE before == {i \in DOMAIN s : Priority(s[i]) >= Priority(scanner)}
           n == Len(s)
           k == Cardinality(before)
           front == SubSeq(s, 1, k)
           back == SubSeq(s, k + 1, n)
           new == _lexer_config_add_scanner(s, scanner)
<1>1. s \in Seq(ScannerNames) /\ n \in Nat /\ DOMAIN s = 1 .. n
  BY DEF Ranked
<1>2. ASSUME NEW i \in 1 .. n, NEW j \in 1 .. n, i <= j PROVE Priority(s[j]) <= Priority(s[i])
  BY <1>2 DEF Ranked
<1>3. \A i \in 1 .. n : Priority(s[i]) \in Nat
  BY <1>1, Priorities
<1>4. Priority(scanner) \in Nat
  BY Priorities
<1>5. k \in 0 .. n /\ before = 1 .. k
  <2>1. before \in SUBSET (1 .. n)
    BY <1>1
  <2>2. ASSUME NEW i \in 1 .. n, NEW j \in 1 .. n, i <= j, j \in before PROVE i \in before
    <3>1. Priority(s[j]) <= Priority(s[i]) /\ Priority(s[i]) \in Nat /\ Priority(s[j]) \in Nat
      BY <1>2, <1>3, <2>2
    <3> QED BY <3>1, <2>2, <1>1, <1>4
  <2> HIDE DEF before, n
  <2> QED BY <1>1, <2>1, <2>2, FirstPlaces
<1>6. \A i \in 1 .. n : IF i <= k THEN Priority(s[i]) >= Priority(scanner)
                        ELSE ~(Priority(s[i]) >= Priority(scanner))
  <2> SUFFICES ASSUME NEW i \in 1 .. n
               PROVE  IF i <= k THEN Priority(s[i]) >= Priority(scanner)
                      ELSE ~(Priority(s[i]) >= Priority(scanner))
    OBVIOUS
  <2>1. i \in before <=> i <= k
    <3> HIDE DEF before
    <3> QED BY <1>5
  <2>2. i \in before <=> Priority(s[i]) >= Priority(scanner)
    BY <1>1
  <2> HIDE DEF before
  <2> QED BY <2>1, <2>2
<1>7. new = (front \o <<scanner>>) \o back
  <2>1. (k + 1) - 1 = k
    <3> HIDE DEF k
    <3> QED BY <1>5
  <2> QED BY <2>1 DEF _lexer_config_add_scanner, InsertAt
<1> HIDE DEF before, k
<1>8. front \in Seq(ScannerNames) /\ Len(front) = k /\ \A i \in 1 .. k : front[i] = s[i]
  BY <1>1, <1>5
<1>9. back \in Seq(ScannerNames) /\ Len(back) = n - k /\ \A i \in 1 .. n - k : back[i] = s[k + i]
  <2>1. k \in Nat /\ k <= Len(s)
    BY <1>1, <1>5
  <2> QED BY <1>1, <2>1, Behind
<1> HIDE DEF front, back
<1> DEFINE mid == front \o <<scanner>>
<1>10. mid \in Seq(ScannerNames) /\ Len(mid) = k + 1
       /\ \A i \in 1 .. k + 1 : mid[i] = IF i <= k THEN front[i] ELSE scanner
  <2>1. <<scanner>> \in Seq(ScannerNames) /\ Len(<<scanner>>) = 1 /\ <<scanner>>[1] = scanner
    OBVIOUS
  <2> DEFINE one == <<scanner>>
  <2> HIDE DEF one
  <2>2. /\ front \o one \in Seq(ScannerNames) /\ Len(front \o one) = Len(front) + Len(one)
        /\ \A i \in 1 .. Len(front) + Len(one) :
             (front \o one)[i] = IF i <= Len(front) THEN front[i] ELSE one[i - Len(front)]
    BY <1>8, <2>1, ConcatProperties DEF one
  <2>3. k \in Nat /\ Len(one) = 1 /\ one[1] = scanner
    BY <1>5, <2>1 DEF one
  <2>4. ASSUME NEW i \in 1 .. k + 1, ~(i <= k) PROVE i - k = 1
    BY <2>3, <2>4
  <2> QED BY <1>8, <2>2, <2>3, <2>4 DEF one
<1> HIDE DEF mid
<1>11. new \in Seq(ScannerNames) /\ Len(new) = n + 1
          /\ \A i \in 1 .. n + 1 : new[i] = IF i <= k THEN s[i] ELSE IF i = k + 1 THEN scanner ELSE s[i - 1]
  <2>1. /\ mid \o back \in Seq(ScannerNames) /\ Len(mid \o back) = Len(mid) + Len(back)
        /\ \A i \in 1 .. Len(mid) + Len(back) :
             (mid \o back)[i] = IF i <= Len(mid) THEN mid[i] ELSE back[i - Len(mid)]
    BY <1>9, <1>10, ConcatProperties
  <2>2. k \in Nat /\ k <= n
    BY <1>1, <1>5
  <2>3. Len(mid) + Len(back) = n + 1
    BY <1>1, <1>9, <1>10, <2>2
  <2>4. ASSUME NEW i \in 1 .. n + 1
        PROVE (mid \o back)[i] = IF i <= k THEN s[i] ELSE IF i = k + 1 THEN scanner ELSE s[i - 1]
    <3>1. (mid \o back)[i] = IF i <= Len(mid) THEN mid[i] ELSE back[i - Len(mid)]
      BY <2>1, <2>3
    <3>2. CASE i <= k
      <4>1. i \in 1 .. k /\ i \in 1 .. k + 1 /\ i <= k + 1
        BY <3>2, <2>2
      <4> QED BY <3>1, <3>2, <4>1, <1>8, <1>10
    <3>3. CASE i = k + 1
      <4>1. i \in 1 .. k + 1 /\ ~(i <= k) /\ i <= k + 1
        BY <3>3, <2>2
      <4> QED BY <3>1, <3>3, <4>1, <1>10
    <3>4. CASE ~(i <= k) /\ i # k + 1
      <4>1. ~(i <= k + 1) /\ i - (k + 1) \in 1 .. n - k /\ k + (i - (k + 1)) = i - 1
        BY <3>4, <2>2, <1>1
      <4> QED BY <3>1, <3>4, <4>1, <1>9, <1>10
    <3> QED BY <3>2, <3>3, <3>4
  <2> QED BY <1>7, <2>1, <2>3, <2>4 DEF mid
<1> HIDE DEF new
<1>12. ASSUME NEW i \in 1 .. Len(new), NEW j \in 1 .. Len(new), i <= j
       PROVE  Priority(new[j]) <= Priority(new[i])
  <2>1. k \in Nat /\ k <= n /\ i \in 1 .. n + 1 /\ j \in 1 .. n + 1
    BY <1>1, <1>5, <1>11
  <2>2. /\ new[i] = IF i <= k THEN s[i] ELSE IF i = k + 1 THEN scanner ELSE s[i - 1]
        /\ new[j] = IF j <= k THEN s[j] ELSE IF j = k + 1 THEN scanner ELSE s[j - 1]
    BY <1>11, <2>1
  <2>3. CASE i = k + 1 /\ j = k + 1
    <3>1. ~(k + 1 <= k)
      BY <2>1
    <3>2. new[i] = scanner /\ new[j] = scanner
      BY <2>2, <2>3, <3>1
    <3> QED BY <3>2, <1>4
  <2>4. CASE i <= k /\ j = k + 1
    <3>1. i \in 1 .. n /\ Priority(s[i]) >= Priority(scanner)
      BY <1>6, <2>1, <2>4, <1>1
    <3>2. j # k /\ ~(j <= k)
      BY <2>1, <2>4
    <3>3. new[i] = s[i] /\ new[j] = scanner
      BY <2>2, <2>4, <3>2
    <3>4. Priority(s[i]) \in Nat
      BY <3>1, <1>3
    <3>5. Priority(scanner) <= Priority(s[i])
      BY <3>1, <3>4, <1>4
    <3> QED BY <3>3, <3>5
  <2>5. CASE i = k + 1 /\ j > k + 1
    <3>1. j - 1 \in 1 .. n /\ ~(j - 1 <= k)
      BY <2>1, <2>5, <1>1
    <3>2. ~(Priority(s[j - 1]) >= Priority(scanner)) /\ Priority(s[j - 1]) \in Nat
      BY <3>1, <1>3, <1>6
    <3>3. new[i] = scanner /\ new[j] = s[j - 1]
      BY <2>1, <2>2, <2>5
    <3> QED BY <3>2, <3>3, <1>4
  <2>6. CASE i # k + 1 /\ j # k + 1
    <3> DEFINE a == IF i <= k THEN i ELSE i - 1
               b == IF j <= k THEN j ELSE j - 1
    <3>1. a \in 1 .. n /\ b \in 1 .. n /\ a <= b
      BY <2>1, <2>6, <1>1, <1>12
    <3>2. new[i] = s[a] /\ new[j] = s[b]
      BY <2>2, <2>6
    <3> QED BY <3>1, <3>2, <1>2
  <2>7. i <= j /\ i \in Nat /\ j \in Nat
    BY <1>12, <2>1
  <2> QED BY <2>1, <2>3, <2>4, <2>5, <2>6, <2>7
<1> QED BY <1>11, <1>12 DEF Ranked, new

\* However they are configured.
LEMMA ScannersRanked == Ranked(lexScanners)
<1> DEFINE S == {s \in Seq(ScannerNames) : Ranked(s)}
           n == Len(Configured)
           step == [x \in Nat \X S |->
                      IF x[1] + 1 \in 1 .. n THEN _lexer_config_add_scanner(x[2], Configured[x[1] + 1])
                      ELSE x[2]]
           added[i \in 0 .. n] ==
             IF i = 0 THEN <<>> ELSE _lexer_config_add_scanner(added[i - 1], Configured[i])
<1>1. Configured \in Seq(ScannerNames) /\ n \in Nat
  BY LexerAssumption
<1>2. step \in [Nat \X S -> S]
  <2> SUFFICES ASSUME NEW x \in Nat \X S, x[1] + 1 \in 1 .. n
               PROVE  _lexer_config_add_scanner(x[2], Configured[x[1] + 1]) \in S
    OBVIOUS
  <2>1. x[2] \in S /\ Configured[x[1] + 1] \in ScannerNames
    BY <1>1
  <2>2. Ranked(_lexer_config_add_scanner(x[2], Configured[x[1] + 1]))
    BY <2>1, StaysRanked
  <2> QED BY <2>2 DEF Ranked
<1>3. <<>> \in S
  BY DEF Ranked
<1>4. PICK f \in [Nat -> S] : Recurs(f, <<>>, step)
  <2> HIDE DEF S, step
  <2> QED BY <1>2, <1>3, RecursionExists
<1>5. f[0] = <<>> /\ \A i \in Nat : i + 1 \in 1 .. n =>
        f[i + 1] = _lexer_config_add_scanner(f[i], Configured[i + 1])
  BY <1>4 DEF Recurs
<1>6. added = [i \in 0 .. n |-> IF i = 0 THEN <<>>
                                ELSE _lexer_config_add_scanner(added[i - 1], Configured[i])]
  <2> DEFINE g == [i \in 0 .. n |-> f[i]]
  <2>1. ASSUME NEW i \in 0 .. n
        PROVE  g[i] = IF i = 0 THEN <<>> ELSE _lexer_config_add_scanner(g[i - 1], Configured[i])
    <3>1. CASE i = 0
      BY <3>1, <1>5
    <3>2. CASE i # 0
      <4>1. i - 1 \in Nat /\ (i - 1) + 1 = i /\ i - 1 \in 0 .. n /\ (i - 1) + 1 \in 1 .. n
        BY <3>2, <1>1
      <4>2. f[(i - 1) + 1] = _lexer_config_add_scanner(f[i - 1], Configured[(i - 1) + 1])
        BY <4>1, <1>5
      <4>3. f[i] = _lexer_config_add_scanner(f[i - 1], Configured[i])
        BY <4>1, <4>2
      <4> QED BY <3>2, <4>1, <4>3
    <3> QED BY <3>1, <3>2
  <2>2. g = [i \in 0 .. n |-> IF i = 0 THEN <<>> ELSE _lexer_config_add_scanner(g[i - 1], Configured[i])]
    BY <2>1
  <2> HIDE DEF g
  <2> QED BY <2>2
<1>7. lexScanners = added[n]
  BY DEF lexScanners
<1> DEFINE A == {i \in Nat : i <= n => added[i] \in S}
<1> HIDE DEF added
<1>8. 0 \in A
  BY <1>1, <1>3, <1>6
<1>9. ASSUME NEW i \in Nat, i \in A PROVE i + 1 \in A
  <2> SUFFICES ASSUME i + 1 <= n PROVE added[i + 1] \in S
    OBVIOUS
  <2>1. i <= n /\ i + 1 \in 0 .. n /\ i + 1 # 0 /\ (i + 1) - 1 = i /\ i + 1 \in 1 .. n
    BY <1>1
  <2>2. added[i + 1] = _lexer_config_add_scanner(added[i], Configured[i + 1])
    BY <2>1, <1>6
  <2>3. added[i] \in S /\ Configured[i + 1] \in ScannerNames
    BY <1>1, <1>9, <2>1
  <2>4. Ranked(_lexer_config_add_scanner(added[i], Configured[i + 1]))
    BY <2>3, StaysRanked
  <2> QED BY <2>2, <2>4 DEF Ranked
<1>10. n \in A
  <2> HIDE DEF A
  <2> QED BY <1>1, <1>8, <1>9, SetInduction
<1> QED BY <1>1, <1>7, <1>10

-----------------------------------------------------------------------------
(* The lexer between two steps: the types of its state, the rest of the    *)
(* text in the buffer and the stream, the End at the end, and something    *)
(* taken when a scanner has succeeded.                                     *)
LexTypes ==
  /\ lexText \in Seq(Char) /\ lexReader \in {"stream", "string"}
  /\ lexCount \in 0 .. Len(lexText) /\ lexScanned \in 0 .. Len(lexStr.chars)
  /\ lexLast \in [code : Int, text : Seq(Char)] /\ lexSuccess \in BOOLEAN
  /\ lexTurn \in 0 .. Len(lexScanners) + 1

LexInv ==
  /\ LexTypes /\ Held(lexReader, lexStr, lexLeft) /\ TextCovered
  /\ lexTurn # 0 => lexLast.code # TokenCodeEOF
  /\ EndIsTheEnd
  /\ lexSuccess => lexScanned > 0

\* What the scanner whose turn it is makes of the text.
Read(scanner) == match(scanner, lexReader, lexer_rewind(lexStr, lexLeft, lexCount = 0))

\* Outcome of reading the text that is left.
LeavesRest(scanner, read) ==
  /\ Held(lexReader, read.str, read.left) /\ read.str.chars \o read.left = Rest
  /\ Valid(scanner, read.run) /\ read.run.done
  /\ read.run.scan_count \in 0 .. Len(read.str.chars)
  /\ Len(lexStr.chars) \in Nat /\ Len(read.str.chars) \in Nat
  /\ Len(lexStr.chars) <= Len(read.str.chars)

\* The text that is left.
LEMMA RestTyped == LexTypes => Rest \in Seq(Char) /\ Len(Rest) = Len(lexText) - lexCount
BY DEF LexTypes, Rest

\* A scanner leaves all of it in the buffer and the stream.
LEMMA ReadsRest ==
  ASSUME LexInv, NEW scanner \in ScannerNames
  PROVE  LeavesRest(scanner, Read(scanner))
<1> DEFINE top == lexCount = 0
           at == lexer_rewind(lexStr, lexLeft, top)
           read == match(scanner, lexReader, at)
<1>1. top \in BOOLEAN
  OBVIOUS
<1>2. /\ Held(lexReader, lexStr, lexLeft) /\ lexStr.chars \o lexLeft = Rest
      /\ lexReader \in {"stream", "string"} /\ lexStr \in Buffers
  BY DEF LexInv, LexTypes, Held, TextCovered
<1>3. Read(scanner) = read
  BY DEF Read
<1> HIDE DEF top
<1>4. at \in AtWork(scanner, lexReader, Rest) /\ Placed(Rest, 0, at)
  BY <1>1, <1>2, Begins
<1>a. Len(at.str.chars) = Len(lexStr.chars)
  BY <1>2 DEF lexer_rewind, str_rewind, Buffers
<1> HIDE DEF at
<1>5. read \in AtWork(scanner, lexReader, Rest) /\ read.run.done
      /\ Len(at.str.chars) <= Len(read.str.chars)
  BY <1>2, <1>4, Matched
<1> HIDE DEF read
<1>6. Len(lexStr.chars) \in Nat
  BY <1>2 DEF Buffers
<1>7. read.str \in Buffers /\ read.run.scan_count \in Nat
  BY <1>5 DEF AtWork, RunIn
<1>8. Len(read.str.chars) \in Nat
  BY <1>7 DEF Buffers
<1>9. read.run.scan_count <= Len(read.str.chars)
  BY <1>5 DEF AtWork
<1>10. Held(lexReader, read.str, read.left) /\ read.str.chars \o read.left = Rest
       /\ Valid(scanner, read.run)
  BY <1>5 DEF AtWork
<1>11. read.run.scan_count \in 0 .. Len(read.str.chars)
  BY <1>7, <1>8, <1>9
<1> QED BY <1>3, <1>5, <1>6, <1>8, <1>10, <1>11, <1>a DEF LeavesRest

\* A scanner reads it as it would read it from a string.
LEMMA ReadsWhole ==
  ASSUME LexInv, NEW scanner \in ScannerNames, Plain(Rest)
  PROVE  Read(scanner).run = Whole(scanner)
<1> DEFINE top == lexCount = 0
           at == lexer_rewind(lexStr, lexLeft, top)
           str == str_copy_chars(Rest)
           source == "string"
           none == <<>>
           whole == lexer_rewind(str, none, top)
<1>1. top \in BOOLEAN
  OBVIOUS
<1>2. /\ Held(lexReader, lexStr, lexLeft) /\ lexStr.chars \o lexLeft = Rest
      /\ lexReader \in {"stream", "string"} /\ Rest \in Seq(Char)
  BY RestTyped DEF LexInv, LexTypes, TextCovered
<1>3. Read(scanner) = match(scanner, lexReader, at)
      /\ Whole(scanner) = match(scanner, source, whole).run
  BY DEF Read, Whole
<1>4. Held(source, str, none) /\ str.chars = Rest
  <2>1. str \in Buffers /\ str.chars = Rest /\ str.size = Len(Rest) + 1 /\ Len(Rest) \in Nat
    BY <1>2 DEF str_copy_chars, str_create, Buffers
  <2>2. str.size >= 1 /\ <<>> \in Seq(Char)
    BY <2>1
  <2> QED BY <2>1, <2>2 DEF Held
<1>5. str.chars \o none = Rest /\ source \in {"stream", "string"}
  <2>1. Rest \o none = Rest
    BY <1>2, ConcatEmptySeq
  <2> HIDE DEF str
  <2> QED BY <1>4, <2>1
<1> HIDE DEF top, str, none, source
<1>6. at \in AtWork(scanner, lexReader, Rest) /\ Placed(Rest, 0, at) /\ at.run = FreshRun(top)
  BY <1>1, <1>2, Begins
<1>7. whole \in AtWork(scanner, source, Rest) /\ Placed(Rest, 0, whole) /\ whole.run = FreshRun(top)
  <2>1. /\ whole \in AtWork(scanner, source, str.chars \o none)
        /\ Placed(str.chars \o none, 0, whole) /\ whole.run = FreshRun(top)
    BY <1>1, <1>4, Begins
  <2> QED BY <1>5, <2>1
<1> HIDE DEF at, whole
<1>8. match(scanner, lexReader, at).run = match(scanner, source, whole).run
  <2>1. at.run = whole.run
    BY <1>6, <1>7
  <2> QED BY <1>2, <1>5, <1>6, <1>7, <2>1, MatchAlike
<1> QED BY <1>3, <1>8

\* The rest of a text of ASCII characters is one.
LEMMA RestPlain == LexTypes /\ Ascii => Plain(Rest)
<1> SUFFICES ASSUME LexTypes, Ascii, NEW i \in 1 .. Len(Rest) PROVE Rest[i] > 0
  BY DEF Plain
<1>1. lexText \in Seq(Char) /\ lexCount \in Nat /\ lexCount <= Len(lexText) /\ Len(lexText) \in Nat
  BY DEF LexTypes
<1>2. Len(Rest) = Len(lexText) - lexCount
  BY RestTyped
<1>3. lexCount + i \in 1 .. Len(lexText)
  BY <1>1, <1>2
<1>4. Rest[i] = lexText[lexCount + i]
  <2>1. i \in 1 .. Len(lexText) - lexCount
    BY <1>1, <1>2
  <2> QED BY <1>1, <2>1 DEF Rest
<1> QED BY <1>1, <1>3, <1>4 DEF Ascii

\* No token, the End and a character have different codes.
LEMMA TokenCodes ==
  /\ NoToken \in [code : Int, text : Seq(Char)] /\ NoToken.code = 0 /\ NoToken.code # TokenCodeEOF
  /\ 207 = TokenCodeEOF /\ TokenCodeEOF \notin Char
BY DEF NoToken, TokenCodeNone, TokenCodeEOF, Char

\* It holds at the beginning.
LEMMA LexInitInv == LexInit => LexInv
<1> SUFFICES ASSUME LexInit PROVE LexInv
  OBVIOUS
<1>1. lexText \in Seq(Char) /\ lexReader \in {"stream", "string"} /\ Len(lexText) \in Nat
  BY LexerAssumption, ReaderAssumption DEF LexInit
<1>2. lexCount = 0 /\ lexScanned = 0 /\ lexLast = NoToken /\ lexSuccess = FALSE /\ lexTurn = 0
  BY DEF LexInit, LexStart
<1>3. Rest = lexText
  BY <1>1, <1>2, SubSeqFull DEF Rest
<1>4. lexScanners \in Seq(ScannerNames)
  BY ScannersRanked DEF Ranked
<1>5. Held(lexReader, lexStr, lexLeft) /\ TextCovered /\ lexStr \in Buffers
  <2>1. CASE lexReader = "string"
    <3>1. lexStr = str_copy_chars(lexText) /\ lexLeft = <<>>
      BY <2>1 DEF LexInit, LexStart
    <3>2. lexStr \in Buffers /\ lexStr.chars = lexText /\ lexStr.size = Len(lexText) + 1
      BY <1>1, <3>1 DEF str_copy_chars, str_create, Buffers
    <3>3. lexStr.size >= 1 /\ <<>> \in Seq(Char)
      BY <1>1, <3>2
    <3>4. lexText \o <<>> = lexText
      BY <1>1, ConcatEmptySeq
    <3> QED BY <1>3, <2>1, <3>1, <3>2, <3>3, <3>4 DEF Held, TextCovered
  <2>2. CASE lexReader # "string"
    <3>1. PICK size \in BufferSize : lexStr = str_create(size)
      BY <2>2 DEF LexInit, LexStart
    <3>2. lexLeft = lexText
      BY <2>2 DEF LexInit, LexStart
    <3>3. size \in Nat /\ size >= 2
      BY LexerAssumption
    <3>4. lexStr \in Buffers /\ lexStr.chars = <<>> /\ lexStr.size = size
      BY <3>1, <3>3 DEF str_create, Buffers
    <3>5. Len(lexStr.chars) <= lexStr.size
      BY <3>3, <3>4
    <3>6. <<>> \o lexText = lexText
      BY <1>1, ConcatEmptySeq
    <3> QED BY <1>1, <1>3, <2>2, <3>2, <3>3, <3>4, <3>5, <3>6 DEF Held, TextCovered
  <2> QED BY <2>1, <2>2
<1>6. LexTypes
  <2>1. Len(lexScanners) \in Nat /\ Len(lexStr.chars) \in Nat
    BY <1>4, <1>5 DEF Buffers
  <2>2. lexCount \in 0 .. Len(lexText) /\ lexScanned \in 0 .. Len(lexStr.chars)
        /\ lexTurn \in 0 .. Len(lexScanners) + 1
    BY <1>1, <1>2, <2>1
  <2>3. lexLast \in [code : Int, text : Seq(Char)] /\ lexSuccess \in BOOLEAN
    BY <1>2, TokenCodes
  <2> QED BY <1>1, <2>2, <2>3 DEF LexTypes
<1>7. EndIsTheEnd
  BY <1>2, TokenCodes DEF EndIsTheEnd
<1> QED BY <1>2, <1>5, <1>6, <1>7, TokenCodes DEF LexInv

(* The matches so far and the one of the scanner whose turn it is.         *)
Matches(scanner, read) ==
  LET run == read.run
      better == Longer(run) /\ (run.out # NoToken \/ run.skips)
  IN /\ scanner = lexScanners[lexTurn] /\ read = Read(scanner)
     /\ lexStr' = read.str /\ lexLeft' = read.left
     /\ lexScanned' = IF better THEN run.scan_count ELSE lexScanned
     /\ lexLast' = IF better /\ run.out # NoToken THEN run.out
                   ELSE IF better /\ scanner = "comment" /\ run.end # <<>> THEN NoToken
                   ELSE lexLast
     /\ lexSuccess' = (lexSuccess \/ better \/ (scanner = "whitespace" /\ run.state # "Init"))

\* What the step of a scanner is.
LEMMA MatchUnfolded ==
  ASSUME _lexer_match_token
  PROVE  /\ lexTurn \in DOMAIN lexScanners /\ lexTurn' = lexTurn + 1
         /\ UNCHANGED <<lexText, lexReader, lexCount>>
         /\ \E scanner, read : Matches(scanner, read)
<1>1. lexTurn \in DOMAIN lexScanners /\ lexTurn' = lexTurn + 1
      /\ UNCHANGED <<lexText, lexReader, lexCount>>
  BY DEF _lexer_match_token
<1>2. \E scanner \in {lexScanners[lexTurn]} : \E read \in {Read(scanner)} :
        LET run == read.run
            better == Longer(run) /\ (run.out # NoToken \/ run.skips)
        IN /\ lexStr' = read.str /\ lexLeft' = read.left
           /\ lexScanned' = IF better THEN run.scan_count ELSE lexScanned
           /\ lexLast' = IF better /\ run.out # NoToken THEN run.out
                         ELSE IF better /\ scanner = "comment" /\ run.end # <<>> THEN NoToken
                         ELSE lexLast
           /\ lexSuccess' = (lexSuccess \/ better \/ (scanner = "whitespace" /\ run.state # "Init"))
  BY Zenon DEF _lexer_match_token, Read
<1>3. \E scanner, read : Matches(scanner, read)
  <2>1. \E scanner \in {lexScanners[lexTurn]} : \E read \in {Read(scanner)} : Matches(scanner, read)
    BY <1>2, Zenon DEF Matches
  <2> QED BY <2>1
<1> QED BY <1>1, <1>3

\* There are finitely many scanners.
LEMMA NumberOfScanners == lexScanners \in Seq(ScannerNames) /\ Len(lexScanners) \in Nat
                          /\ DOMAIN lexScanners = 1 .. Len(lexScanners)
BY ScannersRanked DEF Ranked

(* A better match takes something; a match of white space is one.          *)
LEMMA BetterMatch ==
  ASSUME LexInv, NEW scanner \in ScannerNames, NEW read, LeavesRest(scanner, read)
  PROVE  LET run == read.run
             better == Longer(run) /\ (run.out # NoToken \/ run.skips)
         IN /\ better <=> Taken(run) > lexScanned
            /\ better => Taken(run) = run.scan_count
            /\ Taken(run) \in Nat /\ lexScanned \in Nat
            /\ scanner = "whitespace" /\ run.state # "Init" => Taken(run) > 0
<1> DEFINE run == read.run
<1>1. run.scan_count \in Nat /\ lexScanned \in Nat
  BY DEF LeavesRest, LexInv, LexTypes
<1>2. Valid(scanner, run) /\ run.done
  BY DEF LeavesRest
<1> HIDE DEF run
<1>3. CASE run.out # NoToken \/ run.skips
  <2>1. Taken(run) = run.scan_count
    BY <1>3 DEF Taken
  <2>2. Longer(run) <=> run.scan_count > lexScanned
    BY <1>1 DEF Longer
  <2>3. scanner = "whitespace" /\ run.state # "Init" => run.scan_count > 0
    BY <1>2 DEF Valid
  <2> QED BY <1>1, <1>3, <2>1, <2>2, <2>3 DEF run
<1>4. CASE ~(run.out # NoToken \/ run.skips)
  <2>1. Taken(run) = 0
    BY <1>4 DEF Taken
  <2>2. ~(scanner = "whitespace" /\ run.state # "Init")
    BY <1>2, <1>4 DEF Valid
  <2>3. ~(Taken(run) > lexScanned)
    BY <1>1, <2>1
  <2> QED BY <1>1, <1>4, <2>1, <2>2, <2>3 DEF run
<1> QED BY <1>3, <1>4

\* It holds when a new token is asked for.
LEMMA NextTokenInv == LexInv /\ lexer_next_token => LexInv'
<1> SUFFICES ASSUME LexInv, lexer_next_token PROVE LexInv'
  OBVIOUS
<1>1. /\ lexLast' = NoToken /\ lexTurn' = 1 /\ lexScanned' = 0 /\ lexSuccess' = FALSE
      /\ UNCHANGED <<lexText, lexReader, lexStr, lexLeft, lexCount>>
  BY DEF lexer_next_token
<1>2. LexTypes'
  <2>1. Len(lexStr.chars) \in Nat
    BY DEF LexInv, Held, Buffers
  <2>2. lexScanned' \in 0 .. Len(lexStr'.chars) /\ lexTurn' \in 0 .. Len(lexScanners) + 1
    BY <1>1, <2>1, NumberOfScanners
  <2>3. lexLast' \in [code : Int, text : Seq(Char)] /\ lexSuccess' \in BOOLEAN
    BY <1>1, TokenCodes
  <2> QED BY <1>1, <2>2, <2>3 DEF LexInv, LexTypes
<1>3. Held(lexReader', lexStr', lexLeft') /\ TextCovered'
  BY <1>1 DEF LexInv, TextCovered, Rest
<1> QED BY <1>1, <1>2, <1>3, TokenCodes DEF LexInv, EndIsTheEnd

\* It holds after every match.
LEMMA MatchInv == LexInv /\ _lexer_match_token => LexInv'
<1> SUFFICES ASSUME LexInv, _lexer_match_token PROVE LexInv'
  OBVIOUS
<1>1. /\ lexTurn \in 1 .. Len(lexScanners) /\ lexTurn' = lexTurn + 1
      /\ lexText' = lexText /\ lexReader' = lexReader /\ lexCount' = lexCount
  BY MatchUnfolded, NumberOfScanners
<1>2. PICK scanner, read : Matches(scanner, read)
  BY MatchUnfolded
<1> DEFINE run == read.run
           better == Longer(run) /\ (run.out # NoToken \/ run.skips)
           white == scanner = "whitespace" /\ run.state # "Init"
<1>3. /\ scanner = lexScanners[lexTurn] /\ read = Read(scanner)
      /\ lexStr' = read.str /\ lexLeft' = read.left
      /\ lexScanned' = IF better THEN run.scan_count ELSE lexScanned
      /\ lexLast' \in {run.out, NoToken, lexLast}
      /\ lexSuccess' = (lexSuccess \/ better \/ white)
  <2> HIDE DEF run
  <2> QED BY <1>2 DEF Matches, run
<1>4. scanner \in ScannerNames
  BY <1>1, <1>3, NumberOfScanners
<1>5. LeavesRest(scanner, read)
  BY <1>3, <1>4, ReadsRest
<1>6. /\ better <=> Taken(run) > lexScanned
      /\ better => Taken(run) = run.scan_count
      /\ Taken(run) \in Nat /\ lexScanned \in Nat
      /\ white => Taken(run) > 0
  BY <1>4, <1>5, BetterMatch
<1>7. /\ Held(lexReader, read.str, read.left) /\ read.str.chars \o read.left = Rest
      /\ run.scan_count \in 0 .. Len(read.str.chars)
      /\ Len(lexStr.chars) \in Nat /\ Len(read.str.chars) \in Nat
      /\ Len(lexStr.chars) <= Len(read.str.chars)
      /\ run.out \in [code : Int, text : Seq(Char)] /\ run.out.code # TokenCodeEOF
  BY <1>5 DEF LeavesRest, Valid, RunIn
<1> HIDE DEF run, better, white
<1>8. lexScanned' \in 0 .. Len(lexStr'.chars)
  <2>1. lexScanned \in 0 .. Len(lexStr.chars)
    BY DEF LexInv, LexTypes
  <2> QED BY <1>3, <1>7, <2>1
<1>9. LexTypes'
  <2>1. lexTurn' \in 0 .. Len(lexScanners) + 1
    BY <1>1, NumberOfScanners
  <2>2. lexLast' \in [code : Int, text : Seq(Char)]
    BY <1>3, <1>7, TokenCodes DEF LexInv, LexTypes
  <2>3. lexSuccess' \in BOOLEAN
    BY <1>3 DEF better, white, LexInv, LexTypes
  <2> QED BY <1>1, <1>8, <2>1, <2>2, <2>3 DEF LexInv, LexTypes
<1>10. Held(lexReader', lexStr', lexLeft') /\ TextCovered'
  BY <1>1, <1>3, <1>7 DEF TextCovered, Rest
<1>11. lexTurn' # 0 /\ lexLast'.code # TokenCodeEOF
  <2>1. lexTurn \in Nat /\ lexTurn # 0
    BY <1>1, NumberOfScanners
  <2>2. lexLast.code # TokenCodeEOF
    BY <2>1 DEF LexInv
  <2>3. lexTurn' # 0
    BY <1>1, <2>1
  <2> QED BY <1>3, <1>7, <2>2, <2>3, TokenCodes
<1>12. lexSuccess' => lexScanned' > 0
  <2>1. lexSuccess => lexScanned > 0
    BY DEF LexInv
  <2>2. lexScanned' >= lexScanned /\ lexScanned' >= Taken(run)
    BY <1>3, <1>6
  <2>3. lexScanned' \in Nat
    BY <1>7, <1>8, <1>3
  <2>4. better => lexScanned' > 0
    BY <1>3, <1>6
  <2>5. white => lexScanned' > 0
    BY <1>6, <2>2, <2>3
  <2>6. lexSuccess => lexScanned' > 0
    BY <1>6, <2>1, <2>2, <2>3
  <2> QED BY <1>3, <2>4, <2>5, <2>6
<1> QED BY <1>9, <1>10, <1>11, <1>12 DEF LexInv, EndIsTheEnd

\* It holds when the best match is used.
LEMMA TokenInv == LexInv /\ lexer_token => LexInv'
<1> SUFFICES ASSUME LexInv, lexer_token PROVE LexInv'
  OBVIOUS
<1> DEFINE old == str_rewind(lexStr)
           single == lexer_get_char(lexReader, old, lexLeft)
           one == lexLast = NoToken /\ ~lexSuccess
           scanned == IF one THEN (IF single.ch > 0 THEN 1 ELSE 0) ELSE lexScanned
           last == IF ~one THEN lexLast
                   ELSE IF single.ch > 0 THEN [code |-> single.ch, text |-> <<single.ch>>]
                   ELSE [code |-> TokenCodeEOF, text |-> <<>>]
           str == IF one THEN single.str ELSE lexStr
           left == IF one THEN single.left ELSE lexLeft
<1>1. /\ lexTurn = Len(lexScanners) + 1
      /\ lexLast' = last /\ lexStr' = lexer_reset(str, scanned) /\ lexLeft' = left
      /\ lexCount' = lexCount + scanned /\ lexTurn' = IF last = NoToken THEN 1 ELSE 0
      /\ lexScanned' = 0 /\ lexSuccess' = FALSE /\ lexText' = lexText /\ lexReader' = lexReader
  BY DEF lexer_token
<1>2. /\ Held(lexReader, lexStr, lexLeft) /\ lexStr.chars \o lexLeft = Rest
      /\ lexReader \in {"stream", "string"} /\ Rest \in Seq(Char)
      /\ Len(Rest) = Len(lexText) - lexCount /\ lexCount \in Nat /\ Len(lexText) \in Nat
  BY RestTyped DEF LexInv, LexTypes, TextCovered
<1>3. Hands(lexReader, old, Rest, single) /\ old.pos = 0
  <2>1. old \in Buffers /\ old.chars = lexStr.chars /\ old.pos = 0 /\ old.size = lexStr.size
        /\ Len(old.chars) \in Nat
    <3>1. lexStr \in Buffers
      BY <1>2 DEF Held
    <3>2. Len(lexStr.chars) \in Nat
      BY <3>1 DEF Buffers
    <3> QED BY <3>1, <3>2 DEF str_rewind, Buffers
  <2>2. Held(lexReader, old, lexLeft)
    BY <1>2, <2>1 DEF Held
  <2> HIDE DEF old
  <2>3. Ready(lexReader, old, lexLeft, Rest)
    BY <1>2, <2>1, <2>2 DEF Ready
  <2> QED BY <1>2, <2>1, <2>3, CharRead
<1> HIDE DEF single, old
<1>4. /\ Held(lexReader, single.str, single.left) /\ single.str.chars \o single.left = Rest
      /\ single.ch \in Char /\ (single.ch # 0 => single.str.pos \in 1 .. Len(single.str.chars))
      /\ Plain(Rest) => single.ch = IF 0 < Len(Rest) THEN Rest[1] ELSE 0
  <2>1. /\ Held(lexReader, single.str, single.left) /\ single.str.chars \o single.left = Rest
        /\ single.ch \in Char
        /\ single.ch # 0 => single.str.pos \in old.pos + 1 .. Len(single.str.chars)
        /\ Plain(Rest) => single.ch = IF old.pos < Len(Rest) THEN Rest[old.pos + 1] ELSE 0
    BY <1>3 DEF Hands
  <2>2. old.pos = 0 /\ 0 + 1 = 1
    BY <1>3
  <2>3. old.pos + 1 = 1
    BY <2>2
  <2> QED BY <2>1, <2>2, <2>3
<1>5. Held(lexReader, str, left) /\ str.chars \o left = Rest /\ scanned \in 0 .. Len(str.chars)
  <2>1. CASE one
    <3>1. str = single.str /\ left = single.left /\ scanned = IF single.ch > 0 THEN 1 ELSE 0
      BY <2>1
    <3>2. single.str \in Buffers
      BY <1>4 DEF Held
    <3>3. Len(single.str.chars) \in Nat
      BY <3>2 DEF Buffers
    <3>4. single.ch > 0 => 1 <= Len(single.str.chars)
      BY <1>4, <3>3 DEF Char
    <3>5. (IF single.ch > 0 THEN 1 ELSE 0) \in 0 .. Len(single.str.chars)
      BY <3>3, <3>4
    <3> HIDE DEF str, left, scanned
    <3> QED BY <1>4, <3>1, <3>5
  <2>2. CASE ~one
    <3>1. str = lexStr /\ left = lexLeft /\ scanned = lexScanned
      BY <2>2
    <3> HIDE DEF str, left, scanned
    <3> QED BY <1>2, <3>1 DEF LexInv, LexTypes
  <2> QED BY <2>1, <2>2
<1>6. last \in [code : Int, text : Seq(Char)]
  <2>1. CASE ~one
    BY <2>1 DEF LexInv, LexTypes
  <2>2. CASE one /\ single.ch > 0
    <3>1. last = [code |-> single.ch, text |-> <<single.ch>>]
      BY <2>2
    <3>2. single.ch \in Int /\ <<single.ch>> \in Seq(Char)
      <4>1. single.ch \in Char
        BY <1>4
      <4>2. single.ch \in Int
        BY <4>1 DEF Char
      <4> QED BY <4>1, <4>2
    <3> HIDE DEF last
    <3> QED BY <3>1, <3>2
  <2>3. CASE one /\ ~(single.ch > 0)
    <3>1. last = [code |-> TokenCodeEOF, text |-> <<>>]
      BY <2>3
    <3>2. TokenCodeEOF \in Int /\ <<>> \in Seq(Char)
      BY DEF TokenCodeEOF
    <3> HIDE DEF last
    <3> QED BY <3>1, <3>2
  <2> QED BY <2>1, <2>2, <2>3
<1>7. last.code = TokenCodeEOF => ~(single.ch > 0) /\ one
  <2>1. CASE ~one
    <3>1. lexLast.code # TokenCodeEOF
      BY <1>1, NumberOfScanners DEF LexInv
    <3> QED BY <2>1, <3>1
  <2>2. CASE one /\ single.ch > 0
    <3>1. single.ch # TokenCodeEOF
      BY <1>4, TokenCodes
    <3> QED BY <2>2, <3>1
  <2>3. CASE one /\ ~(single.ch > 0)
    BY <2>3
  <2> QED BY <2>1, <2>2, <2>3
<1>8. Plain(Rest) /\ last.code = TokenCodeEOF => scanned = 0 /\ Len(Rest) = 0
  <2> SUFFICES ASSUME Plain(Rest), last.code = TokenCodeEOF PROVE scanned = 0 /\ Len(Rest) = 0
    OBVIOUS
  <2>1. ~(single.ch > 0) /\ one
    BY <1>7
  <2>2. ~(0 < Len(Rest))
    <3> SUFFICES ASSUME 0 < Len(Rest) PROVE FALSE
      OBVIOUS
    <3>1. 1 \in 1 .. Len(Rest)
      BY <1>2
    <3>2. Rest[1] > 0
      BY <3>1 DEF Plain
    <3> QED BY <1>4, <2>1, <3>2
  <2> QED BY <1>2, <2>1, <2>2
<1>9. last = NoToken => last.code # TokenCodeEOF
  BY TokenCodes
<1> HIDE DEF one, scanned, last, str, left
<1>10. Held(lexReader, lexer_reset(str, scanned), left)
       /\ lexer_reset(str, scanned).chars \o left = SubSeq(Rest, scanned + 1, Len(Rest))
  BY <1>5, ResetHeld
<1>11. scanned \in Nat /\ scanned <= Len(Rest)
  <2>1. Len(str.chars) \in Nat /\ str.chars \in Seq(Char) /\ left \in Seq(Char)
    BY <1>5 DEF Held, Buffers
  <2> DEFINE a == str.chars
  <2>2. Len(a \o left) = Len(a) + Len(left) /\ Len(a) \in Nat /\ Len(left) \in Nat
    <3> HIDE DEF a
    <3>1. a \in Seq(Char)
      BY <2>1 DEF a
    <3> QED BY <2>1, <3>1, Parts
  <2>3. Len(Rest) = Len(a) + Len(left)
    BY <1>5, <2>2
  <2> QED BY <1>5, <2>2, <2>3
<1>12. Rest' = SubSeq(Rest, scanned + 1, Len(Rest))
  <2> DEFINE k == lexCount + scanned
             n == Len(lexText)
             v == SubSeq(lexText, k + 1, n)
             w == SubSeq(Rest, scanned + 1, Len(Rest))
  <2>1. Rest' = v
    BY <1>1 DEF Rest
  <2>2. lexText \in Seq(Char) /\ k \in Nat /\ k <= n /\ n \in Nat /\ Len(Rest) - scanned = n - k
    BY <1>2, <1>11 DEF LexInv, LexTypes
  <2>3. v \in Seq(Char) /\ Len(v) = n - k /\ \A i \in 1 .. n - k : v[i] = lexText[k + i]
    <3> HIDE DEF k
    <3> QED BY <2>2, Behind
  <2>4. w \in Seq(Char) /\ Len(w) = n - k /\ \A i \in 1 .. n - k : w[i] = Rest[scanned + i]
    <3> DEFINE rest == Rest
               m == Len(rest)
    <3>1. rest \in Seq(Char) /\ m \in Nat /\ scanned \in Nat /\ scanned <= m /\ m - scanned = n - k
      BY <1>2, <1>11, <2>2
    <3> HIDE DEF rest, k
    <3>2. LET u == SubSeq(rest, scanned + 1, m)
          IN u \in Seq(Char) /\ Len(u) = m - scanned
             /\ \A i \in 1 .. m - scanned : u[i] = rest[scanned + i]
      BY <3>1, Behind
    <3> QED BY <3>1, <3>2 DEF rest
  <2>5. ASSUME NEW i \in 1 .. n - k PROVE Rest[scanned + i] = lexText[k + i]
    <3>1. scanned + i \in 1 .. n - lexCount /\ lexCount + (scanned + i) = k + i
      BY <2>2, <1>2, <1>11
    <3>2. \A j \in 1 .. n - lexCount : Rest[j] = lexText[lexCount + j]
      <4>1. lexCount \in Nat /\ lexCount <= n
        BY DEF LexInv, LexTypes
      <4> QED BY <2>2, <4>1 DEF Rest
    <3> QED BY <3>1, <3>2
  <2> DEFINE d == n - k
  <2>6. d \in Nat
    BY <2>2
  <2>7. Len(v) = d /\ Len(w) = d /\ \A i \in 1 .. d : v[i] = w[i]
    BY <2>3, <2>4, <2>5
  <2> HIDE DEF v, w, d
  <2>8. v = w
    BY <2>3, <2>4, <2>6, <2>7
  <2> QED BY <2>1, <2>8 DEF w
<1>13. Held(lexReader', lexStr', lexLeft') /\ TextCovered'
  BY <1>1, <1>10, <1>12 DEF TextCovered
<1>14. LexTypes'
  <2>1. lexCount' \in 0 .. Len(lexText')
    <3>1. lexCount + scanned \in 0 .. Len(lexText)
      BY <1>2, <1>11
    <3> QED BY <1>1, <3>1
  <2>2. lexScanned' \in 0 .. Len(lexStr'.chars)
    <3>1. Len(lexStr'.chars) \in Nat
      BY <1>13 DEF Held, Buffers
    <3> QED BY <1>1, <3>1
  <2>3. lexTurn' \in 0 .. Len(lexScanners) + 1
    BY <1>1, NumberOfScanners
  <2> QED BY <1>1, <1>6, <2>1, <2>2, <2>3 DEF LexInv, LexTypes
<1>15. lexTurn' # 0 => lexLast'.code # TokenCodeEOF
  BY <1>1, <1>9
<1>16. EndIsTheEnd'
  <2> SUFFICES ASSUME Ascii', lexLast'.code = TokenCodeEOF PROVE Rest' = <<>>
    BY DEF EndIsTheEnd
  <2>1. Plain(Rest)
    <3>1. Ascii
      BY <1>1 DEF Ascii
    <3> QED BY <3>1, RestPlain DEF LexInv
  <2>2. scanned = 0 /\ Len(Rest) = 0
    BY <1>1, <1>8, <2>1
  <2>3. Rest = <<>>
    BY <1>2, <2>2, EmptySeq
  <2> DEFINE none == <<>>
  <2>4. SubSeq(none, 0 + 1, 0) = none
    OBVIOUS
  <2> QED BY <1>12, <2>2, <2>3, <2>4
<1> QED BY <1>1, <1>13, <1>14, <1>15, <1>16 DEF LexInv

\* It is an invariant.
LEMMA LexInvariant == LexSpec => []LexInv
<1>1. LexInit => LexInv
  BY LexInitInv
<1>2. LexInv /\ [LexNext]_lexVars => LexInv'
  <2> SUFFICES ASSUME LexInv, [LexNext]_lexVars PROVE LexInv'
    OBVIOUS
  <2>1. CASE lexer_next_token
    BY <2>1, NextTokenInv
  <2>2. CASE _lexer_match_token
    BY <2>2, MatchInv
  <2>3. CASE lexer_token
    BY <2>3, TokenInv
  <2>4. CASE UNCHANGED lexVars
    BY <2>4 DEF lexVars, LexInv, LexTypes, TextCovered, EndIsTheEnd, Rest, Ascii
  <2> QED BY <2>1, <2>2, <2>3, <2>4 DEF LexNext
<1> QED BY <1>1, <1>2, PTL DEF LexSpec

(* lexer.c:316 -- for every text, every configuration of scanners and      *)
(* every size of the buffer: no character is lost or read twice, and the   *)
(* End comes at the end.                                                   *)
THEOREM TextIsCovered == LexSpec => []TokensCoverText
<1>1. LexInv => TokensCoverText
  BY DEF LexInv, TokensCoverText
<1> QED BY <1>1, LexInvariant, PTL

(* lexer.c:304, keyword.c:303 -- however a text is cut into chunks, a      *)
(* scanner reads it as it reads all of it at once.                         *)
THEOREM ChunksAreInvisible == LexSpec => []ChunksDontMatter
<1>1. LexInv => ChunksDontMatter
  <2> SUFFICES ASSUME LexInv, Ascii, lexTurn \in DOMAIN lexScanners
               PROVE  Read(lexScanners[lexTurn]).run = Whole(lexScanners[lexTurn])
    BY DEF ChunksDontMatter, Read
  <2>1. lexScanners[lexTurn] \in ScannerNames
    BY NumberOfScanners
  <2> QED BY <2>1, ReadsWhole, RestPlain DEF LexInv
<1> QED BY <1>1, LexInvariant, PTL

-----------------------------------------------------------------------------
\* A run that has taken nothing.
Nothing(run) == run.done /\ Taken(run) = 0

Fresh(top, c) == [FreshRun(top) EXCEPT !.ch = c]

\* What a run begins with.
LEMMA FreshFields ==
  ASSUME NEW top, NEW c
  PROVE  /\ Fresh(top, c).ch = c /\ Fresh(top, c).state = "Init" /\ Fresh(top, c).token = <<>>
         /\ Fresh(top, c).known = <<>> /\ Fresh(top, c).out = NoToken /\ ~Fresh(top, c).skips
         /\ Fresh(top, c).scan_count = 0
         /\ NoMatch(Fresh(top, c)).done /\ NoMatch(Fresh(top, c)).out = NoToken
         /\ ~NoMatch(Fresh(top, c)).skips
BY DEF Fresh, FreshRun, NoMatch

\* A run that ends at once has taken nothing.
LEMMA NoMatchTakesNothing ==
  ASSUME NEW top, NEW c
  PROVE  Nothing(NoMatch(Fresh(top, c)))
BY FreshFields DEF Nothing, Taken

(* White space and what the other scanners look for exclude each other.    *)
LEMMA SpaceStarts ==
  ASSUME NEW c, IsSpace(c)
  PROVE  /\ \A kw \in Keyword : ~IsPrefix(<<c>>, kw)
         /\ \A i \in DOMAIN Markers : ~IsPrefix(<<c>>, Markers[i].start)
         /\ c \notin QuoteChars /\ c # 0
         /\ ~IsAlpha(c) /\ ~IsDigit(c) /\ c # Underscore /\ c # Plus /\ c # Minus /\ c # Period
         /\ tolower(c) = c
<1> DEFINE starts == Keyword \cup {Markers[i].start : i \in DOMAIN Markers} \cup {<<d>> : d \in QuoteChars}
<1>1. \A cs \in starts : cs # <<>> => ~IsSpace(Head(cs))
  BY SpaceAssumption
<1>2. ASSUME NEW cs \in starts, cs \in Seq(Printed), IsPrefix(<<c>>, cs) PROVE FALSE
  <2>1. Len(cs) >= 1 /\ cs[1] = c
    <3> DEFINE one == <<c>>
    <3>1. Len(one) = 1 /\ one[1] = c
      OBVIOUS
    <3>2. Len(one) <= Len(cs) /\ SubSeq(one, 1, Len(one)) = SubSeq(cs, 1, Len(one))
      BY <1>2 DEF IsPrefix
    <3>3. SubSeq(cs, 1, 1)[1] = cs[1]
      <4>1. 1 \in 1 .. Len(cs) /\ Len(cs) \in Nat
        BY <1>2, <3>1, <3>2
      <4> QED BY <1>2, <4>1
    <3>4. SubSeq(one, 1, 1)[1] = c
      OBVIOUS
    <3> QED BY <3>1, <3>2, <3>3, <3>4
  <2>2. cs # <<>> /\ Head(cs) = c
    BY <1>2, <2>1
  <2> QED BY <1>1, <2>2
<1>3. \A kw \in Keyword : ~IsPrefix(<<c>>, kw)
  BY <1>2, ScannersAssumption
<1>4. ASSUME NEW i \in DOMAIN Markers PROVE ~IsPrefix(<<c>>, Markers[i].start)
  <2>1. Markers[i].start \in starts
    OBVIOUS
  <2>2. Markers[i].start \in Seq(Printed)
    BY MarkerTypes
  <2> QED BY <1>2, <2>1, <2>2
<1>5. c \notin QuoteChars
  <2> SUFFICES ASSUME c \in QuoteChars PROVE FALSE
    OBVIOUS
  <2>1. <<c>> \in starts /\ <<c>> # <<>> /\ Head(<<c>>) = c
    OBVIOUS
  <2> QED BY <1>1, <2>1
<1>6. c \in (9 .. 13) \cup {32}
  BY DEF IsSpace
<1>7. /\ ~IsAlpha(c) /\ ~IsDigit(c) /\ c # Underscore /\ c # Plus /\ c # Minus /\ c # Period
      /\ tolower(c) = c /\ c # 0
  BY <1>6 DEF IsAlpha, IsDigit, Underscore, Plus, Minus, Period, tolower
<1> QED BY <1>3, <1>4, <1>5, <1>7

(* The first character decides whether white space is taken or the rest.   *)
LEMMA FirstCharacter ==
  ASSUME NEW scanner \in ScannerNames, NEW top \in BOOLEAN, NEW c,
         IF scanner = "whitespace" THEN ~IsSpace(c) ELSE IsSpace(c)
  PROVE  Nothing(ScanStep(scanner, Fresh(top, c)))
<1> DEFINE run == Fresh(top, c)
<1>1. /\ run.ch = c /\ run.state = "Init" /\ run.token = <<>> /\ run.known = <<>>
      /\ run.out = NoToken /\ ~run.skips /\ run.scan_count = 0
  BY FreshFields
<1>2. Nothing(NoMatch(run))
  BY NoMatchTakesNothing
<1> HIDE DEF run
<1>3. CASE scanner = "whitespace"
  <2>1. WsStep(run) = NoMatch(run)
    BY <1>1, <1>3 DEF WsStep
  <2> QED BY <1>2, <1>3, <2>1 DEF ScanStep, run
<1>4. CASE scanner # "whitespace"
  <2>0. IsSpace(c)
    BY <1>4
  <2>1. Append(<<>>, c) = <<c>>
    OBVIOUS
  <2>2. CASE scanner = "comment"
    <3>1. Matching(run, <<c>>) = {}
      BY <2>0, SpaceStarts DEF Matching
    <3>2. CommentStep(run) = NoMatch(run)
      BY <1>1, <2>1, <3>1 DEF CommentStep
    <3> QED BY <1>2, <2>2, <3>2 DEF ScanStep, run
  <2>3. CASE scanner = "keyword"
    <3>1. Candidates(<<c>>) = {} /\ c # 0
      BY <2>0, SpaceStarts DEF Candidates
    <3>2. KwStep(run) = NoMatch(run)
      BY <1>1, <2>1, <3>1 DEF KwStep
    <3> QED BY <1>2, <2>3, <3>2 DEF ScanStep, run
  <2>4. CASE scanner = "identifier"
    <3>1. ~_id_config_filter(run)
      BY <1>1, <2>0, SpaceStarts DEF _id_config_filter
    <3>2. IdStep(run) = lexer_accept(run, TokenCodeIdentifier)
      BY <3>1 DEF IdStep
    <3>3. Nothing(lexer_accept(run, TokenCodeIdentifier))
      <4> DEFINE token == [code |-> TokenCodeIdentifier,
                           text |-> IF TokenCodeIdentifier = TokenCodeError THEN <<>> ELSE run.token]
                 after == [run EXCEPT !.done = TRUE, !.out = token]
      <4>1. lexer_accept(run, TokenCodeIdentifier) = after
        BY DEF lexer_accept
      <4> HIDE DEF token
      <4>2. after.done /\ after.scan_count = 0
        BY <1>1 DEF run, Fresh, FreshRun
      <4> HIDE DEF after
      <4> QED BY <4>1, <4>2 DEF Nothing, Taken
    <3> QED BY <2>4, <3>2, <3>3 DEF ScanStep, run
  <2>5. CASE scanner = "number"
    <3>1. NumNext(run, c) = "Done" /\ tolower(run.ch) = c
      BY <1>1, <2>0, SpaceStarts DEF NumNext
    <3>2. NumCode(run.state) = TokenCodeNone
      BY <1>1 DEF NumCode
    <3>3. NumStep(run) = NoMatch(run)
      BY <3>1, <3>2 DEF NumStep
    <3> QED BY <1>2, <2>5, <3>3 DEF ScanStep, run
  <2>6. CASE scanner = "qstring"
    <3>1. c \notin QuoteChars /\ c # 0
      BY <2>0, SpaceStarts
    <3>2. QStrStep(run) = NoMatch(run)
      BY <1>1, <3>1 DEF QStrStep
    <3> QED BY <1>2, <2>6, <3>2 DEF ScanStep, run
  <2> QED BY <1>4, <2>2, <2>3, <2>4, <2>5, <2>6 DEF ScannerNames
<1> QED BY <1>3, <1>4

\* What the first character decides holds for the rest.
LEMMA FirstDecides ==
  ASSUME LexTypes, NEW scanner \in ScannerNames, NEW c, c = (IF Len(Rest) > 0 THEN Rest[1] ELSE 0),
         IF scanner = "whitespace" THEN ~IsSpace(c) ELSE IsSpace(c)
  PROVE  Taken(Whole(scanner)) = 0
<1> DEFINE top == lexCount = 0
           str == str_copy_chars(Rest)
           source == "string"
           none == <<>>
           at == lexer_rewind(str, none, top)
           first == ReadOn(scanner, source, at)
<1>1. top \in BOOLEAN
  OBVIOUS
<1>2. Rest \in Seq(Char) /\ Len(Rest) \in Nat
  BY RestTyped
<1>3. Held(source, str, none) /\ str.chars = Rest
  <2>1. str \in Buffers /\ str.chars = Rest /\ str.size = Len(Rest) + 1
    BY <1>2 DEF str_copy_chars, str_create, Buffers
  <2>2. str.size >= 1 /\ <<>> \in Seq(Char)
    BY <1>2, <2>1
  <2> QED BY <2>1, <2>2 DEF Held
<1>4. Whole(scanner) = match(scanner, source, at).run
  BY DEF Whole
<1>5. source \in {"stream", "string"}
  OBVIOUS
<1>6. lexer_get_char(source, at.str, at.left).ch = c
  <2> DEFINE s == at.str
  <2>1. s.chars = Rest /\ s.pos = 0
    BY <1>2 DEF lexer_rewind, str_rewind, str_copy_chars, str_create
  <2> HIDE DEF s
  <2>2. str_peek(s) = c
    BY <1>2, <2>1 DEF str_peek
  <2> QED BY <2>2 DEF lexer_get_char, s
<1>7. at.run = FreshRun(top) /\ ~FreshRun(top).done
  BY DEF lexer_rewind, FreshRun
<1> HIDE DEF top, str, source, none
<1>8. at \in AtWork(scanner, source, str.chars \o none) /\ Placed(str.chars \o none, 0, at)
  BY <1>1, <1>3, Begins
<1> HIDE DEF at
<1>9. first.run = ScanStep(scanner, Fresh(top, c))
  BY <1>6, <1>7 DEF ReadOn, Fresh
<1>10. Nothing(first.run)
  BY <1>1, <1>9, FirstCharacter
<1>11. first.run.done => match(scanner, source, at) = first
  BY <1>5, <1>8, Matched
<1> QED BY <1>4, <1>10, <1>11 DEF Nothing

\* What scanner i takes of the text.
TakenBy(i) == Taken(Whole(lexScanners[i]))

\* The first of the longest matches of the first n scanners is the m-th.
FirstOf(m, n) ==
  /\ m \in 1 .. n /\ TakenBy(m) > 0
  /\ \A i \in 1 .. n : TakenBy(i) <= TakenBy(m) /\ (i < m => TakenBy(i) < TakenBy(m))

\* The best match of the first n scanners is what the lexer has kept.
BestOf(n) ==
  \/ (\A i \in 1 .. n : TakenBy(i) = 0) /\ lexScanned = 0 /\ lexLast = NoToken
  \/ \E m \in 1 .. n : /\ FirstOf(m, n) /\ lexScanned = TakenBy(m)
                       /\ lexLast = Whole(lexScanners[m]).out

BestInv == LexInv /\ ((Ascii /\ lexTurn # 0) => BestOf(lexTurn - 1))

\* A number of characters.
LEMMA TakenNat ==
  ASSUME LexInv, Plain(Rest), NEW i \in 1 .. Len(lexScanners)
  PROVE  TakenBy(i) \in Nat
<1> DEFINE scanner == lexScanners[i]
<1>1. scanner \in ScannerNames
  BY NumberOfScanners
<1> HIDE DEF scanner
<1>2. LeavesRest(scanner, Read(scanner))
  BY <1>1, ReadsRest
<1>3. Taken(Read(scanner).run) \in Nat
  BY <1>1, <1>2, BetterMatch
<1>4. Read(scanner).run = Whole(scanner)
  BY <1>1, ReadsWhole
<1> QED BY <1>3, <1>4 DEF TakenBy, scanner

(* Something is skipped only when no token has been found before.          *)
LEMMA SkipsFirst ==
  ASSUME LexInv, Plain(Rest), lexTurn \in 1 .. Len(lexScanners), BestOf(lexTurn - 1),
         lexScanners[lexTurn] \in {"comment", "whitespace"}, TakenBy(lexTurn) > lexScanned
  PROVE  lexLast = NoToken
<1> DEFINE t == lexTurn
           scanner == lexScanners[t]
<1>1. t \in Nat /\ t \in 1 .. Len(lexScanners)
  BY NumberOfScanners
<1>2. SUFFICES ASSUME NEW m \in 1 .. t - 1, TakenBy(m) > 0, lexScanned = TakenBy(m) PROVE FALSE
  BY DEF BestOf, FirstOf
<1>3. m \in 1 .. Len(lexScanners) /\ m <= t
  BY <1>1, NumberOfScanners
<1>4. TakenBy(m) \in Nat /\ TakenBy(t) \in Nat /\ TakenBy(t) > TakenBy(m) /\ TakenBy(t) # TakenBy(m)
  BY <1>1, <1>2, <1>3, TakenNat
<1>5. lexScanners[m] # lexScanners[t]
  BY <1>4 DEF TakenBy
<1>6. lexScanners[m] \in ScannerNames /\ lexScanners[t] \in ScannerNames
  BY <1>1, <1>3, NumberOfScanners
<1>7. CASE scanner = "comment"
  <2>1. Priority(lexScanners[t]) <= Priority(lexScanners[m])
    BY <1>1, <1>3, ScannersRanked DEF Ranked
  <2>2. Priority(lexScanners[t]) = 20
    BY <1>7 DEF Priority
  <2>3. lexScanners[m] # "comment"
    BY <1>5, <1>7
  <2>4. Priority(lexScanners[m]) \in {0, 10}
    BY <2>3, <1>6 DEF Priority
  <2> QED BY <2>1, <2>2, <2>4
<1>8. CASE scanner = "whitespace"
  <2> DEFINE c == IF Len(Rest) > 0 THEN Rest[1] ELSE 0
  <2>1. LexTypes
    BY DEF LexInv
  <2>2. CASE IsSpace(c)
    <3>1. lexScanners[m] # "whitespace"
      BY <1>5, <1>8
    <3>2. Taken(Whole(lexScanners[m])) = 0
      <4> HIDE DEF c
      <4>1. c = (IF Len(Rest) > 0 THEN Rest[1] ELSE 0)
        BY DEF c
      <4> QED BY <1>6, <2>1, <2>2, <3>1, <4>1, FirstDecides
    <3> QED BY <1>2, <3>2 DEF TakenBy
  <2>3. CASE ~IsSpace(c)
    <3>1. Taken(Whole(lexScanners[t])) = 0
      <4> HIDE DEF c
      <4>1. c = (IF Len(Rest) > 0 THEN Rest[1] ELSE 0)
        BY DEF c
      <4> QED BY <1>6, <1>8, <2>1, <2>3, <4>1, FirstDecides
    <3> QED BY <1>4, <3>1 DEF TakenBy
  <2> QED BY <2>2, <2>3
<1> QED BY <1>7, <1>8

\* A match keeps the best of them.
LEMMA BestMatch == BestInv /\ _lexer_match_token => BestInv'
<1> SUFFICES ASSUME BestInv, _lexer_match_token PROVE BestInv'
  OBVIOUS
<1>1. LexInv /\ LexInv'
  BY MatchInv DEF BestInv
<1>2. SUFFICES ASSUME Ascii', lexTurn' # 0 PROVE BestOf(lexTurn - 1)'
  BY <1>1 DEF BestInv
<1>t. PICK t : t = lexTurn
  OBVIOUS
<1>3. /\ t \in 1 .. Len(lexScanners) /\ t \in Nat /\ lexTurn' = t + 1
      /\ lexText' = lexText /\ lexReader' = lexReader /\ lexCount' = lexCount
  BY <1>t, MatchUnfolded, NumberOfScanners
<1>4. Ascii /\ Plain(Rest) /\ BestOf(t - 1)
  <2>1. Ascii
    BY <1>2, <1>3 DEF Ascii
  <2>2. lexTurn # 0
    BY <1>t, <1>3
  <2> QED BY <2>1, <2>2, <1>t, <1>1, RestPlain DEF LexInv, BestInv
<1>5. PICK scanner, read : Matches(scanner, read)
  BY MatchUnfolded
<1> DEFINE run == read.run
           better == Longer(run) /\ (run.out # NoToken \/ run.skips)
<1>6. /\ scanner = lexScanners[t] /\ read = Read(scanner)
      /\ lexScanned' = IF better THEN run.scan_count ELSE lexScanned
      /\ lexLast' = IF better /\ run.out # NoToken THEN run.out
                    ELSE IF better /\ scanner = "comment" /\ run.end # <<>> THEN NoToken
                    ELSE lexLast
  BY <1>5, <1>t DEF Matches
<1>7. scanner \in ScannerNames
  BY <1>3, <1>6, NumberOfScanners
<1>8. LeavesRest(scanner, read)
  BY <1>1, <1>6, <1>7, ReadsRest
<1>9. run = Whole(scanner) /\ TakenBy(t) = Taken(run)
  BY <1>1, <1>4, <1>6, <1>7, ReadsWhole DEF TakenBy
<1>10. (better <=> TakenBy(t) > lexScanned) /\ (better => TakenBy(t) = run.scan_count)
       /\ TakenBy(t) \in Nat /\ lexScanned \in Nat
  BY <1>1, <1>7, <1>8, <1>9, BetterMatch
<1>11. /\ ~(run.out # NoToken) /\ run.skips => scanner \in {"comment", "whitespace"}
       /\ better => run.out # NoToken \/ run.skips
  BY <1>8 DEF LeavesRest, Valid
<1>12. better => lexScanned' = TakenBy(t) /\ lexLast' = run.out
  <2> SUFFICES ASSUME better PROVE lexScanned' = TakenBy(t) /\ lexLast' = run.out
    OBVIOUS
  <2>1. CASE run.out # NoToken
    BY <1>6, <1>10, <2>1
  <2>2. CASE ~(run.out # NoToken)
    <3>1. scanner \in {"comment", "whitespace"}
      BY <1>11, <2>2
    <3>2. TakenBy(t) > lexScanned
      BY <1>10
    <3>3. lexLast = NoToken
      BY <1>t, <1>1, <1>3, <1>4, <1>6, <3>1, <3>2, SkipsFirst
    <3>4. lexLast' \in {NoToken, lexLast}
      BY <1>6, <2>2
    <3>5. lexScanned' = TakenBy(t)
      BY <1>6, <1>10
    <3> QED BY <2>2, <3>3, <3>4, <3>5
  <2> QED BY <2>1, <2>2
<1>13. ~better => lexScanned' = lexScanned /\ lexLast' = lexLast
  BY <1>6
<1> HIDE DEF better, run
<1>14. \A i \in 1 .. t : TakenBy(i)' = TakenBy(i) /\ Whole(lexScanners[i])' = Whole(lexScanners[i])
       /\ TakenBy(i) \in Nat
  <2> SUFFICES ASSUME NEW i \in 1 .. t
               PROVE  /\ TakenBy(i)' = TakenBy(i) /\ Whole(lexScanners[i])' = Whole(lexScanners[i])
                      /\ TakenBy(i) \in Nat
    OBVIOUS
  <2>1. i \in 1 .. Len(lexScanners)
    BY <1>3, NumberOfScanners
  <2>2. Whole(lexScanners[i])' = Whole(lexScanners[i])
    BY <1>3 DEF Whole, Rest
  <2> QED BY <2>1, <2>2, <1>1, <1>4, TakenNat DEF TakenBy
<1>15. lexTurn' - 1 = t /\ t \in 1 .. t
  BY <1>3
<1>16. SUFFICES \/ (\A i \in 1 .. t : TakenBy(i) = 0) /\ lexScanned' = 0 /\ lexLast' = NoToken
                \/ \E m \in 1 .. t : /\ FirstOf(m, t) /\ lexScanned' = TakenBy(m)
                                     /\ lexLast' = Whole(lexScanners[m]).out
  <2>1. (lexTurn - 1)' = t
    BY <1>15
  <2>2. \A m \in 1 .. t : FirstOf(m, t) => FirstOf(m, lexTurn - 1)'
    BY <1>14, <2>1 DEF FirstOf
  <2> QED BY <1>14, <2>1, <2>2 DEF BestOf
<1>17. CASE better
  <2>1. ASSUME NEW i \in 1 .. t - 1 PROVE i \in 1 .. t /\ TakenBy(i) <= lexScanned
    <3>1. i \in 1 .. t
      BY <1>3
    <3>2. CASE \A j \in 1 .. t - 1 : TakenBy(j) = 0
      BY <1>10, <3>1, <3>2
    <3>3. CASE \E m \in 1 .. t - 1 : FirstOf(m, t - 1) /\ lexScanned = TakenBy(m)
      BY <3>1, <3>3 DEF FirstOf
    <3> QED BY <1>4, <3>2, <3>3 DEF BestOf
  <2>2. TakenBy(t) > lexScanned
    BY <1>10, <1>17
  <2>3. ASSUME NEW i \in 1 .. t PROVE TakenBy(i) <= TakenBy(t) /\ (i < t => TakenBy(i) < TakenBy(t))
    <3>1. CASE i = t
      BY <1>3, <1>10, <3>1
    <3>2. CASE i # t
      <4>1. i \in 1 .. t - 1
        BY <1>3, <3>2
      <4> QED BY <4>1, <1>10, <1>14, <2>1, <2>2
    <3> QED BY <3>1, <3>2
  <2>4. FirstOf(t, t)
    <3>1. TakenBy(t) > 0
      BY <1>10, <2>2
    <3> QED BY <1>15, <2>3, <3>1 DEF FirstOf
  <2> QED BY <1>6, <1>9, <1>12, <1>15, <1>17, <2>4
<1>18. CASE ~better
  <2>1. TakenBy(t) <= lexScanned
    BY <1>10, <1>18
  <2>2. CASE (\A i \in 1 .. t - 1 : TakenBy(i) = 0) /\ lexScanned = 0 /\ lexLast = NoToken
    <3>1. ASSUME NEW i \in 1 .. t PROVE TakenBy(i) = 0
      <4>1. CASE i = t
        BY <1>10, <2>1, <2>2, <4>1
      <4>2. CASE i # t
        <5>1. i \in 1 .. t - 1
          BY <1>3, <4>2
        <5> QED BY <5>1, <2>2
      <4> QED BY <4>1, <4>2
    <3> QED BY <1>13, <1>18, <2>2, <3>1
  <2>3. CASE \E m \in 1 .. t - 1 : /\ FirstOf(m, t - 1) /\ lexScanned = TakenBy(m)
                                   /\ lexLast = Whole(lexScanners[m]).out
    <3>1. PICK m \in 1 .. t - 1 : /\ FirstOf(m, t - 1) /\ lexScanned = TakenBy(m)
                                  /\ lexLast = Whole(lexScanners[m]).out
      BY <2>3
    <3>2. m \in 1 .. t /\ ~(t < m)
      BY <1>3
    <3>3. ASSUME NEW i \in 1 .. t PROVE TakenBy(i) <= TakenBy(m) /\ (i < m => TakenBy(i) < TakenBy(m))
      <4>1. CASE i = t
        BY <2>1, <3>1, <3>2, <4>1
      <4>2. CASE i # t
        <5>1. i \in 1 .. t - 1
          BY <1>3, <4>2
        <5> QED BY <5>1, <3>1 DEF FirstOf
      <4> QED BY <4>1, <4>2
    <3>4. FirstOf(m, t)
      BY <3>1, <3>2, <3>3 DEF FirstOf
    <3> QED BY <1>13, <1>18, <3>1, <3>2, <3>4
  <2> QED BY <1>4, <2>2, <2>3 DEF BestOf
<1> QED BY <1>17, <1>18

\* It is an invariant as well.
LEMMA BestInvariant == LexSpec => []BestInv
<1>1. LexInit => BestInv
  BY LexInitInv DEF BestInv, LexInit, LexStart
<1>2. BestInv /\ [LexNext]_lexVars => BestInv'
  <2> SUFFICES ASSUME BestInv, [LexNext]_lexVars PROVE BestInv'
    OBVIOUS
  <2>a. LexInv
    BY DEF BestInv
  <2>b. ASSUME lexTurn' = 1, lexScanned' = 0, lexLast' = NoToken PROVE BestOf(lexTurn - 1)'
    <3>1. (lexTurn - 1)' = 0
      BY <2>b
    <3> QED BY <2>b, <3>1 DEF BestOf
  <2>1. CASE lexer_next_token
    <3>1. LexInv'
      BY <2>1, <2>a, NextTokenInv
    <3>2. lexTurn' = 1 /\ lexScanned' = 0 /\ lexLast' = NoToken
      BY <2>1 DEF lexer_next_token
    <3> QED BY <2>b, <3>1, <3>2 DEF BestInv
  <2>2. CASE _lexer_match_token
    BY <2>2, BestMatch
  <2>3. CASE lexer_token
    <3>1. LexInv'
      BY <2>3, <2>a, TokenInv
    <3>2. lexTurn' # 0 => lexTurn' = 1 /\ lexScanned' = 0 /\ lexLast' = NoToken
      BY <2>3 DEF lexer_token
    <3> QED BY <2>b, <3>1, <3>2 DEF BestInv
  <2>4. CASE UNCHANGED lexVars
    <3>1. LexInv'
      BY <2>4, <2>a DEF lexVars, LexInv, LexTypes, TextCovered, EndIsTheEnd, Rest, Ascii
    <3>2. /\ lexText' = lexText /\ lexTurn' = lexTurn /\ lexScanned' = lexScanned
          /\ lexLast' = lexLast /\ lexCount' = lexCount
      BY <2>4 DEF lexVars
    <3>3. Ascii' <=> Ascii
      BY <3>2 DEF Ascii
    <3>4. BestOf(lexTurn - 1)' <=> BestOf(lexTurn - 1)
      BY <3>2 DEF BestOf, FirstOf, TakenBy, Whole, Rest
    <3> QED BY <3>1, <3>2, <3>3, <3>4 DEF BestInv
  <2> QED BY <2>1, <2>2, <2>3, <2>4 DEF LexNext
<1> QED BY <1>1, <1>2, PTL DEF LexSpec

\* The least of a set of numbers.
LEMMA LeastOf ==
  ASSUME NEW S \in SUBSET Int, NEW m \in S, \A i \in S : m <= i
  PROVE  Min(S) = m
<1>1. \A x \in S : (\A y \in S : x <= y) => x = m
  <2> SUFFICES ASSUME NEW x \in S, \A y \in S : x <= y PROVE x = m
    OBVIOUS
  <2>1. x <= m /\ m <= x /\ x \in Int /\ m \in Int
    OBVIOUS
  <2> QED BY <2>1
<1> QED BY <1>1 DEF Min

\* And the largest.
LEMMA MostOf ==
  ASSUME NEW S \in SUBSET Int, NEW m \in S, \A i \in S : i <= m
  PROVE  Max(S) = m
<1>1. \A x \in S : (\A y \in S : x >= y) => x = m
  <2> SUFFICES ASSUME NEW x \in S, \A y \in S : x >= y PROVE x = m
    OBVIOUS
  <2>1. x >= m /\ m >= x /\ x \in Int /\ m \in Int
    OBVIOUS
  <2> QED BY <2>1
<1>2. \A y \in S : m >= y
  OBVIOUS
<1> QED BY <1>1, <1>2 DEF Max

(* lexer.c:336, lexercfg.c:146 -- for every text and every configuration   *)
(* of scanners: at the end of the pass the longest match has won, the      *)
(* first of them by priority.                                              *)
THEOREM LongestWins == LexSpec => []LongestMatchWins
<1>1. BestInv => LongestMatchWins
  <2> SUFFICES ASSUME BestInv, Ascii, lexTurn = Len(lexScanners) + 1 PROVE LongestMatchWins
    BY DEF LongestMatchWins
  <2> DEFINE n == Len(lexScanners)
             taken == [i \in DOMAIN lexScanners |-> Taken(Whole(lexScanners[i]))]
             all == {taken[i] : i \in DOMAIN lexScanners}
             most == Max(all)
             longest == {i \in DOMAIN lexScanners : taken[i] > 0 /\ taken[i] = most}
             winners == {i \in longest : \A j \in longest :
                           Priority(lexScanners[j]) <= Priority(lexScanners[i])}
  <2>1. LexInv /\ LexTypes /\ n \in Nat /\ DOMAIN lexScanners = 1 .. n /\ lexTurn # 0 /\ lexTurn - 1 = n
    BY NumberOfScanners DEF BestInv, LexInv
  <2>2. BestOf(n)
    BY <2>1 DEF BestInv
  <2>3. \A i \in 1 .. n : taken[i] = TakenBy(i) /\ taken[i] \in Nat
    BY <2>1, TakenNat, RestPlain DEF TakenBy
  <2> SUFFICES IF longest = {} THEN lexScanned = 0 /\ lexLast = NoToken
               ELSE lexScanned = most /\ lexLast = Whole(lexScanners[Min(winners)]).out
    <3> DEFINE Won(t) ==
          LET top == Max({t[i] : i \in DOMAIN lexScanners})
              best == {i \in DOMAIN lexScanners : t[i] > 0 /\ t[i] = top}
              first == {i \in best : \A j \in best :
                          Priority(lexScanners[j]) <= Priority(lexScanners[i])}
          IN IF best = {} THEN lexScanned = 0 /\ lexLast = NoToken
             ELSE lexScanned = top /\ lexLast = Whole(lexScanners[Min(first)]).out
    <3>1. LongestMatchWins <=>
            ((Ascii /\ lexTurn = Len(lexScanners) + 1) => \A t \in {taken} : Won(t))
      BY Zenon DEF LongestMatchWins
    <3>2. Won(taken)
      OBVIOUS
    <3> HIDE DEF Won, taken
    <3> QED BY <3>1, <3>2
  <2> HIDE DEF taken
  <2>4. CASE (\A i \in 1 .. n : TakenBy(i) = 0) /\ lexScanned = 0 /\ lexLast = NoToken
    <3>1. longest = {}
      BY <2>1, <2>3, <2>4
    <3> QED BY <2>4, <3>1
  <2>5. CASE \E m \in 1 .. n : /\ FirstOf(m, n) /\ lexScanned = TakenBy(m)
                               /\ lexLast = Whole(lexScanners[m]).out
    <3>1. PICK m \in 1 .. n : /\ FirstOf(m, n) /\ lexScanned = TakenBy(m)
                              /\ lexLast = Whole(lexScanners[m]).out
      BY <2>5
    <3>2. \A i \in 1 .. n : taken[i] <= taken[m] /\ (i < m => taken[i] < taken[m])
      BY <2>3, <3>1 DEF FirstOf
    <3>3. taken[m] > 0
      BY <2>3, <3>1 DEF FirstOf
    <3>4. most = taken[m]
      <4>1. all \in SUBSET Int /\ taken[m] \in all /\ \A i \in all : i <= taken[m]
        BY <2>1, <2>3, <3>2
      <4> HIDE DEF all
      <4> QED BY <4>1, MostOf
    <3> HIDE DEF most
    <3>5. m \in longest /\ \A i \in longest : i \in 1 .. n /\ m <= i
      BY <2>1, <2>3, <3>2, <3>3, <3>4
    <3> HIDE DEF longest
    <3>6. m \in winners
      <4>1. \A j \in longest : Priority(lexScanners[j]) <= Priority(lexScanners[m])
        BY <3>5, ScannersRanked DEF Ranked
      <4> QED BY <3>5, <4>1
    <3>7. Min(winners) = m
      <4>1. winners \in SUBSET Int /\ \A i \in winners : m <= i
        <5>1. winners \subseteq longest
          OBVIOUS
        <5> HIDE DEF winners
        <5> QED BY <3>5, <5>1
      <4> HIDE DEF winners
      <4> QED BY <3>6, <4>1, LeastOf
    <3> QED BY <2>3, <3>1, <3>4, <3>5, <3>7
  <2> QED BY <2>2, <2>4, <2>5 DEF BestOf
<1> QED BY <1>1, BestInvariant, PTL

(* lexer.c:295 -- what the lexer asserts holds: when its scanners have     *)
(* succeeded and there is no token, something has been skipped.            *)
SkipsSomething ==
  (lexTurn = Len(lexScanners) + 1 /\ lexLast = NoToken /\ lexSuccess) => lexScanned > 0

(* So it does for every text: the loop of lexer_next_token never stands    *)
(* still.                                                                  *)
THEOREM AssertionHolds == LexSpec => []SkipsSomething
<1>1. LexInv => SkipsSomething
  BY DEF LexInv, SkipsSomething
<1> QED BY <1>1, LexInvariant, PTL
-----------------------------------------------------------------------------
(* What the scanners make of the rest of the text: what holds of a run     *)
(* that has read some characters, and of one that has ended.               *)

(* What a scanner is handed at place i of a text: its characters and, when *)
(* there are no more, the end.                                             *)
CharAt(text, i) == IF i \in 1 .. Len(text) THEN text[i] ELSE 0

\* A run that is handed the character c.
HandedChar(run, c) == [run EXCEPT !.ch = c]

\* A run that has read i characters.
RunAt(scanner, i, run) == i \in Nat /\ Valid(scanner, run) /\ ~run.done

(* What a step makes of a run that has read i characters: it goes on, or   *)
(* it has come to an end.                                                  *)
Leads(scanner, text, i, run, going, ended) ==
  LET next == ScanStep(scanner, HandedChar(run, CharAt(text, i + 1)))
  IN Valid(scanner, next) => IF next.done THEN next \in ended ELSE <<i + 1, next>> \in going

\* Wherever a run goes right it leads on in the right way.
GoesRight(scanner, text, going, ended) ==
  \A i, run : RunAt(scanner, i, run) /\ <<i, run>> \in going
                => Leads(scanner, text, i, run, going, ended)

\* Whether the text is read from its beginning.
IsTop(top) == top = (lexCount = 0)

(* A scanner that is shown to go on in the right way, and to end in it,    *)
(* ends in the right way.                                                  *)
LEMMA WholeEnds ==
  ASSUME LexInv, Ascii, NEW scanner \in ScannerNames, NEW top, IsTop(top), NEW going, NEW ended,
         <<0, FreshRun(top)>> \in going, GoesRight(scanner, Rest, going, ended)
  PROVE  Whole(scanner) \in ended
<1> DEFINE str == str_copy_chars(Rest)
           source == "string"
           none == <<>>
           at == lexer_rewind(str, none, top)
<1>1. Rest \in Seq(Char) /\ Len(Rest) \in Nat /\ Plain(Rest) /\ top \in BOOLEAN
  BY RestTyped, RestPlain DEF LexInv, IsTop
<1>2. Held(source, str, none) /\ str.chars = Rest
  <2>1. str \in Buffers /\ str.chars = Rest /\ str.size = Len(Rest) + 1
    BY <1>1 DEF str_copy_chars, str_create, Buffers
  <2>2. str.size >= 1 /\ <<>> \in Seq(Char)
    BY <1>1, <2>1
  <2> QED BY <2>1, <2>2 DEF Held
<1>3. Whole(scanner) = match(scanner, source, at).run
  BY DEF Whole, IsTop
<1>4. str.chars \o none = Rest /\ source \in {"stream", "string"}
  <2>1. Rest \o none = Rest
    BY <1>1, ConcatEmptySeq
  <2> HIDE DEF str
  <2> QED BY <1>2, <2>1
<1> HIDE DEF str, none, source
<1>5. at \in AtWork(scanner, source, Rest) /\ Placed(Rest, 0, at) /\ at.run = FreshRun(top)
  <2>1. /\ at \in AtWork(scanner, source, str.chars \o none)
        /\ Placed(str.chars \o none, 0, at) /\ at.run = FreshRun(top)
    BY <1>1, <1>2, Begins
  <2> QED BY <1>4, <2>1
<1> HIDE DEF at
<1> DEFINE S == AtWork(scanner, source, Rest)
           last == Len(Rest) + 2
<1>6. PICK f \in [Nat -> S] : ReadsOn(scanner, source, at, f) /\ match(scanner, source, at) = f[last]
  BY <1>4, <1>5, MatchUnfolds
<1>7. match(scanner, source, at).run.done
  BY <1>4, <1>5, Matched
<1>8. \A n \in Nat : f[n] \in S /\ f[n + 1] = ReadOn(scanner, source, f[n])
  BY <1>6 DEF ReadsOn
<1> DEFINE A == {n \in Nat : /\ Placed(Rest, n, f[n])
                             /\ IF f[n].run.done THEN f[n].run \in ended ELSE <<n, f[n].run>> \in going}
<1>9. 0 \in A
  <2>1. f[0] = at /\ ~FreshRun(top).done
    BY <1>6 DEF ReadsOn, FreshRun
  <2> QED BY <1>5, <2>1
<1>10. ASSUME NEW n \in Nat, n \in A PROVE n + 1 \in A
  <2>1. f[n] \in S /\ f[n + 1] = ReadOn(scanner, source, f[n]) /\ Placed(Rest, n, f[n]) /\ n + 1 \in Nat
    BY <1>8, <1>10
  <2>2. Placed(Rest, n + 1, f[n + 1])
    BY <1>4, <2>1, WorksOn
  <2>3. CASE f[n].run.done
    <3>1. f[n + 1] = f[n]
      BY <2>1, <2>3 DEF ReadOn
    <3> QED BY <1>10, <2>2, <2>3, <3>1
  <2>4. CASE ~f[n].run.done
    <3> DEFINE x == f[n]
               c == lexer_get_char(source, x.str, x.left)
    <3>1. Ready(source, x.str, x.left, Rest) /\ x.str.pos = n /\ Valid(scanner, x.run)
      BY <1>1, <2>1, <2>4 DEF AtWork, Placed, Ready
    <3>2. c.ch = IF n < Len(Rest) THEN Rest[n + 1] ELSE 0
      <4>1. Hands(source, x.str, Rest, c)
        BY <1>4, <3>1, CharRead
      <4> HIDE DEF c
      <4> QED BY <1>1, <3>1, <4>1 DEF Hands
    <3>3. c.ch = CharAt(Rest, n + 1)
      BY <1>1, <3>2 DEF CharAt
    <3>4. f[n + 1].run = ScanStep(scanner, HandedChar(x.run, c.ch))
      BY <2>1, <2>4 DEF ReadOn, HandedChar
    <3> HIDE DEF c
    <3>5. <<n, x.run>> \in going
      BY <1>10, <2>4
    <3>6. RunAt(scanner, n, x.run)
      BY <2>4, <3>1 DEF RunAt
    <3>7. Leads(scanner, Rest, n, x.run, going, ended)
      BY <3>5, <3>6 DEF GoesRight
    <3>8. Valid(scanner, f[n + 1].run)
      BY <1>8, <2>1 DEF AtWork
    <3>9. IF f[n + 1].run.done THEN f[n + 1].run \in ended ELSE <<n + 1, f[n + 1].run>> \in going
      BY <3>3, <3>4, <3>7, <3>8 DEF Leads
    <3> QED BY <2>1, <2>2, <3>9
  <2> QED BY <2>3, <2>4
<1>11. Nat \subseteq A
  <2> HIDE DEF A
  <2> QED BY <1>9, <1>10, SetInduction
<1>12. last \in A
  BY <1>1, <1>11
<1> QED BY <1>3, <1>6, <1>7, <1>12

\* The fields of a run that is handed a character.
LEMMA HandedFields ==
  ASSUME NEW S, NEW run \in RunIn(S), NEW c \in Char
  PROVE  LET r == HandedChar(run, c)
         IN /\ r \in RunIn(S) /\ r.ch = c /\ r.scan_count = run.scan_count /\ r.state = run.state
            /\ r.token = run.token /\ r.known = run.known /\ r.quote = run.quote /\ r.end = run.end
            /\ r.top = run.top /\ r.done = run.done /\ r.out = run.out /\ r.skips = run.skips
BY DEF RunIn, HandedChar

\* What is pushed is behind what was read.
LEMMA PushedToken ==
  ASSUME NEW S, NEW run \in RunIn(S), NEW c
  PROVE  lexer_push_as(run, c).token = IF c > 0 THEN Append(run.token, c) ELSE run.token
<1> DEFINE token == IF c > 0 THEN Append(run.token, c) ELSE run.token
           r == [run EXCEPT !.token = token, !.scan_count = run.scan_count + 1]
<1>1. lexer_push_as(run, c) = r
  BY DEF lexer_push_as
<1>2. r.token = token
  <2> HIDE DEF token
  <2> QED BY DEF RunIn
<1> HIDE DEF r
<1> QED BY <1>1, <1>2

(* A run that has counted i characters of a text that is ASCII is handed   *)
(* the next one, or the end.                                               *)
Handles(scanner, text, i, r) ==
  /\ r \in RunIn(StatesOf(scanner)) /\ ~r.done /\ r.scan_count = i /\ r.out = NoToken /\ ~r.skips
  /\ i \in Nat /\ Len(text) \in Nat /\ i <= Len(text)
  /\ IF i = Len(text) THEN r.ch = 0 ELSE i + 1 \in 1 .. Len(text) /\ r.ch = text[i + 1] /\ r.ch > 0

\* The rest of it stays as it was.
Carries(run, r) ==
  /\ r.state = run.state /\ r.token = run.token /\ r.known = run.known
  /\ r.quote = run.quote /\ r.end = run.end /\ r.top = run.top

\* What the next character makes of such a run.
LEMMA HandsOver ==
  ASSUME NEW scanner, NEW text \in Seq(Char), Plain(text), NEW i \in Nat, NEW run, RunAt(scanner, i, run),
         i <= Len(text), run.scan_count = i
  PROVE  LET r == HandedChar(run, CharAt(text, i + 1))
         IN Handles(scanner, text, i, r) /\ Carries(run, r)
<1> DEFINE c == CharAt(text, i + 1)
           r == HandedChar(run, c)
<1>1. i \in Nat /\ run \in RunIn(StatesOf(scanner)) /\ ~run.done /\ run.out = NoToken /\ ~run.skips
  BY DEF RunAt, Valid
<1>2. 0 \in Char
  BY DEF Char
<1>3. /\ c \in Char /\ Len(text) \in Nat
      /\ IF i = Len(text) THEN c = 0 ELSE i + 1 \in 1 .. Len(text) /\ c = text[i + 1] /\ c > 0
  BY <1>1, <1>2 DEF CharAt, Plain
<1> HIDE DEF c
<1>4. /\ r \in RunIn(StatesOf(scanner)) /\ r.ch = c /\ r.scan_count = i /\ r.state = run.state
      /\ r.token = run.token /\ r.known = run.known /\ r.quote = run.quote /\ r.end = run.end
      /\ r.top = run.top /\ ~r.done /\ r.out = NoToken /\ ~r.skips
  BY <1>1, <1>3, HandedFields
<1> HIDE DEF r
<1>5. Handles(scanner, text, i, r)
  BY <1>1, <1>3, <1>4 DEF Handles
<1>6. Carries(run, r)
  BY <1>4 DEF Carries
<1> QED BY <1>5, <1>6 DEF r, c
-----------------------------------------------------------------------------
(* qstring.c: the characters a backslash takes.                            *)
IsTaken(text, taken) ==
  \A i \in 1 .. Len(text) : taken[i] <=> i > 2 /\ text[i - 1] = Backslash /\ ~taken[i - 1]

\* The quotes behind the first one that nothing takes.
Closes(text, taken, i) == i \in 2 .. Len(text) /\ text[i] = text[1] /\ ~taken[i]

(* A string that is being read: none of the quotes that close it has been  *)
(* passed, and Escape says that a backslash takes the next character.      *)
StringGoing(text, taken, i, run) ==
  /\ i <= Len(text) /\ run.scan_count = i
  /\ IF i = 0 THEN run.state = "Init"
     ELSE /\ run.state \in {"QString", "Escape"} /\ text[1] \in QuoteChars /\ run.quote = text[1]
          /\ i < Len(text) => (taken[i + 1] <=> run.state = "Escape")
          /\ \A j \in 2 .. i : ~Closes(text, taken, j)

\* One that has been read: up to the first quote that closes it, or to the end.
StringEnded(text, taken, run) ==
  (text # <<>> /\ text[1] \in QuoteChars) =>
    IF \E j \in 2 .. Len(text) : Closes(text, taken, j)
    THEN /\ run.out.code = text[1] /\ Closes(text, taken, run.scan_count)
         /\ \A j \in 2 .. run.scan_count - 1 : ~Closes(text, taken, j)
    ELSE run.out.code = TokenCodeError /\ run.scan_count = Len(text)

\* What a step of the scanner makes of the one.
StringRight(text, taken, i, next) ==
  IF next.done THEN StringEnded(text, taken, next) ELSE StringGoing(text, taken, i + 1, next)

(* qstring.c:122 -- a string that is being read goes on, or ends at the    *)
(* first quote that closes it.                                             *)
LEMMA StringStep ==
  ASSUME NEW text \in Seq(Char), NEW taken, IsTaken(text, taken),
         NEW i, NEW r, Handles("qstring", text, i, r), StringGoing(text, taken, i, r)
  PROVE  StringRight(text, taken, i, QStrStep(r))
<1> DEFINE c == r.ch
           next == QStrStep(r)
           S == StatesOf("qstring")
<1>1. i \in Nat /\ i <= Len(text) /\ Len(text) \in Nat /\ r \in RunIn(S) /\ ~r.done /\ r.scan_count = i
  BY DEF Handles
<1>2. c \in Char /\ IF i = Len(text) THEN c = 0 ELSE i + 1 \in 1 .. Len(text) /\ c = text[i + 1] /\ c > 0
  BY DEF Handles, RunIn
<1>3. "QString" \in S /\ "Escape" \in S
  BY DEF StatesOf
<1> HIDE DEF S, c
<1>4. 0 \in Char /\ QuoteChars \subseteq Char /\ TokenCodeError \in Int
  BY ScannersAssumption DEF Char, Printed, TokenCodeError
<1>5. CASE c = 0
  <2>1. i = Len(text)
    BY <1>2, <1>5
  <2>2. CASE i = 0
    <3>1. text = <<>>
      BY <2>1, <2>2, EmptySeq
    <3>2. next = NoMatch(r)
      BY <1>5, <2>2 DEF QStrStep, StringGoing, c
    <3> HIDE DEF next
    <3>3. next.done
      BY <1>1, <3>2, Left
    <3> QED BY <3>1, <3>3 DEF StringEnded, StringRight, next
  <2>3. CASE i # 0
    <3>1. next = lexer_accept(r, TokenCodeError)
      BY <1>5, <2>3 DEF QStrStep, StringGoing, c
    <3> HIDE DEF next
    <3>2. next.done /\ next.out.code = TokenCodeError /\ next.scan_count = i
      BY <1>1, <1>4, <3>1, Accepted
    <3>3. ~\E j \in 2 .. Len(text) : Closes(text, taken, j)
      BY <2>1, <2>3 DEF StringGoing
    <3>4. StringEnded(text, taken, next)
      BY <2>1, <3>2, <3>3 DEF StringEnded
    <3> QED BY <3>2, <3>4 DEF next, StringRight
  <2> QED BY <2>2, <2>3
<1>6. CASE c # 0
  <2>1. i < Len(text) /\ i + 1 \in 1 .. Len(text) /\ c = text[i + 1] /\ i + 1 \in Nat
    BY <1>1, <1>2, <1>6
  <2>2. CASE r.state = "Init"
    <3>1. i = 0
      BY <2>2 DEF StringGoing
    <3>2. CASE c \in QuoteChars
      <4> DEFINE p == lexer_push_as(r, 0)
                 s == To(p, "QString")
                 t == [s EXCEPT !.quote = c]
      <4>1. next = t
        BY <1>6, <2>2, <3>2 DEF QStrStep, lexer_discard, c
      <4>2. p \in RunIn(S) /\ p.scan_count = i + 1 /\ ~p.done
        BY <1>1, <1>4, Pushed
      <4> HIDE DEF next, p
      <4>3. s \in RunIn(S) /\ s.scan_count = i + 1 /\ s.state = "QString" /\ ~s.done
        BY <1>3, <4>2, MovedTo
      <4> HIDE DEF s
      <4>4. t.scan_count = i + 1 /\ t.state = "QString" /\ ~t.done /\ t.quote = c
        BY <4>3 DEF RunIn
      <4> HIDE DEF t
      <4>5. i + 1 < Len(text) => ~taken[(i + 1) + 1]
        <5> SUFFICES ASSUME i + 1 < Len(text) PROVE ~taken[(i + 1) + 1]
          OBVIOUS
        <5>1. (i + 1) + 1 = 2 /\ 2 \in 1 .. Len(text) /\ ~(2 > 2)
          BY <1>1, <3>1
        <5>2. ~taken[2]
          BY <5>1 DEF IsTaken
        <5> QED BY <5>1, <5>2
      <4>6. StringGoing(text, taken, i + 1, t)
        BY <2>1, <3>1, <3>2, <4>4, <4>5 DEF StringGoing
      <4> QED BY <4>1, <4>4, <4>6 DEF next, StringRight
    <3>3. CASE c \notin QuoteChars
      <4>1. next = NoMatch(r)
        BY <1>6, <2>2, <3>3 DEF QStrStep, c
      <4> HIDE DEF next
      <4>2. next.done
        BY <1>1, <4>1, Left
      <4>3. StringEnded(text, taken, next)
        BY <2>1, <3>1, <3>3 DEF StringEnded
      <4> QED BY <4>2, <4>3 DEF StringRight, next
    <3> QED BY <3>2, <3>3
  <2>3. CASE r.state # "Init"
    <3>1. /\ i >= 1 /\ r.state \in {"QString", "Escape"} /\ text[1] \in QuoteChars
          /\ r.quote = text[1] /\ (taken[i + 1] <=> r.state = "Escape")
          /\ \A j \in 2 .. i : ~Closes(text, taken, j)
      BY <1>1, <2>1, <2>3 DEF StringGoing
    <3>2. i + 1 \in 2 .. Len(text) /\ (i + 1) - 1 = i
      BY <1>1, <2>1, <3>1
    <3>3. Closes(text, taken, i + 1) <=> c = text[1] /\ r.state # "Escape"
      BY <2>1, <3>1, <3>2 DEF Closes
    <3>4. ASSUME ~Closes(text, taken, i + 1), NEW j \in 2 .. i + 1 PROVE ~Closes(text, taken, j)
      <4>1. j \in 2 .. i \/ j = i + 1
        BY <1>1, <3>4
      <4> QED BY <3>1, <3>4, <4>1
    <3>5. i + 1 < Len(text) => (taken[(i + 1) + 1] <=> c = Backslash /\ r.state # "Escape")
      <4> SUFFICES ASSUME i + 1 < Len(text)
                   PROVE  taken[(i + 1) + 1] <=> c = Backslash /\ r.state # "Escape"
        OBVIOUS
      <4> DEFINE k == (i + 1) + 1
      <4>1. k \in 1 .. Len(text) /\ k > 2 /\ k - 1 = i + 1
        BY <1>1, <3>1
      <4> HIDE DEF k
      <4>2. taken[k] <=> text[i + 1] = Backslash /\ ~taken[i + 1]
        BY <4>1 DEF IsTaken
      <4> QED BY <2>1, <3>1, <4>2 DEF k
    <3>6. CASE r.state = "QString" /\ c = r.quote
      <4> DEFINE s == lexer_push_as(r, 0)
      <4>1. next = lexer_accept(s, c)
        BY <1>6, <3>6 DEF QStrStep, lexer_discard, c
      <4>2. s \in RunIn(S) /\ s.scan_count = i + 1
        BY <1>1, <1>4, Pushed
      <4> HIDE DEF next, s
      <4>3. next.done /\ next.out.code = c /\ next.scan_count = i + 1
        <5>1. c \in Int
          BY <1>2 DEF Char
        <5> QED BY <4>1, <4>2, <5>1, Accepted
      <4>4. Closes(text, taken, i + 1)
        BY <3>1, <3>3, <3>6
      <4>5. StringEnded(text, taken, next)
        BY <3>1, <3>2, <3>6, <4>3, <4>4 DEF StringEnded
      <4> QED BY <4>3, <4>5 DEF next, StringRight
    <3>7. CASE ~(r.state = "QString" /\ c = r.quote)
      <4>1. ASSUME NEW s, s = next, ~s.done, s.scan_count = i + 1, s.quote = r.quote,
                   s.state \in {"QString", "Escape"},
                   s.state = "Escape" <=> c = Backslash /\ r.state # "Escape"
            PROVE  StringRight(text, taken, i, next)
        <5>1. ~Closes(text, taken, i + 1)
          BY <3>1, <3>3, <3>7
        <5>2. StringGoing(text, taken, i + 1, s)
          BY <1>1, <2>1, <3>1, <3>4, <3>5, <4>1, <5>1 DEF StringGoing
        <5> HIDE DEF next
        <5> QED BY <4>1, <5>2 DEF StringRight
      <4>2. ASSUME NEW d \in Char, NEW state \in {"QString", "Escape"},
                   next = To(lexer_push_as(r, d), state),
                   state = "Escape" <=> c = Backslash /\ r.state # "Escape"
            PROVE  StringRight(text, taken, i, next)
        <5> DEFINE p == lexer_push_as(r, d)
                   s == To(p, state)
        <5>1. p \in RunIn(S) /\ p.scan_count = i + 1 /\ ~p.done /\ p.quote = r.quote
          BY <1>1, Pushed
        <5>2. state \in S
          BY <1>3
        <5> HIDE DEF p
        <5>3. s.scan_count = i + 1 /\ ~s.done /\ s.quote = r.quote /\ s.state = state
          BY <5>1, <5>2, MovedTo
        <5>4. s = next
          BY <4>2 DEF p
        <5> HIDE DEF s, next
        <5> QED BY <4>1, <4>2, <5>3, <5>4
      <4>3. CASE r.state = "Escape"
        <5>1. next = To(lexer_push_as(r, Escaped(c)), "QString")
          BY <1>6, <4>3 DEF QStrStep, c
        <5>2. Escaped(c) \in Char
          BY <1>2 DEF Escaped, Char, CR, NewLine
        <5> HIDE DEF next
        <5> QED BY <4>2, <4>3, <5>1, <5>2 DEF next
      <4>4. CASE r.state = "QString" /\ c = Backslash
        <5>1. next = To(lexer_push_as(r, 0), "Escape")
          BY <1>6, <3>7, <4>4 DEF QStrStep, lexer_discard, c
        <5> HIDE DEF next
        <5> QED BY <1>4, <4>2, <4>4, <5>1 DEF next
      <4>5. CASE r.state = "QString" /\ c # Backslash
        <5>1. next = lexer_push_as(r, c)
          BY <1>6, <3>7, <4>5 DEF QStrStep, lexer_push, c
        <5> HIDE DEF next
        <5>2. next.scan_count = i + 1 /\ ~next.done /\ next.quote = r.quote /\ next.state = r.state
          BY <1>1, <1>2, <5>1, Pushed
        <5> QED BY <4>1, <4>5, <5>2 DEF next
      <4> QED BY <3>1, <4>3, <4>4, <4>5
    <3> QED BY <3>6, <3>7
  <2> QED BY <2>2, <2>3
<1> QED BY <1>5, <1>6

\* The function by which the characters a backslash takes are told exists.
LEMMA TakenExists ==
  ASSUME NEW text \in Seq(Char)
  PROVE  \E f : f = [i \in 1 .. Len(text) |-> i > 2 /\ text[i - 1] = Backslash /\ ~f[i - 1]]
<1> DEFINE step == [x \in Nat \X BOOLEAN |-> x[1] > 1 /\ text[x[1]] = Backslash /\ ~x[2]]
<1>1. step \in [Nat \X BOOLEAN -> BOOLEAN]
  OBVIOUS
<1>2. FALSE \in BOOLEAN
  OBVIOUS
<1>3. PICK f \in [Nat -> BOOLEAN] : Recurs(f, FALSE, step)
  <2> HIDE DEF step
  <2> QED BY <1>1, <1>2, RecursionExists
<1> DEFINE g == [i \in 1 .. Len(text) |-> f[i]]
<1>4. ASSUME NEW i \in 1 .. Len(text)
      PROVE  g[i] = (i > 2 /\ text[i - 1] = Backslash /\ ~g[i - 1])
  <2>1. i - 1 \in Nat /\ (i - 1) + 1 = i /\ f[i - 1] \in BOOLEAN
    BY <1>3
  <2>2. f[(i - 1) + 1] = step[<<i - 1, f[i - 1]>>]
    BY <1>3, <2>1 DEF Recurs
  <2>3. step[<<i - 1, f[i - 1]>>] = (i - 1 > 1 /\ text[i - 1] = Backslash /\ ~f[i - 1])
    BY <2>1
  <2>4. i > 2 => g[i - 1] = f[i - 1]
    BY <2>1
  <2> QED BY <2>1, <2>2, <2>3, <2>4
<1>5. g = [i \in 1 .. Len(text) |-> i > 2 /\ text[i - 1] = Backslash /\ ~g[i - 1]]
  BY <1>4
<1> HIDE DEF g
<1> QED BY <1>5

\* What a run begins with is one.
LEMMA FreshTyped ==
  ASSUME NEW scanner \in ScannerNames, NEW top \in BOOLEAN
  PROVE  /\ FreshRun(top) \in RunIn(StatesOf(scanner)) /\ FreshRun(top).scan_count = 0
         /\ FreshRun(top).state = "Init" /\ FreshRun(top).token = <<>> /\ FreshRun(top).known = <<>>
         /\ FreshRun(top).end = <<>>
<1>1. /\ "Init" \in StatesOf(scanner) /\ 0 \in Char /\ <<>> \in Seq(Char)
      /\ NoToken \in [code : Int, text : Seq(Char)]
  BY DEF ScannerNames, StatesOf, Char, NoToken, TokenCodeNone
<1> QED BY <1>1 DEF FreshRun, RunIn

\* Strings.
LEMMA StringsRight == LexInv => StringsEnd
<1> SUFFICES ASSUME LexInv, Ascii PROVE StringsEnd
  BY DEF StringsEnd
<1> DEFINE taken[i \in 1 .. Len(Rest)] == i > 2 /\ Rest[i - 1] = Backslash /\ ~taken[i - 1]
           ends == {i \in 2 .. Len(Rest) : Rest[i] = Rest[1] /\ ~taken[i]}
           going == {x \in Nat \X RunIn(StatesOf("qstring")) : StringGoing(Rest, taken, x[1], x[2])}
           ended == {run \in RunIn(StatesOf("qstring")) : StringEnded(Rest, taken, run)}
           run == Whole("qstring")
<1>1. Rest \in Seq(Char) /\ Plain(Rest) /\ Len(Rest) \in Nat
  BY RestTyped, RestPlain DEF LexInv
<1>2. taken = [i \in 1 .. Len(Rest) |-> i > 2 /\ Rest[i - 1] = Backslash /\ ~taken[i - 1]]
  <2>1. \E f : f = [i \in 1 .. Len(Rest) |-> i > 2 /\ Rest[i - 1] = Backslash /\ ~f[i - 1]]
    BY <1>1, TakenExists
  <2> QED BY <2>1
<1> HIDE DEF taken
<1>3. IsTaken(Rest, taken)
  BY <1>2 DEF IsTaken
<1>4. PICK top \in BOOLEAN : IsTop(top)
  BY DEF IsTop
<1>5. <<0, FreshRun(top)>> \in going
  <2>1. /\ FreshRun(top) \in RunIn(StatesOf("qstring")) /\ FreshRun(top).scan_count = 0
        /\ FreshRun(top).state = "Init"
    BY FreshTyped DEF ScannerNames
  <2>2. StringGoing(Rest, taken, 0, FreshRun(top))
    BY <1>1, <2>1 DEF StringGoing
  <2> QED BY <2>1, <2>2
<1>6. ASSUME NEW i, NEW r, RunAt("qstring", i, r), <<i, r>> \in going
      PROVE  Leads("qstring", Rest, i, r, going, ended)
  <2> DEFINE h == HandedChar(r, CharAt(Rest, i + 1))
             next == ScanStep("qstring", h)
  <2>1. i \in Nat /\ r \in RunIn(StatesOf("qstring")) /\ StringGoing(Rest, taken, i, r)
    BY <1>6
  <2>a. i \in Nat /\ i <= Len(Rest) /\ r.scan_count = i /\ RunAt("qstring", i, r)
    BY <1>6, <2>1 DEF StringGoing
  <2>2. Handles("qstring", Rest, i, h) /\ Carries(r, h)
    <3> HIDE DEF going, ended
    <3> QED BY <1>1, <2>a, HandsOver
  <2> HIDE DEF h
  <2>3. StringGoing(Rest, taken, i, h)
    BY <2>1, <2>2 DEF StringGoing, Handles, Carries
  <2>4. next = QStrStep(h)
    BY DEF ScanStep
  <2>5. StringRight(Rest, taken, i, next)
    BY <1>1, <1>3, <2>2, <2>3, <2>4, StringStep
  <2> HIDE DEF next
  <2>6. Valid("qstring", next) => IF next.done THEN next \in ended ELSE <<i + 1, next>> \in going
    BY <2>1, <2>5 DEF StringRight, Valid
  <2> QED BY <2>6 DEF Leads, next, h
<1>7. GoesRight("qstring", Rest, going, ended)
  <2> HIDE DEF going, ended
  <2> QED BY <1>6 DEF GoesRight
<1>8. run \in ended
  <2>1. "qstring" \in ScannerNames
    BY DEF ScannerNames
  <2> HIDE DEF going, ended, run
  <2> QED BY <1>4, <1>5, <1>7, <2>1, WholeEnds DEF run
<1>9. StringEnded(Rest, taken, run)
  BY <1>8
<1> HIDE DEF run
<1>10. (Rest # <<>> /\ Rest[1] \in QuoteChars) =>
         IF ends = {} THEN run.out.code = TokenCodeError /\ run.scan_count = Len(Rest)
         ELSE run.out.code = Rest[1] /\ run.scan_count = Min(ends)
  <2> SUFFICES ASSUME Rest # <<>>, Rest[1] \in QuoteChars
               PROVE  IF ends = {} THEN run.out.code = TokenCodeError /\ run.scan_count = Len(Rest)
                      ELSE run.out.code = Rest[1] /\ run.scan_count = Min(ends)
    OBVIOUS
  <2>1. ends = {j \in 2 .. Len(Rest) : Closes(Rest, taken, j)}
    BY DEF Closes
  <2> HIDE DEF ends
  <2>2. CASE ends = {}
    BY <1>9, <2>1, <2>2 DEF StringEnded
  <2>3. CASE ends # {}
    <3>1. /\ run.out.code = Rest[1] /\ Closes(Rest, taken, run.scan_count)
          /\ \A j \in 2 .. run.scan_count - 1 : ~Closes(Rest, taken, j)
      BY <1>9, <2>1, <2>3 DEF StringEnded
    <3>2. run.scan_count \in ends /\ run.scan_count \in 2 .. Len(Rest)
      BY <2>1, <3>1 DEF Closes
    <3>3. \A j \in ends : run.scan_count <= j
      BY <1>1, <2>1, <3>1, <3>2
    <3>4. ends \in SUBSET Int
      BY <2>1
    <3>5. Min(ends) = run.scan_count
      BY <3>2, <3>3, <3>4, LeastOf
    <3> QED BY <2>3, <3>1, <3>5
  <2> QED BY <2>2, <2>3
<1> QED BY <1>10 DEF StringsEnd, run, ends, taken

\* A sequence is a prefix of another one when it has its first elements.
LEMMA PrefixPlaces ==
  ASSUME NEW s \in Seq(Char), NEW t \in Seq(Char)
  PROVE  IsPrefix(s, t) <=> Len(s) <= Len(t) /\ \A i \in 1 .. Len(s) : s[i] = t[i]
<1>1. Len(s) \in Nat /\ Len(t) \in Nat
  OBVIOUS
<1>2. CASE Len(s) <= Len(t)
  <2> DEFINE a == SubSeq(s, 1, Len(s))
             b == SubSeq(t, 1, Len(s))
  <2>1. a \in Seq(Char) /\ Len(a) = Len(s) /\ \A i \in 1 .. Len(s) : a[i] = s[i]
    OBVIOUS
  <2>2. b \in Seq(Char) /\ Len(b) = Len(s) /\ \A i \in 1 .. Len(s) : b[i] = t[i]
    BY <1>1, <1>2
  <2> HIDE DEF a, b
  <2>3. a = b <=> \A i \in 1 .. Len(s) : s[i] = t[i]
    <3>1. ASSUME \A i \in 1 .. Len(s) : s[i] = t[i] PROVE a = b
      BY <2>1, <2>2, <3>1, SeqEqual
    <3> QED BY <2>1, <2>2, <3>1
  <2> QED BY <1>2, <2>3 DEF IsPrefix, a, b
<1>3. CASE ~(Len(s) <= Len(t))
  BY <1>3 DEF IsPrefix
<1> QED BY <1>2, <1>3

\* The first characters of a text, and one more.
LEMMA Beginning ==
  ASSUME NEW text \in Seq(Char), NEW i \in Nat, i <= Len(text)
  PROVE  LET b == SubSeq(text, 1, i)
         IN b \in Seq(Char) /\ Len(b) = i /\ \A j \in 1 .. i : b[j] = text[j]
BY LenProperties

\* The first characters and the next one are the first ones of the text.
LEMMA OneMoreRead ==
  ASSUME NEW text \in Seq(Char), NEW i \in Nat, i + 1 <= Len(text)
  PROVE  Append(SubSeq(text, 1, i), text[i + 1]) = SubSeq(text, 1, i + 1)
<1> DEFINE a == SubSeq(text, 1, i)
           c == text[i + 1]
           p == Append(a, c)
           b == SubSeq(text, 1, i + 1)
<1>1. Len(text) \in Nat /\ i <= Len(text) /\ i + 1 \in Nat /\ i + 1 \in 1 .. Len(text)
  OBVIOUS
<1>2. a \in Seq(Char) /\ Len(a) = i /\ \A j \in 1 .. i : a[j] = text[j]
  BY <1>1, Beginning
<1>3. b \in Seq(Char) /\ Len(b) = i + 1 /\ \A j \in 1 .. i + 1 : b[j] = text[j]
  BY <1>1, Beginning
<1>4. c \in Char
  BY <1>1
<1> HIDE DEF a, b, c
<1>5. p \in Seq(Char) /\ Len(p) = i + 1 /\ p[i + 1] = c /\ \A j \in 1 .. i : p[j] = a[j]
  BY <1>2, <1>4
<1>6. \A j \in 1 .. i + 1 : p[j] = b[j]
  <2> SUFFICES ASSUME NEW j \in 1 .. i + 1 PROVE p[j] = b[j]
    OBVIOUS
  <2>1. j = i + 1 \/ j \in 1 .. i
    OBVIOUS
  <2> QED BY <1>2, <1>3, <1>5, <2>1 DEF c
<1> HIDE DEF p
<1>7. p = b
  BY <1>3, <1>5, <1>6, SeqEqual
<1> QED BY <1>7 DEF p, a, b, c

(* keyword.c: the keywords the text begins with, and those that begin with *)
(* what was read.                                                          *)
Found(text) == {kw \in Keyword : IsPrefix(kw, text)}

\* What was read is the beginning of a keyword and not all of it.
Unfinished(cs) == \E kw \in Keyword : IsStrictPrefix(cs, kw)

\* The longest keyword of at most i characters the text begins with.
LongestKnown(text, i, known) ==
  IF known = <<>> THEN \A kw \in Found(text) : Len(kw) > i
  ELSE known \in Found(text) /\ \A kw \in Found(text) : Len(kw) > i \/ Len(kw) <= Len(known)

(* A keyword that is being read: the longest one so far is kept, and the   *)
(* state says whether there is one and whether a longer one may come.      *)
KeywordGoing(text, i, run) ==
  /\ i <= Len(text) /\ run.scan_count = i /\ run.token = SubSeq(text, 1, i)
  /\ LongestKnown(text, i, run.known)
  /\ IF i = 0 THEN run.state = "Init" /\ run.known = <<>>
     ELSE /\ Candidates(run.token) # {}
          /\ IF run.known = <<>> THEN run.state = "PrefixMatched"
             ELSE run.state \in {"FullMatch", "FullMatchAndPrefixes"}
          /\ run.state = "FullMatchAndPrefixes" => Unfinished(run.token)

\* One that has been read: the longest one.
KeywordEnded(text, run) ==
  IF run.out = NoToken THEN Found(text) # {} => Unfinished(text)
  ELSE /\ Found(text) # {}
       /\ run.out.code = TokenCodeKeyword + Max({Len(kw) : kw \in Found(text)})
       /\ SubSeq(text, 1, run.scan_count) \in Found(text) \/ Unfinished(SubSeq(text, 1, run.scan_count))

\* What a step of the scanner makes of the one.
KeywordRight(text, i, next) ==
  IF next.done THEN KeywordEnded(text, next) ELSE KeywordGoing(text, i + 1, next)

\* Keywords are sequences of characters and not empty.
LEMMA KeywordTypes ==
  /\ \A kw \in Keyword : kw \in Seq(Char) /\ kw # <<>> /\ Len(kw) \in Nat /\ Len(kw) >= 1
  /\ IsFiniteSet(Keyword)
<1>1. ASSUME NEW kw \in Keyword PROVE kw \in Seq(Char) /\ kw # <<>> /\ Len(kw) \in Nat /\ Len(kw) >= 1
  <2>1. kw \in Seq(Char) /\ kw # <<>>
    BY ScannersAssumption, Wide
  <2>2. Len(kw) \in Nat \ {0}
    BY <2>1, EmptySeq
  <2> QED BY <2>1, <2>2
<1> QED BY <1>1, ScannersAssumption

\* A keyword the text begins with is one of the candidates for each place in it.
LEMMA FoundIsCandidate ==
  ASSUME NEW text \in Seq(Char), NEW kw \in Found(text), NEW i \in Nat, i <= Len(kw)
  PROVE  /\ i <= Len(text) /\ kw \in Candidates(SubSeq(text, 1, i))
         /\ i = Len(kw) => SubSeq(text, 1, i) = kw
<1>1. kw \in Keyword /\ kw \in Seq(Char) /\ Len(kw) \in Nat /\ Len(text) \in Nat
  BY KeywordTypes DEF Found
<1>2. Len(kw) <= Len(text) /\ \A j \in 1 .. Len(kw) : kw[j] = text[j]
  BY <1>1, PrefixPlaces DEF Found
<1> DEFINE b == SubSeq(text, 1, i)
<1>3. b \in Seq(Char) /\ Len(b) = i /\ \A j \in 1 .. i : b[j] = text[j]
  BY <1>1, <1>2, Beginning
<1> HIDE DEF b
<1>4. \A j \in 1 .. i : b[j] = kw[j]
  BY <1>1, <1>2, <1>3
<1>5. IsPrefix(b, kw)
  BY <1>1, <1>3, <1>4, PrefixPlaces
<1>6. i = Len(kw) => b = kw
  BY <1>1, <1>3, <1>4, SeqEqual
<1> QED BY <1>1, <1>2, <1>5, <1>6 DEF Candidates, b

\* What has been read of a candidate is a keyword or unfinished.
LEMMA CandidateStands ==
  ASSUME NEW text \in Seq(Char), NEW i \in Nat, i <= Len(text), NEW kw \in Candidates(SubSeq(text, 1, i))
  PROVE  IF kw = SubSeq(text, 1, i) THEN kw \in Found(text) /\ Len(kw) = i
         ELSE Unfinished(SubSeq(text, 1, i))
<1> DEFINE b == SubSeq(text, 1, i)
<1>1. b \in Seq(Char) /\ Len(b) = i /\ \A j \in 1 .. i : b[j] = text[j]
  BY Beginning
<1> HIDE DEF b
<1>2. kw \in Keyword /\ IsPrefix(b, kw)
  BY DEF Candidates, b
<1>3. CASE kw = b
  <2>1. IsPrefix(kw, text)
    BY <1>1, <1>3, PrefixPlaces
  <2> QED BY <1>1, <1>2, <1>3, <2>1 DEF Found, b
<1>4. CASE kw # b
  BY <1>2, <1>4 DEF Unfinished, IsStrictPrefix, b
<1> QED BY <1>3, <1>4 DEF b

\* A run that ends with what it knows ends right.
LEMMA KnownEnds ==
  ASSUME NEW text \in Seq(Char), NEW i, NEW r, Handles("keyword", text, i, r), KeywordGoing(text, i, r),
         \A kw \in Found(text) : Len(kw) <= i, r.known # <<>>
  PROVE  KwAccept(r).done /\ KeywordEnded(text, KwAccept(r))
<1> DEFINE next == KwAccept(r)
           known == r.known
           code == TokenCodeKeyword + Len(known)
<1>1. /\ i \in Nat /\ i <= Len(text) /\ r \in RunIn(StatesOf("keyword")) /\ known \in Seq(Char)
      /\ Len(known) \in Nat /\ r.scan_count = i
  BY DEF Handles, RunIn
<1>2. known \in Found(text) /\ \A kw \in Found(text) : Len(kw) \in Nat /\ Len(kw) <= Len(known)
  BY <1>1, KeywordTypes DEF KeywordGoing, LongestKnown, Found
<1>3. code \in Int /\ code # TokenCodeNone
  BY <1>1 DEF TokenCodeKeyword, TokenCodeNone
<1>4. next.done /\ next.out.code = code /\ next.scan_count = i
  BY <1>1, <1>3, Accepted DEF KwAccept
<1> HIDE DEF next
<1>5. next.out # NoToken
  BY <1>3, <1>4 DEF NoToken
<1>6. Max({Len(kw) : kw \in Found(text)}) = Len(known)
  <2> DEFINE S == {Len(kw) : kw \in Found(text)}
  <2>1. S \in SUBSET Int /\ Len(known) \in S /\ \A n \in S : n <= Len(known)
    BY <1>2
  <2> HIDE DEF S
  <2>2. Max(S) = Len(known)
    BY <2>1, MostOf
  <2> QED BY <2>2 DEF S
<1>7. SubSeq(text, 1, i) \in Found(text) \/ Unfinished(SubSeq(text, 1, i))
  <2>1. i # 0
    BY <1>1, <1>2, KeywordTypes DEF Found
  <2>2. PICK kw \in Candidates(SubSeq(text, 1, i)) : TRUE
    BY <2>1 DEF KeywordGoing
  <2> QED BY <1>1, <2>2, CandidateStands
<1>8. KeywordEnded(text, next)
  BY <1>2, <1>4, <1>5, <1>6, <1>7 DEF KeywordEnded
<1> QED BY <1>4, <1>8 DEF next

\* One that ends without a match ends right when there is no keyword or the text ends within one.
LEMMA NoneEnds ==
  ASSUME NEW text \in Seq(Char), NEW i, NEW r, Handles("keyword", text, i, r),
         Found(text) # {} => Unfinished(text)
  PROVE  NoMatch(r).done /\ KeywordEnded(text, NoMatch(r))
<1>1. r \in RunIn(StatesOf("keyword")) /\ r.out = NoToken
  BY DEF Handles
<1>2. NoMatch(r).done /\ NoMatch(r).out = NoToken
  BY <1>1, Left
<1> QED BY <1>2 DEF KeywordEnded

(* keyword.c:273 -- a keyword that is being read goes on, or the longest   *)
(* one is reported.                                                        *)
LEMMA KeywordStep ==
  ASSUME NEW text \in Seq(Char), NEW i, NEW r, Handles("keyword", text, i, r), KeywordGoing(text, i, r)
  PROVE  KeywordRight(text, i, KwStep(r))
<1> DEFINE c == r.ch
           S == StatesOf("keyword")
           next == KwStep(r)
           cs == Append(r.token, c)
           left == Candidates(cs)
           known == FullMatch(r, cs)
<1>1. /\ i \in Nat /\ i <= Len(text) /\ Len(text) \in Nat /\ r \in RunIn(S) /\ ~r.done
      /\ r.scan_count = i /\ r.out = NoToken
  BY DEF Handles
<1>2. c \in Char /\ IF i = Len(text) THEN c = 0 ELSE i + 1 \in 1 .. Len(text) /\ c = text[i + 1] /\ c > 0
  BY DEF Handles, RunIn
<1>3. r.token = SubSeq(text, 1, i) /\ LongestKnown(text, i, r.known)
  BY DEF KeywordGoing
<1>4. CASE c = 0
  <2>1. i = Len(text)
    BY <1>2, <1>4
  <2>2. \A kw \in Found(text) : Len(kw) <= i
    <3> SUFFICES ASSUME NEW kw \in Found(text) PROVE Len(kw) <= i
      OBVIOUS
    <3>1. Len(kw) \in Nat /\ kw \in Keyword
      BY KeywordTypes DEF Found
    <3> QED BY <2>1, <3>1, FoundIsCandidate
  <2>3. CASE r.state = "FullMatch"
    <3>1. next = KwAccept(r)
      BY <1>4, <2>3 DEF KwStep, c
    <3>2. r.known # <<>>
      BY <2>3 DEF KeywordGoing
    <3> HIDE DEF next
    <3>3. next.done /\ KeywordEnded(text, next)
      BY <2>2, <3>1, <3>2, KnownEnds
    <3> QED BY <3>3 DEF KeywordRight, next
  <2>4. CASE r.state # "FullMatch"
    <3>1. next = NoMatch(r)
      BY <1>4, <2>4 DEF KwStep, c
    <3>2. Found(text) # {} => Unfinished(text)
      <4>1. CASE r.known = <<>>
        <5>1. \A kw \in Found(text) : Len(kw) > i /\ Len(kw) <= i /\ Len(kw) \in Nat
          BY <1>3, <2>2, <4>1, KeywordTypes DEF LongestKnown, Found
        <5>2. Found(text) = {}
          BY <1>1, <5>1
        <5> QED BY <5>2
      <4>2. CASE r.known # <<>>
        <5>1. Unfinished(r.token)
          BY <2>4, <4>2 DEF KeywordGoing
        <5>2. r.token = text
          <6>1. SubSeq(text, 1, Len(text)) = text
            BY <1>1
          <6> QED BY <1>3, <2>1, <6>1
        <5> QED BY <5>1, <5>2
      <4> QED BY <4>1, <4>2
    <3> HIDE DEF next
    <3>3. next.done /\ KeywordEnded(text, next)
      BY <3>1, <3>2, NoneEnds
    <3> QED BY <3>3 DEF KeywordRight, next
  <2> QED BY <2>3, <2>4
<1>5. CASE c # 0
  <2>1. i < Len(text) /\ i + 1 \in 1 .. Len(text) /\ c = text[i + 1] /\ c > 0 /\ i + 1 <= Len(text)
        /\ i + 1 \in Nat
    BY <1>1, <1>2, <1>5
  <2>2. cs = SubSeq(text, 1, i + 1)
    BY <1>1, <1>3, <2>1, OneMoreRead
  <2>3. CASE left = {}
    <3>1. \A kw \in Found(text) : Len(kw) <= i
      <4> SUFFICES ASSUME NEW kw \in Found(text), ~(Len(kw) <= i) PROVE FALSE
        OBVIOUS
      <4>1. Len(kw) \in Nat
        BY KeywordTypes DEF Found
      <4>2. i + 1 <= Len(kw)
        BY <1>1, <4>1
      <4> HIDE DEF cs
      <4>3. kw \in Candidates(cs)
        BY <2>1, <2>2, <4>2, FoundIsCandidate
      <4> QED BY <2>3, <4>3
    <3>2. CASE r.known # <<>>
      <4>1. next = KwAccept(r)
        <5>1. i # 0 /\ r.state \in {"FullMatch", "FullMatchAndPrefixes"}
          BY <3>2 DEF KeywordGoing
        <5> QED BY <1>5, <2>3, <5>1 DEF KwStep, c
      <4> HIDE DEF next
      <4>2. next.done /\ KeywordEnded(text, next)
        BY <3>1, <3>2, <4>1, KnownEnds
      <4> QED BY <4>2 DEF KeywordRight, next
    <3>3. CASE r.known = <<>>
      <4>1. next = NoMatch(r)
        <5>1. r.state \in {"Init", "PrefixMatched"}
          BY <3>3 DEF KeywordGoing
        <5> QED BY <1>5, <2>3, <5>1 DEF KwStep, c
      <4>2. Found(text) = {}
        <5>1. \A kw \in Found(text) : Len(kw) > i /\ Len(kw) <= i /\ Len(kw) \in Nat
          BY <1>3, <3>1, <3>3, KeywordTypes DEF LongestKnown, Found
        <5> QED BY <1>1, <5>1
      <4> HIDE DEF next
      <4>3. next.done /\ KeywordEnded(text, next)
        BY <4>1, <4>2, NoneEnds
      <4> QED BY <4>3 DEF KeywordRight, next
    <3> QED BY <3>2, <3>3
  <2>4. CASE left # {}
    <3> DEFINE state == CASE Cardinality(left) = 1 /\ known # <<>> -> "FullMatch"
                          [] Cardinality(left) > 1 /\ known # <<>> -> "FullMatchAndPrefixes"
                          [] OTHER -> "PrefixMatched"
               p == lexer_push_as(r, c)
               q == To(p, state)
               s == [q EXCEPT !.known = known]
    <3>1. next = s
      BY <1>5, <2>4 DEF KwStep, lexer_push, c
    <3>2. Cardinality(left) \in Nat /\ Cardinality(left) >= 1
          /\ (Cardinality(left) > 1 => \E kw \in left : kw # cs)
      <4> HIDE DEF cs
      <4>1. IsFiniteSet(left)
        <5>1. left \in SUBSET Keyword
          BY DEF Candidates
        <5> HIDE DEF left
        <5> QED BY <5>1, KeywordTypes, FS_Subset
      <4> HIDE DEF left
      <4>2. Cardinality(left) \in Nat /\ Cardinality(left) # 0
        BY <2>4, <4>1, FS_EmptySet, FS_CardinalityType
      <4>3. ASSUME Cardinality(left) > 1, \A kw \in left : kw = cs PROVE FALSE
        <5>1. left = {cs}
          BY <2>4, <4>3
        <5>2. Cardinality({cs}) = 1
          BY FS_Singleton
        <5> QED BY <4>3, <5>1, <5>2
      <4> QED BY <4>2, <4>3
    <3>3. LongestKnown(text, i + 1, known) /\ known \in Seq(Char)
      <4> HIDE DEF cs
      <4>1. ASSUME NEW kw \in Found(text), Len(kw) <= i + 1, ~(Len(kw) <= i) PROVE kw = cs
        <5>1. Len(kw) \in Nat
          BY KeywordTypes DEF Found
        <5>2. i + 1 = Len(kw)
          BY <1>1, <4>1, <5>1
        <5> QED BY <2>1, <2>2, <5>2, FoundIsCandidate
      <4>2. CASE cs \in Keyword
        <5>1. known = cs /\ cs # <<>> /\ cs \in Seq(Char)
          BY <4>2, KeywordTypes DEF FullMatch
        <5>2. Len(cs) = i + 1
          BY <2>1, <2>2, Beginning
        <5>3. cs \in Found(text)
          <6>1. IsPrefix(cs, cs)
            BY <5>1 DEF IsPrefix
          <6>2. cs \in Candidates(SubSeq(text, 1, i + 1))
            BY <2>2, <4>2, <6>1 DEF Candidates
          <6> QED BY <2>1, <2>2, <6>2, CandidateStands
        <5>4. \A kw \in Found(text) : Len(kw) \in Nat
          BY KeywordTypes DEF Found
        <5> HIDE DEF known
        <5>5. \A kw \in Found(text) : Len(kw) > i + 1 \/ Len(kw) <= Len(known)
          BY <2>1, <5>1, <5>2, <5>4
        <5> QED BY <5>1, <5>3, <5>5 DEF LongestKnown
      <4>3. CASE cs \notin Keyword
        <5>1. known = r.known /\ r.known \in Seq(Char)
          BY <1>1, <4>3 DEF FullMatch, RunIn
        <5>2. \A kw \in Found(text) : Len(kw) \in Nat /\ kw # cs
          BY <4>3, KeywordTypes DEF Found
        <5>3. \A kw \in Found(text) : Len(kw) > i => Len(kw) > i + 1
          BY <1>1, <4>1, <5>2
        <5> HIDE DEF known
        <5> QED BY <1>1, <1>3, <5>1, <5>2, <5>3 DEF LongestKnown
      <4> QED BY <4>2, <4>3
    <3>4. state \in S /\ IF known = <<>> THEN state = "PrefixMatched"
                         ELSE state \in {"FullMatch", "FullMatchAndPrefixes"}
      <4> HIDE DEF known, left
      <4>1. IF known = <<>> THEN state = "PrefixMatched"
            ELSE state \in {"FullMatch", "FullMatchAndPrefixes"}
        BY <3>2
      <4> HIDE DEF state
      <4> QED BY <4>1 DEF StatesOf
    <3>5. state = "FullMatchAndPrefixes" => Unfinished(cs)
      <4> SUFFICES ASSUME state = "FullMatchAndPrefixes" PROVE Unfinished(cs)
        OBVIOUS
      <4> HIDE DEF cs, known
      <4>1. Cardinality(left) > 1
        <5> HIDE DEF left
        <5> QED OBVIOUS
      <4>2. PICK kw \in left : kw # cs
        BY <3>2, <4>1
      <4> QED BY <2>1, <2>2, <4>2, CandidateStands
    <3>6. /\ p \in RunIn(S) /\ p.scan_count = i + 1 /\ ~p.done /\ p.token = cs
      <4>1. p.token = cs
        BY <1>1, <2>1, PushedToken
      <4> HIDE DEF cs
      <4> QED BY <1>1, <1>2, <4>1, Pushed
    <3> HIDE DEF p, state, known, cs, left
    <3>7. q \in RunIn(S) /\ q.scan_count = i + 1 /\ ~q.done /\ q.token = cs /\ q.state = state
      BY <3>4, <3>6 DEF To, RunIn
    <3> HIDE DEF q
    <3>8. s.scan_count = i + 1 /\ ~s.done /\ s.token = cs /\ s.state = state /\ s.known = known
      BY <3>7 DEF RunIn
    <3> HIDE DEF s
    <3>9. KeywordGoing(text, i + 1, s)
      <4>1. i + 1 # 0 /\ Candidates(cs) # {}
        BY <1>1, <2>4 DEF left
      <4> QED BY <2>1, <2>2, <3>3, <3>4, <3>5, <3>8, <4>1 DEF KeywordGoing
    <3> HIDE DEF next
    <3>10. KeywordRight(text, i, next)
      BY <3>1, <3>8, <3>9 DEF KeywordRight
    <3> QED BY <3>10 DEF next
  <2> QED BY <2>3, <2>4
<1> QED BY <1>4, <1>5

\* Keywords.
LEMMA KeywordsRight == LexInv => KeywordsFound
<1> SUFFICES ASSUME LexInv, Ascii PROVE KeywordsFound
  BY DEF KeywordsFound
<1> DEFINE going == {x \in Nat \X RunIn(StatesOf("keyword")) : KeywordGoing(Rest, x[1], x[2])}
           ended == {r \in RunIn(StatesOf("keyword")) : KeywordEnded(Rest, r)}
           run == Whole("keyword")
<1>1. Rest \in Seq(Char) /\ Plain(Rest) /\ Len(Rest) \in Nat
  BY RestTyped, RestPlain DEF LexInv
<1>2. PICK top \in BOOLEAN : IsTop(top)
  BY DEF IsTop
<1>3. <<0, FreshRun(top)>> \in going
  <2>1. /\ FreshRun(top) \in RunIn(StatesOf("keyword")) /\ FreshRun(top).scan_count = 0
        /\ FreshRun(top).state = "Init" /\ FreshRun(top).token = <<>> /\ FreshRun(top).known = <<>>
    BY FreshTyped DEF ScannerNames
  <2>2. SubSeq(Rest, 1, 0) = <<>>
    BY <1>1
  <2>3. LongestKnown(Rest, 0, <<>>)
    BY KeywordTypes DEF LongestKnown, Found
  <2>4. KeywordGoing(Rest, 0, FreshRun(top))
    BY <1>1, <2>1, <2>2, <2>3 DEF KeywordGoing
  <2> QED BY <2>1, <2>4
<1>4. ASSUME NEW i, NEW r, RunAt("keyword", i, r), <<i, r>> \in going
      PROVE  Leads("keyword", Rest, i, r, going, ended)
  <2> DEFINE h == HandedChar(r, CharAt(Rest, i + 1))
             next == ScanStep("keyword", h)
  <2>1. i \in Nat /\ KeywordGoing(Rest, i, r) /\ RunAt("keyword", i, r)
    BY <1>4
  <2>2. i \in Nat /\ i <= Len(Rest) /\ r.scan_count = i /\ RunAt("keyword", i, r)
    BY <2>1 DEF KeywordGoing
  <2>3. Handles("keyword", Rest, i, h) /\ Carries(r, h)
    <3> HIDE DEF going, ended
    <3> QED BY <1>1, <2>2, HandsOver
  <2> HIDE DEF h
  <2>4. KeywordGoing(Rest, i, h)
    BY <2>1, <2>3 DEF KeywordGoing, Handles, Carries
  <2>5. next = KwStep(h)
    BY DEF ScanStep
  <2>6. KeywordRight(Rest, i, next)
    BY <1>1, <2>3, <2>4, <2>5, KeywordStep
  <2> HIDE DEF next
  <2>7. Valid("keyword", next) => IF next.done THEN next \in ended ELSE <<i + 1, next>> \in going
    BY <2>1, <2>6 DEF KeywordRight, Valid
  <2> QED BY <2>7 DEF Leads, next, h
<1>5. GoesRight("keyword", Rest, going, ended)
  <2> HIDE DEF going, ended
  <2> QED BY <1>4 DEF GoesRight
<1>6. run \in ended
  <2>1. "keyword" \in ScannerNames
    BY DEF ScannerNames
  <2> HIDE DEF going, ended, run
  <2> QED BY <1>2, <1>3, <1>5, <2>1, WholeEnds DEF run
<1>7. KeywordEnded(Rest, run)
  BY <1>6
<1> HIDE DEF run
<1> QED BY <1>7 DEF KeywordsFound, KeywordEnded, Found, Unfinished, run

(* comment.c: an end marker of a comment that began with its first `begun' *)
(* characters stands at p; nothing that looks like the beginning of one    *)
(* stands closely before it.                                               *)
EndsAt(text, end, begun, p) ==
  /\ p \in begun + 1 .. Len(text) - Len(end) + 1
  /\ \A j \in 1 .. Len(end) : text[p + j - 1] = end[j]

\* One that stands clear of what looks like the beginning of another.
PlainAt(text, end, begun, p) ==
  /\ EndsAt(text, end, begun, p)
  /\ \A j \in p - Len(end) + 1 .. p - 1 : j > begun => text[j] # end[1]

\* A comment that began with marker m.
Began(text, m, i, run) ==
  /\ m \in DOMAIN Markers /\ Markers[m].end = run.end /\ IsPrefix(Markers[m].start, text)
  /\ Len(Markers[m].start) <= i

(* A comment that is being read: what was read last is the beginning of    *)
(* its end marker, and no clear end marker has been passed.                *)
CommentIn(text, m, i, run) ==
  LET begun == Len(Markers[m].start)
      k == IF run.state = "Text" THEN 0 ELSE Len(run.known)
  IN /\ Began(text, m, i, run) /\ run.state \in {"Text", "EndMarker"}
     /\ run.state = "EndMarker" =>
          /\ k >= 1 /\ k < Len(run.end) /\ begun + k <= i
          /\ \A j \in 1 .. k : run.known[j] = run.end[j] /\ text[i - k + j] = run.end[j]
     /\ \A p \in Int : PlainAt(text, run.end, begun, p) => p > i - k

\* One that has been read: up to an end marker, the first one that is clear.
CommentOut(text, m, run) ==
  LET begun == Len(Markers[m].start)
      at == run.scan_count - Len(run.end) + 1
  IN /\ m \in DOMAIN Markers /\ Markers[m].end = run.end /\ IsPrefix(Markers[m].start, text)
     /\ IF run.skips THEN EndsAt(text, run.end, begun, at)
                          /\ \A p \in Int : PlainAt(text, run.end, begun, p) => at <= p
        ELSE \A p \in Int : ~PlainAt(text, run.end, begun, p)

\* What a step of the scanner makes of the one.
EndmarkerRight(text, m, i, next) ==
  IF next.done THEN CommentOut(text, m, next)
  ELSE next.scan_count = i + 1 /\ CommentIn(text, m, i + 1, next)

\* The end marker a run looks for stays the same.
LEMMA SameEnd ==
  ASSUME NEW S, NEW run \in RunIn(S), NEW code
  PROVE  /\ lexer_accept(run, code).end = run.end
         /\ lexer_skip(run).end = run.end
BY DEF RunIn, lexer_accept, lexer_skip

(* comment.c:266 -- a comment that is being read goes on, or ends at an    *)
(* end marker with none that is clear before it.                           *)
LEMMA EndmarkerStep ==
  ASSUME NEW text \in Seq(Char), NEW i, NEW r, Handles("comment", text, i, r), NEW m,
         CommentIn(text, m, i, r), Len(r.end) >= 2
  PROVE  EndmarkerRight(text, m, i, _comment_find_endmarker(r, r.end))
<1> DEFINE c == r.ch
           S == StatesOf("comment")
           end == r.end
           n == Len(end)
           known == r.known
           begun == Len(Markers[m].start)
           k == IF r.state = "Text" THEN 0 ELSE Len(known)
           next == _comment_find_endmarker(r, r.end)
           cs == Append(known, c)
           read == lexer_push_as(r, 0)
<1>1. /\ i \in Nat /\ i <= Len(text) /\ Len(text) \in Nat /\ r \in RunIn(S) /\ ~r.done
      /\ r.scan_count = i /\ r.out = NoToken /\ ~r.skips
  BY DEF Handles
<1>2. c \in Char /\ IF i = Len(text) THEN c = 0 ELSE i + 1 \in 1 .. Len(text) /\ c = text[i + 1] /\ c > 0
  BY DEF Handles, RunIn
<1>3. Began(text, m, i, r) /\ m \in DOMAIN Markers /\ begun \in Nat /\ begun <= i
  <2>1. Began(text, m, i, r) /\ m \in DOMAIN Markers
    BY DEF CommentIn, Began
  <2>2. begun \in Nat
    BY <2>1, MarkerTypes
  <2> QED BY <2>1, <2>2 DEF Began
<1>4. end \in Seq(Char) /\ n \in Nat /\ n >= 2 /\ known \in Seq(Char) /\ Len(known) \in Nat
      /\ Head(end) = end[1] /\ r.state \in {"Text", "EndMarker"}
  <2>1. end \in Seq(Char) /\ known \in Seq(Char)
    BY <1>1 DEF RunIn
  <2>2. end # <<>>
    BY <2>1
  <2> QED BY <2>1, <2>2 DEF CommentIn
<1>5. /\ r.state = "EndMarker" =>
            /\ k >= 1 /\ k < n /\ begun + k <= i
            /\ \A j \in 1 .. k : known[j] = end[j] /\ text[i - k + j] = end[j]
      /\ \A p \in Int : PlainAt(text, end, begun, p) => p > i - k
      /\ k \in Nat /\ (r.state = "Text" => k = 0)
  BY <1>4 DEF CommentIn
<1> HIDE DEF S, c, end, n, known, begun, k
<1>6. /\ read \in RunIn(S) /\ read.scan_count = i + 1 /\ read.state = r.state /\ read.known = known
      /\ read.end = end /\ ~read.done /\ ~read.skips
  <2>1. 0 \in Char
    BY DEF Char
  <2> QED BY <1>1, <2>1, Pushed DEF known, end
<1> HIDE DEF read
<1>7. "Text" \in S /\ "EndMarker" \in S
  BY DEF S, StatesOf
<1>8. \A s : s.end = end => (Began(text, m, i + 1, s) /\ m \in DOMAIN Markers
                             /\ Markers[m].end = s.end /\ IsPrefix(Markers[m].start, text))
  BY <1>1, <1>3 DEF Began, end, begun
<1>9. CASE c = 0
  <2>1. i = Len(text)
    BY <1>2, <1>9
  <2>2. next = lexer_accept(r, TokenCodeError)
    BY <1>9 DEF _comment_find_endmarker, c
  <2>3. next.done /\ ~next.skips /\ next.end = end
    <3>1. TokenCodeError \in Int
      BY DEF TokenCodeError
    <3> HIDE DEF next
    <3>2. next.done /\ ~next.skips
      <4> DEFINE s == lexer_accept(r, TokenCodeError)
      <4>1. r \in RunIn(S)
        BY <1>1
      <4>2. s.done /\ s.skips = r.skips
        BY <3>1, <4>1, Accepted
      <4> QED BY <1>1, <2>2, <4>2
    <3>3. next.end = r.end
      BY <1>1, <2>2, SameEnd
    <3> QED BY <3>2, <3>3 DEF end
  <2>4. ASSUME NEW p \in Int, PlainAt(text, end, begun, p) PROVE FALSE
    <3>1. p <= Len(text) - n + 1 /\ p > i - k
      BY <1>5, <2>4 DEF PlainAt, EndsAt, n
    <3>2. k < n
      BY <1>4, <1>5
    <3> QED BY <1>1, <1>4, <1>5, <2>1, <3>1, <3>2
  <2> HIDE DEF next
  <2>5. CommentOut(text, m, next)
    BY <1>8, <2>3, <2>4 DEF CommentOut, begun
  <2> QED BY <2>3, <2>5 DEF EndmarkerRight, next
<1>10. CASE c # 0
  <2>1. i + 1 \in 1 .. Len(text) /\ c = text[i + 1] /\ i + 1 \in Nat
    BY <1>1, <1>2, <1>10
  <2>2. ASSUME NEW p \in Int, PlainAt(text, end, begun, p)
        PROVE  /\ \A j \in 1 .. n : text[p + j - 1] = end[j]
               /\ \A j \in p - n + 1 .. p - 1 : j > begun => text[j] # end[1]
    BY <2>2 DEF PlainAt, EndsAt, n
  <2>3. CASE r.state = "Text"
    <3>1. CASE c = Head(end)
      <4> DEFINE q == To(read, "EndMarker")
                 one == <<c>>
                 s == [q EXCEPT !.known = one]
      <4>1. next = s
        BY <1>10, <2>3, <3>1 DEF _comment_find_endmarker, lexer_discard, c, read, end
      <4>2. q \in RunIn(S) /\ q.scan_count = i + 1 /\ q.state = "EndMarker" /\ q.end = end /\ ~q.done
        BY <1>6, <1>7, MovedTo
      <4> HIDE DEF q, next
      <4>3. s.scan_count = i + 1 /\ s.state = "EndMarker" /\ s.end = end /\ ~s.done /\ s.known = one
        BY <4>2 DEF RunIn
      <4>4. Len(one) = 1 /\ one[1] = c
        OBVIOUS
      <4> HIDE DEF s, one
      <4>5. \A j \in 1 .. 1 : one[j] = end[j] /\ text[(i + 1) - 1 + j] = end[j]
        <5> SUFFICES ASSUME NEW j \in 1 .. 1 PROVE one[j] = end[j] /\ text[(i + 1) - 1 + j] = end[j]
          OBVIOUS
        <5>1. j = 1 /\ (i + 1) - 1 + j = i + 1
          BY <1>1
        <5>2. one[1] = end[1] /\ text[i + 1] = end[1]
          BY <1>4, <2>1, <3>1, <4>4
        <5> QED BY <5>1, <5>2
      <4>6. \A p \in Int : PlainAt(text, end, begun, p) => p > (i + 1) - 1
        BY <1>1, <1>5, <2>3
      <4>7. CommentIn(text, m, i + 1, s)
        BY <1>1, <1>3, <1>4, <1>8, <4>3, <4>4, <4>5, <4>6 DEF CommentIn, begun, n
      <4> QED BY <4>1, <4>3, <4>7 DEF EndmarkerRight, next
    <3>2. CASE c # Head(end)
      <4>1. next = read
        BY <1>10, <2>3, <3>2 DEF _comment_find_endmarker, lexer_discard, c, read, end
      <4>2. \A p \in Int : PlainAt(text, end, begun, p) => p > (i + 1) - 0
        <5> SUFFICES ASSUME NEW p \in Int, PlainAt(text, end, begun, p) PROVE p # i + 1
          BY <1>1, <1>5, <2>3
        <5>1. 1 \in 1 .. n /\ p + 1 - 1 = p
          BY <1>4
        <5>2. text[p] = end[1]
          BY <2>2, <5>1
        <5> QED BY <1>4, <2>1, <3>2, <5>2
      <4> HIDE DEF next
      <4>3. CommentIn(text, m, i + 1, read)
        BY <1>6, <1>8, <2>3, <4>2 DEF CommentIn, begun
      <4> QED BY <1>6, <4>1, <4>3 DEF EndmarkerRight, next
    <3> QED BY <3>1, <3>2
  <2>4. CASE r.state = "EndMarker"
    <3>1. /\ k >= 1 /\ k < n /\ begun + k <= i /\ k = Len(known)
          /\ \A j \in 1 .. k : known[j] = end[j] /\ text[i - k + j] = end[j]
      BY <1>5, <2>4 DEF k
    <3>2. /\ cs \in Seq(Char) /\ Len(cs) = k + 1 /\ cs[k + 1] = c
          /\ \A j \in 1 .. k : cs[j] = known[j]
      BY <1>2, <1>4, <3>1
    <3> HIDE DEF cs
    <3>3. CASE IsPrefix(cs, end)
      <4>1. \A j \in 1 .. k + 1 : cs[j] = end[j] /\ text[i - k + j] = end[j]
        <5> SUFFICES ASSUME NEW j \in 1 .. k + 1 PROVE cs[j] = end[j] /\ text[i - k + j] = end[j]
          OBVIOUS
        <5>1. cs[j] = end[j]
          BY <1>4, <3>2, <3>3, PrefixPlaces
        <5>2. CASE j \in 1 .. k
          BY <3>1, <5>1, <5>2
        <5>3. CASE j = k + 1
          <6>1. i - k + j = i + 1
            BY <1>1, <1>5, <5>3
          <6> QED BY <2>1, <3>2, <5>1, <5>3, <6>1
        <5> QED BY <1>5, <5>2, <5>3
      <4>2. CASE cs = end
        <5>1. next = lexer_skip(read)
          BY <1>10, <2>4, <4>2 DEF _comment_find_endmarker, lexer_discard, c, read, end, cs, known
        <5> HIDE DEF next
        <5>2. next.done /\ next.skips /\ next.scan_count = i + 1 /\ next.end = end
          BY <1>6, <5>1, Left, SameEnd
        <5>3. n = k + 1 /\ (i + 1) - n + 1 = i - k + 1 /\ i - k + 1 \in Int
          BY <1>1, <1>5, <3>2, <4>2 DEF n
        <5> DEFINE at == i - k + 1
        <5>4. EndsAt(text, end, begun, at)
          <6>1. at \in begun + 1 .. Len(text) - n + 1
            BY <1>1, <1>3, <1>5, <2>1, <3>1, <5>3
          <6>2. ASSUME NEW j \in 1 .. n PROVE text[at + j - 1] = end[j]
            <7>1. at + j - 1 = i - k + j
              BY <1>1, <1>5
            <7> QED BY <4>1, <5>3, <7>1
          <6> QED BY <6>1, <6>2 DEF EndsAt, n
        <5>5. \A p \in Int : PlainAt(text, end, begun, p) => at <= p
          BY <1>1, <1>5
        <5>6. next.scan_count - Len(end) + 1 = at
          BY <5>2, <5>3 DEF n
        <5> HIDE DEF at
        <5>7. CommentOut(text, m, next)
          BY <1>8, <5>2, <5>4, <5>5, <5>6 DEF CommentOut, begun
        <5> QED BY <5>2, <5>7 DEF EndmarkerRight, next
      <4>3. CASE cs # end
        <5> DEFINE s == [read EXCEPT !.known = cs]
        <5>1. next = s
          BY <1>10, <2>4, <3>3, <4>3 DEF _comment_find_endmarker, lexer_discard, c, read, end, cs, known
        <5>2. s.scan_count = i + 1 /\ s.state = "EndMarker" /\ s.end = end /\ ~s.done /\ s.known = cs
          BY <1>6, <2>4 DEF RunIn
        <5> HIDE DEF s, next
        <5>3. k + 1 < n
          <6>1. Len(cs) <= Len(end) /\ \A j \in 1 .. Len(cs) : cs[j] = end[j]
            BY <1>4, <3>2, <3>3, PrefixPlaces
          <6>2. Len(cs) # Len(end)
            BY <1>4, <3>2, <4>3, <6>1, SeqEqual
          <6> QED BY <1>4, <1>5, <3>2, <6>1, <6>2 DEF n
        <5>4. k + 1 >= 1 /\ begun + (k + 1) <= i + 1 /\ (i + 1) - (k + 1) = i - k
          BY <1>1, <1>3, <1>5, <3>1
        <5>5. CommentIn(text, m, i + 1, s)
          BY <1>5, <1>8, <3>2, <4>1, <5>2, <5>3, <5>4 DEF CommentIn, begun, n
        <5> QED BY <5>1, <5>2, <5>5 DEF EndmarkerRight, next
      <4> QED BY <4>2, <4>3
    <3>4. CASE ~IsPrefix(cs, end)
      <4> DEFINE s == To(read, "Text")
      <4>1. next = s
        <5>1. cs # end
          BY <3>4, <1>4, PrefixPlaces
        <5> QED BY <1>10, <2>4, <3>4, <5>1 DEF _comment_find_endmarker, lexer_discard, c, read, end, cs, known
      <4>2. s.scan_count = i + 1 /\ s.state = "Text" /\ s.end = end /\ ~s.done
        BY <1>6, <1>7, MovedTo
      <4> HIDE DEF s, next
      <4>3. \A p \in Int : PlainAt(text, end, begun, p) => p > (i + 1) - 0
        <5> SUFFICES ASSUME NEW p \in Int, PlainAt(text, end, begun, p), p <= i + 1 PROVE FALSE
          BY <1>1
        <5>1. p > i - k
          BY <1>5
        <5>2. CASE p = i - k + 1
          <6>1. ASSUME NEW j \in 1 .. k + 1 PROVE cs[j] = end[j]
            <7>1. CASE j \in 1 .. k
              BY <3>1, <3>2, <7>1
            <7>2. CASE j = k + 1
              <8>1. p + j - 1 = i + 1 /\ j \in 1 .. n
                BY <1>1, <1>4, <1>5, <3>1, <5>2, <7>2
              <8> QED BY <2>1, <2>2, <3>2, <7>2, <8>1
            <7> QED BY <1>5, <7>1, <7>2
          <6>2. Len(cs) <= Len(end)
            BY <1>4, <1>5, <3>1, <3>2 DEF n
          <6> QED BY <1>4, <3>2, <3>4, <6>1, <6>2, PrefixPlaces
        <5>3. CASE p # i - k + 1
          <6> DEFINE j == i - k + 1
          <6>1. j \in p - n + 1 .. p - 1 /\ j > begun
            <7>1. p \in Int /\ i \in Int /\ k \in Int /\ n \in Int /\ begun \in Int
              BY <1>1, <1>3, <1>4, <1>5
            <7>2. k + 1 <= n /\ begun + k <= i
              BY <3>1, <7>1
            <7>3. p >= i - k + 2
              BY <5>1, <5>3, <7>1
            <7>4. p <= i + 1
              OBVIOUS
            <7> QED BY <7>1, <7>2, <7>3, <7>4
          <6>2. text[j] = end[1]
            <7>1. 1 \in 1 .. k
              BY <1>5, <3>1
            <7> QED BY <3>1, <7>1
          <6> QED BY <2>2, <6>1, <6>2
        <5> QED BY <5>2, <5>3
      <4>4. CommentIn(text, m, i + 1, s)
        BY <1>8, <4>2, <4>3 DEF CommentIn, begun
      <4> QED BY <4>1, <4>2, <4>4 DEF EndmarkerRight, next
    <3> QED BY <3>3, <3>4
  <2> QED BY <1>4, <2>3, <2>4
<1> QED BY <1>9, <1>10

\* The same from the beginning: first the start marker is read.
CommentGoing(text, i, run) ==
  /\ i <= Len(text) /\ run.scan_count = i
  /\ IF run.state = "Init" THEN run.end = <<>> /\ run.known = SubSeq(text, 1, i)
     ELSE Len(run.end) >= 2 => \E m \in DOMAIN Markers : CommentIn(text, m, i, run)

\* A comment to an end marker has ended in the right way.
CommentEnded(text, run) ==
  Len(run.end) >= 2 => \E m \in DOMAIN Markers : CommentOut(text, m, run)

\* What a step of the scanner makes of the one.
CommentRight(text, i, next) ==
  IF next.done THEN CommentEnded(text, next) ELSE CommentGoing(text, i + 1, next)

\* Behind its start marker a comment goes on one character further, to the same end marker.
CommentKeeps(r, next) ==
  /\ next.end = r.end
  /\ ~next.done => next.scan_count = r.scan_count + 1 /\ next.state # "Init"

\* A step of the scanner does that.
LEMMA CommentsKeep ==
  ASSUME NEW text, NEW i, NEW r, Handles("comment", text, i, r), r.state # "Init"
  PROVE  CommentKeeps(r, CommentStep(r))
<1> DEFINE S == StatesOf("comment")
           read == lexer_push_as(r, 0)
           cs == Append(r.known, r.ch)
           next == CommentStep(r)
<1>1. r \in RunIn(S) /\ ~r.done
  BY DEF Handles
<1>2. "Text" \in S /\ "EndMarker" \in S
  BY DEF S, StatesOf
<1>3. /\ read \in RunIn(S) /\ read.scan_count = r.scan_count + 1 /\ read.state = r.state
      /\ read.end = r.end /\ ~read.done
  <2>1. 0 \in Char
    BY DEF Char
  <2> HIDE DEF S
  <2> QED BY <1>1, <2>1, Pushed
<1> HIDE DEF S, read, cs
<1>4. \A known : CommentKeeps(r, [read EXCEPT !.known = known])
  <2> SUFFICES ASSUME NEW known PROVE CommentKeeps(r, [read EXCEPT !.known = known])
    OBVIOUS
  <2> DEFINE s == [read EXCEPT !.known = known]
  <2>1. s.end = r.end /\ s.scan_count = r.scan_count + 1 /\ s.state = r.state
    BY <1>3 DEF RunIn
  <2> QED BY <2>1 DEF CommentKeeps
<1>5. CommentKeeps(r, read)
  BY <1>3 DEF CommentKeeps
<1>6. \A state \in {"Text", "EndMarker"} : \A known :
        CommentKeeps(r, To(read, state)) /\ CommentKeeps(r, [To(read, state) EXCEPT !.known = known])
  <2> SUFFICES ASSUME NEW state \in {"Text", "EndMarker"}, NEW known
               PROVE  CommentKeeps(r, To(read, state)) /\ CommentKeeps(r, [To(read, state) EXCEPT !.known = known])
    OBVIOUS
  <2> DEFINE q == To(read, state)
             s == [q EXCEPT !.known = known]
  <2>1. q \in RunIn(S) /\ q.end = r.end /\ q.scan_count = r.scan_count + 1 /\ q.state = state
    BY <1>2, <1>3, MovedTo
  <2> HIDE DEF q
  <2>2. s.end = r.end /\ s.scan_count = r.scan_count + 1 /\ s.state = state
    BY <2>1 DEF RunIn
  <2> HIDE DEF s
  <2> QED BY <2>1, <2>2 DEF CommentKeeps, q, s
<1>7. CommentKeeps(r, lexer_accept(r, TokenCodeError)) /\ CommentKeeps(r, lexer_skip(r))
      /\ CommentKeeps(r, lexer_skip(read))
  <2>1. TokenCodeError \in Int
    BY DEF TokenCodeError
  <2>2. lexer_accept(r, TokenCodeError).done /\ lexer_skip(r).done /\ lexer_skip(read).done
    BY <1>1, <1>3, <2>1, Accepted, Left
  <2>3. lexer_accept(r, TokenCodeError).end = r.end /\ lexer_skip(r).end = r.end
        /\ lexer_skip(read).end = r.end
    BY <1>1, <1>3, SameEnd
  <2> QED BY <2>2, <2>3 DEF CommentKeeps
<1>8. next \in {lexer_accept(r, TokenCodeError), lexer_skip(r), lexer_skip(read), read, To(read, "Text"),
                [read EXCEPT !.known = cs], [To(read, "EndMarker") EXCEPT !.known = <<r.ch>>]}
  <2>1. lexer_discard(r) = read
    BY DEF lexer_discard, read
  <2>2. CASE r.end = <<>>
    <3>1. next = _comment_find_eol(r)
      BY <2>2 DEF CommentStep
    <3> QED BY <2>1, <3>1 DEF _comment_find_eol
  <2>3. CASE r.end # <<>>
    <3>1. next = _comment_find_endmarker(r, r.end)
      BY <2>3 DEF CommentStep
    <3> QED BY <2>1, <3>1 DEF _comment_find_endmarker, cs
  <2> QED BY <2>2, <2>3
<1> HIDE DEF next
<1>9. CommentKeeps(r, next)
  BY <1>4, <1>5, <1>6, <1>7, <1>8
<1> QED BY <1>9 DEF next

\* The whole comment scanner.
LEMMA CommentGoesOn ==
  ASSUME NEW text \in Seq(Char), NEW i, NEW r, Handles("comment", text, i, r), CommentGoing(text, i, r)
  PROVE  CommentRight(text, i, CommentStep(r))
<1> DEFINE c == r.ch
           S == StatesOf("comment")
           known == r.known
           next == CommentStep(r)
           cs == Append(known, c)
           read == lexer_push_as(r, 0)
<1>1. /\ i \in Nat /\ i <= Len(text) /\ Len(text) \in Nat /\ r \in RunIn(S) /\ ~r.done /\ r.scan_count = i
  BY DEF Handles
<1>2. c \in Char /\ IF i = Len(text) THEN c = 0 ELSE i + 1 \in 1 .. Len(text) /\ c = text[i + 1] /\ c > 0
  BY DEF Handles, RunIn
<1>3. CASE r.state # "Init"
  <2>1. CommentKeeps(r, next)
    BY <1>3, CommentsKeep
  <2>2. CASE Len(r.end) >= 2
    <3>1. r.end # <<>>
      BY <2>2
    <3>2. next = _comment_find_endmarker(r, r.end)
      BY <1>3, <3>1 DEF CommentStep
    <3>3. PICK m \in DOMAIN Markers : CommentIn(text, m, i, r)
      BY <1>3, <2>2 DEF CommentGoing
    <3>4. EndmarkerRight(text, m, i, next)
      BY <2>2, <3>2, <3>3, EndmarkerStep
    <3> HIDE DEF next
    <3>5. CASE next.done
      BY <3>4, <3>5 DEF EndmarkerRight, CommentEnded, CommentRight, next
    <3>6. CASE ~next.done
      <4>1. i # Len(text)
        <5> SUFFICES ASSUME i = Len(text) PROVE FALSE
          OBVIOUS
        <5>1. c = 0
          BY <1>2
        <5>2. next = lexer_accept(r, TokenCodeError)
          BY <3>2, <5>1 DEF _comment_find_endmarker
        <5>3. TokenCodeError \in Int /\ r \in RunIn(S)
          BY <1>1 DEF TokenCodeError
        <5> HIDE DEF S
        <5>4. next.done
          BY <5>2, <5>3, Accepted
        <5> QED BY <3>6, <5>4
      <4>2. i + 1 <= Len(text)
        BY <1>1, <4>1
      <4>3. next.scan_count = i + 1 /\ next.state # "Init" /\ next.end = r.end
        BY <1>1, <2>1, <3>6 DEF CommentKeeps
      <4>4. CommentIn(text, m, i + 1, next)
        BY <3>4, <3>6 DEF EndmarkerRight
      <4>5. CommentGoing(text, i + 1, next)
        BY <3>3, <4>2, <4>3, <4>4 DEF CommentGoing
      <4> QED BY <3>6, <4>5 DEF CommentRight, next
    <3> QED BY <3>5, <3>6
  <2>3. CASE ~(Len(r.end) >= 2)
    <3> HIDE DEF next
    <3>1. next.end = r.end
      BY <2>1 DEF CommentKeeps
    <3>2. CASE next.done
      BY <2>3, <3>1, <3>2 DEF CommentRight, CommentEnded, next
    <3>3. CASE ~next.done
      <4>1. Valid("comment", r) /\ Handled(r, next)
        <5>1. Valid("comment", r)
          <6>1. NoToken.code # TokenCodeEOF
            BY TokenCodes
          <6> QED BY <6>1 DEF Handles, Valid
        <5> QED BY <1>1, <5>1, CommentSteps DEF next
      <4>2. c # 0
        BY <3>3, <4>1 DEF Handled
      <4>3. i + 1 <= Len(text)
        BY <1>1, <1>2, <4>2
      <4>4. next.scan_count = i + 1 /\ next.state # "Init"
        BY <1>1, <2>1, <3>3 DEF CommentKeeps
      <4>5. CommentGoing(text, i + 1, next)
        BY <2>3, <3>1, <4>3, <4>4 DEF CommentGoing
      <4> QED BY <3>3, <4>5 DEF CommentRight, next
    <3> QED BY <3>2, <3>3
  <2> QED BY <2>2, <2>3
<1>4. CASE r.state = "Init"
  <2>1. r.end = <<>> /\ known = SubSeq(text, 1, i)
    BY <1>4 DEF CommentGoing
  <2>2. CASE c = 0 \/ Matching(r, cs) = {}
    <3>1. next = NoMatch(r)
      BY <1>4, <2>2 DEF CommentStep
    <3>2. next.done /\ next.end = <<>>
      <4>1. NoMatch(r).done /\ NoMatch(r).end = r.end
        BY <1>1 DEF NoMatch, RunIn
      <4> QED BY <2>1, <3>1, <4>1
    <3> HIDE DEF next
    <3>3. CommentEnded(text, next)
      BY <3>2 DEF CommentEnded
    <3> QED BY <3>2, <3>3 DEF CommentRight, next
  <2>3. CASE c # 0 /\ Matching(r, cs) # {}
    <3>1. i + 1 \in 1 .. Len(text) /\ c = text[i + 1] /\ i + 1 \in Nat /\ i + 1 <= Len(text)
      BY <1>1, <1>2, <2>3
    <3>2. cs = SubSeq(text, 1, i + 1)
      BY <2>1, <3>1, <1>1, OneMoreRead
    <3>3. /\ read \in RunIn(S) /\ read.scan_count = i + 1 /\ read.state = "Init" /\ read.end = <<>>
          /\ ~read.done /\ lexer_discard(r) = read
      <4>1. 0 \in Char
        BY DEF Char
      <4> HIDE DEF S
      <4> QED BY <1>1, <1>4, <2>1, <4>1, Pushed DEF lexer_discard
    <3>4. CASE ~FullStart(r, cs)
      <4> DEFINE s == [read EXCEPT !.known = cs]
      <4>1. next = s
        BY <1>4, <2>3, <3>3, <3>4 DEF CommentStep
      <4> HIDE DEF next, read, cs, S
      <4>2. s.scan_count = i + 1 /\ s.state = "Init" /\ s.end = <<>> /\ s.known = cs /\ ~s.done
        BY <3>3 DEF RunIn
      <4> HIDE DEF s
      <4>3. CommentGoing(text, i + 1, s)
        BY <3>1, <3>2, <4>2 DEF CommentGoing
      <4> QED BY <4>1, <4>2, <4>3 DEF CommentRight, next
    <3>5. CASE FullStart(r, cs)
      <4> DEFINE m == CHOOSE m \in Matching(r, cs) : TRUE
                 end == Markers[m].end
                 q == To(read, "Text")
                 none == <<>>
                 s == [q EXCEPT !.known = none, !.end = end]
      <4>1. next = s
        BY <1>4, <2>3, <3>3, <3>5 DEF CommentStep
      <4>2. m \in DOMAIN Markers /\ Markers[m].start = cs
        BY <3>5 DEF FullStart, Matching
      <4>3. "Text" \in S
        BY DEF StatesOf
      <4> HIDE DEF next, read, cs, S, m
      <4>4. q \in RunIn(S) /\ q.scan_count = i + 1 /\ q.state = "Text" /\ ~q.done
        BY <3>3, <4>3, MovedTo
      <4> HIDE DEF q, end
      <4>5. s.scan_count = i + 1 /\ s.state = "Text" /\ s.end = end /\ ~s.done
        BY <4>4 DEF RunIn
      <4> HIDE DEF s
      <4>6. IsPrefix(Markers[m].start, text) /\ Len(Markers[m].start) = i + 1
        <5>1. cs \in Seq(Char) /\ Len(cs) = i + 1 /\ \A j \in 1 .. i + 1 : cs[j] = text[j]
          BY <3>1, <3>2, Beginning
        <5>2. IsPrefix(cs, text)
          BY <3>1, <5>1, PrefixPlaces
        <5> QED BY <4>2, <5>1, <5>2
      <4>7. ASSUME NEW p \in Int, PlainAt(text, s.end, i + 1, p) PROVE p > (i + 1) - 0
        BY <1>1, <4>7 DEF PlainAt, EndsAt
      <4>8. CommentIn(text, m, i + 1, s)
        BY <1>1, <4>2, <4>5, <4>6, <4>7 DEF CommentIn, Began, end
      <4>9. CommentGoing(text, i + 1, s)
        BY <3>1, <4>2, <4>5, <4>8 DEF CommentGoing
      <4> QED BY <4>1, <4>5, <4>9 DEF CommentRight, next
    <3> QED BY <3>4, <3>5
  <2> QED BY <2>2, <2>3
<1> QED BY <1>3, <1>4

\* Where an end marker stands, in the words of the property.
LEMMA EndPlaces ==
  ASSUME NEW text \in Seq(Char), NEW end \in Seq(Char), NEW begun \in Nat, NEW i \in Int
  PROVE  (i \in begun + 1 .. Len(text) - Len(end) + 1 /\ SubSeq(text, i, i + Len(end) - 1) = end)
           <=> EndsAt(text, end, begun, i)
<1> SUFFICES ASSUME i \in begun + 1 .. Len(text) - Len(end) + 1
             PROVE  SubSeq(text, i, i + Len(end) - 1) = end
                      <=> \A j \in 1 .. Len(end) : text[i + j - 1] = end[j]
  BY DEF EndsAt
<1> DEFINE n == Len(end)
           b == SubSeq(text, i, i + n - 1)
<1>1. n \in Nat /\ Len(text) \in Nat /\ i >= 1 /\ i + n - 1 <= Len(text)
  OBVIOUS
<1>2. b \in Seq(Char) /\ Len(b) = n /\ \A j \in 1 .. n : b[j] = text[i + j - 1]
  BY <1>1
<1> HIDE DEF b
<1>3. (\A j \in 1 .. n : b[j] = end[j]) => b = end
  BY <1>2, SeqEqual
<1>4. (\A j \in 1 .. n : b[j] = end[j]) <=> \A j \in 1 .. n : text[i + j - 1] = end[j]
  BY <1>2
<1> QED BY <1>3, <1>4 DEF b

\* Comments.
LEMMA CommentsRight == LexInv => CommentsEnd
<1> SUFFICES ASSUME LexInv, Ascii, NEW run \in {Whole("comment")}, Len(run.end) >= 2
             PROVE  \E m \in {k \in DOMAIN Markers : Markers[k].end = run.end /\ IsPrefix(Markers[k].start, Rest)} :
                      LET n == Len(run.end)
                          begun == Len(Markers[m].start)
                          ends == {i \in begun + 1 .. Len(Rest) - n + 1 : SubSeq(Rest, i, i + n - 1) = run.end}
                          plain == {i \in ends : \A j \in i - n + 1 .. i - 1 : j > begun => Rest[j] # Head(run.end)}
                      IN IF run.skips THEN run.scan_count - n + 1 \in ends /\ \A i \in plain : run.scan_count - n + 1 <= i
                         ELSE plain = {}
  BY DEF CommentsEnd
<1> DEFINE going == {x \in Nat \X RunIn(StatesOf("comment")) : CommentGoing(Rest, x[1], x[2])}
           ended == {r \in RunIn(StatesOf("comment")) : CommentEnded(Rest, r)}
<1>0. run = Whole("comment")
  OBVIOUS
<1>1. Rest \in Seq(Char) /\ Plain(Rest) /\ Len(Rest) \in Nat
  BY RestTyped, RestPlain DEF LexInv
<1>2. PICK top \in BOOLEAN : IsTop(top)
  BY DEF IsTop
<1>3. <<0, FreshRun(top)>> \in going
  <2>1. /\ FreshRun(top) \in RunIn(StatesOf("comment")) /\ FreshRun(top).scan_count = 0
        /\ FreshRun(top).state = "Init" /\ FreshRun(top).end = <<>> /\ FreshRun(top).known = <<>>
    BY FreshTyped DEF ScannerNames
  <2>2. SubSeq(Rest, 1, 0) = <<>>
    BY <1>1
  <2>3. CommentGoing(Rest, 0, FreshRun(top))
    BY <1>1, <2>1, <2>2 DEF CommentGoing
  <2> QED BY <2>1, <2>3
<1>4. ASSUME NEW i, NEW r, RunAt("comment", i, r), <<i, r>> \in going
      PROVE  Leads("comment", Rest, i, r, going, ended)
  <2> DEFINE h == HandedChar(r, CharAt(Rest, i + 1))
             next == ScanStep("comment", h)
  <2>1. i \in Nat /\ CommentGoing(Rest, i, r) /\ RunAt("comment", i, r)
    BY <1>4
  <2>2. i \in Nat /\ i <= Len(Rest) /\ r.scan_count = i /\ RunAt("comment", i, r)
    BY <2>1 DEF CommentGoing
  <2>3. Handles("comment", Rest, i, h) /\ Carries(r, h)
    <3> HIDE DEF going, ended
    <3> QED BY <1>1, <2>2, HandsOver
  <2> HIDE DEF h
  <2>4. CommentGoing(Rest, i, h)
    BY <2>1, <2>3 DEF CommentGoing, CommentIn, Began, Handles, Carries
  <2>5. next = CommentStep(h)
    BY DEF ScanStep
  <2>6. CommentRight(Rest, i, next)
    BY <1>1, <2>3, <2>4, <2>5, CommentGoesOn
  <2> HIDE DEF next
  <2>7. Valid("comment", next) => IF next.done THEN next \in ended ELSE <<i + 1, next>> \in going
    BY <2>1, <2>6 DEF CommentRight, Valid
  <2> QED BY <2>7 DEF Leads, next, h
<1>5. GoesRight("comment", Rest, going, ended)
  <2> HIDE DEF going, ended
  <2> QED BY <1>4 DEF GoesRight
<1>6. run \in ended
  <2>1. "comment" \in ScannerNames
    BY DEF ScannerNames
  <2> HIDE DEF going, ended
  <2> QED BY <1>2, <1>3, <1>5, <2>1, WholeEnds, <1>0
<1>7. CommentEnded(Rest, run) /\ run.end \in Seq(Char) /\ run.scan_count \in Nat
  BY <1>6 DEF RunIn
<1>8. PICK m \in DOMAIN Markers : CommentOut(Rest, m, run)
  BY <1>7 DEF CommentEnded
<1> DEFINE n == Len(run.end)
           begun == Len(Markers[m].start)
           ends == {i \in begun + 1 .. Len(Rest) - n + 1 : SubSeq(Rest, i, i + n - 1) = run.end}
           plain == {i \in ends : \A j \in i - n + 1 .. i - 1 : j > begun => Rest[j] # Head(run.end)}
           at == run.scan_count - n + 1
<1>9. begun \in Nat /\ n \in Nat /\ at \in Int /\ Head(run.end) = run.end[1]
  <2>1. begun \in Nat
    BY <1>8, MarkerTypes
  <2>2. run.end # <<>>
    OBVIOUS
  <2> QED BY <1>7, <2>1, <2>2
<1>10. \A i \in Int : i \in ends <=> EndsAt(Rest, run.end, begun, i)
  BY <1>1, <1>7, <1>9, EndPlaces
<1>11. ends \subseteq Int
  <2> DEFINE places == begun + 1 .. Len(Rest) - n + 1
  <2>1. places \subseteq Int
    <3> HIDE DEF begun, n
    <3> QED BY <1>1, <1>9
  <2>2. ends \subseteq places
    <3> HIDE DEF places
    <3> QED BY DEF places
  <2> QED BY <2>1, <2>2
<1> HIDE DEF ends
<1>12. \A i \in Int : i \in plain <=> PlainAt(Rest, run.end, begun, i)
  BY <1>9, <1>10 DEF PlainAt
<1>13. plain \subseteq Int
  BY <1>11
<1> HIDE DEF plain
<1>14. IF run.skips THEN at \in ends /\ \A i \in plain : at <= i ELSE plain = {}
  <2> HIDE DEF begun, n, at
  <2>1. IF run.skips THEN EndsAt(Rest, run.end, begun, at)
                          /\ \A p \in Int : PlainAt(Rest, run.end, begun, p) => at <= p
        ELSE \A p \in Int : ~PlainAt(Rest, run.end, begun, p)
    BY <1>8 DEF CommentOut, begun, at, n
  <2> QED BY <1>9, <1>10, <1>12, <1>13, <2>1
<1>15. Markers[m].end = run.end /\ IsPrefix(Markers[m].start, Rest)
  BY <1>8 DEF CommentOut
<1> QED BY <1>8, <1>14, <1>15 DEF plain, ends

(* number.c: the notations of a number, by the places in a text.           *)
DigitsAt(w, a, b) == \A j \in a .. b : IsDigit(w[j])

\* Digits with a period among them.
DecimalAt(w, b) ==
  \E p \in 1 .. b : w[p] = Period /\ DigitsAt(w, 1, p - 1) /\ DigitsAt(w, p + 1, b)

\* What stands before an exponent.
MantissaAt(w, b) == b >= 1 /\ (DigitsAt(w, 1, b) \/ DecimalAt(w, b))

\* Zeros, x and hexadecimal digits.
HexAt(w, b) ==
  \E x \in 2 .. b : /\ tolower(w[x]) = 120 /\ \A j \in 1 .. x - 1 : w[j] = 48
                    /\ \A j \in x + 1 .. b : IsHex(w[j])

\* The exponent behind e has digits, from f on.
ExponentAt(w, e, f, b) ==
  /\ e \in 2 .. b - 1 /\ tolower(w[e]) = 101 /\ MantissaAt(w, e - 1)
  /\ f = (IF w[e + 1] \in {Plus, Minus} THEN e + 2 ELSE e + 1) /\ f <= b /\ DigitsAt(w, f, b)

\* A number with an exponent.
ScientificAt(w, b) == \E e \in 2 .. b - 1, f \in 3 .. b : ExponentAt(w, e, f, b)

(* What a state of the scanner says of the first k characters without a    *)
(* sign.                                                                   *)
NumberIs(w, k, state) ==
  CASE state = "PlusMinus" -> k = 0
    [] state = "Zero" -> k >= 1 /\ \A j \in 1 .. k : w[j] = 48
    [] state = "Number" -> k >= 1 /\ DigitsAt(w, 1, k)
    [] state = "Period" -> k >= 1 /\ DecimalAt(w, k)
    [] state = "Float" -> k >= 2 /\ DecimalAt(w, k)
    [] state = "SciFloat" -> k >= 2 /\ tolower(w[k]) = 101 /\ MantissaAt(w, k - 1)
    [] state = "SciFloatExpSign" ->
         k >= 3 /\ w[k] \in {Plus, Minus} /\ tolower(w[k - 1]) = 101 /\ MantissaAt(w, k - 2)
    [] state = "SciFloatExp" -> k >= 3 /\ ScientificAt(w, k)
    [] state = "HexInteger" -> k >= 2 /\ HexAt(w, k)
    [] OTHER -> FALSE

\* Upper case makes no difference.
LEMMA LowerCase ==
  ASSUME NEW c \in Char
  PROVE  LET d == tolower(c)
         IN /\ d \in Char /\ (IsDigit(d) <=> IsDigit(c)) /\ (IsHex(d) <=> IsHex(c))
            /\ (d \in {Plus, Minus} <=> c \in {Plus, Minus}) /\ (d = Period <=> c = Period)
            /\ (IsDigit(c) => d = c) /\ (d = 0 <=> c = 0)
BY DEF Char, tolower, IsDigit, IsHex, Plus, Minus, Period

\* One more digit.
LEMMA MoreDigits ==
  ASSUME NEW w, NEW a \in Int, NEW k \in Int, DigitsAt(w, a, k), IsDigit(w[k + 1])
  PROVE  DigitsAt(w, a, k + 1)
<1> SUFFICES ASSUME NEW j \in a .. k + 1 PROVE IsDigit(w[j])
  BY DEF DigitsAt
<1>1. j \in a .. k \/ j = k + 1
  OBVIOUS
<1> QED BY <1>1 DEF DigitsAt

\* A digit goes on where a decimal goes on.
LEMMA MoreDecimals ==
  ASSUME NEW w, NEW k \in Int, DecimalAt(w, k), IsDigit(w[k + 1])
  PROVE  DecimalAt(w, k + 1)
<1>1. PICK p \in 1 .. k : w[p] = Period /\ DigitsAt(w, 1, p - 1) /\ DigitsAt(w, p + 1, k)
  BY DEF DecimalAt
<1>2. DigitsAt(w, p + 1, k + 1)
  BY <1>1, MoreDigits
<1>3. p \in 1 .. k + 1
  OBVIOUS
<1> QED BY <1>1, <1>2, <1>3 DEF DecimalAt

\* A period behind digits.
LEMMA PointBehind ==
  ASSUME NEW w, NEW k \in Nat, DigitsAt(w, 1, k), w[k + 1] = Period
  PROVE  DecimalAt(w, k + 1)
<1>1. k + 1 \in 1 .. k + 1 /\ (k + 1) - 1 = k
  OBVIOUS
<1>2. DigitsAt(w, (k + 1) + 1, k + 1)
  BY DEF DigitsAt
<1> QED BY <1>1, <1>2 DEF DecimalAt

\* No digits.
LEMMA NoDigits == ASSUME NEW w PROVE DigitsAt(w, 1, 0)
BY DEF DigitsAt

\* Zeros are digits.
LEMMA ZerosAreDigits ==
  ASSUME NEW w, NEW k \in Nat, \A j \in 1 .. k : w[j] = 48
  PROVE  DigitsAt(w, 1, k)
BY DEF DigitsAt, IsDigit

\* A state of the scanner leads to one that is right.
LEMMA NotationGoesOn ==
  ASSUME NEW w, NEW k \in Nat, NEW run, NEW c \in Char, c = w[k + 1],
         IF run.state = "Init" THEN k = 0 /\ ~(Signed /\ c \in {Plus, Minus}) ELSE NumberIs(w, k, run.state),
         run.state \in StatesOf("number"), NumNext(run, tolower(c)) # "Done"
  PROVE  NumberIs(w, k + 1, NumNext(run, tolower(c)))
<1> DEFINE d == tolower(c)
           next == NumNext(run, d)
           state == run.state
<1>1. /\ d \in Char /\ (IsDigit(d) <=> IsDigit(c)) /\ (IsHex(d) <=> IsHex(c))
      /\ (d \in {Plus, Minus} <=> c \in {Plus, Minus}) /\ (d = Period <=> c = Period)
      /\ (IsDigit(c) => d = c)
  BY LowerCase
<1>2. k + 1 \in Nat /\ k + 1 >= 1 /\ (k + 1) - 1 = k
  OBVIOUS
<1> HIDE DEF d
<1>3. IsDigit(c) => IsDigit(w[k + 1])
  OBVIOUS
<1>4. CASE state \in {"Init", "PlusMinus"}
  <2>1. k = 0 /\ DigitsAt(w, 1, k)
    BY <1>4, NoDigits DEF NumberIs
  <2>2. next \in {"Zero", "Number", "Period"} /\ (next = "Zero" => c = 48) /\ (next = "Number" => IsDigit(c))
        /\ (next = "Period" => c = Period)
    BY <1>1, <1>4 DEF NumNext, d
  <2>3. CASE next = "Zero"
    BY <2>1, <2>2, <2>3 DEF NumberIs, d
  <2>4. CASE next = "Number"
    <3>1. DigitsAt(w, 1, k + 1)
      BY <2>1, <2>2, <2>4, MoreDigits
    <3> QED BY <1>2, <2>4, <3>1 DEF NumberIs, d
  <2>5. CASE next = "Period"
    <3>1. DecimalAt(w, k + 1)
      BY <2>1, <2>2, <2>5, PointBehind
    <3> QED BY <1>2, <2>5, <3>1 DEF NumberIs, d
  <2> QED BY <2>2, <2>3, <2>4, <2>5
<1>5. CASE state = "Period"
  <2>1. k >= 1 /\ DecimalAt(w, k)
    BY <1>5 DEF NumberIs
  <2>2. (next = "Float" /\ IsDigit(c)) \/ (next = "SciFloat" /\ d = 101)
    BY <1>1, <1>5 DEF NumNext, d
  <2>3. CASE next = "Float" /\ IsDigit(c)
    <3>1. DecimalAt(w, k + 1)
      BY <1>3, <2>1, <2>3, MoreDecimals
    <3> QED BY <2>1, <2>3, <3>1 DEF NumberIs, d
  <2>4. CASE next = "SciFloat" /\ d = 101
    BY <1>2, <2>1, <2>4 DEF NumberIs, MantissaAt, d
  <2> QED BY <2>2, <2>3, <2>4
<1>6. CASE state = "Zero"
  <2>1. k >= 1 /\ (\A j \in 1 .. k : w[j] = 48) /\ DigitsAt(w, 1, k)
    BY <1>6, ZerosAreDigits DEF NumberIs
  <2>2. \/ next = "Zero" /\ c = 48
        \/ next = "Number" /\ IsDigit(c)
        \/ next = "Float" /\ c = Period
        \/ next = "HexInteger" /\ d = 120
    BY <1>1, <1>6 DEF NumNext, d
  <2>3. CASE next = "Zero" /\ c = 48
    <3>1. \A j \in 1 .. k + 1 : w[j] = 48
      <4> SUFFICES ASSUME NEW j \in 1 .. k + 1 PROVE w[j] = 48
        OBVIOUS
      <4>1. j \in 1 .. k \/ j = k + 1
        OBVIOUS
      <4> QED BY <2>1, <2>3, <4>1
    <3> QED BY <2>3, <3>1 DEF NumberIs, d
  <2>4. CASE next = "Number" /\ IsDigit(c)
    <3>1. DigitsAt(w, 1, k + 1)
      BY <2>1, <2>4, MoreDigits
    <3> QED BY <1>2, <2>4, <3>1 DEF NumberIs, d
  <2>5. CASE next = "Float" /\ c = Period
    <3>1. DecimalAt(w, k + 1)
      BY <2>1, <2>5, PointBehind
    <3> QED BY <2>1, <2>5, <3>1 DEF NumberIs, d
  <2>6. CASE next = "HexInteger" /\ d = 120
    <3>1. tolower(w[k + 1]) = 120
      BY <2>6 DEF d
    <3>2. HexAt(w, k + 1)
      <4>1. k + 1 \in 2 .. k + 1 /\ \A j \in (k + 1) + 1 .. k + 1 : IsHex(w[j])
        BY <2>1
      <4> QED BY <1>2, <2>1, <3>1, <4>1 DEF HexAt
    <3> QED BY <2>1, <2>6, <3>2 DEF NumberIs, d
  <2> QED BY <2>2, <2>3, <2>4, <2>5, <2>6
<1>7. CASE state = "Number"
  <2>1. k >= 1 /\ DigitsAt(w, 1, k)
    BY <1>7 DEF NumberIs
  <2>2. \/ next = "Number" /\ IsDigit(c)
        \/ next = "Period" /\ c = Period
        \/ next = "SciFloat" /\ d = 101
    BY <1>1, <1>7 DEF NumNext, d
  <2>3. CASE next = "Number" /\ IsDigit(c)
    <3>1. DigitsAt(w, 1, k + 1)
      BY <2>1, <2>3, MoreDigits
    <3> QED BY <1>2, <2>3, <3>1 DEF NumberIs, d
  <2>4. CASE next = "Period" /\ c = Period
    <3>1. DecimalAt(w, k + 1)
      BY <2>1, <2>4, PointBehind
    <3> QED BY <2>1, <2>4, <3>1 DEF NumberIs, d
  <2>5. CASE next = "SciFloat" /\ d = 101
    BY <1>2, <2>1, <2>5 DEF NumberIs, MantissaAt, d
  <2> QED BY <2>2, <2>3, <2>4, <2>5
<1>8. CASE state = "Float"
  <2>1. k >= 2 /\ DecimalAt(w, k)
    BY <1>8 DEF NumberIs
  <2>2. (next = "Float" /\ IsDigit(c)) \/ (next = "SciFloat" /\ d = 101)
    BY <1>1, <1>8 DEF NumNext, d
  <2>3. CASE next = "Float" /\ IsDigit(c)
    <3>1. DecimalAt(w, k + 1)
      BY <1>3, <2>1, <2>3, MoreDecimals
    <3> QED BY <2>1, <2>3, <3>1 DEF NumberIs, d
  <2>4. CASE next = "SciFloat" /\ d = 101
    BY <1>2, <2>1, <2>4 DEF NumberIs, MantissaAt, d
  <2> QED BY <2>2, <2>3, <2>4
<1>9. CASE state = "SciFloat"
  <2>1. k >= 2 /\ tolower(w[k]) = 101 /\ MantissaAt(w, k - 1)
    BY <1>9 DEF NumberIs
  <2>2. (next = "SciFloatExp" /\ IsDigit(c)) \/ (next = "SciFloatExpSign" /\ c \in {Plus, Minus})
    BY <1>1, <1>9 DEF NumNext, d
  <2>3. CASE next = "SciFloatExp" /\ IsDigit(c)
    <3>1. DigitsAt(w, k + 1, k + 1)
      BY <2>3 DEF DigitsAt
    <3>2. c \notin {Plus, Minus}
      BY <2>3 DEF IsDigit, Plus, Minus
    <3>3. k \in 2 .. (k + 1) - 1 /\ k + 1 \in 3 .. k + 1
      BY <2>1
    <3>4. ExponentAt(w, k, k + 1, k + 1)
      BY <2>1, <3>1, <3>2, <3>3 DEF ExponentAt
    <3>5. ScientificAt(w, k + 1)
      BY <3>3, <3>4 DEF ScientificAt
    <3> QED BY <2>1, <2>3, <3>5 DEF NumberIs, d
  <2>4. CASE next = "SciFloatExpSign" /\ c \in {Plus, Minus}
    <3>1. (k + 1) - 2 = k - 1 /\ k + 1 >= 3
      BY <2>1
    <3> QED BY <1>2, <2>1, <2>4, <3>1 DEF NumberIs, d
  <2> QED BY <2>2, <2>3, <2>4
<1>10. CASE state = "SciFloatExpSign"
  <2>1. k >= 3 /\ w[k] \in {Plus, Minus} /\ tolower(w[k - 1]) = 101 /\ MantissaAt(w, k - 2)
    BY <1>10 DEF NumberIs
  <2>2. next = "SciFloatExp" /\ IsDigit(c)
    BY <1>1, <1>10 DEF NumNext, d
  <2>3. DigitsAt(w, k + 1, k + 1)
    BY <2>2 DEF DigitsAt
  <2>4. k - 1 \in 2 .. (k + 1) - 1 /\ k + 1 \in 3 .. k + 1 /\ (k - 1) - 1 = k - 2 /\ (k - 1) + 1 = k
        /\ (k - 1) + 2 = k + 1
    BY <2>1
  <2>5. ExponentAt(w, k - 1, k + 1, k + 1)
    BY <2>1, <2>3, <2>4 DEF ExponentAt
  <2>6. ScientificAt(w, k + 1)
    BY <2>4, <2>5 DEF ScientificAt
  <2> QED BY <2>1, <2>2, <2>6 DEF NumberIs, d
<1>11. CASE state = "SciFloatExp"
  <2>1. k >= 3 /\ ScientificAt(w, k)
    BY <1>11 DEF NumberIs
  <2>2. next = "SciFloatExp" /\ IsDigit(c)
    BY <1>1, <1>11 DEF NumNext, d
  <2>3. PICK e \in 2 .. k - 1 : \E f \in 3 .. k : ExponentAt(w, e, f, k)
    BY <2>1 DEF ScientificAt
  <2>4. PICK f \in 3 .. k : ExponentAt(w, e, f, k)
    BY <2>3
  <2>5. DigitsAt(w, f, k + 1)
    BY <2>2, <2>4, MoreDigits DEF ExponentAt
  <2>6. e \in 2 .. (k + 1) - 1 /\ f \in 3 .. k + 1 /\ f <= k + 1
    OBVIOUS
  <2>7. ExponentAt(w, e, f, k + 1)
    BY <2>4, <2>5, <2>6 DEF ExponentAt
  <2>8. ScientificAt(w, k + 1)
    BY <2>6, <2>7 DEF ScientificAt
  <2> QED BY <2>1, <2>2, <2>8 DEF NumberIs, d
<1>12. CASE state = "HexInteger"
  <2>1. k >= 2 /\ HexAt(w, k)
    BY <1>12 DEF NumberIs
  <2>2. next = "HexInteger" /\ IsHex(c)
    BY <1>1, <1>12 DEF NumNext, d
  <2>3. PICK x \in 2 .. k : /\ tolower(w[x]) = 120 /\ \A j \in 1 .. x - 1 : w[j] = 48
                            /\ \A j \in x + 1 .. k : IsHex(w[j])
    BY <2>1 DEF HexAt
  <2>4. \A j \in x + 1 .. k + 1 : IsHex(w[j])
    <3> SUFFICES ASSUME NEW j \in x + 1 .. k + 1 PROVE IsHex(w[j])
      OBVIOUS
    <3>1. j \in x + 1 .. k \/ j = k + 1
      OBVIOUS
    <3> QED BY <2>2, <2>3, <3>1
  <2>5. x \in 2 .. k + 1
    OBVIOUS
  <2>6. HexAt(w, k + 1)
    BY <2>3, <2>4, <2>5 DEF HexAt
  <2> QED BY <2>1, <2>2, <2>6 DEF NumberIs, d
<1>13. state \in {"Init", "PlusMinus", "Zero", "Number", "Period", "Float", "SciFloat",
                  "SciFloatExpSign", "SciFloatExp", "HexInteger"}
  BY DEF StatesOf
<1> QED BY <1>4, <1>5, <1>6, <1>7, <1>8, <1>9, <1>10, <1>11, <1>12, <1>13

\* The sign of a number, and what is behind it.
IsUnsigned(text, s, w) ==
  /\ s \in {0, 1} /\ w = SubSeq(text, s + 1, Len(text))
  /\ s = 1 <=> Signed /\ Len(text) >= 1 /\ text[1] \in {Plus, Minus}

\* The characters behind the sign.
LEMMA UnsignedPlaces ==
  ASSUME NEW text \in Seq(Char), NEW s, NEW w, IsUnsigned(text, s, w)
  PROVE  /\ s \in {0, 1} /\ s <= Len(text) /\ w \in Seq(Char) /\ Len(w) = Len(text) - s
         /\ \A j \in 1 .. Len(text) - s : w[j] = text[j + s]
<1>1. Len(text) \in Nat /\ s \in {0, 1} /\ s <= Len(text) /\ w = SubSeq(text, s + 1, Len(text))
  BY DEF IsUnsigned
<1>2. CASE s = 0
  <2>1. SubSeq(text, 1, Len(text)) = text
    OBVIOUS
  <2> QED BY <1>1, <1>2, <2>1
<1>3. CASE s = 1
  <2>1. s \in Nat /\ s <= Len(text)
    BY <1>1
  <2>2. /\ w \in Seq(Char) /\ Len(w) = Len(text) - s
        /\ \A j \in 1 .. Len(text) - s : w[j] = text[s + j]
    BY <1>1, <2>1, Behind
  <2>3. \A j \in 1 .. Len(text) - s : s + j = j + s
    BY <1>1
  <2> QED BY <1>1, <2>2, <2>3
<1> QED BY <1>1, <1>2, <1>3

(* Where the digits are read: what the next state says of the character    *)
(* that led to it.                                                         *)
Follows(state, c, next) ==
  /\ next # "Init" /\ next \in StatesOf("number") \cup {"Done"}
  /\ next = "PlusMinus" <=> state = "Init" /\ Signed /\ c \in {Plus, Minus}
  /\ next = "Zero" => state \in {"Init", "PlusMinus", "Zero"} /\ c = 48
  /\ next = "Number" => IF state = "Number" THEN IsDigit(c)
                        ELSE state \in {"Init", "PlusMinus", "Zero"} /\ c \in 49 .. 57
  /\ (next = "Done" /\ NumCode(state) # TokenCodeNone) =>
       state \notin {"Init", "PlusMinus"} /\ ~IsDigit(c)

\* A step of the scanner reads digits so, in upper and in lower case.
LEMMA DigitCodes ==
  ASSUME NEW c \in Char, NEW run, run.state \in StatesOf("number"), NEW next, next = NumNext(run, tolower(c))
  PROVE  Follows(run.state, c, next)
<1>1. LET d == tolower(c)
      IN /\ (IsDigit(d) <=> IsDigit(c)) /\ (d \in {Plus, Minus} <=> c \in {Plus, Minus})
         /\ (d = Period <=> c = Period) /\ (IsDigit(c) => d = c)
  BY LowerCase
<1> DEFINE d == tolower(c)
<1>2. /\ (IsDigit(d) <=> IsDigit(c)) /\ (d \in {Plus, Minus} <=> c \in {Plus, Minus})
      /\ (d = Period <=> c = Period) /\ (IsDigit(c) => d = c) /\ next = NumNext(run, d)
  BY <1>1
<1> HIDE DEF d
<1>3. run.state \in {"Init", "PlusMinus", "Zero", "Number", "Period", "Float", "SciFloat",
                     "SciFloatExpSign", "SciFloatExp", "HexInteger"}
  BY DEF StatesOf
<1>4. next \in StatesOf("number") \cup {"Done"}
  BY <1>2, NumStates
<1>5. next # "Init"
  BY <1>2, <1>3 DEF NumNext
<1>6. next = "PlusMinus" <=> run.state = "Init" /\ Signed /\ c \in {Plus, Minus}
  BY <1>2, <1>3 DEF NumNext
<1>7. next = "Zero" => run.state \in {"Init", "PlusMinus", "Zero"} /\ c = 48
  <2>1. d = 48 /\ IsDigit(d) => c = 48
    BY <1>2
  <2>2. IsDigit(48)
    BY DEF IsDigit
  <2> QED BY <1>2, <1>3, <2>1, <2>2 DEF NumNext
<1>8. next = "Number" => IF run.state = "Number" THEN IsDigit(c)
                         ELSE run.state \in {"Init", "PlusMinus", "Zero"} /\ IsDigit(c) /\ d # 48
  BY <1>2, <1>3 DEF NumNext
<1>9. IsDigit(c) /\ d # 48 => c \in 49 .. 57
  BY <1>2 DEF IsDigit
<1>10. (next = "Done" /\ NumCode(run.state) # TokenCodeNone) =>
         run.state \notin {"Init", "PlusMinus"} /\ ~IsDigit(c)
  <2>1. NumCode("Init") = TokenCodeNone /\ NumCode("PlusMinus") = TokenCodeNone
        /\ NumCode("Period") = TokenCodeNone
    BY DEF NumCode
  <2>2. IsDigit(d) => IsHex(d)
    BY DEF IsHex
  <2>3. ASSUME next = "Done", IsDigit(d) PROVE FALSE
    BY <1>2, <1>3, <2>2, <2>3 DEF NumNext
  <2> QED BY <1>2, <2>1, <2>3
<1> QED BY <1>4, <1>5, <1>6, <1>7, <1>8, <1>9, <1>10 DEF Follows

\* The token that goes with a state: its sign, and its digits without leading zeros.
NumberToken(text, s, state, token) ==
  /\ state = "Init" => token = <<>>
  /\ (state \in {"PlusMinus", "Zero", "Number"} /\ s = 1) => Len(token) >= 1 /\ token[1] = text[1]
  /\ state = "PlusMinus" => s = 1 /\ Len(token) = 1
  /\ state = "Zero" => Len(token) = s + 1 /\ token[s + 1] = 48
  /\ state = "Number" => Len(token) >= s + 1 /\ token[s + 1] \in 49 .. 57

\* It goes on so.
LEMMA TokenGoesOn ==
  ASSUME NEW text, NEW s \in {0, 1}, NEW state, NEW next, NEW token \in Seq(Char), NEW c \in Char,
         NumberToken(text, s, state, token), Follows(state, c, next),
         state = "Init" => (s = 1 <=> next = "PlusMinus") /\ c = text[1]
  PROVE  NumberToken(text, s, next,
           Append(IF state = "Zero" /\ IsDigit(c) THEN SubSeq(token, 1, Len(token) - 1) ELSE token, c))
<1> DEFINE kept == IF state = "Zero" /\ IsDigit(c) THEN SubSeq(token, 1, Len(token) - 1) ELSE token
           pushed == Append(kept, c)
<1>1. next # "Init"
  BY DEF Follows
<1>2. ASSUME NEW q \in Seq(Char), kept = q
      PROVE  /\ Len(pushed) = Len(q) + 1 /\ pushed[Len(q) + 1] = c /\ Len(q) \in Nat
             /\ \A j \in 1 .. Len(q) : pushed[j] = q[j]
  <2> HIDE DEF kept
  <2> QED BY <1>2
<1>3. CASE next = "PlusMinus"
  <2>1. state = "Init" /\ s = 1 /\ c = text[1] /\ token = <<>> /\ kept = <<>> /\ <<>> \in Seq(Char)
    BY <1>3 DEF Follows, NumberToken
  <2>2. Len(pushed) = 0 + 1 /\ pushed[0 + 1] = c
    <3> HIDE DEF kept, pushed
    <3> QED BY <1>2, <2>1
  <2> HIDE DEF kept, pushed
  <2> QED BY <1>3, <2>1, <2>2 DEF NumberToken, pushed, kept
<1>4. CASE next \in {"Zero", "Number"} /\ state \in {"Init", "PlusMinus", "Zero"}
  <2>1. (next = "Zero" => c = 48) /\ (next = "Number" => c \in 49 .. 57)
    BY <1>4 DEF Follows
  <2>2. PICK q \in Seq(Char) : kept = q /\ Len(q) = s /\ (s = 1 => q[1] = text[1])
    <3>1. CASE state = "Init"
      <4>1. s = 0 /\ kept = <<>>
        BY <1>4, <3>1 DEF NumberToken, Follows
      <4>2. PICK q \in Seq(Char) : q = <<>>
        <5>1. <<>> \in Seq(Char)
          OBVIOUS
        <5> QED BY <5>1, Zenon
      <4>3. Len(q) = s /\ s # 1
        BY <4>1, <4>2
      <4> HIDE DEF kept
      <4> QED BY <4>1, <4>2, <4>3
    <3>2. CASE state = "PlusMinus"
      <4>1. s = 1 /\ kept = token /\ Len(token) = 1 /\ token[1] = text[1]
        BY <1>4, <3>2 DEF NumberToken
      <4> QED BY <4>1
    <3>3. CASE state = "Zero"
      <4>1. IsDigit(c)
        BY <1>4, <2>1 DEF IsDigit
      <4>2. Len(token) = s + 1 /\ (s = 1 => token[1] = text[1])
        BY <3>3 DEF NumberToken
      <4>3. kept = SubSeq(token, 1, s)
        BY <3>3, <4>1, <4>2
      <4>4. /\ SubSeq(token, 1, s) \in Seq(Char) /\ Len(SubSeq(token, 1, s)) = s
            /\ (s = 1 => SubSeq(token, 1, s)[1] = token[1])
        BY <4>2
      <4> QED BY <4>2, <4>3, <4>4
    <3> QED BY <1>4, <3>1, <3>2, <3>3
  <2>3. Len(pushed) = s + 1 /\ pushed[s + 1] = c /\ (s = 1 => pushed[1] = text[1])
    <3>1. /\ Len(pushed) = Len(q) + 1 /\ pushed[Len(q) + 1] = c
          /\ \A j \in 1 .. Len(q) : pushed[j] = q[j]
      BY <1>2, <2>2
    <3> HIDE DEF kept, pushed
    <3> QED BY <2>2, <3>1
  <2> HIDE DEF kept, pushed
  <2> QED BY <1>4, <2>1, <2>3 DEF NumberToken, pushed, kept
<1>5. CASE next \in {"Zero", "Number"} /\ state \notin {"Init", "PlusMinus", "Zero"}
  <2>1. next = "Number" /\ state = "Number"
    BY <1>5 DEF Follows
  <2>2. kept = token /\ Len(token) >= s + 1 /\ token[s + 1] \in 49 .. 57 /\ (s = 1 => token[1] = text[1])
    BY <2>1 DEF NumberToken
  <2>3. Len(pushed) >= s + 1 /\ pushed[s + 1] = token[s + 1] /\ (s = 1 => pushed[1] = text[1])
    <3>1. /\ Len(pushed) = Len(token) + 1 /\ \A j \in 1 .. Len(token) : pushed[j] = token[j]
      BY <1>2, <2>2
    <3> HIDE DEF kept, pushed
    <3> QED BY <2>2, <3>1
  <2> HIDE DEF kept, pushed
  <2> QED BY <2>1, <2>2, <2>3 DEF NumberToken, pushed, kept
<1>6. CASE next \notin {"PlusMinus", "Zero", "Number"}
  <2> HIDE DEF pushed
  <2> QED BY <1>1, <1>6 DEF NumberToken, pushed
<1> QED BY <1>3, <1>4, <1>5, <1>6

(* A number that is being read: what was counted is what its state says,   *)
(* and the token goes with it.                                             *)
NumberGoing(text, s, w, i, run) ==
  /\ i <= Len(text) /\ run.scan_count = i /\ NumberToken(text, s, run.state, run.token)
  /\ IF run.state = "Init" THEN i = 0 ELSE i >= s /\ NumberIs(w, i - s, run.state)

\* One that has been read.
NumberEnded(text, s, w, run) ==
  run.out # NoToken =>
    \E state \in StatesOf("number") \ {"Init", "PlusMinus"} :
      /\ run.out.code = NumCode(state) /\ NumCode(state) # TokenCodeNone
      /\ run.scan_count \in s .. Len(text) /\ NumberIs(w, run.scan_count - s, state)
      /\ Len(text) > run.scan_count => ~IsDigit(text[run.scan_count + 1])
      /\ state \in {"Zero", "Number"} => NumberToken(text, s, state, run.out.text)

\* What a step of the scanner makes of the one.
NumberRight(text, s, w, i, next) ==
  IF next.done THEN NumberEnded(text, s, w, next) ELSE NumberGoing(text, s, w, i + 1, next)

(* number.c:124 -- a number that is being read goes on in its notation, or *)
(* ends where no digit follows.                                            *)
LEMMA NumberStep ==
  ASSUME NEW text \in Seq(Char), NEW s, NEW w, IsUnsigned(text, s, w),
         NEW i, NEW r, Handles("number", text, i, r), NumberGoing(text, s, w, i, r)
  PROVE  NumberRight(text, s, w, i, NumStep(r))
<1> DEFINE c == r.ch
           S == StatesOf("number")
           state == r.state
           next == NumNext(r, tolower(c))
           token == IF state = "Zero" /\ IsDigit(tolower(c))
                    THEN SubSeq(r.token, 1, Len(r.token) - 1) ELSE r.token
           cut == [r EXCEPT !.token = token]
           p == lexer_push_as(cut, c)
           t == To(p, next)
           after == NumStep(r)
<1>1. /\ i \in Nat /\ i <= Len(text) /\ Len(text) \in Nat /\ r \in RunIn(S) /\ ~r.done
      /\ r.scan_count = i /\ r.out = NoToken
  BY DEF Handles
<1>2. c \in Char /\ IF i = Len(text) THEN c = 0 ELSE i + 1 \in 1 .. Len(text) /\ c = text[i + 1] /\ c > 0
  BY DEF Handles, RunIn
<1>3. state \in S /\ r.token \in Seq(Char)
  BY <1>1 DEF RunIn
<1>4. /\ s \in {0, 1} /\ s <= Len(text) /\ \A j \in 1 .. Len(text) - s : w[j] = text[j + s]
  BY UnsignedPlaces
<1>5. Follows(state, c, next)
  BY <1>2, <1>3, DigitCodes
<1>6. after = IF next # "Done" THEN t
              ELSE IF NumCode(state) = TokenCodeNone THEN NoMatch(r) ELSE lexer_accept(r, NumCode(state))
  BY DEF NumStep
<1>7. /\ NumberToken(text, s, state, r.token)
      /\ IF state = "Init" THEN i = 0 ELSE i >= s /\ NumberIs(w, i - s, state)
  BY DEF NumberGoing
<1>8. CASE next = "Done" /\ NumCode(state) = TokenCodeNone
  <2>1. after = NoMatch(r)
    BY <1>6, <1>8
  <2> HIDE DEF after
  <2>2. after.done /\ after.out = NoToken
    BY <1>1, <2>1, Left
  <2> QED BY <2>2 DEF NumberRight, NumberEnded, after
<1>9. CASE next = "Done" /\ NumCode(state) # TokenCodeNone
  <2>1. after = lexer_accept(r, NumCode(state)) /\ NumCode(state) \in Int
    BY <1>3, <1>6, <1>9, NumStates
  <2>2. state \in S \ {"Init", "PlusMinus"} /\ ~IsDigit(c)
    BY <1>3, <1>5, <1>9 DEF Follows
  <2> HIDE DEF after, next, state, c, S
  <2>3. after.done /\ after.scan_count = i /\ after.out.code = NumCode(state)
    BY <1>1, <2>1, Accepted
  <2>4. state \in {"Zero", "Number"} => after.out.text = r.token
    <3> SUFFICES ASSUME state \in {"Zero", "Number"} PROVE after.out.text = r.token
      OBVIOUS
    <3>1. NumCode(state) # TokenCodeError
      BY DEF NumCode, TokenCodeInteger, TokenCodeError
    <3>2. after = [r EXCEPT !.done = TRUE, !.out = [code |-> NumCode(state), text |-> r.token]]
      BY <2>1, <3>1 DEF lexer_accept
    <3> DEFINE out == [code |-> NumCode(state), text |-> r.token]
    <3>3. out.text = r.token /\ after = [r EXCEPT !.done = TRUE, !.out = out]
      BY <3>2
    <3> HIDE DEF out
    <3>4. after.out = out
      BY <1>1, <3>3 DEF RunIn
    <3> QED BY <3>3, <3>4
  <2>5. i \in s .. Len(text) /\ NumberIs(w, i - s, state)
    BY <1>1, <1>4, <1>7, <2>2
  <2>6. Len(text) > i => ~IsDigit(text[i + 1])
    BY <1>1, <1>2, <2>2
  <2>7. state \in {"Zero", "Number"} => NumberToken(text, s, state, after.out.text)
    BY <1>7, <2>4
  <2>8. NumberEnded(text, s, w, after)
    BY <1>9, <2>2, <2>3, <2>5, <2>6, <2>7 DEF NumberEnded, S
  <2> QED BY <2>3, <2>8 DEF NumberRight, after
<1>10. CASE next # "Done"
  <2>1. c # 0
    <3>1. c = 0 => next = "Done"
      BY <1>3, EndIsNone, NumEnds
    <3> QED BY <1>10, <3>1
  <2>2. i < Len(text) /\ i + 1 \in 1 .. Len(text) /\ c = text[i + 1] /\ c > 0
    BY <1>1, <1>2, <2>1
  <2>3. state = "Init" => i = 0 /\ (s = 1 <=> next = "PlusMinus") /\ c = text[1]
    <3> SUFFICES ASSUME state = "Init" PROVE i = 0 /\ (s = 1 <=> next = "PlusMinus") /\ c = text[1]
      OBVIOUS
    <3>1. i = 0 /\ c = text[1] /\ Len(text) >= 1
      BY <1>1, <1>7, <2>2
    <3> HIDE DEF next, c
    <3> QED BY <1>5, <3>1 DEF Follows, IsUnsigned
  <2>4. token \in Seq(Char) /\ (IsDigit(tolower(c)) <=> IsDigit(c))
    <3>1. SubSeq(r.token, 1, Len(r.token) - 1) \in Seq(Char)
      BY <1>3
    <3>2. LET d == tolower(c) IN IsDigit(d) <=> IsDigit(c)
      BY <1>2, LowerCase
    <3> QED BY <1>3, <3>1, <3>2
  <2>5. NumberToken(text, s, next, Append(token, c))
    <3> DEFINE kept == IF state = "Zero" /\ IsDigit(c) THEN SubSeq(r.token, 1, Len(r.token) - 1) ELSE r.token
    <3>1. token = kept
      BY <2>4
    <3>2. NumberToken(text, s, next, Append(kept, c))
      <4> HIDE DEF next, c, state
      <4> QED BY <1>2, <1>3, <1>4, <1>5, <1>7, <2>3, TokenGoesOn
    <3> HIDE DEF kept, token
    <3> QED BY <3>1, <3>2
  <2>6. next \in S /\ next # "Init"
    BY <1>5, <1>10 DEF Follows
  <2>7. /\ i + 1 <= Len(text) /\ i + 1 >= s /\ NumberIs(w, (i + 1) - s, next)
    <3>1. CASE next = "PlusMinus"
      <4>1. i = 0 /\ s = 1
        BY <1>5, <2>3, <3>1 DEF Follows
      <4> HIDE DEF next
      <4> QED BY <2>2, <3>1, <4>1 DEF NumberIs
    <3>2. CASE next # "PlusMinus"
      <4>1. i >= s
        BY <1>1, <1>4, <1>7, <2>3, <3>2
      <4> DEFINE k == i - s
      <4>2. k \in Nat /\ k + 1 \in 1 .. Len(text) - s /\ (k + 1) + s = i + 1 /\ k + 1 = (i + 1) - s
            /\ (i = 0 => k = 0) /\ i + 1 <= Len(text) /\ i + 1 >= s
        BY <1>1, <1>4, <2>2, <4>1
      <4>3. c = w[k + 1]
        <5> HIDE DEF k, c
        <5>1. w[k + 1] = text[(k + 1) + s]
          BY <1>4, <4>2
        <5> QED BY <2>2, <4>2, <5>1
      <4>4. IF state = "Init" THEN k = 0 /\ ~(Signed /\ c \in {Plus, Minus}) ELSE NumberIs(w, k, state)
        <5>1. CASE state = "Init"
          <6>1. ~(Signed /\ c \in {Plus, Minus})
            BY <1>5, <3>2, <5>1 DEF Follows
          <6> QED BY <1>7, <4>2, <5>1, <6>1
        <5>2. CASE state # "Init"
          BY <1>7, <5>2
        <5> QED BY <5>1, <5>2
      <4>5. NumberIs(w, k + 1, next)
        <5> HIDE DEF k, c
        <5> QED BY <1>2, <1>3, <1>10, <4>2, <4>3, <4>4, NotationGoesOn DEF c
      <4> HIDE DEF k, next
      <4> QED BY <4>2, <4>5
    <3> QED BY <3>1, <3>2
  <2>8. t.scan_count = i + 1 /\ t.state = next /\ t.token = Append(token, c) /\ ~t.done
    <3> HIDE DEF token, c, next, S
    <3>1. cut \in RunIn(S) /\ cut.scan_count = i /\ cut.token = token /\ ~cut.done
      BY <1>1, <2>4 DEF RunIn
    <3> HIDE DEF cut
    <3>a. c \in Char
      BY <1>2
    <3>2. p \in RunIn(S) /\ p.scan_count = i + 1 /\ ~p.done
      BY <3>1, <3>a, Pushed
    <3>3. p.token = Append(token, c)
      BY <2>2, <3>1, PushedToken
    <3> HIDE DEF p
    <3>4. t.scan_count = i + 1 /\ t.state = next /\ ~t.done
      BY <2>6, <3>2, MovedTo
    <3>5. t.token = p.token
      BY <3>2 DEF RunIn, To
    <3> QED BY <3>3, <3>4, <3>5
  <2>9. NumberGoing(text, s, w, i + 1, t)
    <3> HIDE DEF t, next, token, c
    <3> QED BY <2>5, <2>6, <2>7, <2>8 DEF NumberGoing
  <2>10. after = t
    BY <1>6, <1>10
  <2> HIDE DEF t, after
  <2> QED BY <2>8, <2>9, <2>10 DEF NumberRight, after
<1> QED BY <1>8, <1>9, <1>10

\* A sequence that is the characters of w from a to b.
Spells(w, a, b, v) ==
  /\ v \in Seq(Char) /\ a \in Nat \ {0} /\ b \in Nat /\ a <= b + 1 /\ Len(v) = (b - a) + 1
  /\ \A j \in 1 .. Len(v) : v[j] = w[(a + j) - 1]

\* A part of one is one.
LEMMA PartSpelled ==
  ASSUME NEW w, NEW a, NEW b, NEW v, Spells(w, a, b, v),
         NEW i \in 1 .. Len(v) + 1, NEW j \in i - 1 .. Len(v), NEW c, NEW d,
         c = (a + i) - 1, d = (a + j) - 1
  PROVE  Spells(w, c, d, SubSeq(v, i, j))
<1> DEFINE part == SubSeq(v, i, j)
<1>1. /\ v \in Seq(Char) /\ a \in Nat /\ a >= 1 /\ b \in Nat /\ Len(v) \in Nat /\ Len(v) = (b - a) + 1
      /\ \A k \in 1 .. Len(v) : v[k] = w[(a + k) - 1]
  <2>1. v \in Seq(Char) /\ a \in Nat \ {0} /\ b \in Nat /\ Len(v) = (b - a) + 1
    BY DEF Spells
  <2>2. \A k \in 1 .. Len(v) : v[k] = w[(a + k) - 1]
    BY Zenon DEF Spells
  <2>3. Len(v) \in Nat /\ a >= 1
    BY <2>1
  <2> QED BY <2>1, <2>2, <2>3
<1>2. i \in Nat /\ i >= 1 /\ j \in Nat /\ j >= i - 1 /\ j <= Len(v)
  BY <1>1
<1>3. /\ part \in Seq(Char) /\ Len(part) = (j - i) + 1
      /\ \A k \in 1 .. (j - i) + 1 : part[k] = v[(i + k) - 1]
  BY <1>1, <1>2
<1>4. c \in Nat \ {0} /\ d \in Nat /\ c <= d + 1 /\ (d - c) + 1 = (j - i) + 1
  BY <1>1, <1>2
<1>5. ASSUME NEW k \in 1 .. (j - i) + 1 PROVE part[k] = w[(c + k) - 1]
  <2> DEFINE m == (i + k) - 1
  <2>1. m \in 1 .. Len(v) /\ (a + m) - 1 = (c + k) - 1 /\ part[k] = v[m]
    BY <1>1, <1>2, <1>3
  <2> HIDE DEF m, part
  <2> QED BY <1>1, <2>1
<1> HIDE DEF part
<1>6. Spells(w, c, d, part)
  BY <1>3, <1>4, <1>5 DEF Spells
<1> QED BY <1>6 DEF part

\* Its digits are those of the text.
LEMMA SpelledDigits ==
  ASSUME NEW w, NEW a, NEW b, NEW v, Spells(w, a, b, v)
  PROVE  /\ Digits(v) <=> DigitsAt(w, a, b)
         /\ IsInteger(v) <=> a <= b /\ DigitsAt(w, a, b)
<1>1. /\ v \in Seq(Char) /\ a \in Nat /\ a >= 1 /\ b \in Nat /\ a <= b + 1 /\ Len(v) \in Nat
      /\ Len(v) = (b - a) + 1 /\ DOMAIN v = 1 .. Len(v)
      /\ \A k \in 1 .. Len(v) : v[k] = w[(a + k) - 1]
  BY DEF Spells
<1>2. ASSUME Digits(v), NEW x \in a .. b PROVE IsDigit(w[x])
  <2> DEFINE k == (x - a) + 1
  <2>1. k \in 1 .. Len(v) /\ (a + k) - 1 = x
    BY <1>1
  <2> HIDE DEF k
  <2> QED BY <1>1, <1>2, <2>1 DEF Digits
<1>3. ASSUME DigitsAt(w, a, b), NEW k \in DOMAIN v PROVE IsDigit(v[k])
  <2> DEFINE x == (a + k) - 1
  <2>1. x \in a .. b /\ v[k] = w[x]
    BY <1>1
  <2> HIDE DEF x
  <2> QED BY <1>3, <2>1 DEF DigitsAt
<1>4. Digits(v) <=> DigitsAt(w, a, b)
  BY <1>2, <1>3 DEF Digits, DigitsAt
<1>5. v # <<>> <=> a <= b
  <2>1. v = <<>> <=> Len(v) = 0
    BY <1>1, EmptySeq
  <2> QED BY <1>1, <2>1
<1> QED BY <1>4, <1>5 DEF IsInteger

\* Digits and a period.
LEMMA SpelledDecimal ==
  ASSUME NEW w, NEW b, NEW v, Spells(w, 1, b, v), DecimalAt(w, b)
  PROVE  IsDecimal(v)
<1>1. /\ v \in Seq(Char) /\ b \in Nat /\ Len(v) = b /\ \A k \in 1 .. Len(v) : v[k] = w[(1 + k) - 1]
  BY DEF Spells
<1>2. PICK p \in 1 .. b : w[p] = Period /\ DigitsAt(w, 1, p - 1) /\ DigitsAt(w, p + 1, b)
  BY DEF DecimalAt
<1>3. /\ p \in 1 .. Len(v) /\ (1 + p) - 1 = p /\ p - 1 \in 1 - 1 .. Len(v) /\ p + 1 \in 1 .. Len(v) + 1
      /\ Len(v) \in (p + 1) - 1 .. Len(v) /\ 1 \in 1 .. Len(v) + 1
      /\ p - 1 = (1 + (p - 1)) - 1 /\ p + 1 = (1 + (p + 1)) - 1 /\ b = (1 + Len(v)) - 1 /\ 1 = (1 + 1) - 1
  BY <1>1
<1>4. v[p] = Period
  BY <1>1, <1>2, <1>3
<1>5. Spells(w, 1, p - 1, SubSeq(v, 1, p - 1))
  BY <1>3, PartSpelled
<1>6. Spells(w, p + 1, b, SubSeq(v, p + 1, Len(v)))
  BY <1>3, PartSpelled
<1>7. Digits(SubSeq(v, 1, p - 1))
  BY <1>2, <1>5, SpelledDigits
<1>8. Digits(SubSeq(v, p + 1, Len(v)))
  BY <1>2, <1>6, SpelledDigits
<1> QED BY <1>3, <1>4, <1>7, <1>8 DEF IsDecimal

\* Where the digits of an exponent are.
LEMMA ExponentDigits ==
  ASSUME NEW w, NEW e, NEW b, NEW x, Spells(w, e, b, x), x # <<>>, NEW f,
         f = IF e < b /\ w[e + 1] \in {Plus, Minus} THEN e + 2 ELSE e + 1
  PROVE  /\ e <= b /\ Head(x) = w[e]
         /\ Spells(w, f, b, IF Len(x) > 1 /\ x[2] \in {Plus, Minus} THEN SubSeq(x, 3, Len(x)) ELSE Tail(x))
<1>1. /\ x \in Seq(Char) /\ e \in Nat /\ e >= 1 /\ b \in Nat /\ Len(x) \in Nat /\ Len(x) = (b - e) + 1
      /\ \A k \in 1 .. Len(x) : x[k] = w[(e + k) - 1]
  BY DEF Spells
<1>2. Len(x) >= 1
  BY <1>1, EmptySeq
<1>3. e <= b /\ (e + 1) - 1 = e /\ (e + 2) - 1 = e + 1
  BY <1>1, <1>2
<1>4. Head(x) = w[e]
  <2>1. Head(x) = x[1]
    BY <1>1, <1>2
  <2>2. 1 \in 1 .. Len(x)
    BY <1>1, <1>2
  <2> QED BY <1>1, <1>3, <2>1, <2>2
<1>5. Len(x) > 1 => e < b /\ x[2] = w[e + 1]
  <2> SUFFICES ASSUME Len(x) > 1 PROVE e < b /\ x[2] = w[e + 1]
    OBVIOUS
  <2>1. 2 \in 1 .. Len(x)
    BY <1>1
  <2> QED BY <1>1, <1>3, <2>1
<1>6. e < b => Len(x) > 1
  BY <1>1
<1>7. CASE Len(x) > 1 /\ x[2] \in {Plus, Minus}
  <2>1. 3 \in 1 .. Len(x) + 1 /\ Len(x) \in 3 - 1 .. Len(x) /\ f = (e + 3) - 1 /\ b = (e + Len(x)) - 1
    BY <1>1, <1>5, <1>7
  <2>2. Spells(w, f, b, SubSeq(x, 3, Len(x)))
    BY <2>1, PartSpelled
  <2> QED BY <1>3, <1>4, <1>7, <2>2
<1>8. CASE ~(Len(x) > 1 /\ x[2] \in {Plus, Minus})
  <2>1. 2 \in 1 .. Len(x) + 1 /\ Len(x) \in 2 - 1 .. Len(x) /\ b = (e + Len(x)) - 1
    BY <1>1, <1>2
  <2>2. f = (e + 2) - 1
    BY <1>3, <1>5, <1>6, <1>8
  <2>3. Spells(w, f, b, SubSeq(x, 2, Len(x)))
    BY <2>1, <2>2, PartSpelled
  <2>4. Tail(x) = SubSeq(x, 2, Len(x))
    BY <1>1, <1>2
  <2> QED BY <1>3, <1>4, <1>8, <2>3, <2>4
<1> QED BY <1>7, <1>8

\* A text in scientific notation is a float.
LEMMA SpelledScientific ==
  ASSUME NEW w, NEW b, NEW v, Spells(w, 1, b, v), ScientificAt(w, b)
  PROVE  IsFloat(v)
<1>1. v \in Seq(Char) /\ b \in Nat /\ Len(v) = b
  BY DEF Spells
<1>2. PICK e \in 2 .. b - 1 : \E f \in 3 .. b : ExponentAt(w, e, f, b)
  BY DEF ScientificAt
<1>3. PICK f \in 3 .. b : ExponentAt(w, e, f, b)
  BY <1>2
<1>4. /\ tolower(w[e]) = 101 /\ MantissaAt(w, e - 1)
      /\ f = (IF w[e + 1] \in {Plus, Minus} THEN e + 2 ELSE e + 1) /\ f <= b /\ DigitsAt(w, f, b)
  BY <1>3 DEF ExponentAt
<1> DEFINE x == SubSeq(v, e, Len(v))
           m == SubSeq(v, 1, e - 1)
<1>5. /\ e \in 2 .. Len(v) /\ e < b /\ 1 \in 1 .. Len(v) + 1 /\ e - 1 \in 1 - 1 .. Len(v) /\ e \in 1 .. Len(v) + 1
      /\ Len(v) \in e - 1 .. Len(v) /\ 1 = (1 + 1) - 1 /\ e - 1 = (1 + (e - 1)) - 1
      /\ e = (1 + e) - 1 /\ b = (1 + Len(v)) - 1
  BY <1>1
<1>6. Spells(w, e, b, x) /\ Spells(w, 1, e - 1, m)
  BY <1>5, PartSpelled
<1>7. x # <<>> /\ Len(x) = (b - e) + 1
  BY <1>1, <1>5
<1> HIDE DEF x, m
<1>8. IsExponent(x)
  <2> DEFINE y == IF Len(x) > 1 /\ x[2] \in {Plus, Minus} THEN SubSeq(x, 3, Len(x)) ELSE Tail(x)
  <2>1. Head(x) = w[e] /\ Spells(w, f, b, y)
    <3>1. f = IF e < b /\ w[e + 1] \in {Plus, Minus} THEN e + 2 ELSE e + 1
      BY <1>4, <1>5
    <3> QED BY <1>6, <1>7, <3>1, ExponentDigits
  <2> HIDE DEF y
  <2>2. IsInteger(y)
    BY <1>4, <2>1, SpelledDigits
  <2> QED BY <1>4, <1>7, <2>1, <2>2 DEF IsExponent, y
<1>9. IsInteger(m) \/ IsDecimal(m)
  <2>1. CASE DigitsAt(w, 1, e - 1)
    <3>1. 1 <= e - 1
      BY <1>5
    <3> QED BY <1>6, <2>1, <3>1, SpelledDigits
  <2>2. CASE DecimalAt(w, e - 1)
    BY <1>6, <2>2, SpelledDecimal
  <2> QED BY <1>4, <2>1, <2>2 DEF MantissaAt
<1> QED BY <1>5, <1>8, <1>9 DEF IsFloat, x, m

\* A number ends with a digit or with the period.
LEMMA LastOfNumber ==
  ASSUME NEW v \in Seq(Char), v # <<>>, ~IsDigit(v[Len(v)]), v[Len(v)] # Period
  PROVE  ~IsInteger(v) /\ ~IsFloat(v)
<1> DEFINE b == Len(v)
<1>1. b \in Nat /\ b >= 1 /\ (1 + b) - 1 = b
  BY EmptySeq
<1>2. Spells(v, 1, b, v)
  <2>1. \A j \in 1 .. b : (1 + j) - 1 = j
    OBVIOUS
  <2>2. (b - 1) + 1 = b /\ 1 <= b + 1
    BY <1>1
  <2> QED BY <1>1, <2>1, <2>2 DEF Spells
<1>3. \A a \in Nat : a <= b => ~DigitsAt(v, a, b)
  BY <1>1 DEF DigitsAt
<1>4. ~IsInteger(v)
  BY <1>1, <1>2, <1>3, SpelledDigits
<1>5. ASSUME IsDecimal(v) PROVE FALSE
  <2>1. PICK i \in 1 .. b : v[i] = Period /\ Digits(SubSeq(v, i + 1, b))
    BY <1>5 DEF IsDecimal
  <2>2. i < b
    BY <1>1, <2>1
  <2>3. i + 1 \in 1 .. b + 1 /\ b \in (i + 1) - 1 .. b /\ i + 1 = (1 + (i + 1)) - 1 /\ i + 1 \in Nat /\ i + 1 <= b
    BY <1>1, <2>2
  <2>4. Spells(v, i + 1, b, SubSeq(v, i + 1, b))
    BY <1>1, <1>2, <2>3, PartSpelled
  <2> QED BY <1>3, <2>1, <2>3, <2>4, SpelledDigits
<1>6. ASSUME NEW i \in 2 .. b, IsExponent(SubSeq(v, i, b)) PROVE FALSE
  <2> DEFINE x == SubSeq(v, i, b)
             f == IF i < b /\ v[i + 1] \in {Plus, Minus} THEN i + 2 ELSE i + 1
             y == IF Len(x) > 1 /\ x[2] \in {Plus, Minus} THEN SubSeq(x, 3, Len(x)) ELSE Tail(x)
  <2>1. i \in 1 .. b + 1 /\ b \in i - 1 .. b /\ i = (1 + i) - 1 /\ i \in Nat
    BY <1>1
  <2>2. Spells(v, i, b, x)
    BY <1>1, <1>2, <2>1, PartSpelled
  <2>3. x # <<>> /\ IsInteger(y)
    BY <1>6 DEF IsExponent
  <2>4. f \in Nat
    BY <2>1
  <2> HIDE DEF x, f
  <2>5. Spells(v, f, b, y)
    BY <2>2, <2>3, ExponentDigits DEF f
  <2> HIDE DEF y
  <2> QED BY <1>3, <2>3, <2>4, <2>5, SpelledDigits
<1> QED BY <1>4, <1>5, <1>6 DEF IsFloat

\* A number in hexadecimal notation.
LEMMA SpelledHex ==
  ASSUME NEW w, NEW b, NEW v, Spells(w, 1, b, v), HexAt(w, b)
  PROVE  IsHexNumber(v)
<1>1. /\ v \in Seq(Char) /\ b \in Nat /\ Len(v) = b /\ \A k \in 1 .. b : v[k] = w[k]
  <2>1. \A k \in 1 .. Len(v) : (1 + k) - 1 = k
    OBVIOUS
  <2>2. /\ v \in Seq(Char) /\ b \in Nat /\ Len(v) = (b - 1) + 1
        /\ \A k \in 1 .. Len(v) : v[k] = w[(1 + k) - 1]
    BY DEF Spells
  <2>3. (b - 1) + 1 = b
    BY <2>2
  <2> QED BY <2>1, <2>2, <2>3
<1>2. PICK x \in 2 .. b : /\ tolower(w[x]) = 120 /\ \A j \in 1 .. x - 1 : w[j] = 48
                          /\ \A j \in x + 1 .. b : IsHex(w[j])
  BY DEF HexAt
<1>3. x \in 2 .. Len(v) /\ v[x] = w[x] /\ \A j \in 1 .. x - 1 : v[j] = w[j]
  BY <1>1
<1>4. \A j \in x + 1 .. Len(v) : v[j] = w[j]
  BY <1>1, <1>3
<1> QED BY <1>1, <1>2, <1>3, <1>4 DEF IsHexNumber

\* What is left of the beginning of a text without its sign.
LEMMA SpelledUnsigned ==
  ASSUME NEW text \in Seq(Char), NEW s, NEW w, IsUnsigned(text, s, w), NEW n \in Nat, s <= n, n <= Len(text)
  PROVE  Spells(w, 1, n - s, Unsigned(SubSeq(text, 1, n)))
<1> DEFINE cs == SubSeq(text, 1, n)
<1>1. Len(text) \in Nat /\ s \in {0, 1} /\ \A j \in 1 .. Len(text) - s : w[j] = text[j + s]
  BY UnsignedPlaces
<1>2. cs \in Seq(Char) /\ Len(cs) = n /\ \A j \in 1 .. n : cs[j] = text[j]
  BY <1>1
<1> HIDE DEF cs
<1>3. CASE s = 1
  <2>1. Signed /\ cs # <<>> /\ Head(cs) \in {Plus, Minus}
    <3>1. Signed /\ text[1] \in {Plus, Minus}
      BY <1>3 DEF IsUnsigned
    <3>2. cs # <<>> /\ 1 \in 1 .. n
      BY <1>2, <1>3
    <3>3. Head(cs) = cs[1]
      BY <1>2, <3>2
    <3> QED BY <1>2, <3>1, <3>2, <3>3
  <2>2. Unsigned(cs) = Tail(cs)
    BY <2>1 DEF Unsigned
  <2>3. /\ Tail(cs) \in Seq(Char) /\ Len(Tail(cs)) = n - 1
        /\ \A j \in 1 .. n - 1 : Tail(cs)[j] = cs[j + 1]
    BY <1>2, <2>1
  <2>4. ASSUME NEW j \in 1 .. n - 1 PROVE Tail(cs)[j] = w[(1 + j) - 1]
    <3>1. j + 1 \in 1 .. n /\ j \in 1 .. Len(text) - s /\ (1 + j) - 1 = j /\ j + s = j + 1
      BY <1>1, <1>3
    <3> QED BY <1>1, <1>2, <2>3, <3>1
  <2> DEFINE v == Tail(cs)
  <2>5. v \in Seq(Char) /\ Len(v) = n - 1 /\ \A j \in 1 .. n - 1 : v[j] = w[(1 + j) - 1]
    BY <2>3, <2>4
  <2>6. n - s = n - 1 /\ n - 1 \in Nat /\ 1 <= (n - 1) + 1 /\ ((n - 1) - 1) + 1 = n - 1
    BY <1>3
  <2> HIDE DEF v
  <2>7. Spells(w, 1, n - s, v)
    BY <2>5, <2>6 DEF Spells
  <2> QED BY <2>2, <2>7 DEF v, cs
<1>4. CASE s = 0
  <2>1. ~(Signed /\ cs # <<>> /\ Head(cs) \in {Plus, Minus})
    <3> SUFFICES ASSUME Signed, cs # <<>>, Head(cs) \in {Plus, Minus} PROVE FALSE
      OBVIOUS
    <3>1. n >= 1 /\ Head(cs) = cs[1] /\ 1 \in 1 .. n
      BY <1>2, EmptySeq
    <3>2. text[1] \in {Plus, Minus} /\ Len(text) >= 1
      BY <1>1, <1>2, <3>1
    <3> QED BY <1>4, <3>2 DEF IsUnsigned
  <2>2. Unsigned(cs) = cs
    BY <2>1 DEF Unsigned
  <2>3. ASSUME NEW j \in 1 .. n PROVE cs[j] = w[(1 + j) - 1]
    <3>1. j \in 1 .. Len(text) - s /\ (1 + j) - 1 = j /\ j + s = j
      BY <1>1, <1>4
    <3> QED BY <1>1, <1>2, <3>1
  <2>4. n - s = n /\ 1 <= n + 1 /\ (n - 1) + 1 = n
    BY <1>4
  <2>5. Spells(w, 1, n - s, cs)
    BY <1>2, <2>3, <2>4 DEF Spells
  <2> QED BY <2>2, <2>5 DEF cs
<1> QED BY <1>1, <1>3, <1>4

\* A token of digits begins with 0 only when it is 0.
LEMMA TokenUnsigned ==
  ASSUME NEW text, NEW s, NEW w, IsUnsigned(text, s, w), NEW state \in {"Zero", "Number"},
         NEW token \in Seq(Char), NumberToken(text, s, state, token)
  PROVE  Head(Unsigned(token)) = 48 => Len(Unsigned(token)) = 1
<1>1. /\ s \in {0, 1} /\ Len(token) >= s + 1 /\ Len(token) \in Nat
      /\ (s = 1 => Signed /\ token[1] \in {Plus, Minus})
      /\ token[s + 1] = 48 \/ token[s + 1] \in 49 .. 57
      /\ token[s + 1] = 48 => Len(token) = s + 1
  BY DEF IsUnsigned, NumberToken
<1>2. token # <<>> /\ Head(token) = token[1]
  BY <1>1
<1>3. CASE s = 1
  <2>1. Unsigned(token) = Tail(token)
    BY <1>1, <1>2, <1>3 DEF Unsigned
  <2>2. Len(Tail(token)) = Len(token) - 1 /\ Head(Tail(token)) = token[2]
    <3>1. /\ Tail(token) \in Seq(Char) /\ Len(Tail(token)) = Len(token) - 1
          /\ \A j \in 1 .. Len(token) - 1 : Tail(token)[j] = token[j + 1]
      BY <1>2
    <3>2. 1 \in 1 .. Len(token) - 1
      BY <1>1, <1>3
    <3>3. Head(Tail(token)) = Tail(token)[1]
      BY <1>1, <1>3, <3>1
    <3> QED BY <3>1, <3>2, <3>3
  <2> QED BY <1>1, <1>3, <2>1, <2>2
<1>4. CASE s = 0
  <2>1. token[1] \notin {Plus, Minus}
    BY <1>1, <1>4 DEF Plus, Minus
  <2>2. Unsigned(token) = token
    BY <1>2, <2>1 DEF Unsigned
  <2> QED BY <1>1, <1>2, <1>4, <2>2
<1> QED BY <1>1, <1>3, <1>4

(* What NumbersAreNumbers says of a run: of its code, and of what it has   *)
(* taken.                                                                  *)
Notation(code, v, token) ==
  /\ code = TokenCodeInteger => IsInteger(v) /\ (Head(token) = 48 => Len(token) = 1)
  /\ code = TokenCodeFloat => IsFloat(v)
  /\ code = TokenCodeHexNumber => IsHexNumber(v)
  /\ code = TokenCodeError => ~IsInteger(v) /\ ~IsFloat(v) /\ tolower(Last(v)) \in {101, Plus, Minus}

\* The notation of a state is that of its code.
LEMMA NotationRight ==
  ASSUME NEW w, NEW k, NEW v, Spells(w, 1, k, v), NEW state \in StatesOf("number"), NumberIs(w, k, state),
         NEW token, state \in {"Zero", "Number"} => (Head(token) = 48 => Len(token) = 1)
  PROVE  Notation(NumCode(state), v, token)
<1>1. /\ v \in Seq(Char) /\ k \in Nat /\ Len(v) = k /\ \A j \in 1 .. k : v[j] = w[j]
  <2>1. \A j \in 1 .. Len(v) : (1 + j) - 1 = j
    OBVIOUS
  <2>2. /\ v \in Seq(Char) /\ k \in Nat /\ Len(v) = (k - 1) + 1
        /\ \A j \in 1 .. Len(v) : v[j] = w[(1 + j) - 1]
    BY DEF Spells
  <2>3. (k - 1) + 1 = k
    BY <2>2
  <2> QED BY <2>1, <2>2, <2>3
<1>2. /\ NumCode("Zero") = TokenCodeInteger /\ NumCode("Number") = TokenCodeInteger
      /\ NumCode("Float") = TokenCodeFloat /\ NumCode("SciFloatExp") = TokenCodeFloat
      /\ NumCode("HexInteger") = TokenCodeHexNumber /\ NumCode("SciFloat") = TokenCodeError
      /\ NumCode("SciFloatExpSign") = TokenCodeError
      /\ state \in {"Init", "PlusMinus", "Period"} => NumCode(state) = TokenCodeNone
  BY DEF NumCode
<1>3. CASE state \in {"Zero", "Number"}
  <2>1. 1 <= k /\ DigitsAt(w, 1, k)
    BY <1>1, <1>3, ZerosAreDigits DEF NumberIs
  <2>2. IsInteger(v)
    BY <2>1, SpelledDigits
  <2>3. NumCode(state) = TokenCodeInteger
    BY <1>2, <1>3
  <2> QED BY <1>3, <2>2, <2>3 DEF Notation, TokenCodeInteger, TokenCodeFloat, TokenCodeHexNumber, TokenCodeError
<1>4. CASE state = "Float"
  <2>1. k >= 2 /\ DecimalAt(w, k)
    BY <1>4 DEF NumberIs
  <2>2. IsDecimal(v)
    BY <2>1, SpelledDecimal
  <2>3. v # <<Period>>
    BY <1>1, <2>1
  <2>4. IsFloat(v)
    BY <2>2, <2>3 DEF IsFloat
  <2> QED BY <1>2, <1>4, <2>4 DEF Notation, TokenCodeInteger, TokenCodeFloat, TokenCodeHexNumber, TokenCodeError
<1>5. CASE state = "SciFloatExp"
  <2>1. ScientificAt(w, k)
    BY <1>5 DEF NumberIs
  <2>2. IsFloat(v)
    BY <2>1, SpelledScientific
  <2> QED BY <1>2, <1>5, <2>2 DEF Notation, TokenCodeInteger, TokenCodeFloat, TokenCodeHexNumber, TokenCodeError
<1>6. CASE state = "HexInteger"
  <2>1. HexAt(w, k)
    BY <1>6 DEF NumberIs
  <2>2. IsHexNumber(v)
    BY <2>1, SpelledHex
  <2> QED BY <1>2, <1>6, <2>2 DEF Notation, TokenCodeInteger, TokenCodeFloat, TokenCodeHexNumber, TokenCodeError
<1>7. CASE state \in {"SciFloat", "SciFloatExpSign"}
  <2>1. k >= 2 /\ (tolower(w[k]) = 101 \/ w[k] \in {Plus, Minus})
    <3>1. state = "SciFloat" => k >= 2 /\ tolower(w[k]) = 101
      BY DEF NumberIs
    <3>2. state = "SciFloatExpSign" => k >= 3 /\ w[k] \in {Plus, Minus}
      BY DEF NumberIs
    <3> QED BY <1>1, <1>7, <3>1, <3>2
  <2>2. k \in 1 .. k /\ v # <<>>
    BY <1>1, <2>1
  <2>3. Last(v) = v[k] /\ v[k] = w[k] /\ v[k] \in Char
    BY <1>1, <2>2 DEF Last
  <2>4. ~IsDigit(v[k]) /\ v[k] # Period /\ tolower(v[k]) \in {101, Plus, Minus}
    BY <2>1, <2>3 DEF tolower, IsDigit, Period, Plus, Minus, Char
  <2>5. ~IsInteger(v) /\ ~IsFloat(v)
    BY <1>1, <2>2, <2>4, LastOfNumber
  <2>6. NumCode(state) = TokenCodeError
    BY <1>2, <1>7
  <2> QED BY <2>3, <2>4, <2>5, <2>6
      DEF Notation, TokenCodeInteger, TokenCodeFloat, TokenCodeHexNumber, TokenCodeError
<1>8. CASE state \in {"Init", "PlusMinus", "Period"}
  BY <1>2, <1>8
  DEF Notation, TokenCodeNone, TokenCodeInteger, TokenCodeFloat, TokenCodeHexNumber, TokenCodeError
<1>9. state \in {"Init", "PlusMinus", "Zero", "Number", "Period", "Float", "SciFloat",
                 "SciFloatExpSign", "SciFloatExp", "HexInteger"}
  BY DEF StatesOf
<1> QED BY <1>3, <1>4, <1>5, <1>6, <1>7, <1>8, <1>9

(* number.c:124 -- what is taken for a number is one, of the kind that is  *)
(* said, and no digit follows it.                                          *)
LEMMA NumbersRight == LexInv => NumbersAreNumbers
<1> SUFFICES ASSUME LexInv, Ascii, NEW run \in {Whole("number")}, run.out # NoToken
             PROVE  \A cs \in {Unsigned(SubSeq(Rest, 1, run.scan_count))}, text \in {Unsigned(run.out.text)} :
                      /\ Notation(run.out.code, cs, text)
                      /\ Len(Rest) > run.scan_count => ~IsDigit(Rest[run.scan_count + 1])
  BY DEF NumbersAreNumbers, Notation
<1>1. Rest \in Seq(Char) /\ Plain(Rest) /\ Len(Rest) \in Nat
  BY RestTyped, RestPlain DEF LexInv
<1>2. PICK top \in BOOLEAN : IsTop(top)
  BY DEF IsTop
<1> DEFINE signed == Signed /\ Len(Rest) >= 1 /\ Rest[1] \in {Plus, Minus}
<1>a. PICK s \in {0, 1} : s = 1 <=> signed
  OBVIOUS
<1> DEFINE w == SubSeq(Rest, s + 1, Len(Rest))
<1>3. s \in {0, 1} /\ IsUnsigned(Rest, s, w)
  BY <1>a DEF IsUnsigned
<1> HIDE DEF w, signed
<1> DEFINE going == {x \in Nat \X RunIn(StatesOf("number")) : NumberGoing(Rest, s, w, x[1], x[2])}
           ended == {r \in RunIn(StatesOf("number")) : NumberEnded(Rest, s, w, r)}
<1>4. <<0, FreshRun(top)>> \in going
  <2>1. /\ FreshRun(top) \in RunIn(StatesOf("number")) /\ FreshRun(top).scan_count = 0
        /\ FreshRun(top).state = "Init" /\ FreshRun(top).token = <<>>
    BY FreshTyped DEF ScannerNames
  <2>2. NumberGoing(Rest, s, w, 0, FreshRun(top))
    BY <1>1, <2>1 DEF NumberGoing, NumberToken
  <2> QED BY <2>1, <2>2
<1>5. ASSUME NEW i, NEW r, RunAt("number", i, r), <<i, r>> \in going
      PROVE  Leads("number", Rest, i, r, going, ended)
  <2> DEFINE h == HandedChar(r, CharAt(Rest, i + 1))
             next == ScanStep("number", h)
  <2>1. i \in Nat /\ NumberGoing(Rest, s, w, i, r) /\ RunAt("number", i, r)
    BY <1>5
  <2>2. i \in Nat /\ i <= Len(Rest) /\ r.scan_count = i /\ RunAt("number", i, r)
    BY <2>1 DEF NumberGoing
  <2>3. Handles("number", Rest, i, h) /\ Carries(r, h)
    <3> HIDE DEF going, ended
    <3> QED BY <1>1, <2>2, HandsOver
  <2> HIDE DEF h
  <2>4. NumberGoing(Rest, s, w, i, h)
    BY <2>1, <2>3 DEF NumberGoing, Handles, Carries
  <2>5. next = NumStep(h)
    BY DEF ScanStep
  <2>6. NumberRight(Rest, s, w, i, next)
    BY <1>1, <1>3, <2>3, <2>4, <2>5, NumberStep
  <2> HIDE DEF next
  <2>7. Valid("number", next) => IF next.done THEN next \in ended ELSE <<i + 1, next>> \in going
    BY <2>1, <2>6 DEF NumberRight, Valid
  <2> QED BY <2>7 DEF Leads, next, h
<1>6. GoesRight("number", Rest, going, ended)
  <2> HIDE DEF going, ended
  <2> QED BY <1>5 DEF GoesRight
<1>7. run \in ended
  <2>1. "number" \in ScannerNames /\ run = Whole("number")
    BY DEF ScannerNames
  <2> HIDE DEF going, ended
  <2> QED BY <1>2, <1>4, <1>6, <2>1, WholeEnds
<1>8. NumberEnded(Rest, s, w, run) /\ run \in RunIn(StatesOf("number"))
  BY <1>7
<1>9. PICK state \in StatesOf("number") \ {"Init", "PlusMinus"} :
        /\ run.out.code = NumCode(state)
        /\ run.scan_count \in s .. Len(Rest) /\ NumberIs(w, run.scan_count - s, state)
        /\ Len(Rest) > run.scan_count => ~IsDigit(Rest[run.scan_count + 1])
        /\ state \in {"Zero", "Number"} => NumberToken(Rest, s, state, run.out.text)
  BY <1>8 DEF NumberEnded
<1> DEFINE v == Unsigned(SubSeq(Rest, 1, run.scan_count))
           text == Unsigned(run.out.text)
<1>10. Spells(w, 1, run.scan_count - s, v)
  <2>1. run.scan_count \in Nat /\ s <= run.scan_count /\ run.scan_count <= Len(Rest)
    BY <1>1, <1>9
  <2> QED BY <1>1, <1>3, <2>1, SpelledUnsigned
<1>11. state \in {"Zero", "Number"} => (Head(text) = 48 => Len(text) = 1)
  <2>1. run.out.text \in Seq(Char)
    BY <1>8 DEF RunIn
  <2> QED BY <1>3, <1>9, <2>1, TokenUnsigned
<1> HIDE DEF v, text
<1>12. Notation(run.out.code, v, text)
  BY <1>9, <1>10, <1>11, NotationRight
<1> QED BY <1>9, <1>12 DEF v, text

(* number.c:219, keyword.c:273, comment.c:384, qstring.c:122 -- for every  *)
(* text, every set of keywords, quotes and comment markers: a number is    *)
(* one in the notation of its code, the longest keyword is found, and a    *)
(* comment or a string ends at its first end marker that counts.           *)
THEOREM TokensRight == LexSpec => []TokensAreRight
<1>1. LexInv => TokensAreRight
  BY NumbersRight, KeywordsRight, CommentsRight, StringsRight DEF TokensAreRight
<1> QED BY <1>1, LexInvariant, PTL
-----------------------------------------------------------------------------
(* The strings.  What can be in one, whatever it went through.             *)
Letters == Nat \ {0}

Strings == [chars : Seq(Letters), tail : Seq(Letters), pos : Nat, size : Nat]

(* Where a string is read is inside it, unless a character was read past   *)
(* its end or a replacement left the zero where it was.                    *)
PosInside == ~readPast /\ ~shortened => edited.pos <= Len(edited.chars)

StrInv ==
  /\ edited \in Strings
  /\ strHung \in BOOLEAN /\ strBroken \in BOOLEAN /\ shortened \in BOOLEAN /\ readPast \in BOOLEAN
  /\ StrTerminated /\ StrGrowthEnds /\ StrStaysInside /\ PosInside

(* Part of a sequence, also behind its end.                                *)
LEMMA PartOf ==
  ASSUME NEW S, NEW s \in Seq(S), NEW m \in Nat, NEW n \in Nat, n <= Len(s)
  PROVE  /\ SubSeq(s, m + 1, n) \in Seq(S)
         /\ Len(SubSeq(s, m + 1, n)) = IF m <= n THEN n - m ELSE 0
         /\ \A i \in 1 .. n - m : SubSeq(s, m + 1, n)[i] = s[m + i]
<1>1. \A i \in m + 1 .. n : s[i] \in S
  OBVIOUS
<1>2. m + 1 \in Int /\ n \in Int /\ n - (m + 1) + 1 = n - m
  OBVIOUS
<1> DEFINE k == m + 1
<1>3. /\ SubSeq(s, k, n) \in Seq(S)
      /\ Len(SubSeq(s, k, n)) = IF k <= n THEN n - k + 1 ELSE 0
      /\ \A i \in 1 .. n - k + 1 : SubSeq(s, k, n)[i] = s[k + i - 1]
  <2> HIDE DEF k
  <2> QED BY <1>1, <1>2, SubSeqProperties DEF k
<1>4. \A i \in 1 .. n - m : k + i - 1 = m + i
  OBVIOUS
<1>5. n - k + 1 = n - m /\ (k <= n => m <= n) /\ (~(k <= n) /\ m <= n => n - m = 0)
  OBVIOUS
<1> HIDE DEF k
<1>6. Len(SubSeq(s, k, n)) = IF m <= n THEN n - m ELSE 0
  BY <1>3, <1>5
<1>7. \A i \in 1 .. n - m : SubSeq(s, k, n)[i] = s[m + i]
  BY <1>3, <1>4, <1>5
<1> QED BY <1>3, <1>6, <1>7 DEF k

(* A buffer that can grow is big enough in the end: with room for the      *)
(* characters and the zero behind them.                                    *)
LEMMA GrowsEnough ==
  ASSUME NEW s \in Strings, NEW target \in Nat, Grows(s, target)
  PROVE  \E size \in Nat : /\ _str_expand(s, target) = [s EXCEPT !.size = size]
                           /\ size >= target + 1
<1> DEFINE sizeFrom[n \in Nat] == IF n >= target + 1 THEN n ELSE sizeFrom[Growth(n)]
<1>1. s.size \in Nat
  BY DEF Strings
<1>2. CASE Holds(s, target)
  <2>1. _str_expand(s, target) = s
    BY <1>2 DEF _str_expand
  <2>2. s = [s EXCEPT !.size = s.size]
    BY DEF Strings
  <2> QED BY <1>1, <1>2, <2>1, <2>2 DEF Holds
<1>3. CASE ~Holds(s, target)
  <2>1. s.size >= 2 /\ Growth(s.size) \in Nat /\ Growth(s.size) >= 2
    BY <1>1, <1>3, SizeGrows DEF Grows
  <2>2. sizeFrom = [n \in Nat |-> IF n >= target + 1 THEN n ELSE sizeFrom[Growth(n)]]
    BY SizeExists
  <2> HIDE DEF sizeFrom
  <2> DEFINE A == {k \in Nat : \A n \in Nat : n >= 2 /\ n + k >= target + 1 =>
                                sizeFrom[n] \in Nat /\ sizeFrom[n] >= target + 1}
  <2>3. 0 \in A
    BY <2>2
  <2>4. ASSUME NEW k \in Nat, k \in A PROVE k + 1 \in A
    <3> SUFFICES ASSUME NEW n \in Nat, n >= 2, n + (k + 1) >= target + 1
                 PROVE  sizeFrom[n] \in Nat /\ sizeFrom[n] >= target + 1
      OBVIOUS
    <3> DEFINE g == Growth(n)
    <3>1. g \in Nat /\ g >= n + 1
      BY SizeGrows
    <3> HIDE DEF g
    <3>2. g >= 2 /\ g + k >= target + 1
      BY <3>1
    <3>3. sizeFrom[g] \in Nat /\ sizeFrom[g] >= target + 1
      BY <2>4, <3>1, <3>2
    <3>4. sizeFrom[n] = IF n >= target + 1 THEN n ELSE sizeFrom[g]
      BY <2>2 DEF g
    <3> QED BY <3>3, <3>4
  <2>5. target + 1 \in A
    <3> HIDE DEF A
    <3>1. Nat \subseteq A
      BY <2>3, <2>4, SetInduction
    <3> QED BY <3>1
  <2> DEFINE g == Growth(s.size)
  <2>6. sizeFrom[g] \in Nat /\ sizeFrom[g] >= target + 1
    <3>1. g \in Nat /\ g >= 2
      BY <2>1
    <3> HIDE DEF g
    <3>2. g + (target + 1) >= target + 1
      BY <3>1
    <3> QED BY <2>5, <3>1, <3>2
  <2>7. _str_expand(s, target) = [s EXCEPT !.size = sizeFrom[g]]
    BY <1>3 DEF _str_expand, sizeFrom
  <2> HIDE DEF g
  <2> QED BY <2>6, <2>7
<1> QED BY <1>2, <1>3

(* Only a buffer of no or one character does not grow.                     *)
LEMMA HangsSmall ==
  ASSUME NEW s \in Strings, NEW target, ~Grows(s, target)
  PROVE  s.size <= 1
<1>1. s.size \in Nat
  BY DEF Strings
<1> QED BY <1>1, SizeGrows DEF Grows

(* A set of numbers with a bound has a least and a largest element.        *)
LEMMA HasLeast ==
  ASSUME NEW n \in Nat, NEW D \in SUBSET (0 .. n), D # {}
  PROVE  Min(D) \in D /\ \A i \in D : Min(D) <= i
<1> DEFINE A == {m \in Nat : (\E i \in D : i <= m) => \E l \in D : \A i \in D : l <= i}
<1>1. 0 \in A
  OBVIOUS
<1>2. ASSUME NEW m \in Nat, m \in A PROVE m + 1 \in A
  <2>1. CASE \E i \in D : i <= m
    BY <1>2, <2>1
  <2>2. CASE ~\E i \in D : i <= m
    <3>1. ASSUME NEW l \in D, l <= m + 1 PROVE \A i \in D : l <= i
      <4> TAKE i \in D
      <4>1. i \in Nat /\ l \in Nat /\ ~(i <= m)
        BY <2>2
      <4> QED BY <3>1, <4>1
    <3> QED BY <3>1
  <2> QED BY <2>1, <2>2
<1>3. n \in A
  <2> HIDE DEF A
  <2>1. Nat \subseteq A
    BY <1>1, <1>2, SetInduction
  <2> QED BY <2>1
<1>4. PICK l \in D : \A i \in D : l <= i
  <2>0. PICK i \in D : TRUE
    OBVIOUS
  <2>1. i \in D /\ i <= n
    OBVIOUS
  <2> QED BY <1>3, <2>1
<1>5. Min(D) = l
  <2>1. D \in SUBSET Int
    OBVIOUS
  <2> QED BY <1>4, <2>1, LeastOf
<1> QED BY <1>4, <1>5

\* By counting from the other end.
LEMMA HasLargest ==
  ASSUME NEW n \in Nat, NEW D \in SUBSET (0 .. n), D # {}
  PROVE  Max(D) \in D /\ \A i \in D : i <= Max(D)
<1> DEFINE E == {n - i : i \in D}
<1>1. E \in SUBSET (0 .. n) /\ E # {}
  OBVIOUS
<1>2. Min(E) \in E /\ \A i \in E : Min(E) <= i
  <2> HIDE DEF E
  <2> QED BY <1>1, HasLeast
<1>3. PICK m \in D : Min(E) = n - m
  BY <1>2
<1>4. \A i \in D : i <= m
  <2> TAKE i \in D
  <2>1. n - i \in E
    OBVIOUS
  <2>2. n - m <= n - i
    BY <1>2, <1>3, <2>1
  <2>3. i \in Int /\ m \in Int
    OBVIOUS
  <2> QED BY <2>2, <2>3
<1>5. Max(D) = m
  <2>1. D \in SUBSET Int
    OBVIOUS
  <2> QED BY <1>4, <2>1, MostOf
<1> QED BY <1>4, <1>5

(* Where a pattern was found.                                              *)
LEMMA FoundAt ==
  ASSUME NEW cs \in Seq(Letters), NEW pattern \in Seq(Letters)
  PROVE  /\ Occurrences(cs, pattern) \in SUBSET (0 .. Len(cs))
         /\ \A i \in Occurrences(cs, pattern) : i \in Nat /\ i + Len(pattern) <= Len(cs)
BY DEF Occurrences

\* The first place of a pattern lies inside the string when the zero stands right.
LEMMA IndexFound ==
  ASSUME NEW s \in Strings, NEW pattern \in Seq(Letters), str_indexof(s, pattern) >= 0
  PROVE  /\ str_indexof(s, pattern) \in Nat
         /\ s.tail = <<>> => str_indexof(s, pattern) + Len(pattern) <= Len(s.chars)
<1> DEFINE at == Occurrences(CString(s), pattern)
<1>1. s.chars \in Seq(Letters) /\ s.tail \in Seq(Letters)
  BY DEF Strings
<1>2. CString(s) \in Seq(Letters)
  BY <1>1, ConcatProperties DEF CString
<1>3. at \in SUBSET (0 .. Len(CString(s))) /\ \A i \in at : i \in Nat /\ i + Len(pattern) <= Len(CString(s))
  BY <1>2, FoundAt
<1> HIDE DEF at
<1>4. at # {} /\ str_indexof(s, pattern) = Min(at)
  BY DEF str_indexof, at
<1>5. Min(at) \in at
  <2>1. Len(CString(s)) \in Nat
    BY <1>2
  <2> QED BY <1>3, <1>4, <2>1, HasLeast
<1>6. s.tail = <<>> => CString(s) = s.chars
  BY <1>1, ConcatEmptySeq DEF CString
<1> QED BY <1>3, <1>4, <1>5, <1>6

(* The short sequences are sequences of letters.                           *)
LEMMA ShortOnes == Letter \subseteq Letters /\ Short \subseteq Seq(Letters)
<1>1. Letter \subseteq Letters
  BY LetterAssumption DEF Letters
<1>2. \A c \in Letter : <<c>> \in Seq(Letters)
  BY <1>1
<1>3. \A c, d \in Letter : <<c, d>> \in Seq(Letters)
  BY <1>1
<1>4. <<>> \in Seq(Letters)
  BY EmptySeq
<1> DEFINE one == {<<c>> : c \in Letter}
           two == {<<c, d>> : c, d \in Letter}
<1>5. one \subseteq Seq(Letters)
  BY <1>2
<1>6. two \subseteq Seq(Letters)
  <2> SUFFICES ASSUME NEW cs \in two PROVE cs \in Seq(Letters)
    OBVIOUS
  <2>1. PICK c \in Letter, d \in Letter : cs = <<c, d>>
    OBVIOUS
  <2> QED BY <1>3, <2>1
<1>7. Short = {<<>>} \cup one \cup two
  BY DEF Short
<1> HIDE DEF one, two
<1>8. Short \subseteq Seq(Letters)
  BY <1>4, <1>5, <1>6, <1>7
<1> QED BY <1>1, <1>8

(* What an operation keeps of a string: it is closed by a zero for which   *)
(* there is room, and it is read inside its characters.                    *)
Fits(s) == s.tail = <<>> /\ (s.size > 0 => Len(s.chars) < s.size)

Keeps(s, after) ==
  /\ after \in Strings
  /\ Fits(s) => Fits(after)
  /\ s.pos <= Len(s.chars) => after.pos <= Len(after.chars)

(* An append makes the buffer big enough for what it appends.              *)
LEMMA Appended ==
  ASSUME NEW s \in Strings, NEW target \in Nat, Grows(s, target),
         NEW chars \in Seq(Letters), NEW tail \in Seq(Letters),
         Len(s.chars) <= Len(chars), Fits(s) => Len(chars) <= target /\ tail = <<>>
  PROVE  Keeps(s, [_str_expand(s, target) EXCEPT !.chars = chars, !.tail = tail])
<1> DEFINE after == [_str_expand(s, target) EXCEPT !.chars = chars, !.tail = tail]
<1>1. PICK size \in Nat : _str_expand(s, target) = [s EXCEPT !.size = size] /\ size >= target + 1
  BY GrowsEnough
<1>2. s.pos \in Nat /\ Len(s.chars) \in Nat /\ Len(chars) \in Nat
  BY DEF Strings
<1>3. after \in Strings /\ after.chars = chars /\ after.tail = tail /\ after.pos = s.pos /\ after.size = size
  BY <1>1, <1>2 DEF Strings
<1> HIDE DEF after
<1>4. Fits(s) => Fits(after)
  BY <1>1, <1>2, <1>3 DEF Fits
<1>5. s.pos <= Len(s.chars) => after.pos <= Len(after.chars)
  BY <1>2, <1>3
<1>6. Keeps(s, after)
  BY <1>3, <1>4, <1>5 DEF Keeps
<1> QED BY <1>6 DEF after

\* The string as the C library sees it.
LEMMA Seen ==
  ASSUME NEW s \in Strings
  PROVE  /\ s.chars \in Seq(Letters) /\ s.tail \in Seq(Letters) /\ CString(s) \in Seq(Letters)
         /\ Len(s.chars) \in Nat /\ Len(CString(s)) \in Nat /\ Len(s.chars) <= Len(CString(s))
         /\ s.tail = <<>> => CString(s) = s.chars
<1>1. s.chars \in Seq(Letters) /\ s.tail \in Seq(Letters)
  BY DEF Strings
<1>2. CString(s) \in Seq(Letters) /\ Len(CString(s)) = Len(s.chars) + Len(s.tail)
  BY <1>1, ConcatProperties DEF CString
<1>3. s.tail = <<>> => CString(s) = s.chars
  BY <1>1, ConcatEmptySeq DEF CString
<1>4. Len(s.chars) \in Nat /\ Len(s.tail) \in Nat
  BY <1>1
<1>5. Len(CString(s)) \in Nat /\ Len(s.chars) <= Len(CString(s))
  <2> DEFINE a == Len(s.chars)
             b == Len(s.tail)
             n == Len(CString(s))
  <2>1. n = a + b /\ a \in Nat /\ b \in Nat
    BY <1>2, <1>4
  <2> HIDE DEF a, b, n
  <2>2. n \in Nat /\ a <= n
    BY <2>1
  <2> QED BY <2>2 DEF a, n
<1> QED BY <1>1, <1>2, <1>3, <1>4, <1>5

\* A character at the end takes one place, and the zero moves behind it.
LEMMA AppendCharKeeps ==
  ASSUME NEW s \in Strings, NEW c \in Letters, s.size > 0, Grows(s, Len(s.chars) + 1)
  PROVE  Keeps(s, str_append_char(s, c))
<1> DEFINE chars == Append(s.chars, c)
           tail == IF s.tail = <<>> THEN s.tail ELSE Tail(s.tail)
           target == Len(s.chars) + 1
<1>1. s.chars \in Seq(Letters) /\ s.tail \in Seq(Letters) /\ Len(s.chars) \in Nat
  BY Seen
<1>2. chars \in Seq(Letters) /\ Len(chars) = Len(s.chars) + 1
  BY <1>1
<1>3. tail \in Seq(Letters) /\ (s.tail = <<>> => tail = <<>>)
  BY <1>1
<1>4. PICK size \in Nat : _str_expand(s, target) = [s EXCEPT !.size = size] /\ size >= target + 1
  BY <1>1, GrowsEnough
<1>5. ~(s.size = 0 \/ c <= 0)
  BY DEF Letters, Strings
<1>6. str_append_char(s, c) = [_str_expand(s, target) EXCEPT !.chars = chars, !.tail = tail]
  BY <1>4, <1>5 DEF str_append_char, Strings
<1> HIDE DEF chars, tail, target
<1>7. target \in Nat /\ Grows(s, target) /\ Len(s.chars) <= Len(chars) /\ Len(chars) <= target
  BY <1>1, <1>2 DEF target
<1>8. Fits(s) => Len(chars) <= target /\ tail = <<>>
  BY <1>3, <1>7 DEF Fits
<1>9. Keeps(s, [_str_expand(s, target) EXCEPT !.chars = chars, !.tail = tail])
  BY <1>2, <1>3, <1>7, <1>8, Appended
<1> QED BY <1>6, <1>9

(* What is appended without a size of its own: its first n characters.     *)
LEMMA AppendCharsKeeps ==
  ASSUME NEW s \in Strings, NEW cs \in Seq(Letters), NEW n \in Nat, Grows(s, Len(s.chars) + n + 1)
  PROVE  /\ Keeps(s, str_append_nchars(s, cs, n))
         /\ n = Len(cs) /\ s.tail = <<>> => /\ str_append_nchars(s, cs, n).chars = s.chars \o cs
                                            /\ str_append_nchars(s, cs, n).tail = <<>>
                                            /\ str_append_nchars(s, cs, n).size >= 2
<1> DEFINE part == SubSeq(cs, 1, Min({n, Len(cs)}))
           seen == CString(s) \o part
           chars == SubSeq(seen, 1, Len(s.chars) + Len(part))
           target == Len(s.chars) + n + 1
           after == str_append_nchars(s, cs, n)
<1>1. /\ s.chars \in Seq(Letters) /\ s.tail \in Seq(Letters) /\ CString(s) \in Seq(Letters)
      /\ Len(s.chars) \in Nat /\ Len(CString(s)) \in Nat /\ Len(s.chars) <= Len(CString(s))
      /\ s.tail = <<>> => CString(s) = s.chars
  BY Seen
<1>2. Min({n, Len(cs)}) \in {n, Len(cs)} /\ Min({n, Len(cs)}) <= n /\ Min({n, Len(cs)}) <= Len(cs)
  <2>1. n \in Nat /\ Len(cs) \in Nat
    OBVIOUS
  <2>2. Min({n, Len(cs), n}) \in {n, Len(cs), n} /\ Min({n, Len(cs), n}) <= n
        /\ Min({n, Len(cs), n}) <= Len(cs)
    BY <2>1, LeastOfThree
  <2>3. {n, Len(cs), n} = {n, Len(cs)}
    OBVIOUS
  <2> QED BY <2>2, <2>3
<1>3. part \in Seq(Letters) /\ Len(part) \in Nat /\ Len(part) <= n /\ (n = Len(cs) => part = cs)
  <2> DEFINE m == Min({n, Len(cs)})
  <2>1. m \in Nat /\ m <= n /\ m <= Len(cs) /\ (n = Len(cs) => m = Len(cs))
    BY <1>2
  <2> HIDE DEF m
  <2>2. SubSeq(cs, 0 + 1, m) \in Seq(Letters) /\ Len(SubSeq(cs, 0 + 1, m)) = IF 0 <= m THEN m - 0 ELSE 0
    BY <2>1, PartOf
  <2>3. SubSeq(cs, 1, Len(cs)) = cs
    BY SubSeqFull
  <2>4. 0 + 1 = 1 /\ 0 <= m /\ m - 0 = m
    BY <2>1
  <2>5. SubSeq(cs, 1, m) \in Seq(Letters) /\ Len(SubSeq(cs, 1, m)) = m
    BY <2>2, <2>4
  <2> QED BY <2>1, <2>3, <2>5 DEF m
<1> HIDE DEF part
<1>4. seen \in Seq(Letters) /\ Len(seen) = Len(CString(s)) + Len(part)
  BY <1>1, <1>3, ConcatProperties
<1>5. chars \in Seq(Letters) /\ Len(chars) = Len(s.chars) + Len(part)
  <2> DEFINE k == Len(s.chars) + Len(part)
  <2>1. k \in Nat /\ k <= Len(seen)
    BY <1>1, <1>3, <1>4
  <2> HIDE DEF k, seen
  <2>2. SubSeq(seen, 0 + 1, k) \in Seq(Letters) /\ Len(SubSeq(seen, 0 + 1, k)) = IF 0 <= k THEN k - 0 ELSE 0
    BY <1>4, <2>1, PartOf
  <2>3. 0 + 1 = 1 /\ 0 <= k /\ k - 0 = k
    BY <2>1
  <2> QED BY <2>2, <2>3 DEF k, seen
<1>6. s.tail = <<>> => chars = s.chars \o part
  <2>1. s.tail = <<>> => Len(seen) = Len(s.chars) + Len(part)
    BY <1>1, <1>4
  <2>2. SubSeq(seen, 1, Len(seen)) = seen
    BY <1>4, SubSeqFull
  <2> QED BY <1>1, <2>1, <2>2
<1>7. PICK size \in Nat : _str_expand(s, target) = [s EXCEPT !.size = size] /\ size >= target + 1
  <2>1. target \in Nat /\ Grows(s, target)
    BY <1>1
  <2> HIDE DEF target
  <2> QED BY <2>1, GrowsEnough
<1>8. after = [_str_expand(s, target) EXCEPT !.chars = chars, !.tail = <<>>]
  BY DEF str_append_nchars, part
<1> HIDE DEF chars, target, after, seen
<1>9. target \in Nat /\ Grows(s, target) /\ Len(s.chars) <= Len(chars) /\ Len(chars) <= target /\ target >= 1
  BY <1>1, <1>3, <1>5 DEF target
<1>10. Keeps(s, [_str_expand(s, target) EXCEPT !.chars = chars, !.tail = <<>>])
  <2>1. <<>> \in Seq(Letters)
    BY EmptySeq
  <2>2. Fits(s) => Len(chars) <= target /\ <<>> = <<>>
    BY <1>9
  <2> QED BY <1>5, <1>9, <2>1, <2>2, Appended
<1>11. after.chars = chars /\ after.tail = <<>> /\ after.size = size
  BY <1>7, <1>8 DEF Strings
<1>12. size >= 2
  BY <1>7, <1>9
<1> QED BY <1>3, <1>6, <1>8, <1>10, <1>11, <1>12 DEF after

\* A string at the end of another, with the zero that closes it.
LEMMA AppendKeeps ==
  ASSUME NEW s \in Strings, NEW cs \in Seq(Letters), s.size > 0, Grows(s, Len(s.chars) + Len(cs) + 1)
  PROVE  Keeps(s, str_append(s, str_wrap(cs)))
<1> DEFINE other == str_wrap(cs)
           both == CString(s) \o CString(other)
           len == Len(s.chars) + Len(cs)
           chars == SubSeq(both, 1, len)
           tail == SubSeq(both, len + 1, Len(both))
           target == len + 1
<1>1. /\ s.chars \in Seq(Letters) /\ CString(s) \in Seq(Letters)
      /\ Len(s.chars) \in Nat /\ Len(CString(s)) \in Nat /\ Len(s.chars) <= Len(CString(s))
      /\ s.tail = <<>> => CString(s) = s.chars
  BY Seen
<1>2. other.chars = cs /\ other.tail = <<>> /\ CString(other) = cs
  <2>1. other.chars = cs /\ other.tail = <<>>
    BY DEF str_wrap, str_create
  <2> HIDE DEF other
  <2>2. CString(other) = cs \o <<>>
    BY <2>1 DEF CString
  <2> QED BY <2>1, <2>2, ConcatEmptySeq
<1>3. both \in Seq(Letters) /\ Len(both) = Len(CString(s)) + Len(cs) /\ Len(cs) \in Nat
  <2>1. CString(s) \o cs \in Seq(Letters) /\ Len(CString(s) \o cs) = Len(CString(s)) + Len(cs)
    BY <1>1, ConcatProperties
  <2> QED BY <1>2, <2>1
<1>4. len \in Nat /\ len <= Len(both)
  BY <1>1, <1>3
<1>5. str_append(s, other) = [_str_expand(s, target) EXCEPT !.chars = chars, !.tail = tail]
  <2>1. s.size # 0 /\ len = Len(s.chars) + Len(other.chars)
    BY <1>2
  <2> HIDE DEF other
  <2> QED BY <2>1 DEF str_append
<1> HIDE DEF both, other, len
<1>6. chars \in Seq(Letters) /\ Len(chars) = len
  <2>2. SubSeq(both, 0 + 1, len) \in Seq(Letters) /\ Len(SubSeq(both, 0 + 1, len)) = IF 0 <= len THEN len - 0 ELSE 0
    BY <1>3, <1>4, PartOf
  <2>3. 0 + 1 = 1 /\ 0 <= len /\ len - 0 = len
    BY <1>4
  <2> QED BY <2>2, <2>3
<1>7. tail \in Seq(Letters) /\ (s.tail = <<>> => tail = <<>>)
  <2>1. tail \in Seq(Letters)
    <3>1. Len(both) \in Nat /\ Len(both) <= Len(both)
      BY <1>3
    <3> QED BY <1>3, <1>4, <3>1, PartOf
  <2>2. s.tail = <<>> => Len(both) < len + 1
    BY <1>1, <1>3 DEF len
  <2>3. len + 1 \in Int /\ Len(both) \in Int
    BY <1>3, <1>4
  <2>4. s.tail = <<>> => tail = <<>>
    BY <2>2, <2>3, SubSeqEmpty
  <2> QED BY <2>1, <2>4
<1> HIDE DEF chars, tail
<1>8. target \in Nat /\ Grows(s, target) /\ Len(s.chars) <= Len(chars)
  BY <1>1, <1>3, <1>4, <1>6 DEF len
<1>9. Fits(s) => Len(chars) <= target /\ tail = <<>>
  BY <1>4, <1>6, <1>7 DEF Fits
<1> HIDE DEF target
<1>10. Keeps(s, [_str_expand(s, target) EXCEPT !.chars = chars, !.tail = tail])
  BY <1>6, <1>7, <1>8, <1>9, Appended
<1> QED BY <1>5, <1>10 DEF other

(* A string that was cut at one of its ends or emptied.                    *)
LEMMA EraseKeeps ==
  ASSUME NEW s \in Strings
  PROVE  Keeps(s, str_erase(s))
<1> DEFINE after == str_erase(s)
<1>1. s.size \in Nat /\ s.pos \in Nat /\ Len(s.chars) \in Nat
  BY DEF Strings
<1>2. CASE s.size = 0
  <2>1. after = s
    BY <1>2 DEF str_erase
  <2> QED BY <2>1 DEF Keeps
<1>3. CASE s.size # 0
  <2>1. after = [chars |-> <<>>, tail |-> <<>>, pos |-> 0, size |-> s.size]
    BY <1>3 DEF str_erase, str_create
  <2>2. <<>> \in Seq(Letters) /\ Len(<<>>) = 0
    BY EmptySeq
  <2>3. after \in Strings
    BY <1>1, <2>1, <2>2 DEF Strings
  <2> HIDE DEF after
  <2>4. Fits(after) /\ after.pos <= Len(after.chars)
    BY <1>1, <1>3, <2>1 DEF Fits
  <2>5. Keeps(s, after)
    BY <2>3, <2>4 DEF Keeps
  <2> QED BY <2>5 DEF after
<1> QED BY <1>2, <1>3

\* What is cut off at the end, and what that leaves.
LEMMA ChopKeeps ==
  ASSUME NEW s \in Strings, NEW num \in Nat
  PROVE  /\ Keeps(s, str_chop(s, num))
         /\ s.size > 0 /\ num < Len(s.chars) =>
              str_chop(s, num).chars = SubSeq(s.chars, 1, Len(s.chars) - num)
<1> DEFINE after == str_chop(s, num)
           len == Len(s.chars) - num
           chars == SubSeq(s.chars, 1, len)
           tail == IF num > 0 THEN <<>> ELSE s.tail
           pos == Min({s.pos, len})
<1>1. s.chars \in Seq(Letters) /\ s.tail \in Seq(Letters) /\ Len(s.chars) \in Nat /\ s.size \in Nat /\ s.pos \in Nat
  BY DEF Strings
<1>2. CASE s.size = 0
  <2>1. after = s
    BY <1>2 DEF str_chop
  <2> QED BY <1>2, <2>1 DEF Keeps
<1>3. CASE s.size # 0 /\ num >= Len(s.chars)
  <2>1. after = str_erase(s)
    BY <1>3 DEF str_chop
  <2> QED BY <1>1, <1>3, <2>1, EraseKeeps
<1>4. CASE s.size # 0 /\ ~(num >= Len(s.chars))
  <2>1. after = [s EXCEPT !.chars = chars, !.tail = tail, !.pos = pos]
    BY <1>4 DEF str_chop
  <2>2. len \in Nat /\ len <= Len(s.chars)
    BY <1>1, <1>4
  <2>3. chars \in Seq(Letters) /\ Len(chars) = len
    <3> HIDE DEF len
    <3>1. SubSeq(s.chars, 0 + 1, len) \in Seq(Letters) /\ Len(SubSeq(s.chars, 0 + 1, len)) = IF 0 <= len THEN len - 0 ELSE 0
      BY <1>1, <2>2, PartOf
    <3>2. 0 + 1 = 1 /\ 0 <= len /\ len - 0 = len
      BY <2>2
    <3> QED BY <3>1, <3>2
  <2>4. tail \in Seq(Letters) /\ (s.tail = <<>> => tail = <<>>)
    <3>1. <<>> \in Seq(Letters)
      BY EmptySeq
    <3> QED BY <1>1, <3>1
  <2>5. pos \in Nat /\ pos <= len
    <3> HIDE DEF len
    <3>1. LET m == Min({s.pos, len, len}) IN m \in {s.pos, len, len} /\ m <= s.pos /\ m <= len /\ m <= len
      BY <1>1, <2>2, LeastOfThree
    <3>2. {s.pos, len, len} = {s.pos, len}
      OBVIOUS
    <3> QED BY <1>1, <2>2, <3>1, <3>2
  <2> HIDE DEF chars, tail, pos
  <2>6. after \in Strings /\ after.chars = chars /\ after.tail = tail /\ after.pos = pos /\ after.size = s.size
    BY <1>1, <2>1, <2>3, <2>4, <2>5 DEF Strings
  <2> HIDE DEF after, len
  <2>7. Fits(s) => Fits(after)
    BY <1>1, <2>2, <2>3, <2>4, <2>6 DEF Fits
  <2>8. after.pos <= Len(after.chars)
    BY <2>3, <2>5, <2>6
  <2>9. Keeps(s, after)
    BY <2>6, <2>7, <2>8 DEF Keeps
  <2> QED BY <2>6, <2>9 DEF after, chars, len
<1> QED BY <1>2, <1>3, <1>4

\* What is cut off at the beginning: the position moves with the characters.
LEMMA LchopKeeps ==
  ASSUME NEW s \in Strings, NEW num \in Nat
  PROVE  Keeps(s, str_lchop(s, num))
<1> DEFINE after == str_lchop(s, num)
           chars == SubSeq(s.chars, num + 1, Len(s.chars))
           tail == IF num > 0 THEN <<>> ELSE s.tail
           pos == IF s.pos < num THEN 0 ELSE s.pos - num
<1>1. s.chars \in Seq(Letters) /\ s.tail \in Seq(Letters) /\ Len(s.chars) \in Nat /\ s.size \in Nat /\ s.pos \in Nat
  BY DEF Strings
<1>2. CASE s.size = 0
  <2>1. after = s
    BY <1>2 DEF str_lchop
  <2> QED BY <1>2, <2>1 DEF Keeps
<1>3. CASE s.size # 0 /\ num >= Len(s.chars)
  <2>1. after = str_erase(s)
    BY <1>3 DEF str_lchop
  <2> QED BY <1>1, <1>3, <2>1, EraseKeeps
<1>4. CASE s.size # 0 /\ ~(num >= Len(s.chars))
  <2>1. after = [s EXCEPT !.chars = chars, !.tail = tail, !.pos = pos]
    BY <1>4 DEF str_lchop
  <2>3. chars \in Seq(Letters) /\ Len(chars) = Len(s.chars) - num
    <3>1. num <= Len(s.chars)
      BY <1>1, <1>4
    <3> QED BY <1>1, <3>1, Behind
  <2>4. tail \in Seq(Letters) /\ (s.tail = <<>> => tail = <<>>)
    <3>1. <<>> \in Seq(Letters)
      BY EmptySeq
    <3> QED BY <1>1, <3>1
  <2>5. pos \in Nat /\ (s.pos <= Len(s.chars) => pos <= Len(s.chars) - num)
    BY <1>1, <1>4
  <2> HIDE DEF chars, tail, pos
  <2>6. after \in Strings /\ after.chars = chars /\ after.tail = tail /\ after.pos = pos /\ after.size = s.size
    BY <1>1, <2>1, <2>3, <2>4, <2>5 DEF Strings
  <2> HIDE DEF after
  <2>7. Fits(s) => Fits(after)
    BY <1>1, <2>3, <2>4, <2>6 DEF Fits
  <2>8. s.pos <= Len(s.chars) => after.pos <= Len(after.chars)
    BY <2>3, <2>5, <2>6
  <2>9. Keeps(s, after)
    BY <2>6, <2>7, <2>8 DEF Keeps
  <2> QED BY <2>9 DEF after
<1> QED BY <1>2, <1>3, <1>4

\* A character that was set, or the string was cut off there.
LEMMA SetKeeps ==
  ASSUME NEW s \in Strings, NEW i \in Nat, NEW c \in Letters \cup {0}
  PROVE  Keeps(s, str_set(s, i, c))
<1> DEFINE after == str_set(s, i, c)
<1>1. s.chars \in Seq(Letters) /\ s.tail \in Seq(Letters) /\ Len(s.chars) \in Nat /\ s.size \in Nat /\ s.pos \in Nat
  BY DEF Strings
<1>2. CASE s.size = 0 \/ i >= Len(s.chars)
  <2>1. after = s
    BY <1>2 DEF str_set
  <2> QED BY <2>1 DEF Keeps
<1>3. CASE ~(s.size = 0 \/ i >= Len(s.chars)) /\ c = 0
  <2> DEFINE chars == SubSeq(s.chars, 1, i)
             start == 0
  <2>1. after = [s EXCEPT !.chars = chars, !.tail = <<>>, !.pos = start] /\ start \in Nat /\ start = 0
    BY <1>3 DEF str_set
  <2>2. chars \in Seq(Letters) /\ Len(chars) = i /\ i < Len(s.chars)
    <3>0. i <= Len(s.chars) /\ i < Len(s.chars)
      BY <1>1, <1>3
    <3>1. SubSeq(s.chars, 0 + 1, i) \in Seq(Letters) /\ Len(SubSeq(s.chars, 0 + 1, i)) = IF 0 <= i THEN i - 0 ELSE 0
      BY <1>1, <3>0, PartOf
    <3>2. 0 + 1 = 1 /\ 0 <= i /\ i - 0 = i
      OBVIOUS
    <3> QED BY <3>0, <3>1, <3>2
  <2>3. <<>> \in Seq(Letters)
    BY EmptySeq
  <2> HIDE DEF chars, start
  <2>4. after \in Strings /\ after.chars = chars /\ after.tail = <<>> /\ after.pos = start /\ after.size = s.size
    BY <1>1, <2>1, <2>2, <2>3 DEF Strings
  <2> HIDE DEF after
  <2>5. (Fits(s) => Fits(after)) /\ after.pos <= Len(after.chars)
    BY <1>1, <2>1, <2>2, <2>4 DEF Fits
  <2>6. Keeps(s, after)
    BY <2>4, <2>5 DEF Keeps
  <2> QED BY <2>6 DEF after
<1>4. CASE ~(s.size = 0 \/ i >= Len(s.chars)) /\ c # 0
  <2> DEFINE chars == [s.chars EXCEPT ![i + 1] = c]
             start == 0
  <2>1. after = [s EXCEPT !.chars = chars, !.pos = start] /\ start \in Nat /\ start = 0
    BY <1>4 DEF str_set
  <2>2. chars \in Seq(Letters) /\ Len(chars) = Len(s.chars)
    <3>1. i + 1 \in 1 .. Len(s.chars) /\ c \in Letters
      BY <1>1, <1>4
    <3> QED BY <1>1, <3>1, ExceptSeq
  <2> HIDE DEF chars, start
  <2>4. after \in Strings /\ after.chars = chars /\ after.tail = s.tail /\ after.pos = start /\ after.size = s.size
    BY <1>1, <2>1, <2>2 DEF Strings
  <2> HIDE DEF after
  <2>5. (Fits(s) => Fits(after)) /\ after.pos <= Len(after.chars)
    BY <1>1, <2>1, <2>2, <2>4 DEF Fits
  <2>6. Keeps(s, after)
    BY <2>4, <2>5 DEF Keeps
  <2> QED BY <2>6 DEF after
<1> QED BY <1>2, <1>3, <1>4

\* Only the position is moved, and never out of the string.
LEMMA MoveKeeps ==
  ASSUME NEW s \in Strings, NEW num \in Nat
  PROVE  Keeps(s, str_rewind(s)) /\ Keeps(s, str_skip(s, num)) /\ Keeps(s, str_pushback(s, num))
<1>1. s.chars \in Seq(Letters) /\ Len(s.chars) \in Nat /\ s.size \in Nat /\ s.pos \in Nat
  BY DEF Strings
<1>2. ASSUME NEW pos \in Nat, s.pos <= Len(s.chars) => pos <= Len(s.chars)
      PROVE  Keeps(s, [s EXCEPT !.pos = pos])
  <2> DEFINE after == [s EXCEPT !.pos = pos]
  <2>1. /\ after \in Strings /\ after.chars = s.chars /\ after.tail = s.tail
        /\ after.pos = pos /\ after.size = s.size
    BY DEF Strings
  <2> HIDE DEF after
  <2>2. Keeps(s, after)
    BY <1>2, <2>1 DEF Keeps, Fits
  <2> QED BY <2>2 DEF after
<1>3. Keeps(s, str_rewind(s))
  <2> DEFINE pos == 0
  <2>1. pos \in Nat /\ pos <= Len(s.chars) /\ str_rewind(s) = [s EXCEPT !.pos = pos]
    BY <1>1 DEF str_rewind
  <2> HIDE DEF pos
  <2> QED BY <1>2, <2>1
<1>4. Keeps(s, str_skip(s, num))
  <2> DEFINE pos == IF s.pos + num > Len(s.chars) THEN Len(s.chars) ELSE s.pos + num
  <2>1. pos \in Nat /\ pos <= Len(s.chars)
    BY <1>1
  <2>2. str_skip(s, num) = [s EXCEPT !.pos = pos]
    BY DEF str_skip
  <2> HIDE DEF pos
  <2> QED BY <1>2, <2>1, <2>2
<1>5. Keeps(s, str_pushback(s, num))
  <2> DEFINE pos == IF num > s.pos THEN 0 ELSE s.pos - num
  <2>1. pos \in Nat /\ (s.pos <= Len(s.chars) => pos <= Len(s.chars))
    BY <1>1
  <2>2. str_pushback(s, num) = [s EXCEPT !.pos = pos]
    BY DEF str_pushback
  <2> HIDE DEF pos
  <2> QED BY <1>2, <2>1, <2>2
<1> QED BY <1>3, <1>4, <1>5

(* A replacement makes room for what it puts in, and forgets to move the   *)
(* zero when it takes more out.                                            *)
LEMMA ReplaceKeeps ==
  ASSUME NEW s \in Strings, NEW pattern \in Seq(Letters), NEW by \in Seq(Letters),
         str_indexof(s, pattern) >= 0, ~MovesBackwards(s, pattern),
         Grows(s, Len(s.chars) + Len(by) - Len(pattern))
  PROVE  LET after == ReplaceOne(s, pattern, by)
         IN /\ after \in Strings /\ after.pos = 0
            /\ Len(pattern) <= Len(by) /\ Fits(s) => Fits(after)
<1> DEFINE at == str_indexof(s, pattern)
           len == Len(s.chars) + Len(by) - Len(pattern)
           first == SubSeq(s.chars, 1, at)
           rest == SubSeq(s.chars, at + Len(pattern) + 1, Len(s.chars))
           new == first \o by \o rest
           tail == SubSeq(CString(s), len + 1, Len(CString(s)))
           start == 0
           after == ReplaceOne(s, pattern, by)
<1>1. /\ s.chars \in Seq(Letters) /\ s.tail \in Seq(Letters) /\ CString(s) \in Seq(Letters)
      /\ Len(s.chars) \in Nat /\ Len(CString(s)) \in Nat /\ Len(s.chars) <= Len(CString(s))
      /\ s.tail = <<>> => CString(s) = s.chars
  BY Seen
<1>2. at \in Nat /\ at + Len(pattern) <= Len(s.chars) /\ Len(pattern) \in Nat /\ Len(by) \in Nat
  <2>1. at \in Nat
    BY IndexFound
  <2>2. Len(pattern) \in Nat
    OBVIOUS
  <2> QED BY <2>1, <2>2, <1>1 DEF MovesBackwards
<1>3. len \in Nat /\ Len(by) <= len /\ (Len(pattern) <= Len(by) => Len(s.chars) <= len)
  <2> HIDE DEF at
  <2> QED BY <1>1, <1>2
<1>4. after = [_str_expand(s, len) EXCEPT !.chars = new, !.tail = tail, !.pos = start] /\ start \in Nat /\ start = 0
  BY DEF ReplaceOne
<1> HIDE DEF at, start, after
<1>5. first \in Seq(Letters) /\ Len(first) = at
  <2>1. at <= Len(s.chars)
    BY <1>1, <1>2
  <2>2. SubSeq(s.chars, 0 + 1, at) \in Seq(Letters) /\ Len(SubSeq(s.chars, 0 + 1, at)) = IF 0 <= at THEN at - 0 ELSE 0
    BY <1>1, <1>2, <2>1, PartOf
  <2>3. 0 + 1 = 1 /\ 0 <= at /\ at - 0 = at
    BY <1>2
  <2> QED BY <2>2, <2>3
<1>6. rest \in Seq(Letters) /\ Len(rest) = Len(s.chars) - (at + Len(pattern))
  <2>1. at + Len(pattern) \in Nat
    BY <1>2
  <2> QED BY <1>1, <1>2, <2>1, Behind
<1> HIDE DEF first, rest
<1>7. new \in Seq(Letters) /\ Len(new) = len
  <2>1. first \o by \in Seq(Letters) /\ Len(first \o by) = Len(first) + Len(by)
    BY <1>5, ConcatProperties
  <2>2. new \in Seq(Letters) /\ Len(new) = Len(first \o by) + Len(rest)
    BY <1>6, <2>1, ConcatProperties
  <2>3. Len(first) + Len(by) + Len(rest) = len
    <3> DEFINE l == Len(s.chars)
               p == Len(pattern)
               b == Len(by)
               f == Len(first)
               r == Len(rest)
    <3>1. l \in Nat /\ p \in Nat /\ b \in Nat /\ at \in Nat /\ f = at /\ r = l - (at + p) /\ len = l + b - p
      BY <1>1, <1>2, <1>5, <1>6
    <3> HIDE DEF l, p, b, f, r, len
    <3>2. f + b + r = len
      BY <3>1
    <3> QED BY <3>2 DEF f, b, r
  <2> QED BY <2>1, <2>2, <2>3
<1>8. tail \in Seq(Letters) /\ (s.tail = <<>> /\ Len(pattern) <= Len(by) => tail = <<>>)
  <2>1. tail \in Seq(Letters)
    <3>1. Len(CString(s)) <= Len(CString(s))
      BY <1>1
    <3> HIDE DEF len
    <3> QED BY <1>1, <1>3, <3>1, PartOf
  <2>2. s.tail = <<>> /\ Len(pattern) <= Len(by) => Len(CString(s)) < len + 1
    <3> HIDE DEF len
    <3> QED BY <1>1, <1>3
  <2>3. len + 1 \in Int /\ Len(CString(s)) \in Int
    <3> HIDE DEF len
    <3> QED BY <1>1, <1>3
  <2>4. s.tail = <<>> /\ Len(pattern) <= Len(by) => tail = <<>>
    BY <2>2, <2>3, SubSeqEmpty
  <2> QED BY <2>1, <2>4
<1> HIDE DEF new, tail
<1>9. PICK size \in Nat : _str_expand(s, len) = [s EXCEPT !.size = size] /\ size >= len + 1
  <2>1. len \in Nat /\ Grows(s, len)
    BY <1>3
  <2> HIDE DEF len
  <2> QED BY <2>1, GrowsEnough
<1> HIDE DEF len
<1>10. after \in Strings /\ after.chars = new /\ after.tail = tail /\ after.pos = start /\ after.size = size
  BY <1>4, <1>7, <1>8, <1>9 DEF Strings
<1>11. Len(pattern) <= Len(by) /\ Fits(s) => Fits(after)
  BY <1>3, <1>7, <1>8, <1>9, <1>10 DEF Fits
<1> QED BY <1>4, <1>10, <1>11 DEF after

(* The ways an operation can end.                                          *)
LEMMA KeptInv ==
  StrInv /\ ~strHung /\ ~strBroken /\ Keeps(edited, edited')
    /\ UNCHANGED <<strHung, strBroken, shortened, readPast>> => StrInv'
BY DEF StrInv, Keeps, Fits, StrTerminated, StrGrowthEnds, StrStaysInside, PosInside

\* The size does not grow.
LEMMA HungInv ==
  StrInv /\ edited.size <= 1 /\ strHung' = TRUE
    /\ UNCHANGED <<edited, strBroken, shortened, readPast>> => StrInv'
BY DEF StrInv, StrTerminated, StrGrowthEnds, StrStaysInside, PosInside

\* Memory outside the characters was touched.
LEMMA BrokenInv ==
  StrInv /\ (readPast \/ shortened) /\ strBroken' = TRUE
    /\ UNCHANGED <<edited, strHung, shortened, readPast>> => StrInv'
BY DEF StrInv, StrTerminated, StrGrowthEnds, StrStaysInside, PosInside

(* An edit that needs room keeps the string or does not come back.         *)
LEMMA EditInv ==
  ASSUME StrInv, ~strHung, ~strBroken, NEW target \in Nat, NEW after,
         Grows(edited, target) => Keeps(edited, after), Edit(target, after)
  PROVE  StrInv'
<1>1. CASE Grows(edited, target)
  <2>1. edited' = after /\ UNCHANGED <<strHung, strBroken, shortened, readPast>>
    BY <1>1 DEF Edit
  <2>2. Keeps(edited, edited')
    BY <1>1, <2>1
  <2> QED BY <2>1, <2>2, KeptInv
<1>2. CASE ~Grows(edited, target)
  <2>1. strHung' = TRUE /\ UNCHANGED <<edited, strBroken, shortened, readPast>>
    BY <1>2 DEF Edit
  <2>2. edited.size <= 1
    BY <1>2, HangsSmall DEF StrInv
  <2> QED BY <2>1, <2>2, HungInv
<1> QED BY <1>1, <1>2

\* The steps, one kind after the other.
LEMMA StrAppendsInv == StrInv /\ ~strHung /\ ~strBroken /\ (StrAppendChar \/ StrAppendChars \/ StrAppend) => StrInv'
<1> SUFFICES ASSUME StrInv, ~strHung, ~strBroken, StrAppendChar \/ StrAppendChars \/ StrAppend
             PROVE  StrInv'
  OBVIOUS
<1>1. edited \in Strings /\ Len(edited.chars) \in Nat
  BY Seen DEF StrInv
<1>2. CASE StrAppendChar
  <2>1. PICK c \in Letter : edited.size > 0 /\ Edit(Len(edited.chars) + 1, str_append_char(edited, c))
    BY <1>2 DEF StrAppendChar
  <2> DEFINE target == Len(edited.chars) + 1
             after == str_append_char(edited, c)
  <2>2. Grows(edited, target) => Keeps(edited, after)
    <3>1. c \in Letters
      BY ShortOnes
    <3> QED BY <1>1, <2>1, <3>1, AppendCharKeeps
  <2>3. target \in Nat /\ Edit(target, after)
    BY <1>1, <2>1
  <2> HIDE DEF target, after
  <2> QED BY <2>2, <2>3, EditInv
<1>3. CASE StrAppendChars
  <2>1. PICK cs \in Short \ {<<>>}, n \in {1, 2} :
          Edit(Len(edited.chars) + n + 1, str_append_nchars(edited, cs, n))
    BY <1>3 DEF StrAppendChars
  <2> DEFINE target == Len(edited.chars) + n + 1
             after == str_append_nchars(edited, cs, n)
  <2>2. Grows(edited, target) => Keeps(edited, after)
    <3>1. cs \in Seq(Letters) /\ n \in Nat
      BY ShortOnes
    <3> QED BY <1>1, <2>1, <3>1, AppendCharsKeeps
  <2>3. target \in Nat /\ Edit(target, after)
    BY <1>1, <2>1
  <2> HIDE DEF target, after
  <2> QED BY <2>2, <2>3, EditInv
<1>4. CASE StrAppend
  <2>1. PICK cs \in Short \ {<<>>} :
          edited.size > 0 /\ Edit(Len(edited.chars) + Len(cs) + 1, str_append(edited, str_wrap(cs)))
    BY <1>4 DEF StrAppend
  <2> DEFINE target == Len(edited.chars) + Len(cs) + 1
             after == str_append(edited, str_wrap(cs))
  <2>a. cs \in Seq(Letters)
    BY ShortOnes
  <2>2. Grows(edited, target) => Keeps(edited, after)
    BY <1>1, <2>1, <2>a, AppendKeeps
  <2>3. target \in Nat /\ Edit(target, after)
    BY <1>1, <2>1, <2>a
  <2> HIDE DEF target, after
  <2> QED BY <2>2, <2>3, EditInv
<1> QED BY <1>2, <1>3, <1>4

\* They need no room.
LEMMA StrCutInv == StrInv /\ ~strHung /\ ~strBroken /\ (StrCut \/ StrSet \/ StrMove) => StrInv'
<1> SUFFICES ASSUME StrInv, ~strHung, ~strBroken, StrCut \/ StrSet \/ StrMove
             PROVE  StrInv'
  OBVIOUS
<1>1. edited \in Strings /\ edited.pos \in Nat
  BY DEF StrInv, Strings
<1>2. Keeps(edited, edited')
  <2>1. CASE StrCut
    <3>1. PICK num \in 0 .. 2 :
            edited' \in {str_chop(edited, num), str_lchop(edited, num), str_reset(edited), str_erase(edited)}
      BY <2>1 DEF StrCut
    <3>2. num \in Nat
      OBVIOUS
    <3>3. Keeps(edited, str_chop(edited, num)) /\ Keeps(edited, str_lchop(edited, num))
          /\ Keeps(edited, str_erase(edited))
      BY <1>1, <3>2, ChopKeeps, LchopKeeps, EraseKeeps
    <3>4. Keeps(edited, str_reset(edited))
      BY <1>1, LchopKeeps DEF str_reset
    <3> QED BY <3>1, <3>3, <3>4
  <2>2. CASE StrSet
    <3>1. PICK i \in 0 .. MaxLength - 1, c \in Letter \cup {0} : edited' = str_set(edited, i, c)
      BY <2>2 DEF StrSet
    <3>2. i \in Nat /\ c \in Letters \cup {0}
      BY ShortOnes, LetterAssumption
    <3> QED BY <1>1, <3>1, <3>2, SetKeeps
  <2>3. CASE StrMove
    <3>1. PICK num \in 1 .. 2 :
            edited' \in {str_rewind(edited), str_skip(edited, num), str_pushback(edited, num)}
      BY <2>3 DEF StrMove
    <3>2. num \in Nat
      OBVIOUS
    <3> QED BY <1>1, <3>1, <3>2, MoveKeeps
  <2> QED BY <2>1, <2>2, <2>3
<1>3. UNCHANGED <<strHung, strBroken, shortened, readPast>>
  BY DEF StrCut, StrSet, StrMove
<1> QED BY <1>2, <1>3, KeptInv

\* A replacement that reaches behind the end finds the zero left behind.
LEMMA StrReplaceInv == StrInv /\ ~strHung /\ ~strBroken /\ StrReplace => StrInv'
<1> SUFFICES ASSUME StrInv, ~strHung, ~strBroken, StrReplace PROVE StrInv'
  OBVIOUS
<1>1. PICK pattern \in Short \ {<<>>}, by \in Short :
        /\ str_indexof(edited, pattern) >= 0
        /\ IF MovesBackwards(edited, pattern)
           THEN strBroken' = TRUE /\ UNCHANGED <<edited, strHung, shortened>>
           ELSE IF Grows(edited, Len(edited.chars) + Len(by) - Len(pattern))
           THEN /\ edited' = ReplaceOne(edited, pattern, by)
                /\ shortened' = (shortened \/ Len(by) < Len(pattern))
                /\ UNCHANGED <<strHung, strBroken>>
           ELSE strHung' = TRUE /\ UNCHANGED <<edited, strBroken, shortened>>
        /\ UNCHANGED readPast
  BY DEF StrReplace
<1>2. edited \in Strings /\ pattern \in Seq(Letters) /\ by \in Seq(Letters)
  BY ShortOnes DEF StrInv
<1>3. CASE MovesBackwards(edited, pattern)
  <2>1. strBroken' = TRUE /\ UNCHANGED <<edited, strHung, shortened, readPast>>
    BY <1>1, <1>3
  <2>2. edited.tail # <<>>
    <3> DEFINE at == str_indexof(edited, pattern)
               a == Len(pattern)
               b == Len(edited.chars)
    <3>1. at \in Nat /\ (edited.tail = <<>> => at + a <= b)
      BY <1>1, <1>2, IndexFound
    <3>2. at + a > b
      BY <1>3 DEF MovesBackwards
    <3>3. a \in Nat /\ b \in Nat
      BY <1>2, Seen
    <3> HIDE DEF at, a, b
    <3> QED BY <3>1, <3>2, <3>3
  <2>3. shortened
    BY <2>2 DEF StrInv, StrTerminated
  <2> QED BY <2>1, <2>3, BrokenInv
<1>4. CASE ~MovesBackwards(edited, pattern) /\ Grows(edited, Len(edited.chars) + Len(by) - Len(pattern))
  <2>1. /\ edited' = ReplaceOne(edited, pattern, by)
        /\ shortened' = (shortened \/ Len(by) < Len(pattern))
        /\ UNCHANGED <<strHung, strBroken, readPast>>
    BY <1>1, <1>4
  <2>2. /\ edited' \in Strings /\ edited'.pos = 0
        /\ Len(pattern) <= Len(by) /\ Fits(edited) => Fits(edited')
    <3> DEFINE after == ReplaceOne(edited, pattern, by)
    <3>1. /\ after \in Strings /\ after.pos = 0
          /\ Len(pattern) <= Len(by) /\ Fits(edited) => Fits(after)
      BY <1>1, <1>2, <1>4, ReplaceKeeps
    <3> HIDE DEF after
    <3> QED BY <2>1, <3>1 DEF after
  <2>3. Len(pattern) \in Nat /\ Len(by) \in Nat /\ Len(edited'.chars) \in Nat
    BY <1>2, <2>2, Seen
  <2>4. StrTerminated'
    <3> SUFFICES ASSUME ~shortened' PROVE Fits(edited')
      BY DEF StrTerminated, Fits
    <3>1. ~shortened /\ ~(Len(by) < Len(pattern))
      BY <2>1, Zenon
    <3>2. Len(pattern) <= Len(by)
      BY <2>3, <3>1
    <3>3. Fits(edited)
      BY <3>1 DEF StrInv, StrTerminated, Fits
    <3> QED BY <2>2, <3>2, <3>3
  <2>5. shortened' \in BOOLEAN
    BY <2>1
  <2> QED BY <2>1, <2>2, <2>3, <2>4, <2>5 DEF StrInv, StrGrowthEnds, StrStaysInside, PosInside
<1>5. CASE ~MovesBackwards(edited, pattern) /\ ~Grows(edited, Len(edited.chars) + Len(by) - Len(pattern))
  <2>1. strHung' = TRUE /\ UNCHANGED <<edited, strBroken, shortened, readPast>>
    BY <1>1, <1>5
  <2>2. edited.size <= 1
    BY <1>2, <1>5, HangsSmall
  <2> QED BY <2>1, <2>2, HungInv
<1> QED BY <1>3, <1>4, <1>5

\* A read from behind the end was preceded by one past it.
LEMMA StrReadInv == StrInv /\ ~strHung /\ ~strBroken /\ (StrReadChar \/ StrRead) => StrInv'
<1> SUFFICES ASSUME StrInv, ~strHung, ~strBroken, StrReadChar \/ StrRead PROVE StrInv'
  OBVIOUS
<1>1. edited \in Strings /\ edited.pos \in Nat /\ Len(edited.chars) \in Nat
  BY DEF StrInv, Strings
<1>2. CASE StrReadChar
  <2> DEFINE pos == edited.pos + 1
  <2>1. edited' = [edited EXCEPT !.pos = pos] /\ pos \in Nat
    BY <1>1, <1>2 DEF StrReadChar, Advance
  <2>2. readPast' = (readPast \/ edited.pos >= Len(edited.chars))
        /\ UNCHANGED <<strHung, strBroken, shortened>>
    BY <1>2 DEF StrReadChar
  <2>3. ~readPast' => pos <= Len(edited.chars)
    <3>1. ~readPast' => ~(edited.pos >= Len(edited.chars))
      BY <2>2, Zenon
    <3> QED BY <1>1, <3>1
  <2> HIDE DEF pos
  <2>4. /\ edited' \in Strings /\ edited'.chars = edited.chars /\ edited'.tail = edited.tail
        /\ edited'.pos = pos /\ edited'.size = edited.size
    BY <1>1, <2>1 DEF Strings
  <2>5. readPast' \in BOOLEAN
    BY <2>2
  <2> QED BY <2>2, <2>3, <2>4, <2>5 DEF StrInv, StrTerminated, StrGrowthEnds, StrStaysInside, PosInside
<1>3. CASE StrRead
  <2>1. PICK num \in 1 .. 2 :
          /\ IF Len(edited.chars) - edited.pos < 0
             THEN strBroken' = TRUE /\ UNCHANGED edited
             ELSE edited' = str_skip(edited, num) /\ UNCHANGED strBroken
          /\ UNCHANGED <<strHung, shortened, readPast>>
    BY <1>3 DEF StrRead
  <2>2. CASE Len(edited.chars) - edited.pos < 0
    <3>1. readPast \/ shortened
      BY <1>1, <2>2 DEF StrInv, PosInside
    <3> QED BY <2>1, <2>2, <3>1, BrokenInv
  <2>3. CASE ~(Len(edited.chars) - edited.pos < 0)
    <3>1. num \in Nat
      OBVIOUS
    <3>2. Keeps(edited, edited')
      BY <1>1, <2>1, <2>3, <3>1, MoveKeeps
    <3> QED BY <2>1, <2>3, <3>2, KeptInv
  <2> QED BY <2>2, <2>3
<1> QED BY <1>2, <1>3

\* A copy, a wrapped string and an empty buffer.
LEMMA StrInitInv == StrInit => StrInv
<1> SUFFICES ASSUME StrInit PROVE StrInv
  OBVIOUS
<1>1. strHung = FALSE /\ strBroken = FALSE /\ shortened = FALSE /\ readPast = FALSE
  BY DEF StrInit, StrStart
<1>2. edited \in Strings /\ Fits(edited) /\ edited.pos = 0
  <2>1. ASSUME NEW cs \in Short, NEW size \in {0, Len(cs) + 1},
               edited = [str_create(size) EXCEPT !.chars = cs]
        PROVE  edited \in Strings /\ Fits(edited) /\ edited.pos = 0
    <3>1. cs \in Seq(Letters) /\ Len(cs) \in Nat /\ <<>> \in Seq(Letters)
      BY ShortOnes, EmptySeq
    <3>2. size \in Nat /\ (size > 0 => Len(cs) < size)
      BY <3>1
    <3>3. edited = [chars |-> cs, tail |-> <<>>, pos |-> 0, size |-> size]
      BY <2>1 DEF str_create
    <3> QED BY <3>1, <3>2, <3>3 DEF Strings, Fits
  <2>2. CASE edited = str_create(2)
    <3>1. <<>> \in Seq(Letters) /\ Len(<<>>) = 0
      BY EmptySeq
    <3> QED BY <2>2, <3>1 DEF str_create, Strings, Fits
  <2>3. CASE edited \in {str_copy_chars(cs) : cs \in Short}
    <3>1. PICK cs \in Short : edited = str_copy_chars(cs)
      BY <2>3
    <3> QED BY <2>1, <3>1 DEF str_copy_chars
  <2>4. CASE edited \in {str_wrap(cs) : cs \in Short}
    <3>1. PICK cs \in Short : edited = str_wrap(cs)
      BY <2>4
    <3> QED BY <2>1, <3>1 DEF str_wrap
  <2> QED BY <2>2, <2>3, <2>4 DEF StrInit
<1>3. Len(edited.chars) \in Nat
  BY <1>2, Seen
<1>4. StrTerminated /\ PosInside
  BY <1>2, <1>3 DEF Fits, StrTerminated, PosInside
<1> QED BY <1>1, <1>2, <1>4 DEF StrInv, StrGrowthEnds, StrStaysInside

(* What the methods make: the characters, and others behind them.          *)
LEMMA JointUnfolds ==
  ASSUME NEW cs \in Seq(Letters), NEW args \in Seq(Seq(Letters))
  PROVE  \E ret \in [0 .. Len(args) -> Seq(Letters)] :
           /\ Joint(cs, args) = ret[Len(args)] /\ ret[0] = cs
           /\ \A i \in 1 .. Len(args) : ret[i] = ret[i - 1] \o args[i]
<1> DEFINE n == Len(args)
           S == Seq(Letters)
           step == [x \in Nat \X S |-> IF x[1] + 1 \in 1 .. n THEN x[2] \o args[x[1] + 1] ELSE x[2]]
<1>1. n \in Nat
  OBVIOUS
<1>2. step \in [Nat \X S -> S]
  <2> SUFFICES ASSUME NEW x \in Nat \X S, x[1] + 1 \in 1 .. n PROVE x[2] \o args[x[1] + 1] \in S
    OBVIOUS
  <2>1. x[2] \in S /\ args[x[1] + 1] \in S
    OBVIOUS
  <2> QED BY <2>1
<1>3. PICK F \in [Nat -> S] : Recurs(F, cs, step)
  <2> HIDE DEF step
  <2> QED BY <1>2, RecursionExists
<1>4. F[0] = cs /\ \A k \in Nat : F[k + 1] = step[<<k, F[k]>>]
  BY <1>3 DEF Recurs
<1>5. ASSUME NEW i \in 1 .. n PROVE F[i] = F[i - 1] \o args[i]
  <2>1. i - 1 \in Nat /\ (i - 1) + 1 = i /\ F[i - 1] \in S
    BY <1>3
  <2>2. F[(i - 1) + 1] = step[<<i - 1, F[i - 1]>>]
    BY <1>4, <2>1
  <2>3. step[<<i - 1, F[i - 1]>>] = F[i - 1] \o args[(i - 1) + 1]
    BY <2>1
  <2> QED BY <2>1, <2>2, <2>3
<1> DEFINE ret[i \in 0 .. n] == IF i = 0 THEN cs ELSE ret[i - 1] \o args[i]
<1>6. ret = [i \in 0 .. n |-> IF i = 0 THEN cs ELSE ret[i - 1] \o args[i]]
  <2> DEFINE g == [i \in 0 .. n |-> F[i]]
  <2>1. ASSUME NEW i \in 0 .. n PROVE g[i] = IF i = 0 THEN cs ELSE g[i - 1] \o args[i]
    <3>1. CASE i = 0
      BY <3>1, <1>4
    <3>2. CASE i # 0
      <4>1. i \in 1 .. n /\ i - 1 \in 0 .. n
        BY <3>2
      <4>2. g[i] = F[i] /\ g[i - 1] = F[i - 1]
        BY <4>1
      <4> QED BY <3>2, <4>1, <4>2, <1>5
    <3> QED BY <3>1, <3>2
  <2>2. g = [i \in 0 .. n |-> IF i = 0 THEN cs ELSE g[i - 1] \o args[i]]
    BY <2>1
  <2> HIDE DEF g, n
  <2> QED BY <2>2
<1>7. Joint(cs, args) = ret[n]
  BY DEF Joint
<1> HIDE DEF ret
<1> HIDE DEF n
<1>9. ret[0] = cs /\ \A i \in 1 .. n : ret[i] = ret[i - 1] \o args[i]
  <2>1. ret[0] = cs
    BY <1>1, <1>6
  <2>2. ASSUME NEW i \in 1 .. n PROVE ret[i] = ret[i - 1] \o args[i]
    <3>1. i \in 0 .. n /\ i # 0
      BY <1>1
    <3> QED BY <1>6, <3>1
  <2> QED BY <2>1, <2>2
<1>10. ret \in [0 .. n -> S]
  <2> DEFINE A == {k \in Nat : k <= n => ret[k] \in S}
  <2>1. 0 \in A
    BY <1>9
  <2>2. ASSUME NEW k \in Nat, k \in A PROVE k + 1 \in A
    <3> SUFFICES ASSUME k + 1 <= n PROVE ret[k + 1] \in S
      OBVIOUS
    <3>1. k + 1 \in 1 .. n /\ (k + 1) - 1 = k /\ ret[k] \in S
      BY <1>1, <2>2
    <3>2. args[k + 1] \in S
      BY <3>1 DEF n
    <3>3. ret[k + 1] = ret[k] \o args[k + 1]
      BY <1>9, <3>1
    <3> QED BY <3>1, <3>2, <3>3
  <2>3. Nat \subseteq A
    <3> HIDE DEF A
    <3> QED BY <2>1, <2>2, SetInduction
  <2>4. \A k \in 0 .. n : ret[k] \in S
    BY <1>1, <2>3
  <2>5. ret = [i \in 0 .. n |-> ret[i]]
    BY <1>6
  <2> HIDE DEF S
  <2> QED BY <2>4, <2>5
<1> QED BY <1>7, <1>9, <1>10 DEF n

\* The buffer of a copy grows unless nothing was copied.
LEMMA CopyGrows ==
  ASSUME NEW cs \in Seq(Letters), NEW len \in Nat
  PROVE  Returns(cs, len) <=> cs # <<>>
<1> DEFINE copy == str_copy_chars(cs)
           room == Room(copy, len)
<1>1. copy.size = Len(cs) + 1 /\ Len(cs) \in Nat /\ (Len(cs) = 0 <=> cs = <<>>)
  BY EmptySeq DEF str_copy_chars, str_create
<1>2. room \in Nat /\ room >= 1
  <2> HIDE DEF copy
  <2> QED BY <1>1 DEF Room
<1>3. Returns(cs, len) <=> copy.size >= room + 1 \/ Growth(copy.size) > copy.size
  BY DEF Returns, Grows, Holds
<1> HIDE DEF copy, room
<1>4. CASE cs # <<>>
  <2> DEFINE z == copy.size
  <2>1. z \in Nat /\ z >= 2
    BY <1>1, <1>4
  <2> HIDE DEF z
  <2>2. Growth(z) > z
    BY <2>1, SizeGrows
  <2>3. Growth(copy.size) > copy.size
    BY <2>2 DEF z
  <2> QED BY <1>3, <1>4, <2>3
<1>5. CASE cs = <<>>
  <2>1. copy.size = 1 /\ ~(copy.size >= room + 1) /\ Growth(copy.size) = 1
    BY <1>1, <1>2, <1>5 DEF Growth
  <2> QED BY <1>3, <1>5, <2>1
<1> QED BY <1>4, <1>5

(* What a method makes: it is whole, and its buffer can grow.              *)
Made == {s \in Strings : Fits(s) /\ s.size >= 2 /\ s.pos <= Len(s.chars)}

\* It stays so when characters are put behind it.
LEMMA MadeLonger ==
  ASSUME NEW s \in Made, NEW cs \in Seq(Letters)
  PROVE  /\ str_append_nchars(s, cs, Len(cs)) \in Made
         /\ str_append_nchars(s, cs, Len(cs)).chars = s.chars \o cs
<1> DEFINE n == Len(cs)
           after == str_append_nchars(s, cs, n)
<1>1. s \in Strings /\ s.tail = <<>> /\ s.size >= 2 /\ s.size \in Nat /\ Fits(s) /\ s.pos <= Len(s.chars)
  BY DEF Made, Strings, Fits
<1>2. Grows(s, Len(s.chars) + n + 1)
  <2> DEFINE z == s.size
  <2>1. z \in Nat /\ z >= 2
    BY <1>1
  <2> HIDE DEF z
  <2>2. Growth(z) > z
    BY <2>1, SizeGrows
  <2> QED BY <2>2 DEF Grows, z
<1>3. n \in Nat
  OBVIOUS
<1>4. /\ Keeps(s, str_append_nchars(s, cs, n))
      /\ n = Len(cs) /\ s.tail = <<>> => /\ str_append_nchars(s, cs, n).chars = s.chars \o cs
                                         /\ str_append_nchars(s, cs, n).tail = <<>>
                                         /\ str_append_nchars(s, cs, n).size >= 2
  <2> HIDE DEF n
  <2> QED BY <1>1, <1>2, <1>3, AppendCharsKeeps
<1>5. Keeps(s, after) /\ after.chars = s.chars \o cs /\ after.size >= 2
  BY <1>1, <1>4
<1> HIDE DEF after
<1>6. after \in Made /\ after.chars = s.chars \o cs
  BY <1>1, <1>5 DEF Keeps, Made
<1> QED BY <1>6 DEF after

\* A copy that has the room for them, and all the others behind it.
LEMMA ExtendedIs ==
  ASSUME NEW cs \in Seq(Letters), cs # <<>>, NEW len \in Nat, NEW args \in Seq(Seq(Letters))
  PROVE  Extended(cs, len, args) \in Made /\ Extended(cs, len, args).chars = Joint(cs, args)
<1> DEFINE n == Len(args)
           copy == str_copy_chars(cs)
           start == _str_expand(copy, Room(copy, len))
           step == [x \in Nat \X Made |->
                      IF x[1] + 1 \in 1 .. n THEN str_append_nchars(x[2], args[x[1] + 1], Len(args[x[1] + 1]))
                      ELSE x[2]]
<1>1. start \in Made /\ start.chars = cs
  <2> DEFINE room == Room(copy, len)
  <2>1. copy = [chars |-> cs, tail |-> <<>>, pos |-> 0, size |-> Len(cs) + 1] /\ Len(cs) \in Nat \ {0}
    BY EmptySeq DEF str_copy_chars, str_create
  <2>2. copy \in Strings /\ copy.chars = cs /\ copy.tail = <<>> /\ copy.pos = 0 /\ copy.size >= 2
        /\ copy.size = Len(cs) + 1
    <3>1. <<>> \in Seq(Letters)
      BY EmptySeq
    <3> QED BY <2>1, <3>1 DEF Strings
  <2>3. room \in Nat /\ Grows(copy, room)
    <3>1. Returns(cs, len)
      BY CopyGrows
    <3> HIDE DEF copy
    <3>2. room \in Nat
      BY <2>1, <2>2 DEF Room
    <3>3. Grows(copy, room)
      BY <3>1 DEF Returns, copy
    <3> QED BY <3>2, <3>3
  <2>4. CASE Holds(copy, room)
    <3>1. start = copy
      <4> HIDE DEF copy
      <4> QED BY <2>4 DEF _str_expand
    <3> HIDE DEF start, copy
    <3> QED BY <2>1, <2>2, <3>1 DEF Made, Fits
  <2>5. CASE ~Holds(copy, room)
    <3> HIDE DEF copy, room
    <3>1. PICK size \in Nat : _str_expand(copy, room) = [copy EXCEPT !.size = size] /\ size >= room + 1
      BY <2>2, <2>3, GrowsEnough
    <3>2. size > Len(cs) /\ size >= 2
      BY <2>1, <2>2, <2>3, <2>5, <3>1 DEF Holds
    <3>3. start = [copy EXCEPT !.size = size]
      BY <3>1 DEF room
    <3> HIDE DEF start
    <3>4. start \in Strings /\ start.chars = cs /\ start.tail = <<>> /\ start.pos = 0 /\ start.size = size
      BY <2>2, <3>3 DEF Strings
    <3> QED BY <2>1, <3>2, <3>4 DEF Made, Fits
  <2> QED BY <2>4, <2>5
<1>2. \A i \in 1 .. n : args[i] \in Seq(Letters)
  OBVIOUS
<1> HIDE DEF start
<1>3. step \in [Nat \X Made -> Made]
  <2> SUFFICES ASSUME NEW x \in Nat \X Made, x[1] + 1 \in 1 .. n
               PROVE  str_append_nchars(x[2], args[x[1] + 1], Len(args[x[1] + 1])) \in Made
    OBVIOUS
  <2>1. x[2] \in Made /\ args[x[1] + 1] \in Seq(Letters)
    BY <1>2
  <2> QED BY <2>1, MadeLonger
<1>4. PICK F \in [Nat -> Made] : Recurs(F, start, step)
  <2> HIDE DEF step
  <2> QED BY <1>1, <1>3, RecursionExists
<1>5. F[0] = start /\ \A k \in Nat : F[k + 1] = step[<<k, F[k]>>]
  BY <1>4 DEF Recurs
<1>6. ASSUME NEW i \in 1 .. n PROVE F[i] = str_append_nchars(F[i - 1], args[i], Len(args[i]))
  <2>1. i - 1 \in Nat /\ (i - 1) + 1 = i /\ F[i - 1] \in Made
    BY <1>4
  <2>2. F[(i - 1) + 1] = step[<<i - 1, F[i - 1]>>]
    BY <1>5, <2>1
  <2>3. step[<<i - 1, F[i - 1]>>] = str_append_nchars(F[i - 1], args[(i - 1) + 1], Len(args[(i - 1) + 1]))
    BY <2>1
  <2> QED BY <2>1, <2>2, <2>3
<1> DEFINE ret[i \in 0 .. n] ==
             IF i = 0 THEN _str_expand(copy, Room(copy, len))
             ELSE str_append_nchars(ret[i - 1], args[i], Len(args[i]))
<1>7. ret = [i \in 0 .. n |-> IF i = 0 THEN start ELSE str_append_nchars(ret[i - 1], args[i], Len(args[i]))]
  <2> DEFINE g == [i \in 0 .. n |-> F[i]]
  <2>1. ASSUME NEW i \in 0 .. n
        PROVE  g[i] = IF i = 0 THEN start ELSE str_append_nchars(g[i - 1], args[i], Len(args[i]))
    <3>1. CASE i = 0
      BY <3>1, <1>5
    <3>2. CASE i # 0
      <4>1. i \in 1 .. n /\ i - 1 \in 0 .. n
        BY <3>2
      <4>2. g[i] = F[i] /\ g[i - 1] = F[i - 1]
        BY <4>1
      <4> QED BY <3>2, <4>1, <4>2, <1>6
    <3> QED BY <3>1, <3>2
  <2>2. g = [i \in 0 .. n |-> IF i = 0 THEN start ELSE str_append_nchars(g[i - 1], args[i], Len(args[i]))]
    BY <2>1
  <2> HIDE DEF g, n, copy
  <2> QED BY <2>2 DEF start
<1>8. Extended(cs, len, args) = ret[n]
  BY DEF Extended
<1> HIDE DEF ret
<1>9. n \in Nat
  OBVIOUS
<1>10. PICK together \in [0 .. n -> Seq(Letters)] :
         /\ Joint(cs, args) = together[n] /\ together[0] = cs
         /\ \A i \in 1 .. n : together[i] = together[i - 1] \o args[i]
  BY JointUnfolds
<1> HIDE DEF n
<1> DEFINE A == {k \in Nat : k <= n => ret[k] \in Made /\ ret[k].chars = together[k]}
<1>11. 0 \in A
  <2>1. ret[0] = start
    BY <1>7, <1>9
  <2> QED BY <1>1, <1>10, <2>1
<1>12. ASSUME NEW k \in Nat, k \in A PROVE k + 1 \in A
  <2> SUFFICES ASSUME k + 1 <= n PROVE ret[k + 1] \in Made /\ ret[k + 1].chars = together[k + 1]
    OBVIOUS
  <2>1. k + 1 \in 1 .. n /\ k + 1 \in 0 .. n /\ k + 1 # 0 /\ (k + 1) - 1 = k
        /\ ret[k] \in Made /\ ret[k].chars = together[k]
    BY <1>9, <1>12
  <2> DEFINE e == args[k + 1]
             t == ret[k]
  <2>2. e \in Seq(Letters) /\ ret[k + 1] = str_append_nchars(t, e, Len(e)) /\ together[k + 1] = together[k] \o e
    BY <1>2, <1>7, <1>10, <2>1
  <2>3. t \in Made /\ t.chars = together[k]
    BY <2>1
  <2> HIDE DEF e, t
  <2>4. /\ str_append_nchars(t, e, Len(e)) \in Made
        /\ str_append_nchars(t, e, Len(e)).chars = t.chars \o e
    BY <2>2, <2>3, MadeLonger
  <2> QED BY <2>2, <2>3, <2>4
<1>13. n \in A
  <2> HIDE DEF A
  <2>1. Nat \subseteq A
    BY <1>11, <1>12, SetInduction
  <2> QED BY <1>9, <2>1
<1>14. ret[n] \in Made /\ ret[n].chars = together[n]
  BY <1>9, <1>13
<1> QED BY <1>8, <1>10, <1>14

\* A method gives a whole string, or its copy of nothing does not grow.
LEMMA MethodInv ==
  ASSUME StrInv, ~strHung, ~strBroken, NEW len \in Int, NEW after,
         Method(len, after), CString(edited) # <<>> \/ len < 0 => after \in Strings /\ Fits(after)
                                                                  /\ after.pos <= Len(after.chars)
  PROVE  StrInv'
<1> DEFINE cs == CString(edited)
<1>1. cs \in Seq(Letters)
  BY Seen DEF StrInv
<1>2. CASE Returns(cs, len)
  <2>1. edited' = after /\ strHung' = strHung /\ strBroken' = strBroken /\ shortened' = FALSE /\ readPast' = FALSE
    BY <1>2 DEF Method
  <2>2. cs # <<>> \/ len < 0
    BY <1>1, <1>2, CopyGrows
  <2>3. after \in Strings /\ Fits(after) /\ after.pos <= Len(after.chars)
    BY <2>2
  <2>4. edited' \in Strings /\ Fits(edited') /\ edited'.pos <= Len(edited'.chars)
    BY <2>1, <2>3
  <2> HIDE DEF cs
  <2> QED BY <2>1, <2>4 DEF StrInv, Fits, StrTerminated, StrGrowthEnds, StrStaysInside, PosInside
<1>3. CASE ~Returns(cs, len)
  <2>1. edited' = str_copy_chars(cs) /\ strHung' = TRUE /\ strBroken' = strBroken
        /\ shortened' = FALSE /\ readPast' = FALSE
    BY <1>3 DEF Method
  <2>2. cs = <<>>
    <3>1. ~(len < 0)
      BY <1>3 DEF Returns
    <3>2. len \in Nat
      BY <3>1
    <3> HIDE DEF cs
    <3> QED BY <1>1, <1>3, <3>2, CopyGrows
  <2>3. edited' = [chars |-> <<>>, tail |-> <<>>, pos |-> 0, size |-> 1]
    <3>1. Len(<<>>) + 1 = 1
      OBVIOUS
    <3> HIDE DEF cs
    <3> QED BY <2>1, <2>2, <3>1 DEF str_copy_chars, str_create
  <2>4. edited' \in Strings /\ edited'.tail = <<>> /\ edited'.size = 1 /\ edited'.pos = 0 /\ Len(edited'.chars) = 0
    <3>1. <<>> \in Seq(Letters) /\ Len(<<>>) = 0
      BY EmptySeq
    <3> QED BY <2>3, <3>1 DEF Strings
  <2>5. edited \in Strings /\ strBroken' = FALSE
    BY <2>1 DEF StrInv
  <2> HIDE DEF cs
  <2>6. StrTerminated' /\ PosInside'
    BY <2>1, <2>4 DEF StrTerminated, PosInside
  <2>7. StrGrowthEnds' /\ StrStaysInside'
    BY <2>1, <2>4, <2>5 DEF StrGrowthEnds, StrStaysInside
  <2>8. strHung' \in BOOLEAN /\ strBroken' \in BOOLEAN /\ shortened' \in BOOLEAN /\ readPast' \in BOOLEAN
    BY <2>1, <2>5
  <2> QED BY <2>4, <2>6, <2>7, <2>8 DEF StrInv
<1> QED BY <1>2, <1>3

\* What concatenates and what repeats.
LEMMA StrMethodsInv == StrInv /\ ~strHung /\ ~strBroken /\ (StrConcat \/ StrRepeat) => StrInv'
<1> SUFFICES ASSUME StrInv, ~strHung, ~strBroken, StrConcat \/ StrRepeat PROVE StrInv'
  OBVIOUS
<1> DEFINE cs == CString(edited)
<1>1. cs \in Seq(Letters) /\ Len(cs) \in Nat
  BY Seen DEF StrInv
<1>2. CASE StrConcat
  <2>1. PICK args \in {<<>>} \cup {<<c>> : c \in Short} : Method(Len(Joint(cs, args)), _string_concat(cs, args))
    BY <1>2 DEF StrConcat
  <2>2. args \in Seq(Seq(Letters))
    <3>1. CASE args = <<>>
      BY <3>1, EmptySeq
    <3>2. ASSUME NEW c \in Short, args = <<c>> PROVE args \in Seq(Seq(Letters))
      <4>1. c \in Seq(Letters)
        BY ShortOnes
      <4> QED BY <3>2, <4>1
    <3> QED BY <2>1, <3>1, <3>2
  <2> DEFINE len == Len(Joint(cs, args))
             after == _string_concat(cs, args)
  <2> HIDE DEF cs
  <2>3. len \in Nat
    <3>1. PICK ret \in [0 .. Len(args) -> Seq(Letters)] : Joint(cs, args) = ret[Len(args)]
      BY <1>1, <2>2, JointUnfolds
    <3>2. Len(args) \in 0 .. Len(args)
      BY <2>2
    <3>3. Joint(cs, args) \in Seq(Letters)
      BY <3>1, <3>2
    <3> QED BY <3>3
  <2>4. cs # <<>> => after \in Strings /\ Fits(after) /\ after.pos <= Len(after.chars)
    <3> SUFFICES ASSUME cs # <<>> PROVE after \in Made
      BY DEF Made
    <3> HIDE DEF len
    <3>1. Extended(cs, len, args) \in Made
      BY <1>1, <2>2, <2>3, ExtendedIs
    <3> QED BY <3>1 DEF _string_concat, len
  <2>5. len \in Int /\ ~(len < 0) /\ Method(len, after)
    BY <2>1, <2>3
  <2> HIDE DEF len, after
  <2> QED BY <2>4, <2>5, MethodInv DEF cs
<1>3. CASE StrRepeat
  <2>1. PICK numval \in -1 .. 2 : Method(Len(cs) * numval, _string_repeat(cs, numval))
    BY <1>3 DEF StrRepeat
  <2> DEFINE len == Len(cs) * numval
             after == _string_repeat(cs, numval)
             args == [i \in 1 .. numval |-> cs]
  <2> HIDE DEF cs
  <2>2. len \in Int /\ Method(len, after)
    <3> DEFINE l == Len(cs)
    <3>1. l \in Nat /\ numval \in Int
      BY <1>1, <2>1
    <3> HIDE DEF l
    <3>2. l * numval \in Int
      BY <3>1
    <3> QED BY <2>1, <3>2 DEF l
  <2>3. CASE len < 0
    <3>1. after = str_erase(str_copy_chars(cs))
      BY <2>3 DEF _string_repeat
    <3>2. after = [chars |-> <<>>, tail |-> <<>>, pos |-> 0, size |-> Len(cs) + 1]
      BY <1>1, <3>1 DEF str_erase, str_copy_chars, str_create
    <3>3. after \in Strings /\ Fits(after) /\ after.pos <= Len(after.chars)
      <4>1. <<>> \in Seq(Letters) /\ Len(<<>>) = 0
        BY EmptySeq
      <4> HIDE DEF after
      <4> QED BY <1>1, <3>2, <4>1 DEF Strings, Fits
    <3> HIDE DEF len, after
    <3> QED BY <2>2, <3>3, MethodInv
  <2>4. CASE ~(len < 0)
    <3>1. len \in Nat
      BY <2>2, <2>4
    <3>2. ASSUME cs # <<>> PROVE args \in Seq(Seq(Letters))
      <4> DEFINE l == Len(cs)
      <4>1. l \in Nat /\ l # 0 /\ ~(l * numval < 0)
        BY <1>1, <2>4, <3>2, EmptySeq
      <4> HIDE DEF l
      <4>2. numval # -1
        BY <4>1
      <4>3. numval \in Nat
        BY <4>2
      <4>4. args \in [1 .. numval -> Seq(Letters)]
        BY <1>1
      <4> HIDE DEF args
      <4> QED BY <4>3, <4>4, SequenceOf
    <3>3. cs # <<>> => after \in Strings /\ Fits(after) /\ after.pos <= Len(after.chars)
      <4> SUFFICES ASSUME cs # <<>> PROVE after \in Made
        BY DEF Made
      <4>1. after = Extended(cs, len, args)
        BY <2>4 DEF _string_repeat
      <4> HIDE DEF len, after, args
      <4> QED BY <1>1, <3>1, <3>2, <4>1, ExtendedIs
    <3> HIDE DEF len, after
    <3> QED BY <2>2, <2>4, <3>3, MethodInv DEF cs
  <2> QED BY <2>3, <2>4
<1> QED BY <1>2, <1>3

(* Whatever is done to a string.                                           *)
LEMMA StrInvariant == StrSpec => []StrInv
<1>1. StrInit => StrInv
  BY StrInitInv
<1>2. StrInv /\ [StrNext]_strVars => StrInv'
  <2> SUFFICES ASSUME StrInv, [StrNext]_strVars PROVE StrInv'
    OBVIOUS
  <2>1. CASE StrNext
    <3>1. ~strHung /\ ~strBroken
      BY <2>1 DEF StrNext
    <3> QED BY <2>1, <3>1, StrAppendsInv, StrCutInv, StrReplaceInv, StrReadInv, StrMethodsInv DEF StrNext
  <2>2. CASE UNCHANGED strVars
    BY <2>2 DEF StrInv, strVars, StrTerminated, StrGrowthEnds, StrStaysInside, PosInside
  <2> QED BY <2>1, <2>2
<1> QED BY <1>1, <1>2, PTL DEF StrSpec

(* What strings are joined in: a buffer that grows.                        *)
Joining == {s \in Strings : s.tail = <<>> /\ s.size >= 2}

\* One element and the glue behind it.
LEMMA JoinsOne ==
  ASSUME NEW s \in Joining, NEW elem \in Seq(Letters), NEW glue \in Seq(Letters)
  PROVE  /\ _str_join_reducer(s, elem, glue) \in Joining
         /\ _str_join_reducer(s, elem, glue).chars = (s.chars \o elem) \o glue
<1>1. ASSUME NEW t \in Joining, NEW cs \in Seq(Letters)
      PROVE  LET after == str_append_nchars(t, cs, Len(cs))
             IN after \in Joining /\ after.chars = t.chars \o cs
  <2> DEFINE n == Len(cs)
             after == str_append_nchars(t, cs, n)
  <2>1. t \in Strings /\ t.tail = <<>> /\ t.size >= 2 /\ t.size \in Nat
    BY DEF Joining, Strings
  <2>2. Grows(t, Len(t.chars) + n + 1)
    <3> DEFINE z == t.size
    <3>1. z \in Nat /\ z >= 2
      BY <2>1
    <3> HIDE DEF z
    <3>2. Growth(z) > z
      BY <3>1, SizeGrows
    <3> QED BY <3>2 DEF Grows, z
  <2>3. n \in Nat
    OBVIOUS
  <2>4. /\ Keeps(t, str_append_nchars(t, cs, n))
        /\ n = Len(cs) /\ t.tail = <<>> => /\ str_append_nchars(t, cs, n).chars = t.chars \o cs
                                           /\ str_append_nchars(t, cs, n).tail = <<>>
                                           /\ str_append_nchars(t, cs, n).size >= 2
    <3>1. t \in Strings
      BY <2>1
    <3> HIDE DEF n
    <3> QED BY <3>1, <2>2, <2>3, AppendCharsKeeps
  <2>5. Keeps(t, after) /\ after.chars = t.chars \o cs /\ after.tail = <<>> /\ after.size >= 2
    BY <2>1, <2>4
  <2> HIDE DEF after
  <2>6. after \in Joining /\ after.chars = t.chars \o cs
    BY <2>5 DEF Keeps, Joining
  <2> QED BY <2>6 DEF after
<1> DEFINE mid == str_append_nchars(s, elem, Len(elem))
<1>2. mid \in Joining /\ mid.chars = s.chars \o elem
  BY <1>1
<1> HIDE DEF mid
<1>3. LET after == str_append_nchars(mid, glue, Len(glue))
      IN after \in Joining /\ after.chars = mid.chars \o glue
  BY <1>1, <1>2
<1> QED BY <1>2, <1>3 DEF _str_join_reducer, mid

(* The elements are joined from the first to the last.                     *)
LEMMA ReducedUnfolds ==
  ASSUME NEW parts \in Seq(Seq(Letters)), NEW glue \in Seq(Letters)
  PROVE  \E ret \in [0 .. Len(parts) -> Joining] :
           /\ Reduced(glue, parts) = ret[Len(parts)] /\ ret[0].chars = <<>>
           /\ \A i \in 1 .. Len(parts) : ret[i].chars = (ret[i - 1].chars \o parts[i]) \o glue
<1> DEFINE n == Len(parts)
           empty == str_create(32)
           step == [x \in Nat \X Joining |->
                      IF x[1] + 1 \in 1 .. n THEN _str_join_reducer(x[2], parts[x[1] + 1], glue) ELSE x[2]]
<1>1. empty \in Joining /\ empty.chars = <<>>
  <2>1. <<>> \in Seq(Letters)
    BY EmptySeq
  <2> QED BY <2>1 DEF str_create, Joining, Strings
<1>2. \A i \in 1 .. n : parts[i] \in Seq(Letters)
  OBVIOUS
<1>3. step \in [Nat \X Joining -> Joining]
  <2> SUFFICES ASSUME NEW x \in Nat \X Joining, x[1] + 1 \in 1 .. n
               PROVE  _str_join_reducer(x[2], parts[x[1] + 1], glue) \in Joining
    OBVIOUS
  <2>1. x[2] \in Joining /\ parts[x[1] + 1] \in Seq(Letters)
    BY <1>2
  <2> QED BY <2>1, JoinsOne
<1>4. PICK F \in [Nat -> Joining] : Recurs(F, empty, step)
  <2> HIDE DEF step, empty
  <2> QED BY <1>1, <1>3, RecursionExists
<1>5. F[0] = empty /\ \A k \in Nat : F[k + 1] = step[<<k, F[k]>>]
  BY <1>4 DEF Recurs
<1> HIDE DEF empty
<1>6. ASSUME NEW i \in 1 .. n PROVE F[i] = _str_join_reducer(F[i - 1], parts[i], glue)
  <2>1. i - 1 \in Nat /\ (i - 1) + 1 = i /\ F[i - 1] \in Joining
    BY <1>4
  <2>2. F[(i - 1) + 1] = step[<<i - 1, F[i - 1]>>]
    BY <1>5, <2>1
  <2>3. step[<<i - 1, F[i - 1]>>] = _str_join_reducer(F[i - 1], parts[(i - 1) + 1], glue)
    BY <2>1
  <2> QED BY <2>1, <2>2, <2>3
<1> DEFINE ret[i \in 0 .. n] == IF i = 0 THEN str_create(32) ELSE _str_join_reducer(ret[i - 1], parts[i], glue)
<1>7. ret = [i \in 0 .. n |-> IF i = 0 THEN empty ELSE _str_join_reducer(ret[i - 1], parts[i], glue)]
  <2> DEFINE g == [i \in 0 .. n |-> F[i]]
  <2>1. ASSUME NEW i \in 0 .. n PROVE g[i] = IF i = 0 THEN empty ELSE _str_join_reducer(g[i - 1], parts[i], glue)
    <3>1. CASE i = 0
      BY <3>1, <1>5
    <3>2. CASE i # 0
      <4>1. i \in 1 .. n /\ i - 1 \in 0 .. n
        BY <3>2
      <4>2. g[i] = F[i] /\ g[i - 1] = F[i - 1]
        BY <4>1
      <4> QED BY <3>2, <4>1, <4>2, <1>6
    <3> QED BY <3>1, <3>2
  <2>2. g = [i \in 0 .. n |-> IF i = 0 THEN empty ELSE _str_join_reducer(g[i - 1], parts[i], glue)]
    BY <2>1
  <2> HIDE DEF g, n
  <2> QED BY <2>2 DEF empty
<1>8. Reduced(glue, parts) = ret[n]
  BY DEF Reduced
<1> HIDE DEF ret
<1>9. n \in Nat
  OBVIOUS
<1> HIDE DEF n
<1> DEFINE A == {k \in Nat : k <= n => ret[k] \in Joining}
<1>10. ret[0] = empty
  BY <1>7, <1>9
<1>11. ASSUME NEW i \in 1 .. n, ret[i - 1] \in Joining
       PROVE  ret[i] \in Joining /\ ret[i].chars = (ret[i - 1].chars \o parts[i]) \o glue
  <2>1. ret[i] = _str_join_reducer(ret[i - 1], parts[i], glue)
    BY <1>7, <1>9
  <2>2. parts[i] \in Seq(Letters)
    BY <1>2
  <2> DEFINE t == ret[i - 1]
             e == parts[i]
  <2>3. t \in Joining /\ e \in Seq(Letters) /\ ret[i] = _str_join_reducer(t, e, glue)
    BY <1>11, <2>1, <2>2
  <2> HIDE DEF t, e
  <2> DEFINE joined == _str_join_reducer(t, e, glue)
  <2>4. joined \in Joining /\ joined.chars = (t.chars \o e) \o glue
    BY <2>3, JoinsOne
  <2>5. ret[i] = joined
    BY <2>3
  <2> HIDE DEF joined
  <2> QED BY <2>4, <2>5 DEF t, e
<1>12. Nat \subseteq A
  <2>1. 0 \in A
    BY <1>1, <1>10
  <2>2. ASSUME NEW k \in Nat, k \in A PROVE k + 1 \in A
    <3> SUFFICES ASSUME k + 1 <= n PROVE ret[k + 1] \in Joining
      OBVIOUS
    <3>1. k + 1 \in 1 .. n /\ (k + 1) - 1 = k /\ ret[k] \in Joining
      BY <1>9, <2>2
    <3> DEFINE i == k + 1
    <3>2. i \in 1 .. n /\ ret[i - 1] \in Joining
      BY <3>1
    <3> HIDE DEF i
    <3>3. ret[i] \in Joining
      BY <3>2, <1>11
    <3> QED BY <3>3 DEF i
  <2> HIDE DEF A
  <2> QED BY <2>1, <2>2, SetInduction
<1>13. \A k \in 0 .. n : ret[k] \in Joining
  BY <1>9, <1>12
<1>14. ret \in [0 .. n -> Joining]
  BY <1>7, <1>13
<1>15. \A i \in 1 .. n : ret[i].chars = (ret[i - 1].chars \o parts[i]) \o glue
  <2> TAKE i \in 1 .. n
  <2>1. i - 1 \in 0 .. n
    BY <1>9
  <2> QED BY <2>1, <1>11, <1>13
<1>16. ret[0].chars = <<>>
  BY <1>1, <1>10
<1> QED BY <1>8, <1>14, <1>15, <1>16 DEF n

(* A string is split at the first occurrence of the separator, and what is *)
(* behind it is split again.                                               *)
SplitAt(cs, sep, from, at) ==
  \/ from[at] = << SubSeq(cs, at + 1, Len(cs)) >>
  \/ \E i \in at .. Len(cs) :
       /\ i + Len(sep) <= Len(cs) /\ Occurs(cs, sep, i)
       /\ from[at] = << SubSeq(cs, at + 1, i) >> \o from[i + Len(sep)]

\* There is such a function, and the split is what it says of the beginning.
LEMMA SplitUnfolds ==
  ASSUME NEW cs \in Seq(Letters), NEW sep \in Seq(Letters), cs # <<>>, sep # <<>>
  PROVE  \E from \in [0 .. Len(cs) -> Seq(Seq(Letters))] :
           /\ str_split(cs, sep) = from[0]
           /\ \A at \in 0 .. Len(cs) : SplitAt(cs, sep, from, at)
<1> DEFINE N == Len(cs)
           L == Len(sep)
           Pieces == Seq(Seq(Letters))
           next(at) == {i \in Occurrences(cs, sep) : i >= at}
           i0(at) == Min(next(at))
           S == [0 .. N -> Pieces]
           body(f, at) == IF next(at) = {} THEN << SubSeq(cs, at + 1, N) >>
                          ELSE << SubSeq(cs, at + 1, i0(at)) >> \o f[i0(at) + L]
           a == [at \in 0 .. N |-> <<>>]
           step == [x \in Nat \X S |-> [at \in 0 .. N |-> body(x[2], at)]]
<1>1. N \in Nat /\ L \in Nat \ {0}
  OBVIOUS
<1>2. ASSUME NEW at \in 0 .. N, next(at) # {}
      PROVE  i0(at) \in at .. N /\ i0(at) + L \in 0 .. N /\ i0(at) + L > at /\ Occurs(cs, sep, i0(at))
  <2>1. next(at) \in SUBSET (0 .. N) /\ \A i \in next(at) : i >= at /\ i \in Nat /\ i + L <= N /\ Occurs(cs, sep, i)
    <3>1. /\ Occurrences(cs, sep) \in SUBSET (0 .. N)
          /\ \A i \in Occurrences(cs, sep) : i \in Nat /\ i + L <= N
      BY FoundAt
    <3>2. \A i \in Occurrences(cs, sep) : Occurs(cs, sep, i)
      BY DEF Occurrences
    <3> QED BY <3>1, <3>2
  <2> DEFINE D == next(at)
  <2> HIDE DEF N, L
  <2>2. Min(D) \in D
    <3>1. D \in SUBSET (0 .. N) /\ D # {}
      BY <1>2, <2>1
    <3> HIDE DEF D
    <3> QED BY <3>1, <1>1, HasLeast
  <2>3. i0(at) >= at /\ i0(at) \in Nat /\ i0(at) + L <= N /\ Occurs(cs, sep, i0(at))
    BY <2>1, <2>2
  <2> DEFINE i == i0(at)
  <2> HIDE DEF i
  <2>4. i >= at /\ i \in Nat /\ i + L <= N /\ Occurs(cs, sep, i)
    BY <2>3 DEF i
  <2>5. i \in at .. N /\ i + L \in 0 .. N /\ i + L > at
    BY <1>1, <2>4
  <2> QED BY <2>4, <2>5 DEF i
<1>3. ASSUME NEW at \in 0 .. N, NEW n \in 0 .. N PROVE SubSeq(cs, at + 1, n) \in Seq(Letters)
  <2>1. at \in Nat /\ n \in Nat /\ n <= Len(cs)
    BY <1>1
  <2> QED BY <2>1, PartOf
<1>4. ASSUME NEW f, NEW at \in 0 .. N, next(at) # {} => f[i0(at) + L] \in Pieces
      PROVE  body(f, at) \in Pieces
  <2>1. \A t \in Seq(Letters) : <<t>> \in Pieces
    OBVIOUS
  <2>2. CASE next(at) = {}
    <3>1. SubSeq(cs, at + 1, N) \in Seq(Letters)
      BY <1>1, <1>3
    <3> HIDE DEF N, next
    <3> QED BY <2>1, <2>2, <3>1
  <2>3. CASE next(at) # {}
    <3> DEFINE i == i0(at)
               t == SubSeq(cs, at + 1, i)
               r == f[i + L]
    <3>1. i \in 0 .. N
      BY <1>1, <1>2, <2>3
    <3> HIDE DEF i, N
    <3>2. t \in Seq(Letters)
      BY <3>1, <1>3
    <3> USE DEF i
    <3>3. r \in Pieces
      BY <1>4, <2>3
    <3>4. body(f, at) = <<t>> \o r
      BY <2>3
    <3> HIDE DEF t, r, body, next
    <3>5. <<t>> \in Pieces
      BY <3>2, <2>1
    <3>6. <<t>> \o r \in Pieces
      BY <3>3, <3>5, ConcatProperties
    <3> QED BY <3>4, <3>6
  <2> QED BY <2>2, <2>3
<1>5. a \in S
  <2>1. <<>> \in Pieces
    BY EmptySeq
  <2> HIDE DEF N
  <2> QED BY <2>1
<1> HIDE DEF N, L, next, i0
<1>6. step \in [Nat \X S -> S]
  <2> SUFFICES ASSUME NEW x \in Nat \X S, NEW at \in 0 .. N PROVE body(x[2], at) \in Pieces
    OBVIOUS
  <2> DEFINE f == x[2]
  <2>1. f \in S
    OBVIOUS
  <2> HIDE DEF f
  <2>2. next(at) # {} => f[i0(at) + L] \in Pieces
    BY <1>2, <2>1
  <2> HIDE DEF body
  <2>3. body(f, at) \in Pieces
    BY <1>4, <2>2
  <2> QED BY <2>3 DEF f
<1>7. PICK F \in [Nat -> S] : Recurs(F, a, step)
  <2> HIDE DEF S, a, step
  <2> QED BY <1>5, <1>6, RecursionExists
<1>8. ASSUME NEW k \in Nat, NEW at \in 0 .. N PROVE F[k + 1][at] = body(F[k], at)
  <2>1. F[k + 1] = step[<<k, F[k]>>] /\ F[k] \in S
    BY <1>7 DEF Recurs
  <2> HIDE DEF body, S
  <2> QED BY <2>1
<1>9. ASSUME NEW f, NEW g, NEW at \in 0 .. N, next(at) # {} => f[i0(at) + L] = g[i0(at) + L]
      PROVE  body(f, at) = body(g, at)
  BY <1>9
<1> HIDE DEF a, step
<1> DEFINE A == {k \in Nat : \A at \in 0 .. N : N - at < k => F[k + 1][at] = F[k][at]}
<1>10. 0 \in A
  BY <1>1
<1>11. ASSUME NEW k \in Nat, k \in A PROVE k + 1 \in A
  <2> SUFFICES ASSUME NEW at \in 0 .. N, N - at < k + 1 PROVE F[(k + 1) + 1][at] = F[k + 1][at]
    OBVIOUS
  <2>1. next(at) # {} => F[k + 1][i0(at) + L] = F[k][i0(at) + L]
    <3> SUFFICES ASSUME next(at) # {} PROVE F[k + 1][i0(at) + L] = F[k][i0(at) + L]
      OBVIOUS
    <3> DEFINE j == i0(at) + L
    <3>1. j \in 0 .. N /\ j > at
      BY <1>2
    <3> HIDE DEF j
    <3>2. N - j < k
      BY <1>1, <3>1
    <3> QED BY <1>11, <3>1, <3>2 DEF j
  <2> HIDE DEF body
  <2>2. body(F[k + 1], at) = body(F[k], at)
    BY <1>9, <2>1
  <2>3. F[(k + 1) + 1][at] = body(F[k + 1], at)
    <3> DEFINE m == k + 1
    <3>1. m \in Nat
      OBVIOUS
    <3> HIDE DEF m
    <3>2. F[m + 1][at] = body(F[m], at)
      BY <3>1, <1>8
    <3> QED BY <3>2 DEF m
  <2> QED BY <2>2, <2>3, <1>8
<1>12. N + 1 \in A
  <2>1. Nat \subseteq A
    <3> HIDE DEF A
    <3> QED BY <1>10, <1>11, SetInduction
  <2> HIDE DEF A
  <2> QED BY <1>1, <2>1
<1> DEFINE last == F[N + 1]
<1>13. ASSUME NEW at \in 0 .. N PROVE last[at] = body(last, at)
  <2>1. F[(N + 1) + 1][at] = F[N + 1][at]
    BY <1>1, <1>12
  <2>2. F[(N + 1) + 1][at] = body(F[N + 1], at)
    <3> DEFINE m == N + 1
    <3>1. m \in Nat
      BY <1>1
    <3> HIDE DEF m, body
    <3>2. F[m + 1][at] = body(F[m], at)
      BY <3>1, <1>8
    <3> QED BY <3>2 DEF m
  <2> QED BY <2>1, <2>2
<1>14. last \in [0 .. N -> Pieces]
  <2> DEFINE m == N + 1
  <2>1. m \in Nat
    BY <1>1
  <2> HIDE DEF m, S
  <2>2. F[m] \in S
    BY <1>7, <2>1
  <2> QED BY <2>2 DEF m, S
<1> HIDE DEF A, last
<1>15. \E f : f = [at \in 0 .. N |-> body(f, at)]
  <2>1. last = [at \in 0 .. N |-> last[at]]
    <3> HIDE DEF body
    <3> QED BY <1>14
  <2> HIDE DEF body
  <2>2. last = [at \in 0 .. N |-> body(last, at)]
    BY <1>13, <2>1
  <2> QED BY <2>2
<1> DEFINE from[at \in 0 .. N] == body(from, at)
<1>16. from = [at \in 0 .. N |-> body(from, at)]
  <2> HIDE DEF body
  <2> QED BY <1>15
<1>17. str_split(cs, sep) = from[0]
  BY DEF str_split, N, L, next, i0
<1> HIDE DEF from
<1>18. ASSUME NEW at \in 0 .. N PROVE from[at] = body(from, at)
  <2> HIDE DEF body
  <2> QED BY <1>16
<1> DEFINE B == {k \in Nat : \A at \in 0 .. N : N - at <= k => from[at] \in Pieces}
<1>19. ASSUME NEW k \in Nat, NEW at \in 0 .. N, N - at <= k,
              \A j \in 0 .. N : j > at => from[j] \in Pieces
       PROVE  from[at] \in Pieces
  <2>1. next(at) # {} => from[i0(at) + L] \in Pieces
    BY <1>2, <1>19
  <2> HIDE DEF body
  <2> QED BY <1>4, <1>18, <2>1
<1>20. Nat \subseteq B
  <2>1. 0 \in B
    <3> SUFFICES ASSUME NEW at \in 0 .. N, N - at <= 0 PROVE from[at] \in Pieces
      OBVIOUS
    <3>1. \A j \in 0 .. N : ~(j > at)
      BY <1>1
    <3> QED BY <3>1, <1>19
  <2>2. ASSUME NEW k \in Nat, k \in B PROVE k + 1 \in B
    <3> SUFFICES ASSUME NEW at \in 0 .. N, N - at <= k + 1 PROVE from[at] \in Pieces
      OBVIOUS
    <3>1. \A j \in 0 .. N : j > at => N - j <= k
      BY <1>1
    <3>2. \A j \in 0 .. N : j > at => from[j] \in Pieces
      BY <2>2, <3>1
    <3>3. k + 1 \in Nat
      OBVIOUS
    <3> QED BY <3>2, <3>3, <1>19
  <2> HIDE DEF B
  <2> QED BY <2>1, <2>2, SetInduction
<1>21. \A at \in 0 .. N : from[at] \in Pieces
  <2> TAKE at \in 0 .. N
  <2>1. N - at \in Nat /\ N - at <= N - at
    BY <1>1
  <2> QED BY <2>1, <1>20
<1>22. from \in [0 .. N -> Pieces]
  <2> HIDE DEF body, B
  <2>1. from = [at \in 0 .. N |-> from[at]]
    BY <1>16
  <2> QED BY <1>21, <2>1
<1> HIDE DEF B
<1>23. ASSUME NEW at \in 0 .. N PROVE SplitAt(cs, sep, from, at)
  <2>1. CASE next(at) = {}
    <3>1. from[at] = << SubSeq(cs, at + 1, N) >>
      BY <1>18, <2>1
    <3> QED BY <3>1 DEF SplitAt, N
  <2>2. CASE next(at) # {}
    <3> DEFINE i == i0(at)
    <3>1. from[at] = << SubSeq(cs, at + 1, i) >> \o from[i + L]
      BY <1>18, <2>2
    <3>2. i \in at .. N /\ i + L \in 0 .. N /\ Occurs(cs, sep, i)
      BY <1>2, <2>2
    <3> HIDE DEF i
    <3>3. i + L <= N
      BY <1>1, <3>2
    <3> QED BY <3>1, <3>2, <3>3 DEF SplitAt, N, L
  <2> QED BY <2>1, <2>2
<1> QED BY <1>17, <1>22, <1>23 DEF N

(* The first of what is left of a sequence, and what is behind it.         *)
StartsWith(s, x, rest) == s = <<x>> \o rest

\* The sequence without its first element is the rest.
LEMMA FirstOfRest ==
  ASSUME NEW S, NEW parts \in Seq(S), NEW j \in Nat, j < Len(parts), NEW x \in S, NEW rest \in Seq(S),
         StartsWith(SubSeq(parts, j + 1, Len(parts)), x, rest)
  PROVE  /\ parts[j + 1] = x /\ SubSeq(parts, (j + 1) + 1, Len(parts)) = rest
         /\ Len(rest) = Len(parts) - (j + 1)
<1> DEFINE M == Len(parts)
           s == SubSeq(parts, j + 1, M)
           t == SubSeq(parts, (j + 1) + 1, M)
<1>1. M \in Nat /\ j + 1 \in Nat /\ j + 1 <= M /\ j <= M
  OBVIOUS
<1>2. Len(s) = M - j /\ \A k \in 1 .. M - j : s[k] = parts[j + k]
  BY <1>1, Behind
<1>3. t \in Seq(S) /\ Len(t) = M - (j + 1) /\ \A k \in 1 .. M - (j + 1) : t[k] = parts[(j + 1) + k]
  BY <1>1, Behind
<1>4. <<x>> \in Seq(S) /\ Len(<<x>>) = 1 /\ <<x>>[1] = x
  OBVIOUS
<1> DEFINE one == <<x>>
<1> HIDE DEF one
<1>5. /\ Len(one \o rest) = 1 + Len(rest) /\ Len(rest) \in Nat
      /\ \A k \in 1 .. 1 + Len(rest) : (one \o rest)[k] = IF k <= 1 THEN x ELSE rest[k - 1]
  <2>1. one \in Seq(S) /\ Len(one) = 1 /\ one[1] = x
    BY <1>4 DEF one
  <2>2. /\ Len(one \o rest) = Len(one) + Len(rest)
        /\ \A k \in 1 .. Len(one) + Len(rest) : (one \o rest)[k] = IF k <= Len(one) THEN one[k] ELSE rest[k - Len(one)]
    BY <2>1, ConcatProperties
  <2>3. ASSUME NEW k \in 1 .. 1 + Len(rest) PROVE (one \o rest)[k] = IF k <= 1 THEN x ELSE rest[k - 1]
    <3>1. k <= 1 => k = 1
      OBVIOUS
    <3> QED BY <2>1, <2>2, <3>1
  <2> QED BY <2>1, <2>2, <2>3
<1>6. s = one \o rest
  BY DEF one, StartsWith
<1> HIDE DEF s, t, M
<1>7. Len(rest) = M - (j + 1)
  BY <1>1, <1>2, <1>5, <1>6
<1>8. parts[j + 1] = x
  <2>1. 1 \in 1 .. M - j /\ 1 \in 1 .. 1 + Len(rest) /\ 1 <= 1
    BY <1>1, <1>5
  <2>2. s[1] = parts[j + 1]
    BY <1>2, <2>1
  <2>3. (one \o rest)[1] = x
    BY <1>5, <2>1
  <2> QED BY <1>6, <2>2, <2>3
<1>9. t = rest
  <2>1. ASSUME NEW k \in 1 .. M - (j + 1) PROVE t[k] = rest[k]
    <3>1. k + 1 \in 1 .. M - j /\ k + 1 \in 1 .. 1 + Len(rest) /\ ~(k + 1 <= 1) /\ (k + 1) - 1 = k
          /\ (j + 1) + k = j + (k + 1)
      BY <1>1, <1>7
    <3>2. s[k + 1] = parts[j + (k + 1)]
      BY <1>2, <3>1
    <3>3. (one \o rest)[k + 1] = rest[k]
      BY <1>5, <3>1
    <3> QED BY <1>3, <1>6, <3>1, <3>2, <3>3
  <2>2. Len(t) = Len(rest) /\ \A k \in 1 .. Len(t) : t[k] = rest[k]
    BY <1>3, <1>7, <2>1
  <2> QED BY <1>3, <2>2, SeqEqual
<1> QED BY <1>7, <1>8, <1>9 DEF M, t

(* What a split gave is joined again, and the glue behind it cut off.      *)
LEMMA SplitJoined ==
  ASSUME NEW cs \in Seq(Letters), NEW sep \in Seq(Letters), sep # <<>>
  PROVE  _str_join(sep, str_split(cs, sep)).chars = cs
<1>1. CASE cs = <<>>
  <2>1. str_split(cs, sep) = <<>>
    BY <1>1 DEF str_split
  <2> DEFINE none == <<>>
             reduced == Reduced(sep, none)
  <2>2. none \in Seq(Seq(Letters)) /\ Len(none) = 0
    BY EmptySeq
  <2> HIDE DEF none
  <2>3. reduced.chars = <<>>
    <3>1. PICK ret \in [0 .. Len(none) -> Joining] : reduced = ret[Len(none)] /\ ret[0].chars = <<>>
      BY <2>2, ReducedUnfolds
    <3> QED BY <2>2, <3>1
  <2> HIDE DEF reduced
  <2>4. Len(reduced.chars) = 0
    BY <2>3, EmptySeq
  <2>5. _str_join(sep, none) = reduced
    BY <2>4 DEF _str_join, reduced
  <2> QED BY <1>1, <2>1, <2>3, <2>5 DEF none
<1>2. CASE cs # <<>>
  <2> DEFINE N == Len(cs)
             L == Len(sep)
             Upto(at) == SubSeq(cs, 1, at)
  <2>1. N \in Nat \ {0} /\ L \in Nat \ {0}
    BY <1>2
  <2>2. PICK from \in [0 .. N -> Seq(Seq(Letters))] :
          /\ str_split(cs, sep) = from[0]
          /\ \A at \in 0 .. N : SplitAt(cs, sep, from, at)
    BY <1>2, SplitUnfolds
  <2> DEFINE parts == from[0]
             M == Len(parts)
  <2>3. parts \in Seq(Seq(Letters)) /\ M \in Nat
    <3>1. 0 \in 0 .. N
      BY <2>1
    <3> QED BY <2>2, <3>1
  <2>4. PICK ret \in [0 .. M -> Joining] :
          /\ Reduced(sep, parts) = ret[M] /\ ret[0].chars = <<>>
          /\ \A i \in 1 .. M : ret[i].chars = (ret[i - 1].chars \o parts[i]) \o sep
    <3> HIDE DEF parts
    <3> QED BY <2>3, ReducedUnfolds
  <2>5. ASSUME NEW at \in 0 .. N, NEW i \in at .. N
        PROVE  /\ SubSeq(cs, at + 1, i) \in Seq(Letters) /\ Upto(at) \in Seq(Letters)
               /\ Upto(at) \o SubSeq(cs, at + 1, i) = Upto(i)
    <3>1. at \in Nat /\ i \in Nat /\ i <= N /\ at <= N /\ 0 \in Nat
      BY <2>1
    <3>2. SubSeq(cs, at + 1, i) \in Seq(Letters)
      BY <3>1, PartOf
    <3>3. SubSeq(cs, 0 + 1, at) \in Seq(Letters)
      BY <3>1, PartOf
    <3>4. 1 \in 1 .. N + 1 /\ at \in 1 - 1 .. N /\ i \in at .. N
      BY <2>1, <3>1
    <3>5. SubSeq(cs, 1, at) \o SubSeq(cs, at + 1, i) = SubSeq(cs, 1, i)
      BY <3>4, ConcatAdjacentSubSeq
    <3>6. 0 + 1 = 1
      OBVIOUS
    <3> QED BY <3>2, <3>3, <3>5, <3>6
  <2>6. \A at \in 0 .. N : Len(from[at]) \in Nat \ {0}
    <3> SUFFICES ASSUME NEW at \in 0 .. N PROVE Len(from[at]) \in Nat \ {0}
      OBVIOUS
    <3>1. SplitAt(cs, sep, from, at)
      BY <2>2
    <3>2. CASE from[at] = << SubSeq(cs, at + 1, N) >>
      <4> DEFINE t == SubSeq(cs, at + 1, N)
      <4>1. from[at] = <<t>>
        BY <3>2
      <4> HIDE DEF t
      <4> QED BY <4>1
    <3>3. CASE \E i \in at .. N :
                 /\ i + L <= N /\ Occurs(cs, sep, i)
                 /\ from[at] = << SubSeq(cs, at + 1, i) >> \o from[i + L]
      <4>1. PICK i \in at .. N : i + L <= N /\ from[at] = << SubSeq(cs, at + 1, i) >> \o from[i + L]
        BY <3>3
      <4> DEFINE t == SubSeq(cs, at + 1, i)
                 r == from[i + L]
                 one == <<t>>
      <4>2. r \in Seq(Seq(Letters))
        <5>1. i + L \in 0 .. N
          BY <2>1, <4>1
        <5> HIDE DEF N, L
        <5> QED BY <2>2, <5>1
      <4>3. t \in Seq(Letters) /\ from[at] = one \o r
        BY <2>5, <4>1
      <4> HIDE DEF t, r
      <4>4. one \in Seq(Seq(Letters)) /\ Len(one) = 1
        BY <4>3
      <4> HIDE DEF one
      <4>5. Len(one \o r) = Len(one) + Len(r)
        BY <4>2, <4>4, ConcatProperties
      <4>6. Len(r) \in Nat
        BY <4>2
      <4> QED BY <4>3, <4>4, <4>5, <4>6
    <3> QED BY <3>1, <3>2, <3>3 DEF SplitAt
  <2> DEFINE Reach(j, at) == SubSeq(parts, j + 1, M) = from[at] /\ ret[j].chars = Upto(at)
             A == {j \in Nat : j < M => \E at \in 0 .. N : Reach(j, at)}
  <2>7. 0 \in A
    <3>1. SubSeq(parts, 0 + 1, M) = parts
      <4>1. SubSeq(parts, 1, Len(parts)) = parts
        <5> HIDE DEF parts
        <5> QED BY <2>3, SubSeqFull
      <4> QED BY <4>1
    <3>2. Upto(0) = <<>>
      BY SubSeqEmpty
    <3>3. 0 \in 0 .. N
      BY <2>1
    <3>4. Reach(0, 0)
      BY <2>4, <3>1, <3>2
    <3> HIDE DEF Reach
    <3> QED BY <3>3, <3>4
  <2>8. ASSUME NEW j \in Nat, j < M, NEW at \in 0 .. N, Reach(j, at)
        PROVE  \/ j + 1 = M /\ ret[M].chars = cs \o sep
               \/ j + 1 < M /\ \E b \in 0 .. N : Reach(j + 1, b)
    <3>1. SplitAt(cs, sep, from, at) /\ SubSeq(parts, j + 1, M) = from[at] /\ ret[j].chars = Upto(at)
      BY <2>2, <2>8
    <3> DEFINE k == j + 1
    <3>2. k \in 1 .. M /\ k - 1 = j
      BY <2>3, <2>8
    <3>3. ret[k].chars = (ret[j].chars \o parts[k]) \o sep
      <4> HIDE DEF k, parts, M
      <4>1. ret[k].chars = (ret[k - 1].chars \o parts[k]) \o sep
        BY <2>4, <3>2
      <4> QED BY <3>2, <4>1
    <3>4. CASE from[at] = << SubSeq(cs, at + 1, N) >>
      <4> DEFINE t == SubSeq(cs, at + 1, N)
                 none == <<>>
                 one == <<t>>
      <4>1. t \in Seq(Letters) /\ Upto(at) \o t = Upto(N)
        <5>1. N \in at .. N
          BY <2>1
        <5> HIDE DEF N, Upto
        <5> QED BY <2>5, <5>1
      <4>2. none \in Seq(Seq(Letters)) /\ Len(none) = 0
        BY EmptySeq
      <4>3. SubSeq(parts, j + 1, M) = one
        BY <3>1, <3>4
      <4> HIDE DEF t
      <4>4. one \in Seq(Seq(Letters))
        BY <4>1
      <4>5. one = one \o none
        <5> HIDE DEF one
        <5> QED BY <4>4, ConcatEmptySeq DEF none
      <4> HIDE DEF none
      <4>6. parts[k] = t /\ Len(none) = M - k
        <5>1. StartsWith(SubSeq(parts, j + 1, Len(parts)), t, none) /\ j < Len(parts)
          BY <2>8, <4>3, <4>5 DEF StartsWith
        <5>2. t \in Seq(Letters) /\ none \in Seq(Seq(Letters)) /\ parts \in Seq(Seq(Letters))
          BY <2>3, <4>1, <4>2
        <5> HIDE DEF parts
        <5>3. /\ parts[j + 1] = t /\ SubSeq(parts, (j + 1) + 1, Len(parts)) = none
              /\ Len(none) = Len(parts) - (j + 1)
          BY <5>1, <5>2, FirstOfRest
        <5> QED BY <5>3
      <4>7. k = M
        BY <2>3, <3>2, <4>2, <4>6
      <4>8. Upto(N) = cs
        BY SubSeqFull
      <4>9. ret[k].chars = cs \o sep
        BY <3>1, <3>3, <4>1, <4>6, <4>8
      <4> QED BY <4>7, <4>9
    <3>5. CASE \E i \in at .. N :
                 /\ i + L <= N /\ Occurs(cs, sep, i)
                 /\ from[at] = << SubSeq(cs, at + 1, i) >> \o from[i + L]
      <4>1. PICK i \in at .. N :
              /\ i + L <= N /\ Occurs(cs, sep, i)
              /\ from[at] = << SubSeq(cs, at + 1, i) >> \o from[i + L]
        BY <3>5
      <4> DEFINE t == SubSeq(cs, at + 1, i)
                 b == i + L
                 r == from[b]
      <4>2. b \in 0 .. N /\ b \in i .. N /\ i \in 0 .. N
        BY <2>1, <4>1
      <4>3. r \in Seq(Seq(Letters)) /\ Len(r) \in Nat \ {0}
        <5> HIDE DEF N, b
        <5> QED BY <2>2, <2>6, <4>2
      <4>4. t \in Seq(Letters) /\ Upto(at) \o t = Upto(i)
        <5> HIDE DEF N, Upto
        <5> QED BY <2>5
      <4>5. Upto(i) \o sep = Upto(b)
        <5>1. SubSeq(cs, i + 1, b) = sep
          BY <4>1 DEF Occurs
        <5>2. Upto(i) \o SubSeq(cs, i + 1, b) = Upto(b)
          <6> HIDE DEF N, b, Upto
          <6> QED BY <2>5, <4>2
        <5> QED BY <5>1, <5>2
      <4>6. SubSeq(parts, j + 1, M) = <<t>> \o r
        BY <3>1, <4>1
      <4> HIDE DEF t, r
      <4>7. parts[k] = t /\ SubSeq(parts, k + 1, M) = r /\ Len(r) = M - k
        <5>1. StartsWith(SubSeq(parts, j + 1, Len(parts)), t, r) /\ j < Len(parts)
          BY <2>8, <4>6 DEF StartsWith
        <5>2. t \in Seq(Letters) /\ r \in Seq(Seq(Letters)) /\ parts \in Seq(Seq(Letters))
          BY <2>3, <4>3, <4>4
        <5> HIDE DEF parts
        <5>3. /\ parts[j + 1] = t /\ SubSeq(parts, (j + 1) + 1, Len(parts)) = r
              /\ Len(r) = Len(parts) - (j + 1)
          BY <5>1, <5>2, FirstOfRest
        <5> QED BY <5>3
      <4>8. k < M
        BY <2>3, <3>2, <4>3, <4>7
      <4>9. ret[k].chars = Upto(b)
        BY <3>1, <3>3, <4>4, <4>5, <4>7
      <4>10. Reach(k, b)
        BY <4>7, <4>9 DEF r
      <4> HIDE DEF Reach, b
      <4> QED BY <4>2, <4>8, <4>10
    <3> QED BY <3>1, <3>4, <3>5 DEF SplitAt
  <2> HIDE DEF Reach
  <2>9. Nat \subseteq A
    <3>1. ASSUME NEW j \in Nat, j \in A PROVE j + 1 \in A
      <4> SUFFICES ASSUME j + 1 < M PROVE \E at \in 0 .. N : Reach(j + 1, at)
        OBVIOUS
      <4>1. j < M
        BY <2>3
      <4>2. PICK at \in 0 .. N : Reach(j, at)
        BY <3>1, <4>1
      <4>3. ~(j + 1 = M)
        BY <2>3
      <4> HIDE DEF M
      <4> QED BY <2>8, <4>1, <4>2, <4>3
    <3> HIDE DEF A
    <3> QED BY <2>7, <3>1, SetInduction
  <2>10. ret[M].chars = cs \o sep
    <3>1. M \in Nat \ {0}
      <4>1. 0 \in 0 .. N
        BY <2>1
      <4> QED BY <2>6, <4>1
    <3> DEFINE j == M - 1
    <3>2. j \in Nat /\ j < M /\ j + 1 = M
      BY <3>1
    <3> HIDE DEF j, M
    <3>3. PICK at \in 0 .. N : Reach(j, at)
      BY <2>9, <3>2
    <3>4. ~(j + 1 < M)
      BY <3>1, <3>2
    <3> QED BY <2>8, <3>2, <3>3, <3>4
  <2> DEFINE last == ret[M]
             both == cs \o sep
  <2>11. last \in Strings /\ last.size > 0 /\ Reduced(sep, parts) = last
    <3>1. M \in 0 .. M
      BY <2>3
    <3> HIDE DEF M, parts
    <3>2. last \in Joining
      BY <2>4, <3>1
    <3>3. last \in Strings /\ last.size >= 2 /\ last.size \in Nat
      BY <3>2 DEF Joining, Strings
    <3> QED BY <2>4, <3>3
  <2>12. Len(both) = N + L /\ SubSeq(both, 1, N) = cs
    <3>1. Len(both) = N + L
      BY ConcatProperties
    <3>2. 1 \in 1 .. N /\ N \in 1 .. N
      BY <2>1
    <3>3. SubSeq(both, 1, N) = SubSeq(cs, 1, N)
      BY <3>2, SubSeqOfConcat1
    <3>4. SubSeq(cs, 1, N) = cs
      BY SubSeqFull
    <3> QED BY <3>1, <3>3, <3>4
  <2>13. last.chars = both
    BY <2>10
  <2> HIDE DEF last, both, M
  <2>14. /\ Len(last.chars) # 0 /\ L \in Nat /\ L < Len(last.chars) /\ Len(last.chars) - L = N
    <3> HIDE DEF N, L
    <3> QED BY <2>1, <2>12, <2>13
  <2>15. str_chop(last, L).chars = SubSeq(last.chars, 1, Len(last.chars) - L)
    <3> HIDE DEF L, N
    <3> QED BY <2>11, <2>14, ChopKeeps
  <2>16. _str_join(sep, parts) = str_chop(last, L)
    BY <2>11, <2>14 DEF _str_join
  <2> QED BY <2>2, <2>12, <2>13, <2>14, <2>15, <2>16
<1> QED BY <1>1, <1>2

(* The last occurrence is the last, unless it is at the first place.       *)
LEMMA LastOccurrence ==
  ASSUME NEW s \in Strings, NEW sep \in Seq(Letters)
  PROVE  \A i \in Occurrences(s.chars, sep) \ {0} :
           str_rindexof(s, sep) >= i /\ Occurs(s.chars, sep, str_rindexof(s, sep))
<1> SUFFICES ASSUME NEW i \in Occurrences(s.chars, sep) \ {0}
             PROVE  str_rindexof(s, sep) >= i /\ Occurs(s.chars, sep, str_rindexof(s, sep))
  OBVIOUS
<1> DEFINE at == Occurrences(s.chars, sep) \ {0}
           N == Len(s.chars)
<1>1. s.chars \in Seq(Letters) /\ N \in Nat
  BY Seen
<1>2. at \in SUBSET (0 .. N) /\ \A k \in at : Occurs(s.chars, sep, k)
  <2>1. Occurrences(s.chars, sep) \in SUBSET (0 .. N)
    BY <1>1, FoundAt
  <2>2. \A k \in Occurrences(s.chars, sep) : Occurs(s.chars, sep, k)
    BY DEF Occurrences
  <2> QED BY <2>1, <2>2
<1>3. i \in at
  OBVIOUS
<1>4. str_rindexof(s, sep) = Max(at)
  BY <1>3 DEF str_rindexof
<1> HIDE DEF at, N
<1>5. Max(at) \in at /\ \A k \in at : k <= Max(at)
  BY <1>1, <1>2, <1>3, HasLargest
<1>7. Max(at) >= i
  <2> DEFINE m == Max(at)
  <2>1. m \in at /\ i <= m
    BY <1>3, <1>5
  <2> HIDE DEF m
  <2>2. m \in 0 .. N /\ i \in 0 .. N
    BY <1>2, <1>3, <2>1
  <2>3. m >= i
    BY <1>1, <2>1, <2>2
  <2> QED BY <2>3 DEF m
<1> QED BY <1>2, <1>4, <1>5, <1>7

\* For every separator.
LEMMA SplitsAndJoins == StrInv => StrSplitsAndJoins
<1> SUFFICES ASSUME StrInv, NEW sep \in Short \ {<<>>}
             PROVE  /\ _str_join(sep, str_split(edited.chars, sep)).chars = edited.chars
                    /\ \A i \in Occurrences(edited.chars, sep) \ {0} :
                         str_rindexof(edited, sep) >= i /\ Occurs(edited.chars, sep, str_rindexof(edited, sep))
  BY DEF StrSplitsAndJoins
<1>1. edited \in Strings /\ sep \in Seq(Letters) /\ sep # <<>>
  BY ShortOnes DEF StrInv
<1>2. edited.chars \in Seq(Letters)
  BY <1>1, Seen
<1>3. _str_join(sep, str_split(edited.chars, sep)).chars = edited.chars
  BY <1>1, <1>2, SplitJoined
<1>4. \A i \in Occurrences(edited.chars, sep) \ {0} :
        str_rindexof(edited, sep) >= i /\ Occurs(edited.chars, sep, str_rindexof(edited, sep))
  BY <1>1, LastOccurrence
<1> QED BY <1>3, <1>4

-----------------------------------------------------------------------------
(* The methods of a string, of which the C library sees all.               *)
\* A string with one more behind it, and one that was repeated.
LEMMA ConcatOne ==
  ASSUME NEW cs \in Seq(Letters), NEW arg \in Seq(Letters)
  PROVE  cs # <<>> => _string_concat(cs, <<arg>>).chars = cs \o arg
<1> DEFINE args == <<arg>>
<1>1. args \in Seq(Seq(Letters)) /\ Len(args) = 1 /\ args[1] = arg
  OBVIOUS
<1> HIDE DEF args
<1>2. PICK ret \in [0 .. Len(args) -> Seq(Letters)] :
         /\ Joint(cs, args) = ret[Len(args)] /\ ret[0] = cs
         /\ \A i \in 1 .. Len(args) : ret[i] = ret[i - 1] \o args[i]
  BY <1>1, JointUnfolds
<1>3. ret[1] = ret[0] \o args[1]
  <2>1. 1 \in 1 .. Len(args) /\ 1 - 1 = 0
    BY <1>1
  <2>2. ret[1] = ret[1 - 1] \o args[1]
    BY <1>2, <2>1
  <2> QED BY <2>1, <2>2
<1>4. Joint(cs, args) = cs \o arg
  BY <1>1, <1>2, <1>3
<1> SUFFICES ASSUME cs # <<>> PROVE _string_concat(cs, args).chars = cs \o arg
  BY DEF args
<1>5. Len(Joint(cs, args)) \in Nat
  <2>1. cs \o arg \in Seq(Letters)
    OBVIOUS
  <2> QED BY <1>4, <2>1
<1>6. Extended(cs, Len(Joint(cs, args)), args).chars = Joint(cs, args)
  BY <1>1, <1>5, ExtendedIs
<1> QED BY <1>4, <1>6 DEF _string_concat

\* Wherever a repeated string is cut there is the string.
LEMMA Repeated ==
  ASSUME NEW cs \in Seq(Letters), cs # <<>>, NEW n \in 0 .. 2
  PROVE  LET all == _string_repeat(cs, n).chars
         IN /\ Len(all) = (n + 1) * Len(cs)
            /\ \A k \in 0 .. n : SubSeq(all, (k * Len(cs)) + 1, (k + 1) * Len(cs)) = cs
<1> DEFINE len == Len(cs)
           args == [i \in 1 .. n |-> cs]
           all == _string_repeat(cs, n).chars
<1>1. len \in Nat
  OBVIOUS
<1>2. args \in Seq(Seq(Letters)) /\ Len(args) = n /\ \A i \in 1 .. n : args[i] = cs
  <2>1. n \in Nat /\ args \in [1 .. n -> Seq(Letters)]
    OBVIOUS
  <2> HIDE DEF args
  <2>2. args \in Seq(Seq(Letters)) /\ Len(args) = n
    BY <2>1, SequenceOf
  <2> QED BY <2>2 DEF args
<1>3. all = Joint(cs, args)
  <2>1. ~(len * n < 0) /\ len * n \in Nat
    <3> HIDE DEF len
    <3>1. n = 0 \/ n = 1 \/ n = 2
      OBVIOUS
    <3> QED BY <1>1, <3>1
  <2>2. _string_repeat(cs, n) = Extended(cs, len * n, args)
    BY <2>1 DEF _string_repeat
  <2> DEFINE room == len * n
  <2>3. room \in Nat /\ all = Extended(cs, room, args).chars
    BY <2>1, <2>2
  <2> HIDE DEF room, args, all
  <2> QED BY <1>2, <2>3, ExtendedIs
<1> HIDE DEF all
<1>4. PICK ret : /\ Joint(cs, args) = ret[n] /\ ret[0] = cs
                 /\ \A i \in 1 .. n : ret[i] = ret[i - 1] \o cs
  <2> HIDE DEF args
  <2>1. PICK ret \in [0 .. Len(args) -> Seq(Letters)] :
           /\ Joint(cs, args) = ret[Len(args)] /\ ret[0] = cs
           /\ \A i \in 1 .. Len(args) : ret[i] = ret[i - 1] \o args[i]
    BY <1>2, JointUnfolds
  <2> QED BY <1>2, <2>1
<1> HIDE DEF args
<1> DEFINE Cut(t, a, b) == SubSeq(t, a + 1, b)
<1>5. ASSUME NEW t \in Seq(Letters)
      PROVE  /\ t \o cs \in Seq(Letters) /\ Len(t \o cs) = Len(t) + len
             /\ SubSeq(t \o cs, Len(t) + 1, Len(t) + len) = cs
             /\ \A a, b \in Nat : a <= b /\ b <= Len(t) => SubSeq(t \o cs, a + 1, b) = SubSeq(t, a + 1, b)
  <2> DEFINE u == t \o cs
             l == Len(t)
  <2>1. /\ u \in Seq(Letters) /\ Len(u) = l + len
        /\ \A i \in 1 .. l + len : u[i] = IF i <= l THEN t[i] ELSE cs[i - l]
    BY ConcatProperties
  <2>2. l \in Nat
    OBVIOUS
  <2>3. SubSeq(u, l + 1, l + len) = cs
    <3> HIDE DEF u, l, len
    <3>1. /\ SubSeq(u, l + 1, Len(u)) \in Seq(Letters) /\ Len(SubSeq(u, l + 1, Len(u))) = Len(u) - l
          /\ \A i \in 1 .. Len(u) - l : SubSeq(u, l + 1, Len(u))[i] = u[l + i]
      <4>1. l <= Len(u)
        BY <1>1, <2>1, <2>2
      <4> QED BY <2>1, <2>2, <4>1, Behind
    <3> DEFINE v == SubSeq(u, l + 1, Len(u))
    <3>2. v \in Seq(Letters) /\ Len(v) = len /\ \A i \in 1 .. len : v[i] = cs[i]
      <4>1. Len(u) - l = len
        BY <1>1, <2>1, <2>2
      <4>2. ASSUME NEW i \in 1 .. len PROVE v[i] = cs[i]
        <5>1. l + i \in 1 .. l + len /\ ~(l + i <= l) /\ (l + i) - l = i
          BY <1>1, <2>2
        <5> QED BY <2>1, <3>1, <4>1, <5>1
      <4> QED BY <3>1, <4>1, <4>2
    <3> HIDE DEF v
    <3>3. v = cs
      <4>1. Len(v) = Len(cs) /\ \A i \in 1 .. Len(v) : v[i] = cs[i]
        BY <3>2 DEF len
      <4> QED BY <3>2, <4>1, SeqEqual
    <3> QED BY <2>1, <3>3 DEF v
  <2>4. ASSUME NEW a \in Nat, NEW b \in Nat, a <= b, b <= l PROVE SubSeq(u, a + 1, b) = SubSeq(t, a + 1, b)
    <3> HIDE DEF u, l, len
    <3>1. b <= Len(u) /\ b <= Len(t)
      BY <1>1, <2>1, <2>2, <2>4 DEF l
    <3>2. /\ SubSeq(u, a + 1, b) \in Seq(Letters)
          /\ Len(SubSeq(u, a + 1, b)) = b - a
          /\ \A i \in 1 .. b - a : SubSeq(u, a + 1, b)[i] = u[a + i]
      BY <2>1, <2>4, <3>1, PartOf
    <3>3. /\ SubSeq(t, a + 1, b) \in Seq(Letters)
          /\ Len(SubSeq(t, a + 1, b)) = b - a
          /\ \A i \in 1 .. b - a : SubSeq(t, a + 1, b)[i] = t[a + i]
      BY <2>4, <3>1, PartOf
    <3> DEFINE v == SubSeq(u, a + 1, b)
               w == SubSeq(t, a + 1, b)
    <3>4. Len(v) = Len(w) /\ \A i \in 1 .. Len(v) : v[i] = w[i]
      <4>1. ASSUME NEW i \in 1 .. b - a PROVE u[a + i] = t[a + i]
        <5>1. a + i \in 1 .. l + len /\ a + i <= l
          BY <1>1, <2>2, <2>4
        <5> QED BY <2>1, <5>1
      <4> QED BY <3>2, <3>3, <4>1
    <3>5. v \in Seq(Letters) /\ w \in Seq(Letters)
      BY <3>2, <3>3
    <3> HIDE DEF v, w
    <3>6. v = w
      BY <3>4, <3>5, SeqEqual
    <3> QED BY <3>6 DEF v, w
  <2> QED BY <2>1, <2>3, <2>4
<1>6. /\ ret[0] = cs /\ ret[0] \in Seq(Letters) /\ Len(ret[0]) = len
      /\ SubSeq(ret[0], 0 + 1, len) = cs
  <2>1. SubSeq(cs, 1, Len(cs)) = cs
    BY SubSeqFull
  <2> QED BY <1>4, <2>1
<1> HIDE DEF len
<1>7. 1 <= n => /\ ret[1] = ret[0] \o cs /\ ret[1] \in Seq(Letters) /\ Len(ret[1]) = len + len
                /\ SubSeq(ret[1], 0 + 1, len) = cs /\ SubSeq(ret[1], len + 1, len + len) = cs
  <2> SUFFICES ASSUME 1 <= n
               PROVE  /\ ret[1] = ret[0] \o cs /\ ret[1] \in Seq(Letters) /\ Len(ret[1]) = len + len
                      /\ SubSeq(ret[1], 0 + 1, len) = cs /\ SubSeq(ret[1], len + 1, len + len) = cs
    OBVIOUS
  <2> DEFINE t == ret[0]
             u == t \o cs
  <2>1. ret[1] = u
    <3>1. 1 \in 1 .. n /\ 1 - 1 = 0
      OBVIOUS
    <3>2. ret[1] = ret[1 - 1] \o cs
      BY <1>4, <3>1
    <3> QED BY <3>1, <3>2
  <2>2. t \in Seq(Letters) /\ Len(t) = len /\ SubSeq(t, 0 + 1, len) = cs
    BY <1>6
  <2> HIDE DEF t
  <2>3. u \in Seq(Letters) /\ Len(u) = Len(t) + len /\ SubSeq(u, Len(t) + 1, Len(t) + len) = cs
    BY <1>5, <2>2
  <2>4. SubSeq(u, 0 + 1, len) = SubSeq(t, 0 + 1, len)
    <3>1. 0 \in Nat /\ 0 <= len /\ len <= Len(t)
      BY <1>1, <2>2
    <3> QED BY <1>1, <1>5, <2>2, <3>1
  <2> HIDE DEF u
  <2>5. ret[1] = u /\ u \in Seq(Letters) /\ Len(u) = len + len /\ SubSeq(u, 0 + 1, len) = cs
        /\ SubSeq(u, len + 1, len + len) = cs
    BY <2>1, <2>2, <2>3, <2>4
  <2> QED BY <2>5 DEF u, t
<1>8. 2 <= n => /\ Len(ret[2]) = len + len + len
                /\ SubSeq(ret[2], 0 + 1, len) = cs /\ SubSeq(ret[2], len + 1, len + len) = cs
                /\ SubSeq(ret[2], len + len + 1, len + len + len) = cs
  <2> SUFFICES ASSUME 2 <= n
               PROVE  /\ Len(ret[2]) = len + len + len
                      /\ SubSeq(ret[2], 0 + 1, len) = cs /\ SubSeq(ret[2], len + 1, len + len) = cs
                      /\ SubSeq(ret[2], len + len + 1, len + len + len) = cs
    OBVIOUS
  <2> DEFINE t == ret[1]
             u == t \o cs
             two == len + len
  <2>1. ret[2] = u
    <3>1. 2 \in 1 .. n /\ 2 - 1 = 1
      OBVIOUS
    <3>2. ret[2] = ret[2 - 1] \o cs
      BY <1>4, <3>1
    <3> QED BY <3>1, <3>2
  <2>2. t \in Seq(Letters) /\ Len(t) = two /\ SubSeq(t, 0 + 1, len) = cs /\ SubSeq(t, len + 1, two) = cs
    BY <1>7
  <2> HIDE DEF t
  <2>3. two \in Nat /\ len <= two /\ 0 <= len
    BY <1>1
  <2> HIDE DEF two
  <2>4. u \in Seq(Letters) /\ Len(u) = Len(t) + len /\ SubSeq(u, Len(t) + 1, Len(t) + len) = cs
    BY <1>5, <2>2
  <2>5. SubSeq(u, 0 + 1, len) = SubSeq(t, 0 + 1, len) /\ SubSeq(u, len + 1, two) = SubSeq(t, len + 1, two)
    <3>1. 0 \in Nat /\ len <= Len(t) /\ two <= Len(t)
      BY <1>1, <2>2, <2>3
    <3> QED BY <1>1, <1>5, <2>2, <2>3, <3>1
  <2> HIDE DEF u
  <2>6. Len(u) = two + len /\ SubSeq(u, 0 + 1, len) = cs /\ SubSeq(u, len + 1, two) = cs
        /\ SubSeq(u, two + 1, two + len) = cs
    BY <2>2, <2>4, <2>5
  <2> QED BY <2>1, <2>6 DEF two
<1>9. /\ 0 * len = 0 /\ 1 * len = len /\ 2 * len = len + len /\ 3 * len = len + len + len
  BY <1>1
<1>10. Len(all) = (n + 1) * len /\ \A k \in 0 .. n : SubSeq(all, (k * len) + 1, (k + 1) * len) = cs
  <2>1. n = 0 \/ n = 1 \/ n = 2
    OBVIOUS
  <2>2. CASE n = 0
    <3>1. \A k \in 0 .. n : k = 0
      BY <2>2
    <3>2. n + 1 = 1 /\ 0 + 1 = 1
      BY <2>2
    <3> QED BY <1>3, <1>4, <1>6, <1>9, <2>2, <3>1, <3>2
  <2>3. CASE n = 1
    <3>1. \A k \in 0 .. n : k = 0 \/ k = 1
      BY <2>3
    <3>2. n + 1 = 2 /\ 0 + 1 = 1 /\ 1 + 1 = 2 /\ 1 <= n
      BY <2>3
    <3> QED BY <1>3, <1>4, <1>7, <1>9, <2>3, <3>1, <3>2
  <2>4. CASE n = 2
    <3>1. \A k \in 0 .. n : k = 0 \/ k = 1 \/ k = 2
      BY <2>4
    <3>2. n + 1 = 3 /\ 0 + 1 = 1 /\ 1 + 1 = 2 /\ 2 + 1 = 3 /\ 2 <= n
      BY <2>4
    <3> QED BY <1>3, <1>4, <1>8, <1>9, <2>4, <3>1, <3>2
  <2> QED BY <2>1, <2>2, <2>3, <2>4
<1> QED BY <1>10 DEF all, len

\* A slice from the beginning, and one to the end.
LEMMA SlicesAre ==
  ASSUME NEW cs \in Seq(Letters), NEW n \in Nat
  PROVE  /\ n \in 1 .. Len(cs) => /\ _string_slice(cs, 0, n) = SubSeq(cs, 1, n)
                                  /\ _string_slice(cs, -n, 0) = SubSeq(cs, (Len(cs) - n) + 1, Len(cs))
         /\ n < Len(cs) => _string_slice(cs, n, 0) = SubSeq(cs, n + 1, Len(cs))
<1> DEFINE len == Len(cs)
<1>1. len \in Nat
  OBVIOUS
<1> HIDE DEF len
<1>2. n \in 1 .. len => _string_slice(cs, 0, n) = SubSeq(cs, 1, n)
  <2> SUFFICES ASSUME n \in 1 .. len PROVE _string_slice(cs, 0, n) = SubSeq(cs, 1, n)
    OBVIOUS
  <2>1. NoSign(n) = n /\ n # 0 /\ 0 \in 0 .. len - 1 /\ ~(n <= 0) /\ ~(n > len) /\ ~(0 < 0) /\ 0 + 1 = 1
    BY <1>1 DEF NoSign
  <2> QED BY <2>1 DEF _string_slice, len
<1>3. n \in 1 .. len => _string_slice(cs, -n, 0) = SubSeq(cs, (len - n) + 1, len)
  <2> SUFFICES ASSUME n \in 1 .. len PROVE _string_slice(cs, -n, 0) = SubSeq(cs, (len - n) + 1, len)
    OBVIOUS
  <2> DEFINE i == len + (-n)
  <2>1. -n < 0 /\ i = len - n /\ i \in 0 .. len - 1 /\ ~(len <= i) /\ ~(len > len)
    BY <1>1
  <2>2. _string_slice(cs, -n, 0) = SubSeq(cs, i + 1, len)
    <3> HIDE DEF i
    <3> QED BY <2>1 DEF _string_slice, len, i
  <2> QED BY <2>1, <2>2
<1>4. n < len => _string_slice(cs, n, 0) = SubSeq(cs, n + 1, len)
  <2> SUFFICES ASSUME n < len PROVE _string_slice(cs, n, 0) = SubSeq(cs, n + 1, len)
    OBVIOUS
  <2>1. ~(n < 0) /\ n \in 0 .. len - 1 /\ ~(len <= n) /\ ~(len > len)
    BY <1>1
  <2> QED BY <2>1 DEF _string_slice, len
<1> QED BY <1>2, <1>3, <1>4 DEF len

\* What a string has is found in it.
LEMMA HasIt ==
  ASSUME NEW s \in Strings, s.tail = <<>>, NEW needle \in Seq(Letters)
  PROVE  _string_has(s, needle) <=> Occurrences(s.chars, needle) # {}
<1> DEFINE at == Occurrences(s.chars, needle)
           N == Len(s.chars)
<1>1. s.chars \in Seq(Letters) /\ N \in Nat /\ CString(s) = s.chars
  BY Seen
<1>2. at \in SUBSET (0 .. N) /\ \A i \in at : i \in Nat /\ i + Len(needle) <= N
  BY <1>1, FoundAt
<1>3. str_indexof(s, needle) = IF Len(needle) > N \/ at = {} THEN -1 ELSE Min(at)
  BY <1>1 DEF str_indexof
<1> HIDE DEF at
<1>4. CASE at = {}
  <2>1. str_indexof(s, needle) = -1
    BY <1>3, <1>4
  <2> QED BY <1>4, <2>1 DEF _string_has, at
<1>5. CASE at # {}
  <2>1. Min(at) \in at
    <3> HIDE DEF N
    <3> QED BY <1>1, <1>2, <1>5, HasLeast
  <2> DEFINE m == Min(at)
             l == Len(needle)
  <2>a. l \in Nat
    OBVIOUS
  <2>b. \A i \in at : i \in Nat /\ i + l <= N
    BY <1>2
  <2> HIDE DEF l, N
  <2>2. m \in Nat /\ m + l <= N /\ l \in Nat
    BY <2>a, <2>b, <2>1
  <2> HIDE DEF m, l, N
  <2>3. ~(l > N) /\ m >= 0
    BY <1>1, <2>2
  <2>4. str_indexof(s, needle) = m
    BY <1>3, <1>5, <2>3 DEF l, m
  <2> QED BY <1>5, <2>3, <2>4 DEF _string_has, at
<1> QED BY <1>4, <1>5

\* The character at a position, from the beginning or from the end.
LEMMA ResolvesTo ==
  ASSUME NEW cs \in Seq(Letters), NEW i \in 0 .. Len(cs) - 1
  PROVE  /\ _str_resolve(cs, i) = <<cs[i + 1]>>
         /\ _str_resolve(cs, -(Len(cs) - i)) = <<cs[i + 1]>>
         /\ SubSeq(cs, i + 1, i + 1) = <<cs[i + 1]>>
<1> DEFINE len == Len(cs)
           k == -(len - i)
<1>1. len \in Nat /\ i \in Nat /\ i < len
  OBVIOUS
<1>2. i \in -len .. len - 1 /\ ~(i < 0) /\ k \in -len .. len - 1 /\ k < 0 /\ len + k = i
  <2> HIDE DEF len
  <2> QED BY <1>1
<1>3. SubSeq(cs, i + 1, i + 1) = <<cs[i + 1]>>
  <2>1. i + 1 \in Nat /\ i + 1 <= Len(cs) /\ (i + 1) - i = 1 /\ i <= i + 1 /\ 1 \in 1 .. 1 /\ cs[i + 1] \in Letters
    BY <1>1
  <2> DEFINE m == i + 1
             s == SubSeq(cs, i + 1, m)
             one == <<cs[m]>>
  <2>2. s \in Seq(Letters) /\ Len(s) = 1 /\ s[1] = cs[i + 1]
    <3>1. m \in Nat /\ m <= Len(cs) /\ m - i = 1 /\ i <= m
      BY <2>1
    <3> HIDE DEF m
    <3>2. /\ s \in Seq(Letters) /\ Len(s) = IF i <= m THEN m - i ELSE 0
          /\ \A j \in 1 .. m - i : s[j] = cs[i + j]
      BY <1>1, <3>1, PartOf
    <3> QED BY <2>1, <3>1, <3>2
  <2>3. one \in Seq(Letters) /\ Len(one) = 1 /\ one[1] = cs[i + 1]
    BY <2>1
  <2> HIDE DEF s, one
  <2>4. Len(s) = Len(one) /\ \A j \in 1 .. Len(s) : s[j] = one[j]
    <3>1. \A j \in 1 .. 1 : j = 1
      OBVIOUS
    <3> QED BY <2>2, <2>3, <3>1
  <2>5. s = one
    BY <2>2, <2>3, <2>4, SeqEqual
  <2> QED BY <2>5 DEF s, one
<1>4. _str_resolve(cs, i) = <<cs[i + 1]>>
  BY <1>2 DEF _str_resolve
<1>5. _str_resolve(cs, k) = <<cs[i + 1]>>
  <2> HIDE DEF k
  <2> QED BY <1>2 DEF _str_resolve
<1> QED BY <1>3, <1>4, <1>5

\* All of them.
LEMMA MethodsAgree == StrInv => StrMethodsAgree
<1> DEFINE cs == edited.chars
           len == Len(cs)
<1> SUFFICES ASSUME StrInv, edited.tail = <<>>
             PROVE
       /\ \A i \in 1 .. len - 1 : _string_concat(_string_slice(cs, 0, i), <<_string_slice(cs, i, 0)>>).chars = cs
       /\ \A n \in 1 .. len :
            /\ _string_endswith(cs, _string_slice(cs, -n, 0)) /\ Len(_string_slice(cs, -n, 0)) = n
            /\ _string_startswith(cs, _string_slice(cs, 0, n)) /\ _string_has(edited, _string_slice(cs, 0, n))
            /\ _str_resolve(cs, -n) = SubSeq(_string_slice(cs, -n, 0), 1, 1)
            /\ _str_resolve(cs, n - 1) = SubSeq(_string_slice(cs, n - 1, 0), 1, 1)
       /\ \A n \in 0 .. 2 : Returns(cs, len * n) <=> cs # <<>>
       /\ cs # <<>> => \A n \in 0 .. 2 :
            LET all == _string_repeat(cs, n).chars
            IN /\ Len(all) = (n + 1) * len
               /\ \A k \in 0 .. n : SubSeq(all, (k * len) + 1, (k + 1) * len) = cs
       /\ \A c \in Letter : _string_has(edited, <<c>>) <=> \E i \in 0 .. len - 1 : _str_resolve(cs, i) = <<c>>
  BY DEF StrMethodsAgree
<1>1. edited \in Strings /\ cs \in Seq(Letters) /\ len \in Nat
  BY Seen DEF StrInv
<1> HIDE DEF cs
<1>2. ASSUME NEW i \in 1 .. len - 1
      PROVE  _string_concat(_string_slice(cs, 0, i), <<_string_slice(cs, i, 0)>>).chars = cs
  <2> DEFINE first == SubSeq(cs, 1, i)
             rest == SubSeq(cs, i + 1, len)
  <2>1. i \in Nat /\ i \in 1 .. len /\ i < len /\ i <= len
    BY <1>1
  <2>2. _string_slice(cs, 0, i) = first /\ _string_slice(cs, i, 0) = rest
    BY <1>1, <2>1, SlicesAre
  <2>3. first \o rest = cs
    <3>1. 1 \in 1 .. len + 1 /\ i \in 1 - 1 .. len /\ len \in i .. len
      BY <1>1, <2>1
    <3>2. first \o rest = SubSeq(cs, 1, len)
      BY <1>1, <3>1, ConcatAdjacentSubSeq
    <3> QED BY <1>1, <3>2, SubSeqFull
  <2>4. first \in Seq(Letters) /\ rest \in Seq(Letters)
    <3>1. SubSeq(cs, 0 + 1, i) \in Seq(Letters)
      BY <1>1, <2>1, PartOf
    <3>2. 0 + 1 = 1
      OBVIOUS
    <3>3. rest \in Seq(Letters)
      BY <1>1, <2>1, Behind
    <3> QED BY <3>1, <3>2, <3>3
  <2> HIDE DEF first, rest
  <2>5. _string_concat(first, <<rest>>).chars = first \o rest
    <3>1. first # <<>>
      <4>1. Len(SubSeq(cs, 0 + 1, i)) = i /\ 0 + 1 = 1
        <5>1. Len(SubSeq(cs, 0 + 1, i)) = IF 0 <= i THEN i - 0 ELSE 0
          BY <1>1, <2>1, PartOf
        <5> QED BY <2>1, <5>1
      <4>2. Len(first) = i
        BY <4>1 DEF first
      <4>3. i # 0
        BY <1>1
      <4> QED BY <4>2, <4>3
    <3> QED BY <2>4, <3>1, ConcatOne
  <2> QED BY <2>2, <2>3, <2>5
<1>3. ASSUME NEW n \in 1 .. len
      PROVE  /\ _string_endswith(cs, _string_slice(cs, -n, 0)) /\ Len(_string_slice(cs, -n, 0)) = n
             /\ _string_startswith(cs, _string_slice(cs, 0, n)) /\ _string_has(edited, _string_slice(cs, 0, n))
             /\ _str_resolve(cs, -n) = SubSeq(_string_slice(cs, -n, 0), 1, 1)
             /\ _str_resolve(cs, n - 1) = SubSeq(_string_slice(cs, n - 1, 0), 1, 1)
  <2> DEFINE last == SubSeq(cs, (len - n) + 1, len)
             first == SubSeq(cs, 1, n)
             i == len - n
             m == n - 1
  <2>1. n \in Nat /\ n <= len /\ i \in Nat /\ i \in 0 .. len - 1 /\ i <= len /\ len - i = n /\ m \in 0 .. len - 1
        /\ m \in Nat /\ m < len /\ m + 1 = n /\ -(len - i) = -n
        /\ n # 0
    BY <1>1
  <2>2. _string_slice(cs, 0, n) = first /\ _string_slice(cs, -n, 0) = last
    BY <1>1, <2>1, SlicesAre
  <2>3. last \in Seq(Letters) /\ Len(last) = n /\ last[1] = cs[i + 1]
    <3> HIDE DEF i
    <3>1. LET b == SubSeq(cs, i + 1, Len(cs))
          IN /\ b \in Seq(Letters) /\ Len(b) = Len(cs) - i
             /\ \A j \in 1 .. Len(cs) - i : b[j] = cs[i + j]
      BY <1>1, <2>1, Behind
    <3>2. 1 \in 1 .. len - i
      BY <2>1
    <3> QED BY <2>1, <3>1, <3>2 DEF i
  <2>4. first \in Seq(Letters) /\ Len(first) = n
    <3>1. SubSeq(cs, 0 + 1, n) \in Seq(Letters) /\ Len(SubSeq(cs, 0 + 1, n)) = IF 0 <= n THEN n - 0 ELSE 0
      BY <1>1, <2>1, PartOf
    <3>2. 0 + 1 = 1 /\ 0 <= n /\ n - 0 = n
      BY <2>1
    <3> QED BY <3>1, <3>2
  <2>5. _string_endswith(cs, last)
    <3>1. Len(last) <= len /\ last = SubSeq(cs, len - Len(last) + 1, len)
      BY <2>1, <2>3
    <3> HIDE DEF last
    <3> QED BY <3>1 DEF _string_endswith
  <2>6. _string_startswith(cs, first)
    <3>1. Len(first) <= len /\ first = SubSeq(cs, 1, Len(first))
      BY <2>1, <2>4
    <3> HIDE DEF first
    <3> QED BY <3>1 DEF _string_startswith
  <2>7. _string_has(edited, first)
    <3>1. 0 \in Occurrences(cs, first)
      <4>1. 0 \in 0 .. len - Len(first)
        BY <2>1, <2>4
      <4>2. SubSeq(cs, 0 + 1, 0 + Len(first)) = first
        <5>1. 0 + 1 = 1 /\ 0 + Len(first) = n
          BY <2>1, <2>4
        <5> QED BY <5>1
      <4> HIDE DEF first
      <4> QED BY <4>1, <4>2 DEF Occurrences, Occurs
    <3> HIDE DEF first
    <3>2. Occurrences(edited.chars, first) # {}
      BY <3>1 DEF cs
    <3> QED BY <1>1, <2>4, <3>2, HasIt
  <2>8. ASSUME NEW t \in Seq(Letters), Len(t) \in Nat \ {0} PROVE SubSeq(t, 1, 1) = <<t[1]>>
    <3>1. 0 \in 0 .. Len(t) - 1 /\ 0 + 1 = 1
      BY <2>8
    <3>2. SubSeq(t, 0 + 1, 0 + 1) = <<t[0 + 1]>>
      BY <3>1, ResolvesTo
    <3> QED BY <3>1, <3>2
  <2>9. _str_resolve(cs, -n) = SubSeq(last, 1, 1)
    <3>1. _str_resolve(cs, -(len - i)) = <<cs[i + 1]>>
      <4> HIDE DEF i
      <4> QED BY <1>1, <2>1, ResolvesTo
    <3>2. SubSeq(last, 1, 1) = <<last[1]>>
      <4>1. Len(last) \in Nat \ {0}
        <5> HIDE DEF last
        <5> QED BY <2>1, <2>3
      <4> HIDE DEF last
      <4> QED BY <2>3, <2>8, <4>1
    <3> HIDE DEF i, last
    <3> QED BY <2>1, <2>3, <3>1, <3>2
  <2>10. _str_resolve(cs, m) = SubSeq(_string_slice(cs, m, 0), 1, 1)
    <3> DEFINE b == SubSeq(cs, m + 1, Len(cs))
    <3> HIDE DEF m
    <3>1. _str_resolve(cs, m) = <<cs[m + 1]>>
      BY <1>1, <2>1, ResolvesTo
    <3>2. _string_slice(cs, m, 0) = b
      BY <1>1, <2>1, SlicesAre
    <3>3. /\ b \in Seq(Letters) /\ Len(b) = Len(cs) - m
          /\ \A j \in 1 .. Len(cs) - m : b[j] = cs[m + j]
      BY <1>1, <2>1, Behind
    <3> HIDE DEF b
    <3>4. Len(b) \in Nat \ {0} /\ 1 \in 1 .. Len(cs) - m
      BY <1>1, <2>1, <3>3
    <3>5. SubSeq(b, 1, 1) = <<b[1]>>
      BY <2>8, <3>3, <3>4
    <3> QED BY <3>1, <3>2, <3>3, <3>4, <3>5
  <2> QED BY <2>2, <2>3, <2>5, <2>6, <2>7, <2>9, <2>10
<1>4. ASSUME NEW n \in 0 .. 2
      PROVE  Returns(cs, len * n) <=> cs # <<>>
  <2>1. n = 0 \/ n = 1 \/ n = 2
    OBVIOUS
  <2>2. len * n \in Nat
    <3> HIDE DEF len
    <3> QED BY <1>1, <2>1
  <2> DEFINE room == len * n
  <2> HIDE DEF room
  <2>3. Returns(cs, room) <=> cs # <<>>
    BY <1>1, <2>2, CopyGrows DEF room
  <2> QED BY <2>3 DEF room
<1>5. ASSUME NEW n \in 0 .. 2, cs # <<>>
      PROVE  LET all == _string_repeat(cs, n).chars
             IN /\ Len(all) = (n + 1) * len
                /\ \A k \in 0 .. n : SubSeq(all, (k * len) + 1, (k + 1) * len) = cs
  BY <1>1, <1>5, Repeated
<1>6. ASSUME NEW c \in Letter
      PROVE  _string_has(edited, <<c>>) <=> \E i \in 0 .. len - 1 : _str_resolve(cs, i) = <<c>>
  <2> DEFINE one == <<c>>
  <2>1. one \in Seq(Letters) /\ Len(one) = 1
    BY ShortOnes
  <2>2. _string_has(edited, one) <=> Occurrences(cs, one) # {}
    <3> HIDE DEF one
    <3> QED BY <1>1, <2>1, HasIt DEF cs
  <2>3. ASSUME NEW i \in 0 .. len - 1
        PROVE  Occurs(cs, one, i) <=> _str_resolve(cs, i) = one
    <3>1. _str_resolve(cs, i) = <<cs[i + 1]>> /\ SubSeq(cs, i + 1, i + 1) = <<cs[i + 1]>>
      BY <1>1, ResolvesTo
    <3> HIDE DEF one
    <3>2. Occurs(cs, one, i) <=> SubSeq(cs, i + 1, i + 1) = one
      BY <2>1 DEF Occurs
    <3> QED BY <3>1, <3>2
  <2>4. Occurrences(cs, one) = {i \in 0 .. len - 1 : Occurs(cs, one, i)}
    <3> HIDE DEF one
    <3> QED BY <2>1 DEF Occurrences
  <2> HIDE DEF one
  <2>5. Occurrences(cs, one) # {} <=> \E i \in 0 .. len - 1 : _str_resolve(cs, i) = one
    BY <2>3, <2>4
  <2> QED BY <2>2, <2>5 DEF one
<1> QED BY <1>2, <1>3, <1>4, <1>5, <1>6

(* str.c:281, :544, :637, :796, :1072 -- for every string and every        *)
(* sequence of operations: it stays inside its buffer and is closed by a   *)
(* zero, a buffer that grows is big enough in the end, joining what a      *)
(* split gave is the string again, and the methods agree with each other.  *)
THEOREM StringsSound == StrSpec => []StringsAreSound
<1>1. StrInv => StringsAreSound
  BY SplitsAndJoins, MethodsAgree DEF StringsAreSound, StrInv
<1> QED BY <1>1, StrInvariant, PTL
=============================================================================
