-------------------------------- MODULE Lexer -------------------------------
(***************************************************************************)
(* The lexer of src/lexer/lexer.c.  For every token all scanners read the  *)
(* text from where the last token ended, in the order of their priority,   *)
(* and the one that took most of it wins.  The text comes through a buffer *)
(* that is filled from a stream chunk by chunk.                            *)
(***************************************************************************)
EXTENDS Scanners

CONSTANTS
  Texts,         \* the texts to read: a set of sequences of characters
  BufferSize,    \* the sizes of a buffer
  Configured     \* the scanners in the order in which they were configured

ScannerNames == {"comment", "keyword", "whitespace", "identifier", "number", "qstring"}

ASSUME LexerAssumption ==
  /\ Texts \subseteq Seq(Char) /\ BufferSize \subseteq Nat \ {0, 1}
  /\ Configured \in Seq(ScannerNames)

(* The scanners of a language tell white space from what they look for: a  *)
(* skip leaves the token of a shorter match where it is (lexer.c:419).     *)
ASSUME SpaceAssumption ==
  LET starts == Keyword \cup {Markers[i].start : i \in DOMAIN Markers} \cup {<<c>> : c \in QuoteChars}
  IN \A cs \in starts : cs # <<>> => ~IsSpace(Head(cs))

VARIABLES
  lexText,       \* the whole text
  lexReader,     \* what the text is read from
  lexStr,        \* lexer -> buffer
  lexLeft,       \* what the stream has left
  lexCount,      \* lexer -> count: the characters behind us
  lexScanned,    \* lexer -> scanned: the characters of the best match
  lexLast,       \* lexer -> last_token
  lexSuccess,    \* lexer -> state is LexerStateSuccess
  lexTurn        \* the scanner whose turn it is, 0 between two tokens

lexVars == <<lexText, lexReader, lexStr, lexLeft, lexCount, lexScanned, lexLast, lexSuccess, lexTurn>>

Priority(scanner) == CASE scanner = "comment" -> 20 [] scanner = "keyword" -> 10 [] OTHER -> 0

(* lexercfg.c: behind the scanners of the same or a higher priority.       *)
_lexer_config_add_scanner(scanners, scanner) ==
  LET before == {i \in DOMAIN scanners : Priority(scanners[i]) >= Priority(scanner)}
  IN InsertAt(scanners, Cardinality(before) + 1, scanner)

lexScanners ==
  LET added[i \in 0 .. Len(Configured)] ==
        IF i = 0 THEN <<>> ELSE _lexer_config_add_scanner(added[i - 1], Configured[i])
  IN added[Len(Configured)]

LexStart ==
  /\ IF lexReader = "string"
     THEN lexStr = str_copy_chars(lexText) /\ lexLeft = <<>>
     ELSE lexStr \in {str_create(size) : size \in BufferSize} /\ lexLeft = lexText
  /\ lexCount = 0 /\ lexScanned = 0 /\ lexLast = NoToken /\ lexSuccess = FALSE /\ lexTurn = 0

LexInit == lexText \in Texts /\ lexReader \in Reader /\ LexStart

(* lexer_next_token: none after the end.                                   *)
lexer_next_token ==
  /\ lexTurn = 0 /\ lexLast.code # TokenCodeEOF
  /\ lexLast' = NoToken /\ lexTurn' = 1 /\ lexScanned' = 0 /\ lexSuccess' = FALSE
  /\ UNCHANGED <<lexText, lexReader, lexStr, lexLeft, lexCount>>

\* Wrong: of two matches of the same length the later one would win.
AsLong(run) == run.scan_count > 0 /\ (lexScanned = 0 \/ run.scan_count >= lexScanned)

\* Wrong: a match of no character at all would do.
AnyLength(run) == lexScanned = 0 \/ run.scan_count > lexScanned

Longer(run) == run.scan_count > 0 /\ (lexScanned = 0 \/ run.scan_count > lexScanned)

(* lexer_accept_token and lexer_skip: of the matches the longest counts.   *)
_lexer_match_token ==
  /\ lexTurn \in DOMAIN lexScanners
  /\ \E scanner \in {lexScanners[lexTurn]} :
     \E read \in {match(scanner, lexReader, lexer_rewind(lexStr, lexLeft, lexCount = 0))} :
     LET run == read.run
         better == Longer(run) /\ (run.out # NoToken \/ run.skips)
     IN /\ lexStr' = read.str /\ lexLeft' = read.left
        /\ lexScanned' = IF better THEN run.scan_count ELSE lexScanned
        /\ lexLast' = IF better /\ run.out # NoToken THEN run.out
                      ELSE IF better /\ scanner = "comment" /\ run.end # <<>> THEN NoToken
                      ELSE lexLast
        /\ lexSuccess' = (lexSuccess \/ better \/ (scanner = "whitespace" /\ run.state # "Init"))
  /\ lexTurn' = lexTurn + 1
  /\ UNCHANGED <<lexText, lexReader, lexCount>>

\* Wrong: the buffer would not be rewound before what was accepted is skipped.
ResetAtRead(str, scanned) == str_reset(str_skip(str, scanned))

lexer_reset(str, scanned) == str_reset(str_skip(str_rewind(str), scanned))

(* What is done with the best match: hand out the token, or go on behind   *)
(* what was skipped.  The second pass of the position scanner counts the   *)
(* characters of a match, and it runs when there is none.  Without a match *)
(* one character is a token of its own; one that is not ASCII ends the     *)
(* text.                                                                   *)
lexer_token ==
  /\ lexTurn = Len(lexScanners) + 1
  /\ \E single \in {lexer_get_char(lexReader, str_rewind(lexStr), lexLeft)} :
     LET one == lexLast = NoToken /\ ~lexSuccess
         scanned == IF one THEN (IF single.ch > 0 THEN 1 ELSE 0) ELSE lexScanned
         last == IF ~one THEN lexLast
                 ELSE IF single.ch > 0 THEN [code |-> single.ch, text |-> <<single.ch>>]
                 ELSE [code |-> TokenCodeEOF, text |-> <<>>]
     IN /\ Assert(last # NoToken \/ scanned > 0, "found no token and doesn't skip anything")
        /\ lexLast' = last
        /\ lexStr' = lexer_reset(IF one THEN single.str ELSE lexStr, scanned)
        /\ lexLeft' = IF one THEN single.left ELSE lexLeft
        /\ lexCount' = lexCount + scanned
        /\ lexTurn' = IF last = NoToken THEN 1 ELSE 0
  /\ lexScanned' = 0
  /\ lexSuccess' = FALSE
  /\ UNCHANGED <<lexText, lexReader>>

LexNext == lexer_next_token \/ _lexer_match_token \/ lexer_token

\* Each step goes on to another turn; as long as End was not read there is one.
LexTurns ==
  /\ lexTurn = 0 => lexLast.code # TokenCodeEOF
  /\ lexTurn' \in (0 .. Len(lexScanners) + 1) \ {lexTurn}

LexSpec == LexInit /\ [][LexNext]_lexVars /\ WF_lexTurn(LexTurns)
-----------------------------------------------------------------------------
Rest == SubSeq(lexText, lexCount + 1, Len(lexText))
Ascii == \A i \in DOMAIN lexText : lexText[i] > 0

\* The outcome of a scanner over the rest of the text, read at once.
Whole(scanner) ==
  match(scanner, "string", lexer_rewind(str_copy_chars(Rest), <<>>, lexCount = 0)).run
Taken(run) == IF run.out # NoToken \/ run.skips THEN run.scan_count ELSE 0

(* lexer.c:262, :304, str.c:593, :608 -- whatever is read ahead, given     *)
(* back and thrown away between two tokens, and wherever the text is cut   *)
(* into chunks: the buffer and the stream hold the rest of the text, no    *)
(* character is lost or read twice.                                        *)
TextCovered == lexStr.chars \o lexLeft = Rest

(* lexer.c:410 -- the size of the buffer is not visible: a scanner that    *)
(* gets the text in chunks does what it does with the whole text.          *)
ChunksDontMatter ==
  (Ascii /\ lexTurn \in DOMAIN lexScanners) =>
    \A run \in {match(lexScanners[lexTurn], lexReader,
                      lexer_rewind(lexStr, lexLeft, lexCount = 0)).run},
       whole \in {Whole(lexScanners[lexTurn])} :
      run.out = whole.out /\ run.skips = whole.skips /\ Taken(run) = Taken(whole)

(* lexer.c:336, lexercfg.c:146 -- at the end of the pass the longest match *)
(* of all scanners has won, the first of them by priority, and the token   *)
(* is its token and not that of a shorter match: a comment is no division, *)
(* a keyword no identifier, an identifier that begins with a keyword no    *)
(* keyword.                                                                *)
LongestMatchWins ==
  (Ascii /\ lexTurn = Len(lexScanners) + 1) =>
    \A taken \in {[i \in DOMAIN lexScanners |-> Taken(Whole(lexScanners[i]))]} :
    LET most == Max({taken[i] : i \in DOMAIN lexScanners})
        longest == {i \in DOMAIN lexScanners : taken[i] > 0 /\ taken[i] = most}
        rank(i) == Priority(lexScanners[i])
        winners == {i \in longest : \A j \in longest : rank(j) <= rank(i)}
    IN IF longest = {} THEN lexScanned = 0 /\ lexLast = NoToken
       ELSE /\ lexScanned = most
            /\ lexLast = Whole(lexScanners[Min(winners)]).out

(* lexer.c:262 -- the end is reported at the end of the text: a token that *)
(* says so has nothing behind it, unless a character is not ASCII.         *)
EndIsTheEnd == (Ascii /\ lexTurn = 0 /\ lexLast.code = TokenCodeEOF) => Rest = <<>>

(* lexer.c:316 -- the tokens of a text, with what was skipped, are the     *)
(* text: no character is lost or read twice, up to the End, which comes    *)
(* once, at the end of the text.                                           *)
TokensCoverText == TextCovered /\ EndIsTheEnd
-----------------------------------------------------------------------------
(* Between two tokens: what the scanners make of the rest of the text.     *)
Digits(cs) == \A i \in DOMAIN cs : IsDigit(cs[i])
Unsigned(cs) ==
  IF Signed /\ cs # <<>> /\ Head(cs) \in {Plus, Minus} THEN Tail(cs) ELSE cs
IsInteger(cs) == cs # <<>> /\ Digits(cs)
IsHexNumber(cs) == \E i \in 2 .. Len(cs) :
  /\ tolower(cs[i]) = 120 /\ \A j \in 1 .. i - 1 : cs[j] = 48
  /\ \A j \in i + 1 .. Len(cs) : IsHex(cs[j])
IsExponent(cs) == cs # <<>> /\ tolower(Head(cs)) = 101 /\ IsInteger(
  IF Len(cs) > 1 /\ cs[2] \in {Plus, Minus} THEN SubSeq(cs, 3, Len(cs)) ELSE Tail(cs))
IsDecimal(cs) == \E i \in 1 .. Len(cs) :
  cs[i] = Period /\ Digits(SubSeq(cs, 1, i - 1)) /\ Digits(SubSeq(cs, i + 1, Len(cs)))
IsFloat(cs) ==
  \/ IsDecimal(cs) /\ cs # <<Period>>
  \/ \E i \in 2 .. Len(cs) :
       /\ IsExponent(SubSeq(cs, i, Len(cs)))
       /\ IsInteger(SubSeq(cs, 1, i - 1)) \/ IsDecimal(SubSeq(cs, 1, i - 1))

(* number.c:124 -- what is taken for a number is one, of the kind that is  *)
(* said, and all of it: it is not followed by another digit.  A token of   *)
(* digits begins with 0 only when it is 0.                                 *)
NumbersAreNumbers ==
  (Ascii /\ lexTurn = 0) =>
    \A run \in {Whole("number")} :
    \A cs \in {Unsigned(SubSeq(Rest, 1, run.scan_count))}, text \in {Unsigned(run.out.text)} :
       run.out # NoToken =>
         /\ run.out.code = TokenCodeInteger => IsInteger(cs) /\ (Head(text) = 48 => Len(text) = 1)
         /\ run.out.code = TokenCodeFloat => IsFloat(cs)
         /\ run.out.code = TokenCodeHexNumber => IsHexNumber(cs)
         /\ run.out.code = TokenCodeError =>
              ~IsInteger(cs) /\ ~IsFloat(cs) /\ tolower(Last(cs)) \in {101, Plus, Minus}
         /\ Len(Rest) > run.scan_count => ~IsDigit(Rest[run.scan_count + 1])

(* keyword.c:303 -- the keyword that is reported is the longest one the    *)
(* text begins with.  What it takes is the keyword, or the beginning of a  *)
(* longer one that was not completed; it is missed only when the text ends *)
(* inside a longer one.                                                    *)
KeywordsFound ==
  (Ascii /\ lexTurn = 0) =>
    \A run \in {Whole("keyword")} :
    LET found == {kw \in Keyword : IsPrefix(kw, Rest)}
        cs == SubSeq(Rest, 1, run.scan_count)
        unfinished(c) == \E kw \in Keyword : IsStrictPrefix(c, kw)
    IN IF run.out = NoToken THEN found # {} => unfinished(Rest)
       ELSE /\ found # {}
            /\ run.out.code = TokenCodeKeyword + Max({Len(kw) : kw \in found})
            /\ cs \in found \/ unfinished(cs)

(* comment.c:266 -- a block comment ends with its end marker, and with the *)
(* first one after the start marker.  It is reported as not terminated     *)
(* only when there is no end marker behind it, or each one follows closely *)
(* on the first character of an end marker, as in **/.                     *)
CommentsEnd ==
  (Ascii /\ lexTurn = 0) =>
    \A run \in {Whole("comment")} : (run.done /\ Len(run.end) >= 2) =>
      \E m \in {k \in DOMAIN Markers : Markers[k].end = run.end /\ IsPrefix(Markers[k].start, Rest)} :
        LET n == Len(run.end)
            begun == Len(Markers[m].start)
            ends == {i \in begun + 1 .. Len(Rest) - n + 1 : SubSeq(Rest, i, i + n - 1) = run.end}
            plain == {i \in ends : \A j \in i - n + 1 .. i - 1 : j > begun => Rest[j] # Head(run.end)}
        IN IF run.skips THEN run.scan_count - n + 1 \in ends /\ \A i \in plain : run.scan_count - n + 1 <= i
           ELSE plain = {}

(* qstring.c:142 -- a string ends at the first quote of its kind that no   *)
(* backslash takes, and what is in between is its text.                    *)
StringsEnd ==
  (Ascii /\ lexTurn = 0) =>
    \A run \in {Whole("qstring")} :
    LET taken[i \in 1 .. Len(Rest)] == i > 2 /\ Rest[i - 1] = Backslash /\ ~taken[i - 1]
        ends == {i \in 2 .. Len(Rest) : Rest[i] = Rest[1] /\ ~taken[i]}
    IN (Rest # <<>> /\ Rest[1] \in QuoteChars) =>
         IF ends = {} THEN run.out.code = TokenCodeError /\ run.scan_count = Len(Rest)
         ELSE run.out.code = Rest[1] /\ run.scan_count = Min(ends)

(* number.c:219, keyword.c:273, comment.c:384, qstring.c:122 -- a number   *)
(* is one in the notation of its code, a keyword is found where it stands, *)
(* and a comment or a string ends at its first end marker that counts.     *)
TokensAreRight == NumbersAreNumbers /\ KeywordsFound /\ CommentsEnd /\ StringsEnd

(* lexer.c:316 -- every text ends: each turn of the loop takes at least    *)
(* one character, and the last token says that there are no more.          *)
EveryTextEnds == <>(lexTurn = 0 /\ lexLast.code = TokenCodeEOF)
=============================================================================
