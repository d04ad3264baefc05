-------------------------------- MODULE Str ---------------------------------
(***************************************************************************)
(* The strings of src/lib/str.c: a character buffer with a length, a size  *)
(* and a read position.  Three things can come apart: the length, the zero *)
(* that ends the characters for the C library, and the size.  `chars' are  *)
(* the len characters, `tail' what the C library still sees behind them.   *)
(* A string of size 0 wraps memory it does not own and cannot grow.        *)
(***************************************************************************)
EXTENDS Integers, Sequences, SequencesExt

CONSTANTS
  Letter,        \* the characters, positive numbers
  MaxLength      \* bound: no string is made longer than this

ASSUME LetterAssumption == Letter \subseteq Nat \ {0} /\ MaxLength \in Nat \ {0}

VARIABLES
  edited,        \* the string: [chars, tail, pos, size]
  strHung,       \* the growth of the buffer does not end
  strBroken,     \* memory outside the characters was read or moved
  shortened,     \* history: a replacement made the string shorter
  readPast       \* history: a character was read behind the last one

strVars == <<edited, strHung, strBroken, shortened, readPast>>

CString(s) == s.chars \o s.tail
str_len(s) == Len(s.chars)

str_create(size) == [chars |-> <<>>, tail |-> <<>>, pos |-> 0, size |-> size]
str_copy_chars(cs) == [str_create(Len(cs) + 1) EXCEPT !.chars = cs]
str_wrap(cs) == [str_create(0) EXCEPT !.chars = cs]

\* Wrong: the buffer would grow more slowly.
ByHalfOfThird(n) == (n * 4) \div 3

(* (size_t) (n * 1.6): no growth at all from 0 and from 1.                 *)
Growth(n) == (n * 8) \div 5

\* Wrong: no room for the terminating zero.
WithoutZero(s, target) == s.size >= target

Holds(s, target) == s.size >= target + 1

Grows(s, target) == Holds(s, target) \/ Growth(s.size) > s.size

_str_expand(s, target) ==
  LET sizeFrom[n \in Nat] == IF n >= target + 1 THEN n ELSE sizeFrom[Growth(n)]
  IN IF Holds(s, target) THEN s ELSE [s EXCEPT !.size = sizeFrom[Growth(@)]]
-----------------------------------------------------------------------------
(* Reading.                                                                *)

str_peek(s) == IF s.pos < Len(s.chars) THEN s.chars[s.pos + 1] ELSE 0
Advance(s) == [s EXCEPT !.pos = @ + 1]
str_rewind(s) == [s EXCEPT !.pos = 0]

\* Wrong: the position would leave the string.
SkipUnchecked(s, num) == [s EXCEPT !.pos = @ + num]

str_skip(s, num) ==
  [s EXCEPT !.pos = IF @ + num > Len(s.chars) THEN Len(s.chars) ELSE @ + num]

str_pushback(s, num) == [s EXCEPT !.pos = IF num > @ THEN 0 ELSE @ - num]

str_erase(s) == IF s.size = 0 THEN s ELSE str_create(s.size)

\* Wrong: the characters that were read stay, the position does not.
KeepsFirst(s, num) ==
  IF s.size = 0 THEN s
  ELSE [s EXCEPT !.chars = SubSeq(@, num, Len(@)), !.pos = IF @ < num THEN 0 ELSE @ - num]

str_lchop(s, num) ==
  IF s.size = 0 THEN s
  ELSE IF num >= Len(s.chars) THEN str_erase(s)
  ELSE [s EXCEPT !.chars = SubSeq(@, num + 1, Len(@)),
                 !.tail = IF num > 0 THEN <<>> ELSE @,
                 !.pos = IF @ < num THEN 0 ELSE @ - num]

str_reset(s) == str_lchop(s, s.pos)

(* More characters from a stream, as many as the buffer takes: what is     *)
(* read and what the stream has left.                                      *)
_str_readinto(s, stream, num) ==
  LET room == s.size - Len(s.chars)
      got == Min({num, room, Len(stream)})
  IN [str |-> [s EXCEPT !.chars = @ \o SubSeq(stream, 1, got)], got |-> got,
      left |-> SubSeq(stream, got + 1, Len(stream))]

str_fillup(s, stream) == _str_readinto(s, stream, s.size - Len(s.chars))

\* Wrong: a read position behind the end would stay there.
ReplenishUnclamped(s, stream) ==
  IF Len(s.chars) < s.size THEN str_fillup(s, stream)
  ELSE _str_readinto(_str_expand(s, s.size), stream, Len(s.chars))

str_replenish(s, stream) ==
  LET at == [s EXCEPT !.pos = IF @ > Len(s.chars) THEN Len(s.chars) ELSE @]
  IN IF Len(at.chars) < at.size THEN str_fillup(at, stream)
     ELSE _str_readinto(_str_expand(at, at.size), stream, Len(at.chars))
-----------------------------------------------------------------------------
(* Editing.                                                                *)

str_append_char(s, c) ==
  IF s.size = 0 \/ c <= 0 THEN s
  ELSE [_str_expand(s, Len(s.chars) + 1) EXCEPT
          !.chars = Append(@, c), !.tail = IF @ = <<>> THEN @ ELSE Tail(@)]

(* strncat writes where the C library sees the end.                        *)
str_append_nchars(s, cs, n) ==
  LET part == SubSeq(cs, 1, Min({n, Len(cs)}))
  IN [_str_expand(s, Len(s.chars) + n + 1) EXCEPT
        !.chars = SubSeq(CString(s) \o part, 1, Len(s.chars) + Len(part)), !.tail = <<>>]

str_append(s, other) ==
  LET both == CString(s) \o CString(other)
      len == Len(s.chars) + Len(other.chars)
  IN IF s.size = 0 THEN s
     ELSE [_str_expand(s, len + 1) EXCEPT
             !.chars = SubSeq(both, 1, len), !.tail = SubSeq(both, len + 1, Len(both))]

\* Wrong: the chopped characters would stay visible.
ChopLength(s, num) ==
  IF num >= Len(s.chars) THEN str_erase(s)
  ELSE [s EXCEPT !.chars = SubSeq(@, 1, Len(@) - num),
                 !.tail = SubSeq(s.chars, Len(s.chars) - num + 1, Len(s.chars))]

str_chop(s, num) ==
  IF s.size = 0 THEN s
  ELSE IF num >= Len(s.chars) THEN str_erase(s)
  ELSE [s EXCEPT !.chars = SubSeq(@, 1, Len(@) - num),
                 !.tail = IF num > 0 THEN <<>> ELSE @,
                 !.pos = Min({@, Len(s.chars) - num})]

str_set(s, i, c) ==
  IF s.size = 0 \/ i >= Len(s.chars) THEN s
  ELSE IF c = 0 THEN [s EXCEPT !.chars = SubSeq(@, 1, i), !.tail = <<>>, !.pos = 0]
  ELSE [s EXCEPT !.chars[i + 1] = c, !.pos = 0]

Occurs(cs, pattern, i) == SubSeq(cs, i + 1, i + Len(pattern)) = pattern
Occurrences(cs, pattern) == {i \in 0 .. Len(cs) - Len(pattern) : Occurs(cs, pattern, i)}

str_indexof(s, pattern) ==
  IF Len(pattern) > Len(s.chars) \/ Occurrences(CString(s), pattern) = {} THEN -1
  ELSE Min(Occurrences(CString(s), pattern))

\* Wrong: the search would run from the front.
FirstNotLast(s, pattern) ==
  LET at == Occurrences(s.chars, pattern) \ {0} IN IF at = {} THEN -1 ELSE Min(at)

(* From the end, and not as far as the first character.                    *)
str_rindexof(s, pattern) ==
  LET at == Occurrences(s.chars, pattern) \ {0} IN IF at = {} THEN -1 ELSE Max(at)

(* memmove takes the rest of the characters and not the zero behind them;  *)
(* its count is below 0 when the pattern was found in the tail.            *)
ReplaceOne(s, pattern, by) ==
  LET at == str_indexof(s, pattern)
      len == Len(s.chars) + Len(by) - Len(pattern)
      new == SubSeq(s.chars, 1, at) \o by \o SubSeq(s.chars, at + Len(pattern) + 1, Len(s.chars))
  IN [_str_expand(s, len) EXCEPT
        !.chars = new, !.tail = SubSeq(CString(s), len + 1, Len(CString(s))), !.pos = 0]

MovesBackwards(s, pattern) ==
  str_indexof(s, pattern) + Len(pattern) > Len(s.chars)

str_split(cs, sep) ==
  LET next(at) == {i \in Occurrences(cs, sep) : i >= at}
      from[at \in 0 .. Len(cs)] ==
        IF next(at) = {} THEN << SubSeq(cs, at + 1, Len(cs)) >>
        ELSE << SubSeq(cs, at + 1, Min(next(at))) >> \o from[Min(next(at)) + Len(sep)]
  IN IF cs = <<>> THEN <<>> ELSE from[0]

_str_join_reducer(target, elem, glue) ==
  str_append_nchars(str_append_nchars(target, elem, Len(elem)), glue, Len(glue))

Reduced(glue, parts) ==
  LET ret[i \in 0 .. Len(parts)] ==
        IF i = 0 THEN str_create(32) ELSE _str_join_reducer(ret[i - 1], parts[i], glue)
  IN ret[Len(parts)]

\* Wrong: the glue behind the last element would stay.
JoinKeepsGlue(glue, parts) == Reduced(glue, parts)

_str_join(glue, parts) ==
  LET ret == Reduced(glue, parts)
  IN IF Len(ret.chars) = 0 THEN ret ELSE str_chop(ret, Len(glue))
-----------------------------------------------------------------------------
(* The methods of strings, on the characters the C library sees.           *)
RangeError == <<-1>>

\* A position without a sign: what is below 0 is above every length.
NoSign(n) == IF n < 0 THEN n + 2 ^ 8 ELSE n

(* A negative beginning counts from the end; a negative end is beyond it,  *)
(* and 0 is the end itself.                                                *)
_string_slice(cs, from, to) ==
  LET len == Len(cs)
      j == IF to = 0 THEN len ELSE NoSign(to)
      i == IF from < 0 THEN len + from ELSE from
  IN IF i \notin 0 .. len - 1 \/ j <= i \/ j > len THEN RangeError ELSE SubSeq(cs, i + 1, j)

_str_resolve(cs, ix) ==
  IF ix \notin -Len(cs) .. Len(cs) - 1 THEN RangeError ELSE <<cs[(IF ix < 0 THEN Len(cs) + ix ELSE ix) + 1]>>

_string_startswith(cs, prefix) == Len(prefix) <= Len(cs) /\ prefix = SubSeq(cs, 1, Len(prefix))
_string_endswith(cs, suffix) == Len(suffix) <= Len(cs) /\ suffix = SubSeq(cs, Len(cs) - Len(suffix) + 1, Len(cs))
_string_has(s, needle) == str_indexof(s, needle) >= 0

(* What a method returns is a copy of the characters with others behind it. *)
Joint(cs, args) ==
  LET ret[i \in 0 .. Len(args)] == IF i = 0 THEN cs ELSE ret[i - 1] \o args[i]
  IN ret[Len(args)]

(* The room it asks for; for no characters it is the size the copy has.    *)
Room(copy, len) == IF len = 0 THEN copy.size ELSE len

(* The copy of the empty string has a size of 1: it never grows.           *)
Returns(cs, len) == len < 0 \/ Grows(str_copy_chars(cs), Room(str_copy_chars(cs), len))

Extended(cs, len, args) ==
  LET copy == str_copy_chars(cs)
      ret[i \in 0 .. Len(args)] ==
        IF i = 0 THEN _str_expand(copy, Room(copy, len))
        ELSE str_append_nchars(ret[i - 1], args[i], Len(args[i]))
  IN ret[Len(args)]

_string_concat(cs, args) == Extended(cs, Len(Joint(cs, args)), args)

\* Wrong: nothing would be left of a string that is not repeated.
ErasesAtZero(cs, numval) ==
  IF Len(cs) * numval <= 0 THEN str_erase(str_copy_chars(cs))
  ELSE Extended(cs, Len(cs) * numval, [i \in 1 .. numval |-> cs])

\* The copy it begins with, and numval more.
_string_repeat(cs, numval) ==
  IF Len(cs) * numval < 0 THEN str_erase(str_copy_chars(cs))
  ELSE Extended(cs, Len(cs) * numval, [i \in 1 .. numval |-> cs])
-----------------------------------------------------------------------------
Short == {<<>>} \cup {<<c>> : c \in Letter} \cup {<<c, d>> : c, d \in Letter}

StrStart == strHung = FALSE /\ strBroken = FALSE /\ shortened = FALSE /\ readPast = FALSE

StrInit ==
  /\ edited \in {str_copy_chars(cs) : cs \in Short} \cup {str_wrap(cs) : cs \in Short}
                \cup {str_create(2)}
  /\ StrStart

(* An operation that needs room for `target' characters: it does not come  *)
(* back when the size cannot grow.                                         *)
Edit(target, after) ==
  /\ Grows(edited, target) => Len(CString(after)) <= MaxLength
  /\ IF Grows(edited, target)
     THEN edited' = after /\ UNCHANGED strHung
     ELSE strHung' = TRUE /\ UNCHANGED edited
  /\ UNCHANGED <<strBroken, shortened, readPast>>

StrAppendChar == \E c \in Letter :
  edited.size > 0 /\ Edit(Len(edited.chars) + 1, str_append_char(edited, c))

StrAppendChars == \E cs \in Short \ {<<>>}, n \in {1, 2} :
  Edit(Len(edited.chars) + n + 1, str_append_nchars(edited, cs, n))

StrAppend == \E cs \in Short \ {<<>>} :
  edited.size > 0 /\ Edit(Len(edited.chars) + Len(cs) + 1, str_append(edited, str_wrap(cs)))

StrCut == \E num \in 0 .. 2 :
  /\ edited' \in {str_chop(edited, num), str_lchop(edited, num), str_reset(edited), str_erase(edited)}
  /\ UNCHANGED <<strHung, strBroken, shortened, readPast>>

StrSet == \E i \in 0 .. MaxLength - 1, c \in Letter \cup {0} :
  edited' = str_set(edited, i, c) /\ UNCHANGED <<strHung, strBroken, shortened, readPast>>

StrReplace == \E pattern \in Short \ {<<>>}, by \in Short :
  /\ edited.size > 0 /\ Len(CString(edited)) + Len(by) - Len(pattern) <= MaxLength
  /\ str_indexof(edited, pattern) >= 0
  /\ IF MovesBackwards(edited, pattern)
     THEN strBroken' = TRUE /\ UNCHANGED <<edited, strHung, shortened>>
     ELSE IF Grows(edited, Len(edited.chars) + Len(by) - Len(pattern))
     THEN /\ edited' = ReplaceOne(edited, pattern, by)
          /\ shortened' = (shortened \/ Len(by) < Len(pattern))
          /\ UNCHANGED <<strHung, strBroken>>
     ELSE strHung' = TRUE /\ UNCHANGED <<edited, strBroken, shortened>>
  /\ UNCHANGED readPast

StrReadChar ==
  /\ edited.pos <= MaxLength
  /\ edited' = Advance(edited)
  /\ readPast' = (readPast \/ edited.pos >= Len(edited.chars))
  /\ UNCHANGED <<strHung, strBroken, shortened>>

StrMove == \E num \in 1 .. 2 :
  /\ edited' \in {str_rewind(edited), str_skip(edited, num), str_pushback(edited, num)}
  /\ UNCHANGED <<strHung, strBroken, shortened, readPast>>

(* The number of characters left is taken as a number without a sign.      *)
StrRead == \E num \in 1 .. 2 :
  LET left == Len(edited.chars) - edited.pos
  IN /\ IF left < 0
        THEN strBroken' = TRUE /\ UNCHANGED edited
        ELSE edited' = str_skip(edited, num) /\ UNCHANGED strBroken
     /\ UNCHANGED <<strHung, shortened, readPast>>

(* A method gives a new string, or the growth of its copy does not end: it *)
(* is that string that is looked at from here on.                          *)
Method(len, after) ==
  /\ Returns(CString(edited), len) => Len(after.chars) <= MaxLength
  /\ IF Returns(CString(edited), len)
     THEN edited' = after /\ UNCHANGED strHung
     ELSE edited' = str_copy_chars(CString(edited)) /\ strHung' = TRUE
  /\ shortened' = FALSE /\ readPast' = FALSE /\ UNCHANGED strBroken

StrConcat == \E args \in {<<>>} \cup {<<cs>> : cs \in Short} :
  Method(Len(Joint(CString(edited), args)), _string_concat(CString(edited), args))

StrRepeat == \E numval \in -1 .. 2 :
  Method(Len(CString(edited)) * numval, _string_repeat(CString(edited), numval))

StrNext ==
  /\ ~strHung /\ ~strBroken
  /\ \/ StrAppendChar \/ StrAppendChars \/ StrAppend \/ StrCut \/ StrSet \/ StrReplace
     \/ StrReadChar \/ StrMove \/ StrRead \/ StrConcat \/ StrRepeat

StrSpec == StrInit /\ [][StrNext]_strVars
-----------------------------------------------------------------------------
(* str.c:681 to :784 -- after every edit the terminating zero stands right *)
(* behind the last character, and there is room for it: the C library sees *)
(* the string the library counts.  Only a replacement by something shorter *)
(* forgets to move the zero (:672).                                        *)
StrTerminated ==
  ~shortened => edited.tail = <<>> /\ (edited.size > 0 => Len(edited.chars) < edited.size)

(* str.c:281 -- the loop that computes a new size ends, unless the size    *)
(* was 0 or 1: the wrapped memory and the copy of the empty string, which  *)
(* the methods that concatenate and repeat begin with.                     *)
StrGrowthEnds == strHung => edited.size <= 1

(* str.c:544, :669 -- no operation reads or moves memory outside the       *)
(* string, unless a character was read past its end or a replacement left  *)
(* the zero behind.                                                        *)
StrStaysInside == strBroken => readPast \/ shortened

(* str.c:796, :839 -- joining what a split gave is the string again, and   *)
(* the last occurrence is the last one, if it is not at the first place.   *)
StrSplitsAndJoins ==
  edited.tail = <<>> =>
    \A sep \in Short \ {<<>>} :
      /\ _str_join(sep, str_split(edited.chars, sep)).chars = edited.chars
      /\ \A i \in Occurrences(edited.chars, sep) \ {0} :
           str_rindexof(edited, sep) >= i /\ Occurs(edited.chars, sep, str_rindexof(edited, sep))

(* str.c:1072, :134, :1136, :1166, :1181 -- the methods agree with each    *)
(* other: two slices that meet make the string, one that begins at -n ends *)
(* it, a string begins and ends with its slices and has them, and a string *)
(* that was repeated is itself wherever it is cut.  A concatenation onto   *)
(* the empty string and a repetition of it never return; all others do.    *)
StrMethodsAgree ==
  LET cs == edited.chars
      len == Len(cs)
  IN edited.tail = <<>> =>
       /\ \A i \in 1 .. len - 1 : _string_concat(_string_slice(cs, 0, i), <<_string_slice(cs, i, 0)>>).chars = cs
       /\ \A n \in 1 .. len :
            /\ _string_endswith(cs, _string_slice(cs, -n, 0)) /\ Len(_string_slice(cs, -n, 0)) = n
            /\ _string_startswith(cs, _string_slice(cs, 0, n)) /\ _string_has(edited, _string_slice(cs, 0, n))
            /\ _str_resolve(cs, -n) = SubSeq(_string_slice(cs, -n, 0), 1, 1)
            /\ _str_resolve(cs, n - 1) = SubSeq(_string_slice(cs, n - 1, 0), 1, 1)
       /\ \A n \in 0 .. 2 : Returns(cs, len * n) <=> cs # <<>>
       /\ cs # <<>> => \A n \in 0 .. 2 :
            LET all == _string_repeat(cs, n).chars
            IN /\ Len(all) = (n + 1) * len
               /\ \A k \in 0 .. n : SubSeq(all, (k * len) + 1, (k + 1) * len) = cs
       /\ \A c \in Letter : _string_has(edited, <<c>>) <=> \E i \in 0 .. len - 1 : _str_resolve(cs, i) = <<c>>

(* str.c:281, str.c:637 -- whatever is done to a string, it stays inside   *)
(* its buffer and is closed by a zero, a buffer that grows is big enough   *)
(* in the end, splitting a string and joining the parts gives it back, and *)
(* the methods of strings agree with each other.                           *)
StringsAreSound ==
  StrTerminated /\ StrGrowthEnds /\ StrStaysInside /\ StrSplitsAndJoins /\ StrMethodsAgree
=============================================================================
