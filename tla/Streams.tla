-------------------------------- MODULE Streams --------------------------------
(***************************************************************************)
(* file.c: a file that is read through a buffer, a character at a time,    *)
(* line by line and by an iterator, and printed to.  A read of the system  *)
(* may be short or fail; so may a write.                                   *)
(***************************************************************************)
EXTENDS Integers, Sequences, SequencesExt, FiniteSets, Functions, TLC

CONSTANTS
  FileTexts,     \* what a file contains: sequences of "a", "cntrl", "newline", "not ascii"
  MaxChunk,      \* bound: what one read of the system gives
  MaxFaults,     \* bound: reads that fail
  MaxStreamOps   \* bound: operations on one stream

VARIABLES
  fileText,      \* the bytes of the file
  file,          \* [open, at, buf, eof, errno]; at is where the system reads on
  reading,       \* the line that is being read: [for, line], or Idle
  iterNext,      \* what the iterator has fetched: list next of streamiter_t
  iterMade,      \* whether there is one, and its selector: "none", "all", "match"
  linesGiven,    \* history: the lines handed out since the file was read from its start
  mixed,         \* history: moved off its start or with something read ahead, or read past its iterator
  printed,       \* history: what came out of the prints: [asked, out, told]
  fileAnswer, fileOps, faults
streamVars == <<fileText, file, reading, iterNext, iterMade, linesGiven, mixed, printed, fileAnswer, fileOps, faults>>

Idle == [for |-> "nobody", line |-> <<>>]
NoLine == <<"null", <<>>>>
Exhausted == <<"exhausted", <<>>>>
Failure == <<"exception", <<>>>>
-----------------------------------------------------------------------------
Op == reading = Idle /\ file.open /\ fileOps < MaxStreamOps /\ fileOps' = fileOps + 1

\* Control characters at the end of a line go, whatever they are.
Stripped(line) ==
  LET kept == {i \in DOMAIN line : line[i] # "cntrl"}
  IN IF kept = {} THEN <<>> ELSE SubSeq(line, 1, CHOOSE i \in kept : \A j \in kept : j <= i)

\* What readline makes of the NULL of stream_readline: the end, unless an
\* error is known, of whatever time.
_stream_readline(known) == IF known THEN Failure ELSE NoLine

\* Wrong: the first line that does not match would end the iteration.
StopsAtMismatch(line) ==
  IF line = NoLine \/ (iterMade = "match" /\ line[1] = "line" /\ \A i \in DOMAIN line[2] : line[2][i] # "a")
  THEN <<Exhausted>> ELSE Append(iterNext, line)

\* A line becomes an entry if it matches, by a selector that matches the whole
\* line; the end and an error always.
_streamiter_readnext(line) ==
  CASE line = NoLine -> <<Exhausted>>
    [] line[1] = "line" /\ iterMade = "match" /\ \A i \in DOMAIN line[2] : line[2][i] # "a" -> iterNext
    [] OTHER -> Append(iterNext, line)

_streamiter_has_next(next) == IF Head(next)[1] = "exhausted" THEN <<"false", <<>>>> ELSE <<"true", <<>>>>

Handed(entry) == IF entry[1] = "line" THEN Append(linesGiven, entry[2]) ELSE linesGiven

Asked(op, next) ==
  CASE op = "has_next" -> fileAnswer' = _streamiter_has_next(next) /\ iterNext' = next /\ UNCHANGED linesGiven
    [] op = "next" -> fileAnswer' = Head(next) /\ iterNext' = Tail(next) /\ linesGiven' = Handed(Head(next))
    [] OTHER -> fileAnswer' = NoLine /\ iterNext' = next /\ UNCHANGED linesGiven

\* The line, or its absence, goes to whoever reads.
LineRead(line) ==
  IF reading.for = "readline"
    THEN /\ fileAnswer' = line /\ linesGiven' = Handed(line) /\ reading' = Idle /\ UNCHANGED iterNext
    ELSE LET next == _streamiter_readnext(line)
         IN \/ next = <<>> /\ reading' = [reading EXCEPT !.line = <<>>] /\ UNCHANGED <<iterNext, linesGiven, fileAnswer>>
            \/ next # <<>> /\ reading' = Idle /\ Asked(reading.for, next)

(* One turn of the loop of stream_readline, with a character from          *)
(* stream_getchar.  A character is a signed byte: one that is not ascii    *)
(* looks like an error, with the errno of whatever went wrong before.      *)
stream_readline(ch, f) ==
  \/ /\ ch = "not ascii" /\ \E known \in BOOLEAN :
          file' = [f EXCEPT !.errno = known] /\ LineRead(_stream_readline(known))
  \/ ch = "eof" /\ reading.line = <<>> /\ file' = f /\ LineRead(_stream_readline(f.errno))
  \/ /\ ch \in {"eof", "newline"} /\ (ch = "eof" => reading.line # <<>>)
     /\ file' = f /\ LineRead(<<"line", Stripped(reading.line)>>)
  \/ /\ ch \in {"a", "cntrl"} /\ file' = f /\ reading' = [reading EXCEPT !.line = Append(@, ch)]
     /\ UNCHANGED <<iterNext, linesGiven, fileAnswer>>

\* file_read: as much as there is, or less, or nothing at the end.
Chunks == {SubSeq(fileText, file.at + 1, to) : to \in file.at + 1 .. IF file.at + MaxChunk < Len(fileText) THEN file.at + MaxChunk ELSE Len(fileText)}

stream_getchar ==
  /\ reading # Idle
  /\ \/ /\ file.buf # <<>> /\ stream_readline(Head(file.buf), [file EXCEPT !.buf = Tail(@)]) /\ UNCHANGED faults
     \/ /\ file.buf = <<>> /\ faults < MaxFaults /\ faults' = faults + 1
        /\ file' = [file EXCEPT !.errno = TRUE] /\ LineRead(Failure)
     \/ /\ file.buf = <<>> /\ file.at >= Len(fileText) /\ stream_readline("eof", [file EXCEPT !.eof = TRUE]) /\ UNCHANGED faults
     \/ /\ file.buf = <<>> /\ file.at < Len(fileText) /\ UNCHANGED faults
        /\ \E chunk \in Chunks :
             stream_readline(Head(chunk), [file EXCEPT !.buf = Tail(chunk), !.at = @ + Len(chunk)])
  /\ UNCHANGED <<fileText, iterMade, mixed, printed, fileOps>>

Readline ==
  /\ Op /\ reading' = [for |-> "readline", line |-> <<>>] /\ mixed' = (mixed \/ iterMade # "none")
  /\ UNCHANGED <<fileText, file, iterNext, iterMade, linesGiven, printed, fileAnswer, faults>>

(* The buffer stays as it is wherever the file is moved to.  An offset     *)
(* from the end is turned around: it leads behind the end.                 *)
Seek(f, offset) == [f EXCEPT !.at = IF offset >= 0 THEN offset ELSE Len(fileText) - offset]

Repositioned(offset) ==
  /\ file' = Seek(file, offset)
  /\ mixed' = (mixed \/ file.buf # <<>> \/ offset # 0 \/ iterMade # "none")
  /\ linesGiven' = <<>> /\ fileAnswer' = NoLine

file_seek ==
  /\ Op /\ \E offset \in {-1, 0, 1} : Repositioned(offset)
  /\ UNCHANGED <<fileText, reading, iterNext, iterMade, printed, faults>>

\* An iterator starts the file again, and fetches its first line.
_streamiter_create ==
  /\ Op /\ iterMade = "none" /\ iterMade' \in {"all", "match"}
  /\ Repositioned(0) /\ reading' = [for |-> "create", line |-> <<>>]
  /\ UNCHANGED <<fileText, iterNext, printed, faults>>

_streamiter_next ==
  /\ Op /\ iterMade # "none"
  /\ \E op \in {"has_next", "next"} :
       \/ iterNext # <<>> /\ Asked(op, iterNext) /\ UNCHANGED reading
       \/ /\ iterNext = <<>> /\ reading' = [for |-> op, line |-> <<>>]
          /\ UNCHANGED <<iterNext, linesGiven, fileAnswer>>
  /\ UNCHANGED <<fileText, file, iterMade, mixed, printed, faults>>

\* Wrong: a write that was cut short would count as done.
ShortIsDone(text, end) == text = 1 /\ end >= 1

\* All of it came out, or it counts as failed: nothing is written again.
_stream_write_buffer(text, end) == text = 1 /\ end = 2

\* A line of one character and its end; the end is not tried after a failure.
_stream_print_data ==
  /\ Op /\ \E text \in 0 .. 1, end \in 0 .. 2, flushed \in BOOLEAN :
       /\ (text = 0 => end = 0)
       /\ printed' = [asked |-> printed.asked + 3, out |-> printed.out + text + end, flushed |-> printed.flushed /\ flushed,
                      told |-> printed.told /\ _stream_write_buffer(text, end) /\ flushed]
  /\ UNCHANGED <<fileText, file, reading, iterNext, iterMade, linesGiven, mixed, fileAnswer, faults>>

\* The end of a context that the file is: whatever close says, it is closed.
file_close ==
  /\ Op /\ file' = [file EXCEPT !.open = FALSE]
  /\ \E answer \in {NoLine, Failure} : fileAnswer' = answer
  /\ UNCHANGED <<fileText, reading, iterNext, iterMade, linesGiven, mixed, printed, faults>>

StreamsStart ==
  /\ file = [open |-> TRUE, at |-> 0, buf |-> <<>>, eof |-> FALSE, errno |-> FALSE]
  /\ reading = Idle /\ iterNext = <<>> /\ iterMade = "none" /\ linesGiven = <<>> /\ mixed = FALSE
  /\ printed = [asked |-> 0, out |-> 0, flushed |-> TRUE, told |-> TRUE]
  /\ fileAnswer = NoLine /\ fileOps = 0 /\ faults = 0

StreamsInit == fileText \in FileTexts /\ StreamsStart

StreamsNext ==
  \/ stream_getchar \/ Readline \/ file_seek \/ _streamiter_create \/ _streamiter_next
  \/ _stream_print_data \/ file_close
-----------------------------------------------------------------------------
\* The lines of a text: up to each end of a line, and what is left.
LinesOf(text) ==
  LET ends == {i \in DOMAIN text : text[i] = "newline"}
      cuts == SetToSortSeq(ends \cup {0} \cup (IF text # <<>> /\ Last(text) # "newline" THEN {Len(text) + 1} ELSE {}), <)
      lines == [i \in 1 .. Len(cuts) - 1 |-> Stripped(SubSeq(text, cuts[i] + 1, cuts[i + 1] - 1))]
  IN IF iterMade = "match" THEN SelectSeq(lines, LAMBDA l : \E i \in DOMAIN l : l[i] = "a") ELSE lines

(* file.c:376, 460 -- the lines that are handed out, by readline and by an *)
(* iterator however often it is asked for more, are those of the file, in  *)
(* order and each once, wherever a read of the system stops short.  Unless *)
(* a read failed, a byte is not ascii, or the file was moved with          *)
(* something in its buffer, as an iterator moves a file that was read.     *)
LinesAreTheText ==
  faults = 0 /\ ~mixed /\ "not ascii" \notin Range(fileText) =>
    /\ iterMade # "match" => linesGiven = SubSeq(LinesOf(fileText), 1, Len(linesGiven))
    /\ iterMade # "none" /\ fileAnswer[1] \in {"exhausted", "false"} => linesGiven = LinesOf(fileText)

(* file.c:354, 408 -- a print that says it went well has written all of    *)
(* its line, and the file was flushed.                                     *)
PrintTellsTruth == printed.told => printed.out = printed.asked /\ printed.flushed
=============================================================================
