------------------------------- MODULE Iterating -------------------------------
(***************************************************************************)
(* The iterators of data.c: a value is drawn after the iterator was asked  *)
(* whether there is one, and what is drawn or computed may be an exception *)
(* that ends it all.  The iterator of a function that yields, generator.c, *)
(* runs the function when somebody asks, and each time from its beginning. *)
(***************************************************************************)
EXTENDS Integers, Sequences, SequencesExt

CONSTANTS
  Iterables,     \* what an iterable may deliver: sequences of items
  Initial,       \* the value a reduction begins with
  Bodies,        \* the functions that yield: sequences of statements
  CountedTo,     \* where they stop counting
  MaxAsked       \* bound: questions put to it

ASSUME GeneratorAssumption == CountedTo \in Nat /\ \A body \in Bodies : body \in Seq(STRING)

(* An item is a sequence of one: a value, <<"raise">>, an exception for the reducer to raise, or *)
(* <<"fail">>, an exception the iterator answers instead of a value.  An       *)
(* iterator that fails where it is asked has <<"broken">> there.               *)
FailingItems == {<<"raise">>, <<"fail">>, <<"broken">>}

VARIABLES
  itKind,        \* the atom is "iterable", an "iterator" already, or "plain"
  itItems,       \* the items it delivers
  itNext,        \* the place of the next one
  itHow,         \* "reduce" or "visit"
  itAt,          \* "start", "asked" or "end"
  itHas,         \* what the iterator said last: TRUE, FALSE or an exception
  itAccum,       \* what is handed to the next round
  itRet          \* what will be answered
itVars == <<itKind, itItems, itNext, itHow, itAt, itHas, itAccum, itRet>>

ItIterable == <<"iterable">>   \* the answer when there was nothing to reduce

data_iter == IF itKind = "plain" THEN <<"ErrorNotIterable">> ELSE <<"iterator">>

\* The iterator's own function, asked at place i.
data_has_next(i) ==
  IF i <= Len(itItems) /\ itItems[i] = <<"broken">> THEN <<"broken">> ELSE IF i <= Len(itItems) THEN <<"yes">> ELSE <<"no">>

(* It asks once more; anything but a true answer is the end.               *)
data_next(i) == IF data_has_next(i) = <<"yes">> THEN itItems[i] ELSE <<"ErrorExhausted">>

IsFailure(v) == v \in FailingItems \cup {<<"ErrorNotIterable">>, <<"ErrorExhausted">>}

(* The reducer of a script: the items one after the other.                 *)
data_call(accum, item) == IF item = <<"raise">> THEN <<"raise">> ELSE accum \o item

IterBegin ==
  /\ itAt = "start"
  /\ IF data_iter = <<"iterator">>
     THEN /\ itHas' = data_has_next(itNext)
          /\ itAt' = IF IsFailure(itHas') THEN "end" ELSE "asked"
          /\ itRet' = IF IsFailure(itHas') THEN itHas' ELSE itRet
     ELSE itAt' = "end" /\ itRet' = data_iter /\ UNCHANGED itHas
  /\ UNCHANGED <<itKind, itItems, itNext, itHow, itAccum>>

\* Wrong: what the last round computed would be lost when the iterator breaks.
KeepsLast(accum, has) == accum

\* After a round: what it computed, unless the iterator breaks when it is asked.
RoundEnds(accum, has) == IF IsFailure(has) THEN has ELSE accum

(* One round of the loop.                                                  *)
data_reduce ==
  /\ itAt = "asked" /\ itHas = <<"yes">>
  /\ LET current == data_next(itNext)
         accum == data_call(itAccum, current)
         has == data_has_next(itNext + 1)
     IN \/ /\ IsFailure(current) /\ current # <<"raise">>
           /\ itRet' = current /\ itAt' = "end" /\ UNCHANGED <<itAccum, itHas, itNext>>
        \/ /\ current = <<"raise">> \/ ~IsFailure(current)
           /\ itNext' = itNext + 1
           /\ IF IsFailure(accum)
              THEN itRet' = accum /\ itAt' = "end" /\ UNCHANGED <<itAccum, itHas>>
              ELSE /\ itHas' = has /\ itAccum' = accum
                   /\ itRet' = RoundEnds(accum, has)
                   /\ itAt' = IF IsFailure(has) THEN "end" ELSE "asked"
  /\ UNCHANGED <<itKind, itItems, itHow>>

IterLeave ==
  /\ itAt = "asked" /\ itHas = <<"no">> /\ itAt' = "end"
  /\ UNCHANGED <<itKind, itItems, itNext, itHow, itHas, itAccum, itRet>>

\* data_visit answers with what it went through, however much was computed.
data_visit == IF IsFailure(itRet) THEN itRet ELSE ItIterable
IterAnswer == IF itHow = "visit" THEN data_visit ELSE itRet

IteratingStart == itNext = 1 /\ itAt = "start" /\ itHas = <<"no">> /\ itAccum = Initial /\ itRet = ItIterable

IteratingInit ==
  /\ itKind \in {"iterable", "iterator", "plain"} /\ itItems \in Iterables /\ itHow \in {"reduce", "visit"}
  /\ IteratingStart

IterTurn == IterBegin \/ data_reduce \/ IterLeave
IteratingNext == IterTurn
-----------------------------------------------------------------------------
(* data.c:900 -- a reduction is the fold of the reducer over what was      *)
(* delivered, or the first exception on the way, wherever it came from;    *)
(* nothing is drawn behind it.                                             *)
ReduceIsFold ==
  itAt = "end" =>
    LET failing == {i \in DOMAIN itItems : itItems[i] \in FailingItems}
        first == CHOOSE i \in failing : \A j \in failing : i <= j
    IN CASE itKind = "plain" -> IterAnswer = <<"ErrorNotIterable">>
         [] itKind # "plain" /\ failing # {} -> IterAnswer = itItems[first] /\ itNext <= first + 1
         [] OTHER -> IterAnswer = IF itItems = <<>> \/ itHow = "visit" THEN ItIterable ELSE Initial \o FlattenSeq(itItems)

(* Every reduction over a finite iterable ends.                            *)
ReductionsEnd == itAt = "start" ~> itAt = "end"
-----------------------------------------------------------------------------
(* A generator: whoever asks for the next value, or whether there is one,  *)
(* has the function run.  Its statements count in a variable of its own,   *)
(* stop when enough is counted, yield the count, raise and exit.           *)
VARIABLES
  genBody,       \* the function
  genCount,      \* its variable; the closure keeps it between the runs
  genStatus,     \* what its last run ended with: [code, value], or NoStatus
  genRuns,       \* history: how often it was run
  genDrawn,      \* history: the values that were drawn
  genAsked       \* history: the questions, and their answers
genVars == <<genBody, genCount, genStatus, genRuns, genDrawn, genAsked>>

NoStatus == [code |-> "none", value |-> 0]

\* One statement; the first that ends the run is the last one executed.
Executed(run, statement) ==
  IF run.status # NoStatus THEN run
  ELSE CASE statement = "count" -> [run EXCEPT !.count = @ + 1]
         [] statement = "stop" -> IF run.count >= CountedTo THEN [run EXCEPT !.status.code = "ErrorReturn"] ELSE run
         [] statement = "yield" -> [run EXCEPT !.status = [code |-> "ErrorYield", value |-> run.count]]
         [] statement = "raise" -> [run EXCEPT !.status.code = "ErrorType"]
         [] statement = "exit" -> [run EXCEPT !.status.code = "ErrorExit"]

(* closure_yield: the machine was cleaned up when the last run ended, so   *)
(* this one begins at the first statement, with what was counted so far.   *)
Resumed ==
  LET begun == [status |-> NoStatus, count |-> genCount, runs |-> genRuns + 1]
      ran == FoldLeft(Executed, begun, genBody)
  IN IF ran.status = NoStatus THEN [ran EXCEPT !.status.code = "ErrorReturn"] ELSE ran

\* Wrong: whoever asks whether there is a value would lose it.
RunsOnAlways == Resumed

_generator_next ==
  IF genStatus = NoStatus THEN Resumed ELSE [status |-> genStatus, count |-> genCount, runs |-> genRuns]

GenAnswer(question, answer) == Len(genAsked) < MaxAsked /\ genAsked' = Append(genAsked, <<question, answer>>)

generator_has_next ==
  LET next == _generator_next
  IN /\ genStatus' = next.status /\ genCount' = next.count /\ genRuns' = next.runs
     /\ GenAnswer("has_next", next.status.code = "ErrorYield")
     /\ UNCHANGED <<genBody, genDrawn>>

\* A value is given once; the end is given again and again.
generator_next ==
  LET next == _generator_next
      yields == next.status.code = "ErrorYield"
  IN /\ genCount' = next.count /\ genRuns' = next.runs
     /\ GenAnswer("next", yields)
     /\ \/ yields /\ genStatus' = NoStatus /\ genDrawn' = Append(genDrawn, next.status.value)
        \/ ~yields /\ genStatus' = next.status /\ UNCHANGED genDrawn
     /\ UNCHANGED genBody

\* The value that was looked at and not drawn yet is lost.
generator_interrupt ==
  /\ genStatus' = [code |-> "ErrorExhausted", value |-> 0]
  /\ GenAnswer("stop", TRUE)
  /\ UNCHANGED <<genBody, genCount, genRuns, genDrawn>>

GeneratorsInit ==
  /\ genBody \in Bodies
  /\ genCount = 0 /\ genStatus = NoStatus /\ genRuns = 0 /\ genDrawn = <<>> /\ genAsked = <<>>

GeneratorsNext == generator_has_next \/ generator_next \/ generator_interrupt
-----------------------------------------------------------------------------
\* What is counted before the first yield of the function.
Counts ==
  LET yield == SelectInSeq(genBody, LAMBDA s : s = "yield")
  IN Len(SelectSeq(SubSeq(genBody, 1, yield), LAMBDA s : s = "count"))

(* generator.c:96, :128 -- however often somebody looks before drawing,    *)
(* the function runs once for each value and once more to end: the i-th    *)
(* value drawn is what the i-th run from the beginning gives, a value that *)
(* was announced is the one drawn next, a function that does not yield any *)
(* more is never run again, and it ends only where it raises, exits or has *)
(* counted enough.                                                         *)
GeneratorGivesAll ==
  /\ genRuns \in Len(genDrawn) .. Len(genDrawn) + 1
  /\ genStatus = NoStatus => genRuns = Len(genDrawn)
  /\ \A i \in DOMAIN genDrawn : genDrawn[i] = i * Counts
  /\ Len(genDrawn) = Len(SelectSeq(genAsked, LAMBDA a : a = <<"next", TRUE>>))
  /\ \A i \in 1 .. Len(genAsked) - 1 :
       /\ genAsked[i] = <<"has_next", TRUE>> /\ genAsked[i + 1][1] # "stop" => genAsked[i + 1][2]
       /\ ~genAsked[i][2] /\ genAsked[i + 1][1] # "stop" => ~genAsked[i + 1][2]
  /\ genStatus.code = "ErrorYield" => genStatus.value = genRuns * Counts
  /\ genStatus.code = "ErrorReturn" /\ Contains(genBody, "yield") => genRuns * Counts >= CountedTo

(* test/generator.obl:1 -- a function that yields what it counts, and      *)
(* counts on behind its yield, goes through the numbers: no value comes    *)
(* twice.                                                                  *)
GeneratorGoesOn ==
  genBody = <<"stop", "yield", "count">> => IsInjective(genDrawn)
-----------------------------------------------------------------------------
(* The ranges from ~ to of the language (src/lib/range.c).  A range is its *)
(* own iterator: a second loop over it starts the first one again.         *)
CONSTANTS Lowest, Highest   \* bound: the atoms a range is made of

ASSUME RangeAssumption == Lowest \in Int /\ Highest \in Int

VARIABLES
  range,     \* [from, to, direction, next]
  loops,     \* the loops over it that are running
  drawn      \* the atoms the range has returned since its last range_iter

rangeVars == <<range, loops, drawn>>

NoNext == Highest + 2

_range_new(from, to) ==
  [from |-> from, to |-> to, direction |-> IF from <= to THEN 1 ELSE -1, next |-> NoNext]

RangesInit ==
  /\ range \in {_range_new(from, to) : from, to \in Lowest .. Highest}
  /\ loops = 0
  /\ drawn = <<>>

\* Wrong: an iteration would go on where the last one stopped.
IterKeepsNext ==
  /\ loops < 2
  /\ range' = IF range.next = NoNext THEN [range EXCEPT !.next = range.from] ELSE range
  /\ loops' = loops + 1
  /\ drawn' = <<>>

(* At most two loops over the same range are modelled.                     *)
range_iter ==
  /\ loops < 2
  /\ range' = [range EXCEPT !.next = range.from]
  /\ loops' = loops + 1
  /\ drawn' = <<>>

range_has_next ==
  /\ range.next # NoNext
  /\ IF range.direction = 1 THEN range.next < range.to ELSE range.next > range.to

range_next ==
  /\ loops > 0 /\ range_has_next
  /\ drawn' = Append(drawn, range.next)
  /\ range' = [range EXCEPT !.next = @ + range.direction]
  /\ UNCHANGED loops

(* A loop that finds no next element ends.                                 *)
RangeLoopEnds ==
  /\ loops > 0 /\ ~range_has_next
  /\ loops' = loops - 1
  /\ UNCHANGED <<range, drawn>>

RangesNext == range_iter \/ range_next \/ RangeLoopEnds

RangesSpec == RangesInit /\ [][RangesNext]_rangeVars
-----------------------------------------------------------------------------
(* range.c:121, :133 -- a loop over a range, up or down, has drawn every   *)
(* atom from the first up to the last, which is left out, when it ends.    *)
LoopDrawsRange ==
  loops > 0 /\ ~range_has_next =>
    drawn = [i \in 1 .. range.direction * (range.to - range.from)
               |-> range.from + range.direction * (i - 1)]
=============================================================================
