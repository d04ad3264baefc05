------------------------------- MODULE MCLibrary -------------------------------
(***************************************************************************)
(* What the virtual machine is built on, and what it is started by: each   *)
(* part is a unit of its own, and a behaviour of this module is one of the *)
(* unit it has chosen.                                                     *)
(***************************************************************************)
EXTENDS Library, Array, Names, Types, Numbers,
        Iterating, Serialize, Dates, Streams, Kernel, Lexer, Language

VARIABLE unit

UpTo(alphabet, n) == UNION {[1 .. k -> alphabet] : k \in 0 .. n}

\* Two keys of the same bucket until there are eight, and one beside them.
DictHash == <<3, 7, 2>>

\* Two pointers to equal values.
Equal == <<"a", "a", "b", "c">>

\* 0 1 . e x +   / * # a newline   " \ n a   a b c space   and a character that is not ASCII
TextsRead ==
  UpTo({48, 49, 46, 101, 120, 43}, 3)
  \cup {<<49>> \o cs : cs \in UpTo({49, 46, 101, 43}, 3)} \cup {<<48, 88, 65>>, <<49, 69, 49>>}
  \cup UpTo({47, 42, 35, 10}, 3)
  \cup {<<47, 42>> \o cs : cs \in UpTo({47, 42, 97}, 4)}
  \cup {<<34>> \o cs : cs \in UpTo({34, 39, 92, 110}, 3)}
  \cup UpTo({97, 98, 99}, 4)
  \cup UpTo({97, 48, 32, 13, 10}, 3)
  \cup UpTo({97, 47, 42, -61}, 3)

\* ab, abab and abc: one extends another by two characters, one by one.
KeywordsRead == {<<97, 98>>, <<97, 98, 97, 98>>, <<97, 98, 99>>}

MarkersRead == <<
  [start |-> <<47, 42>>, end |-> <<42, 47>>, hashpling |-> FALSE],
  [start |-> <<47, 47>>, end |-> <<>>, hashpling |-> FALSE],
  [start |-> <<35>>, end |-> <<>>, hashpling |-> TRUE]>>

ConfiguredInOrder ==
  <<"whitespace", "keyword", "identifier", "number", "qstring", "comment">>

\* The table of exception.c: 15 stands behind 16, and 11 and 12 are not there.
TableListed == <<1, 2, 3, 4, 5, 6, 7, 8, 9, 10, 13, 14, 16, 15, 17, 18, 19, 20, 21, 22>>

ShapesOfTypes == {[fncs |-> {"New"}, methods |-> {"m"}], [fncs |-> {"Iter"}, methods |-> {}],
                  [fncs |-> {"New", "Iter"}, methods |-> {"k"}]}
FncsOfInterfaces == <<{"Iter"}, {}, {"Iter"}>>
MethodsOfInterfaces == <<{"m"}, {"k"}, {}>>

\* One type with two bases, and what each of the three may have of an attribute.
BasesOfAtoms == [t \in AtomTypes |-> IF t = "T" THEN <<"A", "B">> ELSE <<>>]
ShapesOfAtoms == {
  [accessors |-> {"x"}, locals |-> {"y"}, methods |-> {}],
  [accessors |-> {}, locals |-> {"x"}, methods |-> {"x", "y"}]}
ShapesOfMethods == {
  m \in [minargs : 0 .. 2, maxargs : {0, 2}, varargs : BOOLEAN,
         argtypes : {<<"Int", "String", "NoType">>, <<"Any", "NoType", "NoType">>,
                     <<"Int", "Any", "Any">>, <<"Int", "Int", "String">>}] :
    /\ m.minargs <= Cardinality({i \in 1 .. 3 : m.argtypes[i] # "NoType"})
    /\ m.maxargs # 0 => m.maxargs >= m.minargs}
BoolIsInt == <<"Bool", "Int">>

ItemsDelivered == UpTo({<<"x">>, <<"y">>, <<"raise">>, <<"fail">>, <<"broken">>}, 4)
Zero == <<"0">>

\* Functions that count, yield and stop, in any order, or raise or exit at their end.
GeneratorBodies ==
  UpTo({"count", "stop", "yield"}, 3)
  \cup {Append(body, end) : body \in UpTo({"count", "yield"}, 2), end \in {"raise", "exit"}}

\* main defines outer(p), and outer defines inner().
ScriptFunctions == {"main", "outer", "inner"}
DefinedIn == [s \in ScriptFunctions |-> CASE s = "main" -> "no function" [] s = "inner" -> "outer" [] OTHER -> "main"]
FormalParams == [s \in ScriptFunctions |-> IF s = "outer" THEN <<"p">> ELSE <<>>]

\* The root, sys, and a package a with a module b in it, which import each other as they may.
ModuleNames == {<<>>, <<"sys">>, <<"a">>, <<"a", "b">>}
SysName == <<"sys">>
UserDir == <<"user">>
DisksRead ==
  LET File(imports, fs, as, ends) ==
        [kind |-> "file", imports |-> imports, functions |-> fs, assigns |-> as, ends |-> ends]
      Directory == [NoFile EXCEPT !.kind = "directory"]
  IN {[d \in {"share", "user"} |-> [n \in ModuleNames |->
         CASE n = <<>> /\ d = "share" -> File({}, rf, {}, re)
           [] n = <<"sys">> /\ d = "share" -> File(IF sf THEN {<<"a">>} ELSE {}, {"f"}, {"v"}, "whole")
           [] n = <<"a">> /\ d = "user" -> File(ia, {"f"}, {"v"}, ea)
           [] n = <<"a">> /\ d = "share" -> IF sf THEN File({}, {}, {"w"}, "whole") ELSE Directory
           [] n = <<"a", "b">> /\ d = "user" -> IF mb THEN File(ib, {"v"}, {"w"}, eb) ELSE Directory
           [] OTHER -> NoFile]] :
        sf, mb \in BOOLEAN, rf \in {{}, {"b"}}, re \in {"whole", "raises", "broken"},
        ia \in SUBSET {<<"a", "b">>, <<"a">>, <<"sys">>}, ib \in SUBSET {<<"a">>, <<"sys">>},
        ea \in {"whole", "raises", "broken"}, eb \in {"whole", "raises"}}

TextsOfFiles ==
  UpTo({"a", "newline"}, 3) \cup UpTo({"a", "newline", "cntrl"}, 2)
  \cup {<<"a", "cntrl", "newline">>, <<"a", "not ascii", "newline", "a">>}

WordsGiven ==
  {<<"long", "grammar">>, <<"long", "port">>, <<"long", "files">>, <<"long", "nosuch">>,
   <<"short", <<"list">>>>, <<"short", <<"list", "port">>>>,
   <<"word", "w">>, <<"ends", "--">>, <<"help", "">>, <<"logging", "debug">>}
LinesGiven ==
  UpTo(WordsGiven, 2)
  \cup {<<<<"long", "files">>, <<"word", "w">>, <<"word", "w">>, <<"short", <<"list">>>>, <<"word", "w">>>>}
FlagsOfOptions == ("grammar" :> "required") @@ ("list" :> "none") @@ ("port" :> "optional") @@ ("files" :> "many")
ScriptsRun == {<<"value", 0>>, <<"exit", 1>>, <<"exception", 4>>}

vars == <<unit, listVars, dictVars, arrayVars, setVars, rangeVars, nameVars, exVars, handlerVars,
          typeVars, numVars, resVars, itVars, genVars, serVars, dateVars, scopeVars, moduleVars,
          streamVars, kernelVars, strVars, lexVars, langVars, treeVars, dataListVars>>

(* A unit that was not chosen stays in one of its initial states.          *)
Init ==
  /\ unit \in {"list", "dict", "array", "set", "range", "name", "exception", "handler", "type",
               "number", "attribute", "iterator", "generator", "text", "date", "scope", "module",
               "stream", "kernel", "str", "lexer", "language", "tree", "datalist"}
  /\ ListInit /\ DictInit /\ SetsInit /\ NamesInit /\ ExceptionsInit /\ TypesInit /\ NumbersInit
  /\ DatesInit /\ ScopesInit /\ TreeInit /\ DataListInit
  /\ ArrayInit /\ (unit # "array" => slots = <<>> \/ Len(slots) = 1)
  /\ RangesInit /\ (unit # "range" => range.from = Lowest /\ range.to = Lowest)
  /\ (unit # "handler" => handlers = [n \in HandlerNames |-> "absent"]) /\ HandlersInit
  /\ (unit # "attribute" => shape = [t \in AtomTypes |-> CHOOSE s \in ResolvingShapes : TRUE]) /\ ResolvingInit
  /\ (unit # "generator" => genBody = <<>>) /\ GeneratorsInit
  /\ IF unit = "iterator" THEN IteratingInit
     ELSE itKind = "plain" /\ itItems = <<>> /\ itHow = "visit" /\ IteratingStart
  /\ IF unit = "text" THEN SerializeInit
     ELSE serValue = NoText /\ serText = NoText /\ serGot = NoText
  /\ IF unit = "stream" THEN StreamsInit ELSE fileText = <<>> /\ StreamsStart
  /\ IF unit = "kernel" THEN KernelInit ELSE words = <<>> /\ tty = FALSE /\ ApplicationStart /\ KernelStart
  /\ IF unit = "str" THEN StrInit ELSE edited = str_create(2) /\ StrStart
  /\ IF unit = "lexer" THEN LexInit ELSE lexText = <<>> /\ lexReader = "string" /\ LexStart
  /\ IF unit = "module" THEN ModulesInit
     ELSE disk = [d \in {SysDir, UserPath[1]} |-> [n \in ModuleNames |-> NoFile]] /\ ModulesStart
  /\ IF unit = "language" THEN LangInit
     ELSE /\ written = Unwritten
          /\ GrammarInit /\ GrammarParserInit(<<>>) /\ ParserInit

Next ==
  /\ UNCHANGED unit
  /\ IF unit = "list" THEN ListNext ELSE UNCHANGED listVars
  /\ IF unit = "dict" THEN DictNext ELSE UNCHANGED dictVars
  /\ IF unit = "array" THEN ArrayNext ELSE UNCHANGED arrayVars
  /\ IF unit = "set" THEN SetsNext ELSE UNCHANGED setVars
  /\ IF unit = "range" THEN RangesNext ELSE UNCHANGED rangeVars
  /\ IF unit = "name" THEN NamesNext ELSE UNCHANGED nameVars
  /\ IF unit = "exception" THEN ExceptionsNext ELSE UNCHANGED exVars
  /\ IF unit = "handler" THEN HandlersNext ELSE UNCHANGED handlerVars
  /\ IF unit = "type" THEN TypesNext ELSE UNCHANGED typeVars
  /\ IF unit = "number" THEN NumbersNext ELSE UNCHANGED numVars
  /\ IF unit = "attribute" THEN ResolvingNext ELSE UNCHANGED resVars
  /\ IF unit = "iterator" THEN IteratingNext ELSE UNCHANGED itVars
  /\ IF unit = "generator" THEN GeneratorsNext ELSE UNCHANGED genVars
  /\ IF unit = "text" THEN SerializeNext ELSE UNCHANGED serVars
  /\ IF unit = "date" THEN DatesNext ELSE UNCHANGED dateVars
  /\ IF unit = "scope" THEN ScopesNext ELSE UNCHANGED scopeVars
  /\ IF unit = "module" THEN ModulesNext ELSE UNCHANGED moduleVars
  /\ IF unit = "stream" THEN StreamsNext ELSE UNCHANGED streamVars
  /\ IF unit = "kernel" THEN KernelNext ELSE UNCHANGED kernelVars
  /\ IF unit = "str" THEN StrNext ELSE UNCHANGED strVars
  /\ IF unit = "lexer" THEN LexNext ELSE UNCHANGED lexVars
  /\ IF unit = "language" THEN LangNext ELSE UNCHANGED langVars
  /\ IF unit = "tree" THEN TreeNext ELSE UNCHANGED treeVars
  /\ IF unit = "datalist" THEN DataListNext ELSE UNCHANGED dataListVars

(* One thread does it all: it goes on while there is a step to take.       *)
OneThread ==
  /\ WF_lexTurn(unit = "lexer" /\ LexTurns)
  /\ WF_gramVisited(unit = "language" /\ Visits)
  /\ WF_langVars(unit = "language" /\ Bounded(Reads))
  /\ WF_langVars(unit = "language" /\ Bounded(Sums))
  /\ WF_langVars(unit = "language" /\ Bounded(Parses))
  /\ WF_moduleVars(unit = "module" /\ Imports)
  /\ WF_itVars(unit = "iterator" /\ IterTurn)

Spec == Init /\ [][Next]_vars /\ OneThread

LanguageSpec == unit = "language" /\ Init /\ [][Next]_vars /\ OneThread

GeneratorSpec == unit = "generator" /\ Init /\ [][Next]_vars

-----------------------------------------------------------------------------
(* list.c:88, dict.c:437, array.c:96 -- the representations hold together: *)
(* a list is one chain from its head to its tail, an entry of a dictionary *)
(* is in the bucket of its hash and there once, and every element an array *)
(* has taken is in one slot, or was freed.  The same of the tables above   *)
(* them: typedescr.c:564, name.c:67, exception.c:97 -- what is cached of a *)
(* type, a name or the codes of the exceptions is what would be computed;  *)
(* and hierarchy.c:199 -- a tree of names holds the names that were put in.*)
StructuresHold ==
  CASE unit = "list" -> ListsLinked
    [] unit = "dict" -> DictTable
    [] unit = "array" -> ArrayOwnsElements
    [] unit = "type" -> FlatIsWalk /\ InterfacesKept
    [] unit = "name" -> PrintedAsTheyAre
    [] unit = "tree" -> TreeHoldsNames
    [] unit = "exception" -> CodesStay
    [] OTHER -> TRUE

(* dict.c:838, array.c:144, set.c:93, range.c:115 -- what is computed from *)
(* a container is right: a sweep over a dictionary finds every entry, the  *)
(* slices of an array join to the array, sets compare the values and not   *)
(* the pointers, and a loop over a range draws its numbers once each.      *)
(* data.c:906, generator.c:128 -- a reduction is the fold of what an       *)
(* iterator delivers, and a generator gives what the runs of its function  *)
(* yield, one run for each value and in order, however often it is asked.  *)
(* datalist.c:342, :140 -- so does an iterator over a list of values that  *)
(* is being changed behind it, and lists compare by their values.          *)
AnswersAreRight ==
  CASE unit = "dict" -> SweepIsComplete
    [] unit = "array" -> SlicesJoin
    [] unit = "datalist" -> ListIterDelivers /\ ListsCompare
    [] unit = "set" -> SetsAreByValue
    [] unit = "range" -> LoopDrawsRange
    [] unit = "iterator" -> ReduceIsFold
    [] unit = "generator" -> GeneratorGivesAll
    [] OTHER -> TRUE


(* file.c:460, obelix.c:375, application.c:160 -- what comes in and goes   *)
(* out: the lines of a stream are those of its text, print tells whether   *)
(* all was written, the prompt tells whether a statement is open, every    *)
(* word of the command line is used once, and a script that has run no     *)
(* other one finds its loader when it mounts.                              *)
DialogsTellTruth ==
  CASE unit = "stream" -> LinesAreTheText /\ PrintTellsTruth
    [] unit = "kernel" -> PromptTellsTruth /\ KernelHolds
    [] OTHER -> TRUE

(* lexer.c:316 -- every text ends: each turn of the loop takes at least    *)
(* one character, and the last token says that there are no more.          *)
(* namespace.c:383, data.c:906 -- an import ends, however the modules      *)
(* import each other, and so does a reduction over what is finite.         *)
LoopsEnd ==
  /\ unit = "lexer" => EveryTextEnds
  /\ unit = "module" => EveryImportEnds
  /\ unit = "iterator" => ReductionsEnd
=============================================================================
