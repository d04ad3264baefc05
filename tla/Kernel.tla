--------------------------------- MODULE Kernel ---------------------------------
(***************************************************************************)
(* application.c: the command line is read, option by option, into what is *)
(* set in the application and what is left as its arguments.  Below,       *)
(* obelix.c and what loader.c does for it: the program becomes a server,   *)
(* the run of a script or a prompt.  It has one script loader, found under *)
(* the program's own cookie, which is the kernel of the thread that runs.  *)
(***************************************************************************)
EXTENDS Integers, Sequences, SequencesExt, FiniteSets, Folds

CONSTANTS
  CommandLines,   \* what may follow the name of the program: sequences of words
  OptionFlags,    \* the options: whether their argument is "none", "optional", "required" or "many"
  Strict          \* the options whose setter may refuse a value

(* A word is <<"long", option>>, <<"short", options>>, <<"word", w>>,      *)
(* <<"ends", "--">>, <<"help", "">>, or, with a word of their own,         *)
(* <<"logging", "debug" or "loglevel" or "logfile">>.                      *)
VARIABLES
  words,          \* argv, without the name of the program
  wordAt,         \* ix
  appPhase,       \* "options", "arguments", "read", or "help" that ends the process
  appError,       \* app -> error
  switches,       \* the options set to true among the keyword arguments
  optArgs,        \* what the setters accepted: <<option, index of a word>>
  appArgs,        \* args -> args: the indices of the words left
  optionWords     \* history: the words that were read as options
appVars == <<words, wordAt, appPhase, appError, switches, optArgs, appArgs, optionWords>>

Words == DOMAIN words
Dashed(ix) == words[ix][1] # "word"

\* Wrong: the argument of an option would be read again.
LeavesItsArgument(s, opt, refused) ==
  IF s.at = Len(words) \/ (words[s.at][1] = "short" /\ Len(words[s.at][2]) > 1) \/ OptionFlags[opt] = "none"
  THEN [s EXCEPT !.switches = @ \cup {opt}]
  ELSE IF Dashed(s.at + 1) THEN [s EXCEPT !.switches = @ \cup {opt}]
  ELSE [s EXCEPT !.args = @ \cup (({opt} \ refused) \X {s.at + 1}), !.error = (opt \in refused)]

(* Reads the argument, if there is one: last on the line, before another   *)
(* option and in a sequence of letters even one that requires an argument  *)
(* is set to true.  The words of "many" go on up to the next option.  The  *)
(* setter may refuse what it is given.                                     *)
_app_parse_option(s, opt, refused) ==
  IF s.at = Len(words) \/ (words[s.at][1] = "short" /\ Len(words[s.at][2]) > 1) \/ OptionFlags[opt] = "none"
  THEN [s EXCEPT !.switches = @ \cup {opt}]
  ELSE IF Dashed(s.at + 1) THEN [s EXCEPT !.switches = @ \cup {opt}]
  ELSE LET more == {j \in s.at + 1 .. Len(words) : \A i \in s.at + 1 .. j : ~Dashed(i)}
           taken == IF OptionFlags[opt] = "many" THEN more ELSE {s.at + 1}
       IN [s EXCEPT !.at = @ + Cardinality(taken), !.args = @ \cup (({opt} \ refused) \X taken), !.error = (opt \in refused)]

_app_find_longopt(opt) == opt \in DOMAIN OptionFlags

\* The letters of a word, up to the first that is in error.
Letters(s, letters, refused) ==
  FoldLeft(LAMBDA r, opt :
             CASE r.error -> r
               [] ~_app_find_longopt(opt) -> [r EXCEPT !.error = TRUE]
               [] Len(letters) > 1 /\ OptionFlags[opt] = "required" -> [r EXCEPT !.error = TRUE]
               [] OTHER -> _app_parse_option(r, opt, refused),
           s, letters)

\* What becomes of [at, switches, args, error] with the word at hand.
OptionRead(s, refused) ==
  LET word == words[s.at]
  IN CASE word[1] = "long" /\ ~_app_find_longopt(word[2]) -> [s EXCEPT !.error = TRUE]
       [] word[1] = "long" /\ _app_find_longopt(word[2]) -> _app_parse_option(s, word[2], refused)
       [] word[1] = "short" -> Letters(s, word[2], refused)
       [] word[1] = "logging" -> IF s.at < Len(words)
                                 THEN [s EXCEPT !.at = @ + 1, !.args = @ \cup {<<word[2], s.at + 1>>}]
                                 ELSE [s EXCEPT !.error = TRUE]

_application_parse_args ==
  /\ appPhase = "options"
  /\ IF wordAt > Len(words) \/ appError \/ ~Dashed(wordAt)
     THEN appPhase' = "arguments" /\ UNCHANGED <<wordAt, appError, switches, optArgs, optionWords>>
     ELSE /\ optionWords' = optionWords \cup {wordAt}
          /\ CASE words[wordAt][1] = "help" ->
                    appPhase' = "help" /\ UNCHANGED <<wordAt, appError, switches, optArgs>>
               [] words[wordAt][1] = "ends" ->
                    appPhase' = "arguments" /\ wordAt' = wordAt + 1 /\ UNCHANGED <<appError, switches, optArgs>>
               [] OTHER ->
                    \E refused \in SUBSET Strict :
                      \E s \in {OptionRead([at |-> wordAt, switches |-> switches, args |-> optArgs, error |-> FALSE], refused)} :
                        /\ wordAt' = s.at + 1 /\ switches' = s.switches /\ optArgs' = s.args /\ appError' = s.error
                        /\ UNCHANGED appPhase
  /\ UNCHANGED <<words, appArgs>>

\* What is left are the arguments; none after an error.
ArgumentsRead ==
  /\ appPhase = "arguments" /\ appPhase' = "read"
  /\ appArgs' = IF appError THEN <<>> ELSE [i \in 1 .. Len(words) - wordAt + 1 |-> wordAt + i - 1]
  /\ UNCHANGED <<words, wordAt, appError, switches, optArgs, optionWords>>

ApplicationStart ==
  /\ wordAt = 1 /\ appPhase = "options" /\ appError = FALSE
  /\ switches = {} /\ optArgs = {} /\ appArgs = <<>> /\ optionWords = {}

ApplicationInit == words \in CommandLines /\ ApplicationStart

ApplicationNext == _application_parse_args \/ ArgumentsRead
-----------------------------------------------------------------------------
(* application.c:160, 234 -- every word of a command line that is read     *)
(* without an error is used exactly once: as an option, as the argument of *)
(* the option before it, or as an argument of the program, in their order. *)
WordsUsedOnce ==
  appPhase = "read" /\ ~appError =>
    /\ \A i \in Words : Cardinality({1 : x \in optionWords \cap {i}} \cup {2 : x \in {a \in optArgs : a[2] = i}}
                                      \cup {3 : x \in ToSet(appArgs) \cap {i}}) = 1
    /\ \A a, b \in optArgs : a[2] = b[2] => a = b
    /\ \A i, j \in DOMAIN appArgs : i < j => appArgs[i] < appArgs[j]
-----------------------------------------------------------------------------

CONSTANTS
  Scripts,        \* what scripts end in: <<"value" or "exit" or "exception", number>>
  MaxLines,       \* bound: lines typed at the prompt
  MaxRuns         \* bound: scripts that run inside one another

VARIABLES
  role,           \* "starts", "server", "script", "prompt" or "ended"
  tty,            \* whether the prompt is shown at all
  prompt,         \* the prompt the next line is typed at: "", "PS1", "PS2"
  rootParser,     \* root -> parser: [kept, depth, lines, broken]
  typed,          \* lines read so far; the init file is line 0
  evaluated,      \* history: the lines that were executed, in order
  upset,          \* history: a line was refused, or the init file ended in a statement
  runs,           \* scripts of obelix_run under way, inside one another
  ownLoader,      \* whether there is one under the program's cookie
  kernel,         \* whether it is the kernel of the thread
  mounts,         \* history: what mount answered: <<runs that had ended inside, answer>>
  status          \* what the process leaves, -1 while it runs
kernelVars == <<appVars, role, tty, prompt, rootParser, typed, evaluated, upset, runs, ownLoader, kernel, mounts, status>>

NoParser == [kept |-> FALSE, depth |-> 0, lines |-> <<>>, broken |-> FALSE]
promptVars == <<tty, prompt, rootParser, typed, evaluated, upset>>
loaderVars == <<ownLoader, kernel>>
-----------------------------------------------------------------------------
\* Found, or new: a new loader makes itself the kernel of the thread.
obelix_get_loader == ownLoader' = TRUE /\ kernel' = (kernel \/ ~ownLoader)

\* The exit status is the number the script ends in, cut to a byte by the system.
ExitStatus(end) == CASE end[1] = "exception" -> (0 - end[2]) % 256 [] OTHER -> end[2] % 256

(* An error in the command line is shown and not looked at again: a port   *)
(* accepted before it makes a server.  Without one there is a prompt, as   *)
(* the words that are left are not among the arguments then.               *)
obelix_initialize ==
  /\ role = "starts" /\ appPhase = "read"
  /\ role' = IF \E a \in optArgs : a[1] = "port" THEN "server" ELSE IF appArgs # <<>> THEN "script" ELSE "prompt"
  /\ UNCHANGED <<appVars, promptVars, runs, loaderVars, mounts, status>>

ReadsCommandLine ==
  /\ role = "starts" /\ ApplicationNext
  /\ IF appPhase' = "help" THEN role' = "ended" /\ status' = 1 ELSE UNCHANGED <<role, status>>
  /\ UNCHANGED <<promptVars, runs, loaderVars, mounts>>
-----------------------------------------------------------------------------
\* Wrong: a loader that was found would not become the kernel again.
KernelOfTheFirst ==
  /\ role = "script" /\ runs.depth < MaxRuns /\ runs.started < MaxRuns
  /\ runs' = [runs EXCEPT !.depth = @ + 1, !.started = @ + 1, !.inner = FALSE]
  /\ obelix_get_loader
  /\ UNCHANGED <<appVars, role, promptVars, mounts, status>>

(* A script is run by the program, and by the scripts it runs.             *)
obelix_run ==
  /\ role = "script" /\ runs.depth < MaxRuns /\ runs.started < MaxRuns
  /\ runs' = [runs EXCEPT !.depth = @ + 1, !.started = @ + 1, !.inner = FALSE]
  /\ ownLoader' = TRUE /\ kernel' = TRUE   \* scriptloader_run makes it the kernel
  /\ UNCHANGED <<appVars, role, promptVars, mounts, status>>

\* However it ends the thread has no kernel then, whoever it was running for.
ScriptEnds ==
  /\ role = "script" /\ runs.depth > 0 /\ runs' = [runs EXCEPT !.depth = @ - 1, !.inner = (runs.depth > 1)]
  /\ kernel' = FALSE
  /\ \E end \in Scripts :
       IF runs.depth = 1 THEN role' = "ended" /\ status' = ExitStatus(end) ELSE UNCHANGED <<role, status>>
  /\ UNCHANGED <<appVars, promptVars, ownLoader, mounts>>

_obelix_mount ==
  /\ role = "script" /\ runs.depth > 0
  /\ mounts' = mounts \cup {<<runs.inner, IF kernel THEN "mounted" ELSE "no loader">>}
  /\ UNCHANGED <<appVars, role, promptVars, runs, loaderVars, status>>
-----------------------------------------------------------------------------
(* A reader is parsed by the parser of the root module, new or left over.  *)
(* Line by line: it is refused, at some depth of statements, and what was  *)
(* compiled of it stays; or read.  A parser that refused a line reads the  *)
(* next ones from where it stood, and may take nothing from them.          *)
scriptloader_load_fromreader(line) ==
  LET p == [rootParser EXCEPT !.kept = TRUE]
  IN {[parser |-> [p EXCEPT !.depth = d, !.lines = IF taken THEN Append(@, line) ELSE @, !.broken = TRUE], error |-> TRUE]
        : d \in 0 .. 1, taken \in BOOLEAN}
     \cup {[parser |-> [p EXCEPT !.depth = d, !.lines = IF taken THEN Append(@, line) ELSE @], error |-> FALSE]
        : d \in 0 .. 1, taken \in IF p.broken THEN BOOLEAN ELSE {TRUE}}

\* Wrong: the parser of a line that was executed would go on with the next.
KeepsItsParser(read) == read.parser

\* The parser stays after an error and inside of a statement.
ParserLeft(read) == IF read.error \/ read.parser.depth > 0 THEN read.parser ELSE NoParser

\* What eval answers: NULL inside of a statement, else an error or how the script ended.
scriptloader_eval(line, then(_)) ==
  \E read \in scriptloader_load_fromreader(line) :
    /\ rootParser' = ParserLeft(read)
    /\ upset' = (upset \/ read.error \/ (line = 0 /\ read.parser.depth > 0))
    /\ evaluated' = IF read.error \/ read.parser.depth > 0 THEN evaluated ELSE evaluated \o read.parser.lines
    /\ \E answer \in CASE read.error -> {<<"exception", 1>>}
                       [] read.parser.depth > 0 -> {<<"NULL", 0>>}
                       [] OTHER -> Scripts \cup {<<"null", 0>>} :
         then(answer)

\* The init file, if there is one, is one text; what it answers goes nowhere.
scriptloader_source_initfile ==
  /\ role = "prompt" /\ ~ownLoader
  /\ obelix_get_loader
  /\ prompt' = IF tty THEN "PS1" ELSE ""
  /\ \/ UNCHANGED <<rootParser, upset, evaluated>>
     \/ scriptloader_eval(0, LAMBDA answer : TRUE)
  /\ UNCHANGED <<appVars, role, tty, typed, runs, mounts, status>>

\* The loop ends at an exit, of which the status is kept.
_obelix_interactive ==
  /\ role = "prompt" /\ ownLoader /\ typed < MaxLines /\ typed' = typed + 1
  /\ scriptloader_eval(typed', LAMBDA answer :
       /\ prompt' = IF answer[1] = "exit" THEN prompt
                    ELSE IF answer[1] = "NULL" /\ tty THEN "PS2" ELSE IF tty THEN "PS1" ELSE ""
       /\ IF answer[1] = "exit" THEN role' = "ended" /\ status' = ExitStatus(answer) ELSE UNCHANGED <<role, status>>)
  /\ UNCHANGED <<appVars, tty, runs, loaderVars, mounts>>

\* An empty line is not evaluated: nothing changes.  At the end of the text
\* the last answer is looked at again, and it is gone: the process may be too.
EndOfInput ==
  /\ role = "prompt" /\ ownLoader /\ role' = "ended"
  /\ status' \in IF typed = 0 THEN {0} ELSE {0, 134}
  /\ UNCHANGED <<appVars, promptVars, runs, loaderVars, mounts>>
-----------------------------------------------------------------------------
\* The modules it begins with cannot be loaded.
NoLoader ==
  /\ role \in {"script", "prompt"} /\ ~ownLoader
  /\ role' = "ended" /\ status' = ExitStatus(<<"exception", 4>>)   \* ErrorInternalError
  /\ UNCHANGED <<appVars, promptVars, runs, loaderVars, mounts>>
-----------------------------------------------------------------------------
KernelStart ==
  /\ role = "starts" /\ prompt = "" /\ rootParser = NoParser
  /\ typed = 0 /\ evaluated = <<>> /\ upset = FALSE /\ runs = [depth |-> 0, started |-> 0, inner |-> FALSE]
  /\ ownLoader = FALSE /\ kernel = FALSE /\ mounts = {} /\ status = -1

KernelInit == ApplicationInit /\ tty \in BOOLEAN /\ KernelStart

KernelNext ==
  \/ ReadsCommandLine \/ obelix_initialize \/ obelix_run \/ ScriptEnds \/ _obelix_mount
  \/ scriptloader_source_initfile \/ _obelix_interactive \/ EndOfInput \/ NoLoader
-----------------------------------------------------------------------------
(* obelix.c:375, loader.c:572 -- as long as no line was refused and the    *)
(* init file ended with its last statement, the second prompt asks for the *)
(* rest of a statement and the first one for a new one; and every line     *)
(* that was typed was executed once, in order, or waits for that rest.     *)
PromptTellsTruth ==
  ~upset =>
    /\ role = "prompt" /\ prompt = "PS2" => rootParser.depth > 0
    /\ role = "prompt" /\ prompt = "PS1" => ~rootParser.kept
    /\ LET lines == SelectSeq(evaluated \o rootParser.lines, LAMBDA l : l > 0) IN lines = [i \in 1 .. typed |-> i]

(* obelix.c:321, loader.c:559 -- a script that has run no other one can    *)
(* mount: the loader is the kernel of the thread, also when it was made    *)
(* for a script that has ended since.  After one it cannot.                *)
MountFindsLoader == \A m \in mounts : m[2] = "no loader" <=> m[1]

KernelHolds == WordsUsedOnce /\ MountFindsLoader
=============================================================================
