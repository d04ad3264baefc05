------------------------------- MODULE Modules -------------------------------
(***************************************************************************)
(* namespace.c and the part of loader.c that feeds it: modules are looked  *)
(* up, loaded and executed once, while the imports they make themselves    *)
(* are under way.  One thread imports; what two would do to the table, to  *)
(* which nobody holds a lock, is not modelled.                             *)
(***************************************************************************)
EXTENDS Integers, Sequences, SequencesExt, FiniteSets

CONSTANTS
  Modules,        \* the names, sequences of parts; <<>> is the root
  SysModule,      \* the name of the module the loader needs
  SysDir,         \* the directory every load path begins with
  UserPath,       \* the other directories, in their order
  NoModule,       \* no name of a module
  Disks           \* what the directories may hold: [directory -> [module -> entry]]

Directories == {SysDir} \cup ToSet(UserPath)

\* share/__init__.obl, the root, imports nothing.
ASSUME ModulesAssumption ==
  /\ <<>> \in Modules /\ SysModule \in Modules \ {<<>>} /\ NoModule \notin Modules
  /\ \A n \in Modules : n \in Seq(ToSet(n))
  /\ UserPath \in Seq(ToSet(UserPath))
  /\ \A d \in Disks : d[SysDir][<<>>].imports = {}
                     /\ \A dir \in Directories, n \in Modules : d[dir][n].imports \subseteq Modules

(* An entry is no file, a directory without __init__.obl, or a source: the *)
(* modules it imports, the names of its functions and of what it assigns,  *)
(* and how it ends: "whole", "raises" or, when it cannot be read, "broken".*)
NoFile == [kind |-> "none", imports |-> {}, functions |-> {}, assigns |-> {}, ends |-> "whole"]

VARIABLES
  disk,
  loadPath,
  modules,        \* name -> [state, obj, imports] of a module that is known
  importing,      \* the scripts of modules under way, the last one on top: [name, left, at]
  answer,         \* what an import that has just ended answers, "" while none has
  loader,         \* "root", "sys", "ready", "running" or "failed"
  loaded,         \* history: how often the script of a module was executed
  failures        \* history: the modules whose load failed
moduleVars == <<disk, loadPath, modules, importing, answer, loader, loaded, failures>>

Top == importing[Len(importing)]

\* Wrong: the script that has ended would stay on the stack.
Remains == importing

Returned == Front(importing)
-----------------------------------------------------------------------------
(* The first directory of the path that has the file, or a directory of    *)
(* that name with an __init__.obl.                                         *)
_scriptloader_open_reader(name) ==
  LET has == {i \in DOMAIN loadPath : disk[loadPath[i]][name].kind = "file"}
  IN IF has = {} THEN NoFile ELSE disk[loadPath[CHOOSE i \in has : \A j \in has : i <= j]][name]

Readable(name) ==
  LET e == _scriptloader_open_reader(name) IN e.kind = "file" /\ e.ends # "broken"

(* The object of a module: without constructor until its script has        *)
(* created one, which has the functions from the start and gets the rest   *)
(* while the script runs.                                                  *)
Attributes(name) ==
  LET e == _scriptloader_open_reader(name)
  IN CASE modules[name].obj = "none" -> {}
       [] modules[name].obj = "half" -> e.functions
       [] OTHER -> e.functions \cup e.assigns

Entered(name, state, obj, imports) ==
  modules' = [n \in DOMAIN modules \cup {name} |->
                IF n = name THEN [state |-> state, obj |-> obj, imports |-> imports] ELSE modules[n]]

\* Wrong: only what has run to its end would count as imported.
FindsActive(name) == name \in DOMAIN modules /\ modules[name].state = "Active"

(* A module that is still loading counts as imported.                      *)
Imported(name) == name \in DOMAIN modules /\ modules[name].state # "Uninitialized"

ns_get(name) == name \in DOMAIN modules /\ modules[name].obj # "none"

(* _ns_load: the module is in the table, and loading, before its source is *)
(* looked for.  A script that has no outer one imports the root first.     *)
_ns_load(name, stack) ==
  LET e == _scriptloader_open_reader(name)
  IN \/ /\ Readable(name)
        /\ Entered(name, "Loading", "half", {<<>>})
        /\ importing' = Append(stack, [name |-> name, left |-> e.imports, at |-> NoModule])
        /\ loaded' = [loaded EXCEPT ![name] = @ + 1]
        /\ UNCHANGED <<answer, failures>>
     \/ /\ ~Readable(name)
        /\ Entered(name, "Loading", "none", {})
        /\ importing' = stack /\ answer' = "exception"
        /\ failures' = failures \cup {name}
        /\ UNCHANGED loaded

_ns_import(name, stack) ==
  \/ /\ Imported(name)
     /\ importing' = stack /\ answer' = "module"
     /\ UNCHANGED <<modules, loaded, failures>>
  \/ ~Imported(name) /\ _ns_load(name, stack)

\* The frame on top has another name to wait for, or none.
Waits(name, left) == [importing EXCEPT ![Len(importing)] = [@ EXCEPT !.at = name, !.left = left]]

(* The script that runs imports the next module it names ...               *)
closure_import ==
  /\ importing # <<>> /\ Top.at = NoModule
  /\ \E name \in Top.left : _ns_import(name, Waits(name, Top.left \ {name}))
  /\ UNCHANGED <<disk, loadPath, loader>>

(* ... and goes on with the answer, unless it is an exception nobody       *)
(* catches.                                                                *)
mod_import ==
  /\ importing # <<>> /\ Top.at # NoModule /\ answer # ""
  /\ \/ /\ answer = "module"
        /\ modules' = [modules EXCEPT ![Top.name].imports = @ \cup {Top.at}]
        /\ importing' = Waits(NoModule, Top.left) /\ answer' = ""
        /\ UNCHANGED failures
     \/ /\ answer = "exception"
        /\ importing' = Waits(NoModule, Top.left) /\ answer' = ""
        /\ UNCHANGED <<modules, failures>>
     \/ /\ answer = "exception"
        /\ importing' = Returned
        /\ failures' = failures \cup {Top.name}
        /\ UNCHANGED <<modules, answer>>
  /\ UNCHANGED <<disk, loadPath, loader, loaded>>

(* Only a script that runs to its end makes the module active.  One that   *)
(* raises leaves it loading, with the object as far as it came.            *)
mod_set ==
  /\ importing # <<>> /\ Top.at = NoModule /\ Top.left = {}
  /\ LET name == Top.name
         whole == _scriptloader_open_reader(name).ends = "whole"
     IN /\ modules' = IF whole THEN [modules EXCEPT ![name] = [@ EXCEPT !.state = "Active", !.obj = "whole"]] ELSE modules
        /\ failures' = IF whole THEN failures ELSE failures \cup {name}
        /\ answer' = IF whole THEN "module" ELSE "exception"
  /\ importing' = Returned
  /\ UNCHANGED <<disk, loadPath, loader, loaded>>
-----------------------------------------------------------------------------
(* The loader imports the root and sys with the system directory alone,    *)
(* then takes the directories of the user.  Without one of them it is none.*)
_scriptloader_new ==
  /\ importing = <<>> /\ answer # "" /\ loader \in {"root", "sys"}
  /\ \/ answer = "exception" /\ loader' = "failed" /\ answer' = ""
        /\ UNCHANGED <<modules, importing, loadPath, loaded, failures>>
     \/ answer = "module" /\ loader = "root" /\ loader' = "sys"
        /\ _ns_import(SysModule, <<>>) /\ UNCHANGED loadPath
     \/ answer = "module" /\ loader = "sys" /\ loader' = "ready" /\ answer' = ""
        /\ loadPath' = loadPath \o UserPath
        /\ modules' = [modules EXCEPT ![<<>>].imports = @ \cup {SysModule}]
        /\ UNCHANGED <<importing, loaded, failures>>
  /\ UNCHANGED disk

(* scriptloader_run: ns_execute imports the module, which executes it only *)
(* the first time, and answers with what its object returned.              *)
scriptloader_run ==
  /\ loader = "ready" /\ \E name \in Modules \ {<<>>, SysModule} : _ns_import(name, <<>>)
  /\ loader' = "running"
  /\ UNCHANGED <<disk, loadPath>>

RunEnded ==
  /\ loader = "running" /\ importing = <<>> /\ answer # ""
  /\ loader' = "ready" /\ answer' = ""
  /\ UNCHANGED <<disk, loadPath, modules, importing, loaded, failures>>

ModulesStart ==
  /\ loadPath = <<SysDir>>
  /\ LET e == _scriptloader_open_reader(<<>>)
     IN IF Readable(<<>>)
        THEN /\ modules = [n \in {<<>>} |-> [state |-> "Loading", obj |-> "half", imports |-> {<<>>}]]
             /\ importing = <<[name |-> <<>>, left |-> e.imports, at |-> NoModule]>>
             /\ answer = "" /\ failures = {} /\ loaded = [n \in Modules |-> IF n = <<>> THEN 1 ELSE 0]
        ELSE /\ modules = [n \in {<<>>} |-> [state |-> "Loading", obj |-> "none", imports |-> {}]]
             /\ importing = <<>> /\ answer = "exception" /\ failures = {<<>>}
             /\ loaded = [n \in Modules |-> 0]
  /\ loader = "root"

ModulesInit == disk \in Disks /\ ModulesStart

Imports == closure_import \/ mod_import \/ mod_set \/ _scriptloader_new \/ RunEnded
ModulesNext == Imports \/ scriptloader_run
ModulesSpec == ModulesInit /\ [][ModulesNext]_moduleVars
-----------------------------------------------------------------------------
(* What a name means in a module: an attribute of its object, the modules  *)
(* it imports whose names begin so, or an attribute of the root.           *)
Nothing == [kind |-> "nothing"]
Value(of, part) == [kind |-> "value", of |-> of, part |-> part]
Partial(name, matches) == [kind |-> "partial", name |-> name, matches |-> matches]

Here(m, part) ==
  LET matches == {i \in modules[m].imports : i # <<>> /\ i[1] = part}
  IN CASE part \in Attributes(m) -> Value(m, part)
       [] matches # {} /\ part \notin Attributes(m) -> Partial(<<part>>, matches)
       [] OTHER -> Nothing

mod_resolve(m, part) ==
  IF Here(m, part) = Nothing /\ m # <<>> /\ ns_get(<<>>) THEN Here(<<>>, part) ELSE Here(m, part)

\* Wrong: the modules would be compared with the name before the part was added.
ShorterOnly(p, part) ==
  LET found == IF p.name \in p.matches THEN mod_resolve(p.name, part) ELSE Nothing
  IN IF found # Nothing THEN found ELSE Partial(Append(p.name, part), p.matches \cap {p.name})

(* The module that has just the name so far is asked; if it does not know  *)
(* the part, it is taken for one more part of the name of a module.        *)
_pnm_resolve(p, part) ==
  LET found == IF p.name \in p.matches THEN mod_resolve(p.name, part) ELSE Nothing
      name == Append(p.name, part)
  IN IF found # Nothing THEN found ELSE Partial(name, {i \in p.matches : IsPrefix(name, i)})

_pnm_find_mod(p) == IF p.name \in p.matches THEN p.name ELSE NoModule

\* A path resolved from a module: a value ends it.
Resolved(m, path) ==
  FoldLeft(LAMBDA r, part : IF r.kind = "partial" THEN _pnm_resolve(r, part) ELSE Nothing,
           mod_resolve(m, path[1]), Tail(path))

(* namespace.c:340 -- the path of a module that was imported, followed by  *)
(* one of its attributes, is that attribute, unless one of the modules on  *)
(* the way, or the root, has a name of its own for the next part.          *)
PathsLead ==
  \A m \in DOMAIN modules : \A i \in modules[m].imports \ {<<>>} :
    LET hidden(k) == LET j == SubSeq(i, 1, k)
                     IN IF k = 0 THEN i[1] \in Attributes(m)
                        ELSE j \in modules[m].imports /\ mod_resolve(j, i[k + 1]) # Nothing
    IN (\A k \in 0 .. Len(i) - 1 : ~hidden(k)) =>
         /\ \A a \in Attributes(i) : Resolved(m, Append(i, a)) = Value(i, a)
         /\ Resolved(m, i).kind = "partial" /\ _pnm_find_mod(Resolved(m, i)) = i

(* namespace.c:427 -- an import that answers with a module that has not    *)
(* been executed to its end is one of a circle, or follows a load that     *)
(* failed; otherwise the importer has all of it.  No script is executed    *)
(* twice, however the modules import each other.                           *)
ImportsAreWhole ==
  /\ \A m \in DOMAIN modules : \A i \in modules[m].imports :
       modules[i].state = "Active" \/ i \in failures \/ \E k \in DOMAIN importing : importing[k].name = i
  /\ \A m \in Modules : loaded[m] <= 1
  /\ \A j, k \in DOMAIN importing : importing[j].name = importing[k].name => j = k
  /\ loader \in {"ready", "running"} => \A m \in {<<>>, SysModule} : modules[m].state = "Active"

(* namespace.c:383, namespace.c:172 -- a module that an import answers     *)
(* with is whole, but for the ones that are being imported further up, and *)
(* a name leads where its parts lead.                                      *)
ImportsAreRight == ImportsAreWhole /\ PathsLead

(* loader.c:469 -- every import is answered, also when modules import each *)
(* other in a circle.                                                      *)
EveryImportEnds == importing # <<>> ~> importing = <<>>
=============================================================================
