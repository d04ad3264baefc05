-------------------------------- MODULE Scopes --------------------------------
(***************************************************************************)
(* Which value a name has while functions call each other: closure.c,      *)
(* script.c, boundmethod.c and object.c.  A running script may do these    *)
(* steps in any order.  A closure that has run is never freed: every       *)
(* instruction leaves a reference (instruction.c:860); its parameters are. *)
(***************************************************************************)
EXTENDS Integers, Sequences, FiniteSets, Functions

CONSTANTS
  Functions_,    \* the functions of a module; "main" is the module itself
  UpOf,          \* [Functions_ -> the function it stands in, NoFunction for main]
  ParamsOf,      \* [Functions_ -> Seq(name)]
  NamesRead,     \* the names a script reads
  NamesSet,      \* the names it assigns
  MaxScopes, MaxObjects, MaxScopeSteps    \* bounds

NoFunction == "no function"

\* A module has no parameters.
ASSUME ScopesAssumption ==
  /\ "main" \in Functions_ /\ UpOf \in [Functions_ -> Functions_ \cup {NoFunction}]
  /\ \A script \in Functions_ : ParamsOf[script] \in Seq(Range(ParamsOf[script]))
  /\ ParamsOf["main"] = <<>>

VARIABLES
  scopes,        \* the closures: [script, up, self, vars, params, held, entered]
  objects,       \* the objects: [vars, constructor, constructing]
  frames,        \* what runs: [scope, kind, obj, args], the innermost last
  acc,           \* the value the script has at hand
  crashed,       \* memory that was freed has been used, and the process is gone
  scopeSteps
scopeVars == <<scopes, objects, frames, acc, crashed, scopeSteps>>

\* Values.
NoValues == [n \in {} |-> 0]
PutAll(new, old) == [n \in DOMAIN new \cup DOMAIN old |-> IF n \in DOMAIN new THEN new[n] ELSE old[n]]
PutOne(name, value, old) == PutAll([n \in {name} |-> value], old)
Absent == <<"nothing", 0>>
Crash == <<"crash", 0>>
ObjectValue(o) == <<"object", o>>
ClosureValue(c) == <<"closure", c>>
Raised(code) == <<"exception", code>>
BoundMethod(script, self, closure) == <<"bound", [script |-> script, self |-> self, closure |-> closure]>>

InnerOf(script) == {s \in Functions_ : UpOf[s] = script}
LastOf == frames[Len(frames)]
-----------------------------------------------------------------------------
(* Objects                                                                 *)

\* Wrong: a method taken from another object would stay that one's.
KeepsItsSelf(o, name, value) ==
  IF value[1] = "closure" THEN BoundMethod(scopes[value[2]].script, o, 0) ELSE value

\* Whatever can be called becomes a method of the object, and leaves its scope.
object_set(o, name, value) ==
  CASE value[1] = "bound" -> BoundMethod(value[2].script, o, 0)
    [] value[1] = "closure" -> BoundMethod(scopes[value[2]].script, o, 0)
    [] OTHER -> value

\* The functions of a script, as methods: an object gets those of its
\* constructor when it is made, those of a base when the base constructs it.
object_bind_all(o, vars, script) ==
  PutAll([s \in InnerOf(script) |-> object_set(o, s, BoundMethod(s, 0, 0))], vars)

_object_new(script) ==
  [vars |-> object_bind_all(Len(objects) + 1, NoValues, script), constructor |-> script, constructing |-> TRUE]

object_get(o, name) ==
  CASE name \in DOMAIN objects[o].vars -> objects[o].vars[name]
    [] name = "$constructing" -> <<"bool", objects[o].constructing>>
    [] OTHER -> Absent
-----------------------------------------------------------------------------
(* Closures                                                                *)

_closure_create_closure_reducer(script, self, closure) ==
  [s \in InnerOf(script) |-> BoundMethod(s, self, closure)]

closure_create(script, up, self) ==
  [script |-> script, up |-> up, self |-> self, params |-> NoValues, held |-> "none", entered |-> 0,
   vars |-> _closure_create_closure_reducer(script, self, Len(scopes) + 1)]

\* Wrong: the scope would be the one the call is made from.
ScopeOfTheCaller(bm) == closure_create(bm.script, LastOf.scope, bm.self)

bound_method_get_closure(bm) == closure_create(bm.script, bm.closure, bm.self)

(* What _closure_get may answer.  The parameters of a call that has ended  *)
(* are still looked at: what was there, nothing, or no process any more.   *)
_closure_get(c, name) ==
  LET closure == scopes[c]
      given == IF name \in DOMAIN closure.params THEN closure.params[name] ELSE Absent
  IN CASE name = "self" /\ closure.self # 0 -> {ObjectValue(closure.self)}
       [] name \in DOMAIN closure.vars -> {closure.vars[name]}
       [] closure.held = "held" -> {given}
       [] closure.held = "freed" -> {given, Absent, Crash}
       [] OTHER -> {Absent}

ModResolve(name) == object_get(1, name)

closure_resolve(name) ==
  LET resolve[c \in 1..Len(scopes)] ==
        LET own == _closure_get(c, name)
            up == scopes[c].up
            above == IF up = 0 THEN {ModResolve(name)}
                     ELSE IF name \in {"^", scopes[up].script} THEN {ClosureValue(up)}
                     ELSE resolve[up]
        IN (own \ {Absent}) \cup (IF Absent \in own THEN above ELSE {})
  IN resolve[LastOf.scope]

(* closure_execute: the parameters of the call before are freed first,     *)
(* also when the new ones are too few and when the call before still runs. *)
FreedTwice(c) == scopes[c].held = "freed"

WithParams(closure, args) ==
  [closure EXCEPT !.params = [n \in {ParamsOf[closure.script][i] : i \in DOMAIN args} |->
                                args[CHOOSE i \in DOMAIN args : ParamsOf[closure.script][i] = n]],
                  !.held = "held", !.entered = @ + 1]

Starts(closure, args) ==
  IF ParamsOf[closure.script] = <<>> THEN [closure EXCEPT !.entered = @ + 1] ELSE WithParams(closure, args)

TooFew(closure, args) == Len(args) < Len(ParamsOf[closure.script])

(* closure_yield frees the parameters and leaves the pointer where it is.  *)
Ended(closure) == IF closure.held = "none" THEN closure ELSE [closure EXCEPT !.held = "freed"]
RefusedCall(closure) == [Ended(closure) EXCEPT !.entered = @ + 1]
-----------------------------------------------------------------------------
ScopesInit ==
  /\ objects = <<[vars |-> [s \in InnerOf("main") |-> BoundMethod(s, 1, 0)], constructor |-> "main", constructing |-> TRUE]>>
  /\ scopes = <<[script |-> "main", up |-> 0, self |-> 1, params |-> NoValues, held |-> "none", entered |-> 1,
                 vars |-> _closure_create_closure_reducer("main", 1, 1)]>>
  /\ frames = <<[scope |-> 1, kind |-> "new", obj |-> 1, args |-> <<>>]>>
  /\ acc = Absent /\ crashed = FALSE /\ scopeSteps = 0

Runs == frames # <<>> /\ ~crashed /\ scopeSteps < MaxScopeSteps /\ scopeSteps' = scopeSteps + 1

\* Wherever memory that was freed is freed or read again, the process may be gone.
Gone == crashed' = TRUE /\ UNCHANGED <<scopes, objects, frames, acc>>

GetName ==
  /\ Runs
  /\ \E name \in NamesRead : \E value \in closure_resolve(name) :
       \/ value = Crash /\ Gone
       \/ /\ value # Crash /\ acc' = (IF value = Absent THEN Raised("ErrorName") ELSE value)
          /\ UNCHANGED <<scopes, objects, frames, crashed>>

closure_set ==
  /\ Runs /\ acc # Absent
  /\ \E name \in NamesSet :
       scopes' = [scopes EXCEPT ![LastOf.scope].vars = PutOne(name, acc, @)]
  /\ acc' = Absent /\ UNCHANGED <<objects, frames, crashed>>

GetAttribute ==
  /\ Runs /\ acc[1] = "object"
  /\ \E name \in NamesRead \cup {"$constructing"} : acc' = object_get(acc[2], name)
  /\ UNCHANGED <<scopes, objects, frames, crashed>>

\* self.name = value
SetAttribute ==
  /\ Runs /\ acc # Absent /\ scopes[LastOf.scope].self # 0
  /\ LET o == scopes[LastOf.scope].self
     IN \E name \in NamesSet : objects' = [objects EXCEPT ![o].vars = PutOne(name, object_set(o, name, acc), @)]
  /\ acc' = Absent /\ UNCHANGED <<scopes, frames, crashed>>

Argument == {<<>>, <<acc>>}

\* A closure runs, the one of number c after all scopes were made.
closure_execute(c, made, kind, o, args) ==
  \/ c <= Len(scopes) /\ FreedTwice(c) /\ Gone
  \/ /\ TooFew(made[c], args) /\ acc' = Raised("ErrorArgCount")
     /\ scopes' = [made EXCEPT ![c] = RefusedCall(@)] /\ UNCHANGED <<frames, crashed>>
  \/ /\ ~TooFew(made[c], args) /\ acc' = Absent
     /\ scopes' = [made EXCEPT ![c] = Starts(@, args)]
     /\ frames' = Append(frames, [scope |-> c, kind |-> kind, obj |-> o, args |-> args])
     /\ UNCHANGED crashed

bound_method_execute(bm, args, kind) ==
  /\ Len(scopes) < MaxScopes
  /\ closure_execute(Len(scopes) + 1, Append(scopes, bound_method_get_closure(bm)), kind, bm.self, args)

\* data_call of what is at hand.
CallValue ==
  /\ Runs /\ Len(frames) < MaxScopes
  /\ \E args \in Argument :
       \/ acc[1] = "bound" /\ bound_method_execute(acc[2], args, "call")
       \/ acc[1] = "closure" /\ closure_execute(acc[2], scopes, "call", 0, args)
  /\ UNCHANGED objects

ScriptOf(value) ==
  CASE value[1] = "object" -> objects[value[2]].constructor
    [] value[1] = "closure" -> scopes[value[2]].script
    [] OTHER -> value[2].script

\* _object_mth_new: the object is there before its constructor has run.
script_create_object ==
  /\ Runs /\ acc[1] \in {"object", "closure", "bound"} /\ ScriptOf(acc) # "main"
  /\ Len(objects) < MaxObjects /\ Len(scopes) < MaxScopes
  /\ \E args \in Argument :
       LET script == ScriptOf(acc)
           o == Len(objects) + 1
           closure == closure_create(script, 0, o)
       IN /\ objects' = Append(objects, [_object_new(script) EXCEPT !.constructing = ~TooFew(closure, args)])
          /\ closure_execute(Len(scopes) + 1, Append(scopes, closure), "new", o, args)

\* The constructor of a base: it makes its own methods those of the object.
_instruction_setup_constructor ==
  /\ Runs /\ acc[1] \in {"closure", "bound"} /\ scopes[LastOf.scope].self # 0
  /\ LET o == scopes[LastOf.scope].self
         script == ScriptOf(acc)
     IN /\ objects' = [objects EXCEPT ![o].vars = object_bind_all(o, @, script)]
        /\ \E args \in Argument : bound_method_execute([script |-> script, self |-> o, closure |-> 0], args, "call")

\* The function returns what it has at hand, or an exception ends it.
closure_yield ==
  /\ Runs
  /\ \/ FreedTwice(LastOf.scope) /\ Gone
     \/ \E value \in {acc, Raised("ErrorThrown")} :
          /\ scopes' = [scopes EXCEPT ![LastOf.scope] = Ended(@)]
          /\ frames' = SubSeq(frames, 1, Len(frames) - 1)
          /\ objects' = IF LastOf.kind = "new" THEN [objects EXCEPT ![LastOf.obj].constructing = FALSE] ELSE objects
          /\ acc' = IF LastOf.kind = "new" /\ value[1] # "exception" THEN ObjectValue(LastOf.obj) ELSE value
          /\ UNCHANGED crashed

ScopesNext ==
  \/ GetName \/ closure_set \/ GetAttribute \/ SetAttribute
  \/ CallValue \/ script_create_object \/ _instruction_setup_constructor \/ closure_yield

ScopesSpec == ScopesInit /\ [][ScopesNext]_scopeVars
-----------------------------------------------------------------------------
(* closure.c:248, boundmethod.c:89 -- a closure with a scope around it has *)
(* the one of the function its script stands in, however the function was  *)
(* passed around before it was called: names are lexical.                  *)
ScopesNest ==
  \A c \in DOMAIN scopes : scopes[c].up # 0 => scopes[scopes[c].up].script = UpOf[scopes[c].script]

(* object.c:269 -- what can be called among the attributes of an object is *)
(* a method of that very object, also when it came from another one.       *)
MethodsAreBound ==
  \A o \in DOMAIN objects : \A n \in DOMAIN objects[o].vars :
    LET value == objects[o].vars[n]
    IN value[1] # "closure" /\ (value[1] = "bound" => value[2].self = o)

(* script.c:168 -- an object says it is under construction exactly while   *)
(* its constructor runs, also after that has failed.                       *)
ConstructingWhileRuns ==
  \A o \in DOMAIN objects :
    objects[o].constructing <=> \E i \in DOMAIN frames : frames[i].kind = "new" /\ frames[i].obj = o

(* closure.c:259 -- a function that runs has the parameters it was called  *)
(* with, whatever it has called, unless its own closure was called again:  *)
(* an inner function that calls the outer one does that.                   *)
ParamsAreOwn ==
  \A i \in DOMAIN frames :
    LET closure == scopes[frames[i].scope]
    IN closure.entered = 1 /\ ParamsOf[closure.script] # <<>> =>
         closure.held = "held" /\ closure.params[ParamsOf[closure.script][1]] = frames[i].args[1]

ScopesHold == ScopesNest /\ MethodsAreBound /\ ConstructingWhileRuns /\ ParamsAreOwn
=============================================================================
