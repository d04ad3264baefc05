-------------------------------- MODULE Types --------------------------------
(***************************************************************************)
(* typedescr.c: types and interfaces are registered while the program      *)
(* starts.  A type is complete when its bases were assigned, one at a      *)
(* time; what it gets from them is computed then.  Which interfaces it     *)
(* implements is computed early and kept.                                  *)
(***************************************************************************)
EXTENDS Integers, Sequences, SequencesExt, FiniteSets, TLC

CONSTANTS
  Dynamic,        \* the first number of a type that is not built in
  MaxTypes,       \* bound: the highest number of a type
  Fnc,            \* the functions of a vtable; FunctionNew is one of them
  FunctionNew,
  TypeShapes,     \* what types are made of: sets of functions and of names of methods
  MaxInherits,    \* bound: bases of a type, as MAX_INHERITS
  IfaceFncs,      \* for every interface, in the order of their numbers, its functions
  IfaceMethods,   \* and the names of its methods
  NextInterface,  \* the built-in interfaces have the numbers below, the last one is Any
  NoImpl

ASSUME TypesAssumption ==
  /\ Dynamic \in Nat \ {0} /\ MaxTypes \in Nat /\ FunctionNew \in Fnc
  /\ Len(IfaceFncs) = Len(IfaceMethods) /\ NextInterface - 1 \in DOMAIN IfaceFncs
  /\ IfaceFncs[NextInterface - 1] = {}
  /\ \A i \in DOMAIN IfaceMethods : i >= NextInterface => IfaceMethods[i] = {}

VARIABLES
  descriptors,    \* number of a type -> its descriptor
  numtypes, typeCapacity,
  interfaces,     \* number of an interface -> its methods
  num_interfaces,
  newest          \* the type whose registration goes on: bases may still be assigned
typeVars == <<descriptors, numtypes, typeCapacity, interfaces, num_interfaces, newest>>

AnyKind == NextInterface - 1
Iface == DOMAIN IfaceFncs
BaseKind(i) == -i   \* the number of the kind; types have those above 0
-----------------------------------------------------------------------------
(* A kind knows a method by its name; the first one that comes stays.      *)
_kind_inherit_methods(methods, from) == methods @@ from

\* An interface has no function beyond its list, and Any is implemented by all.
_typedescr_check_if_implements(d, i) ==
  i \in DOMAIN interfaces /\ (i = AnyKind \/ \A f \in IfaceFncs[i] : d.inherited_vtable[f] # NoImpl)

Stale(d) == num_interfaces > d.implements_sz

Recomputed(d) ==
  LET implements == [i \in 1 .. num_interfaces |-> _typedescr_check_if_implements(d, i)]
      from(methods, i) == IF implements[i] THEN _kind_inherit_methods(methods, interfaces[i]) ELSE methods
  IN [d EXCEPT !.implements = implements, !.implements_sz = num_interfaces,
               !.methods = FoldLeft(from, @, [i \in 1 .. num_interfaces |-> i])]

_typedescr_get_all_interfaces(d) == IF Stale(d) THEN Recomputed(d) ELSE d
-----------------------------------------------------------------------------
(* The constructors of the bases, as they are now, and its own.            *)
_typedescr_get_constructors(type, ds) ==
  LET of[t \in DOMAIN ds] ==
        FoldLeft(LAMBDA s, b : s \o of[b], <<>>, ds[t].inherits)
          \o IF ds[t].vtable[FunctionNew] = NoImpl THEN <<>> ELSE <<t>>
  IN of[type]

_typedescr_build_ancestors(d, ds) ==
  LET ancestors == FoldLeft(LAMBDA s, b : s \o Append(ds[b].ancestors, b), <<>>, d.inherits)
  IN [d EXCEPT !.ancestors = ancestors,
               !.methods = FoldLeft(LAMBDA m, b : _kind_inherit_methods(m, ds[b].methods), @, ancestors)]

\* Wrong: the function of a base would replace the one that is there.
LastBaseWins(d, ds) ==
  LET fill(v, b) == [f \in Fnc |-> IF ds[b].inherited_vtable[f] # NoImpl THEN ds[b].inherited_vtable[f] ELSE v[f]]
  IN [d EXCEPT !.inherited_vtable = FoldLeft(fill, @, d.inherits)]

_typedescr_build_inherited_vtable(d, ds) ==
  LET fill(v, b) == [f \in Fnc |-> IF v[f] = NoImpl THEN ds[b].inherited_vtable[f] ELSE v[f]]
  IN [d EXCEPT !.inherited_vtable = FoldLeft(fill, @, d.inherits)]
-----------------------------------------------------------------------------
(* Doubled until the number fits.  The loop stops at a number that is the  *)
(* typeCapacity, one too early: numbers are given out one after the other.     *)
Grown(type) ==
  IF type < typeCapacity THEN typeCapacity
  ELSE LET first == IF typeCapacity = 0 THEN Dynamic ELSE 2 * typeCapacity
           sizes == {first * 2 ^ k : k \in 0 .. MaxTypes}
       IN CHOOSE c \in sizes : c >= type /\ \A s \in sizes : s >= type => c <= s

\* A built-in type has its number, any other one gets the next.  The first of
\* all is built in: typedescr_init registers Kind.
FreeNumbers ==
  {t \in 1 .. Dynamic - 1 : t \notin DOMAIN descriptors}
  \cup IF descriptors = <<>> THEN {} ELSE {IF numtypes > Dynamic THEN numtypes ELSE Dynamic}

_typedescr_register(type, local, names) ==
  LET vtable == [f \in Fnc |-> IF f \in local THEN type ELSE NoImpl]
      d == [vtable |-> vtable, inherited_vtable |-> vtable, inherits |-> <<>>, ancestors |-> <<>>,
            methods |-> [name \in names |-> type], constructors |-> <<>>,
            implements |-> <<>>, implements_sz |-> 0]
  IN /\ type <= MaxTypes
     /\ numtypes' = IF type < Dynamic THEN numtypes ELSE type + 1
     /\ typeCapacity' = Grown(type)
     /\ LET ds == (type :> _typedescr_get_all_interfaces(d)) @@ descriptors
        IN descriptors' = [ds EXCEPT ![type].constructors = _typedescr_get_constructors(type, ds)]
     /\ newest' = type
     /\ UNCHANGED <<interfaces, num_interfaces>>

RegisterType ==
  \E type \in FreeNumbers, shape \in TypeShapes : _typedescr_register(type, shape.fncs, shape.methods)

typedescr_assign_inheritance ==
  \E base \in DOMAIN descriptors \ {newest} :
    /\ newest # 0 /\ base \notin Range(descriptors[newest].inherits)
    /\ Len(descriptors[newest].inherits) < MaxInherits
    /\ LET d0 == [descriptors[newest] EXCEPT !.inherits = Append(@, base)]
           d1 == _typedescr_build_inherited_vtable(d0, descriptors)
           d2 == [d1 EXCEPT !.constructors =
                    _typedescr_get_constructors(newest, [descriptors EXCEPT ![newest] = d1])]
           d3 == [_typedescr_build_ancestors(d2, descriptors) EXCEPT !.implements_sz = 0]
       IN descriptors' = [descriptors EXCEPT ![newest] = _typedescr_get_all_interfaces(d3)]
    /\ UNCHANGED <<numtypes, typeCapacity, interfaces, num_interfaces, newest>>

(* The numbers below NextInterface are counted as soon as Any has its own. *)
(* typedescr_init has registered all of them, with their methods, before   *)
(* another one comes.                                                      *)
BuiltIn == \A i \in 1 .. NextInterface - 1 : i \in DOMAIN interfaces /\ DOMAIN interfaces[i] = IfaceMethods[i]

_interface_register ==
  \E i \in Iface \ DOMAIN interfaces :
    /\ IF i < NextInterface THEN i # AnyKind => AnyKind \in DOMAIN interfaces
       ELSE BuiltIn /\ \A j \in NextInterface .. i - 1 : j \in DOMAIN interfaces
    /\ interfaces' = (i :> <<>>) @@ interfaces
    /\ num_interfaces' = IF i > num_interfaces THEN i ELSE num_interfaces
    /\ newest' = 0
    /\ UNCHANGED <<descriptors, numtypes, typeCapacity>>

typedescr_register_methods ==
  \E i \in DOMAIN interfaces :
    /\ IfaceMethods[i] # DOMAIN interfaces[i]
    /\ interfaces' = [interfaces EXCEPT ![i] = [name \in IfaceMethods[i] |-> BaseKind(i)]]
    /\ newest' = 0
    /\ UNCHANGED <<descriptors, numtypes, typeCapacity, num_interfaces>>

(* typedescr_implements, typedescr_is, typedescr_get_method: what is asked *)
(* is computed again when the number of interfaces has grown.              *)
Refresh ==
  \E t \in DOMAIN descriptors :
    /\ Stale(descriptors[t])
    /\ descriptors' = [descriptors EXCEPT ![t] = Recomputed(@)]
    /\ UNCHANGED <<numtypes, typeCapacity, interfaces, num_interfaces, newest>>

\* Any comes first of all: typedescr_init.
TypesInit ==
  /\ descriptors = <<>> /\ numtypes = Dynamic /\ typeCapacity = 0
  /\ interfaces = <<>> /\ num_interfaces = 0 /\ newest = 0

TypesNext ==
  \/ _interface_register \/ typedescr_register_methods
  \/ AnyKind \in DOMAIN interfaces /\ RegisterType
  \/ typedescr_assign_inheritance
  \/ Refresh
-----------------------------------------------------------------------------
typedescr_is(t, kind) == t = kind \/ kind \in Range(descriptors[t].ancestors)
typedescr_implements(t, i) == _typedescr_get_all_interfaces(descriptors[t]).implements[i]
typedescr_get_method(t, name) ==
  LET methods == _typedescr_get_all_interfaces(descriptors[t]).methods
  IN IF name \in DOMAIN methods THEN methods[name] ELSE NoImpl

(* What is inherited, by following the bases.                              *)
Above == LET up[t \in DOMAIN descriptors] ==
               UNION {{b} \cup up[b] : b \in Range(descriptors[t].inherits)}
         IN up
TypeFound(f) == LET of[t \in DOMAIN descriptors] ==
                  FoldLeft(LAMBDA got, b : IF got = NoImpl THEN of[b] ELSE got,
                           descriptors[t].vtable[f], descriptors[t].inherits)
            IN of

(* typedescr.c:615, :582 -- the flattened tables of a type say what a walk *)
(* up its bases says: the first base, from the left and up, that has a     *)
(* function, and every type above it, however often it is reached.  The    *)
(* constructor of a base runs before those of the types below it.          *)
FlatIsWalk ==
  \A t \in DOMAIN descriptors :
    LET d == descriptors[t]
        before(seq, a, b) == \E i \in DOMAIN seq : seq[i] = a /\ \A j \in 1 .. i : seq[j] # b
    IN /\ t < typeCapacity
       /\ \A f \in Fnc : d.inherited_vtable[f] = TypeFound(f)[t]
       /\ Range(d.ancestors) = Above[t]
       /\ \A a \in DOMAIN descriptors :
            a \in Range(d.constructors) <=> (a \in Above[t] \cup {t} /\ descriptors[a].vtable[FunctionNew] # NoImpl)
       /\ \A a, b \in Range(d.constructors) : a \in Above[b] => before(d.constructors, a, b)

(* typedescr.c:560 -- what is kept of the interfaces is never too much: a  *)
(* type is said to implement one only if it has all its functions.  It is  *)
(* not too little either for an interface that was counted when it came;   *)
(* and what a base implements, and the methods it knows, its heirs do.     *)
InterfacesKept ==
  \A t \in DOMAIN descriptors :
    /\ \A i \in 1 .. num_interfaces :
         LET has == _typedescr_check_if_implements(descriptors[t], i)
         IN /\ typedescr_implements(t, i) => has
            /\ (i >= NextInterface /\ has) => typedescr_implements(t, i)
    /\ \A name \in DOMAIN descriptors[t].methods :
         LET of == descriptors[t].methods[name]
         IN \/ of \in DOMAIN descriptors /\ typedescr_is(t, of)
            \/ \E i \in DOMAIN interfaces : of = BaseKind(i) /\ typedescr_implements(t, i)
    /\ \A b \in Above[t] :
         /\ \A i \in 1 .. num_interfaces : typedescr_implements(b, i) => typedescr_implements(t, i)
         /\ \A name \in DOMAIN descriptors[b].methods : typedescr_get_method(t, name) # NoImpl
-----------------------------------------------------------------------------
(***************************************************************************)
(* data.c, any.c and method.c: what a name means for an atom.  Its type    *)
(* and the types above it are asked from below and from the left, each for *)
(* an accessor first; a longer name goes on with what its parts resolve to.*)
(***************************************************************************)
CONSTANTS
  AtomTypes, Below, BasesOf,  \* the types, the one of the atoms, and their bases
  AttrName,                   \* names of attributes
  Outer, Inner,               \* the atoms with attributes; the outer one may have the other as an attribute
  ResolvingShapes,            \* what a type may have: sets of names by which it is found
  MaxSets,                    \* bound: how often attributes are assigned
  MethodShapes,               \* descriptors of methods
  ArgTypes, Subtype, AnyType, \* types of arguments; Subtype is one of AnyType and of another one
  MaxArgs                     \* bound: arguments of a call

ASSUME ResolvingAssumption == Below \in AtomTypes /\ MaxSets \in Nat /\ MaxArgs \in Nat

VARIABLES
  shape,      \* type -> [accessors, locals, methods], sets of names
  slot,       \* <<atom, type, how>> -> what was assigned there: [name -> value]
  sets,       \* how often attributes were assigned
  resAsked,   \* history: the last request [op, atom, path, value or arguments]
  resGot      \* what it answered
resVars == <<shape, slot, sets, resAsked, resGot>>

(* A value is an atom, a plain one, something to call, an exception, or an *)
(* exception that a script has handled and treats as a value.              *)
PlainValues == {"plain", "function", "exception", "handled"}
AtomIds == {Outer, Inner}
Unset == "unset"
Failed(code) == code
Failures == {"ErrorType", "ErrorNotCallable", "ErrorArgCount"}

Hows == {"accessor", "local"}
Handles(t, how) == IF how = "accessor" THEN shape[t].accessors ELSE shape[t].locals

(* Where a name is looked for: every type has accessors and a function of  *)
(* its own; the bases come from the left, each with all that is above it.  *)
Places(t) ==
  LET of[u \in AtomTypes] == <<<<u, "accessor">>, <<u, "local">>>> \o FoldLeft(LAMBDA s, b : s \o of[b], <<>>, BasesOf[u])
  IN of[t]

BaseChain == Places(Below)
SlotAt(a, place, n) == slot[<<a, place[1], place[2]>>][n]

(* The first that answers.                                                 *)
_data_call_resolve(a, n) ==
  FoldLeft(LAMBDA got, p : IF got # Unset THEN got ELSE IF n \in Handles(p[1], p[2]) THEN SlotAt(a, p, n) ELSE Unset,
           Unset, BaseChain)

\* Wrong: a type that has the name already would leave it to the next one.
FreeTakes(a, n, value) ==
  LET able == {i \in DOMAIN BaseChain : n \in Handles(BaseChain[i][1], BaseChain[i][2])}
      free == {i \in able : SlotAt(a, BaseChain[i], n) = Unset}
      takers == IF free = {} THEN able ELSE free
      p == BaseChain[CHOOSE i \in takers : \A j \in takers : i <= j]
  IN IF takers = {} THEN slot ELSE [slot EXCEPT ![<<a, p[1], p[2]>>][n] = value]

(* The first that takes it; the others do not see it.                      *)
_data_call_setter(a, n, value) ==
  LET takers == {i \in DOMAIN BaseChain : n \in Handles(BaseChain[i][1], BaseChain[i][2])}
      p == BaseChain[CHOOSE i \in takers : \A j \in takers : i <= j]
  IN IF takers = {} THEN slot ELSE [slot EXCEPT ![<<a, p[1], p[2]>>][n] = value]

Settable(n) == \E i \in DOMAIN BaseChain : n \in Handles(BaseChain[i][1], BaseChain[i][2])

HasMethod(n) == \E t \in AtomTypes : n \in shape[t].methods

(* One part of a name: an attribute, then the type, then, for the last     *)
(* part, a method.  Only atoms with attributes have any.                   *)
ResolvedPart(v, n, last) ==
  LET attr == IF v \in AtomIds THEN _data_call_resolve(v, n) ELSE Unset
  IN CASE attr # Unset -> attr
       [] attr = Unset /\ n = "type" -> "plain"
       [] attr = Unset /\ n # "type" /\ last /\ v \in AtomIds /\ HasMethod(n) -> "function"
       [] OTHER -> Failed("ErrorType")

StopsAt(v) == v = "exception" \/ v \in Failures

data_resolve(v, path) ==
  FoldLeft(LAMBDA got, i : IF i > 1 /\ StopsAt(got) THEN got ELSE ResolvedPart(got, path[i], i = Len(path)),
           v, [i \in DOMAIN path |-> i])

data_has(v, path) == data_resolve(v, path) \notin Failures \cup {"exception", "handled"}
data_has_callable(v, path) == data_resolve(v, path) = "function"

Request(op, a, path, with) == resAsked' = [op |-> op, atom |-> a, path |-> path, with |-> with]

(* A longer name is resolved up to its last part, and that is assigned to  *)
(* what it found.                                                          *)
data_set ==
  /\ sets < MaxSets
  /\ \E path \in BoundedSeq(AttrName, 2), value \in PlainValues \cup {Inner} :
    LET a == Outer
        c == data_resolve(a, Front(path))
        n == path[Len(path)]
    IN /\ path # <<>> /\ (value = Inner => c # Inner)
       /\ sets' = sets + 1
       /\ Request("set", a, path, value)
       /\ slot' = IF c \in AtomIds THEN _data_call_setter(c, n, value) ELSE slot
       /\ resGot' = CASE c \in AtomIds /\ Settable(n) -> value
                      [] c \in Failures \cup {"exception", "handled"} -> c
                      [] OTHER -> Unset
       /\ UNCHANGED shape

(* The atom may come as the first argument.                                *)
data_invoke ==
  /\ sets = 1 /\ resAsked.op = "set"
  /\ \E a \in {Outer, Unset}, path \in BoundedSeq(AttrName, 2) :
    LET c == data_resolve(a, path)
    IN /\ path # <<>> /\ Request("invoke", a, path, Unset)
       /\ resGot' = CASE a = Unset -> Failed("ErrorArgCount")
                      [] a # Unset /\ StopsAt(c) -> c
                      [] a # Unset /\ c = "function" -> "called"
                      [] OTHER -> Failed("ErrorNotCallable")
       /\ UNCHANGED <<shape, slot, sets>>
-----------------------------------------------------------------------------
(* method.c: what a method declares of its arguments is checked before it  *)
(* is called.  Beyond the arguments it must have, the last type that is    *)
(* declared goes for the rest.                                             *)
AnyNumber(md) == MaxArgs  \* Wrong: there would be no limit.

Most(md) == CASE md.maxargs # 0 -> md.maxargs
              [] md.maxargs = 0 /\ md.varargs -> MaxArgs
              [] OTHER -> md.minargs
Declared(md, i) ==
  LET upto == {j \in DOMAIN md.argtypes : j <= i /\ md.argtypes[j] # "NoType"}
  IN IF i <= md.minargs THEN md.argtypes[i] ELSE md.argtypes[CHOOSE j \in upto : \A k \in upto : k <= j]
data_hastype(arg, t) == arg = t \/ t = AnyType \/ (arg = Subtype[1] /\ t = Subtype[2])

mth_call ==
  /\ sets = 0 /\ resAsked.op = "" /\ \A t, u \in AtomTypes : shape[t] = shape[u]
  /\ \E md \in MethodShapes, args \in BoundedSeq(ArgTypes, MaxArgs) :
    /\ Request("method", md, <<>>, args)
    /\ resGot' = IF Len(args) < md.minargs \/ Len(args) > Most(md) THEN Failed("ErrorArgCount")
                 ELSE IF \E i \in DOMAIN args : ~data_hastype(args[i], Declared(md, i)) THEN Failed("ErrorType")
                 ELSE "called"
    /\ UNCHANGED <<shape, slot, sets>>

ResolvingInit ==
  /\ shape \in [AtomTypes -> ResolvingShapes]
  /\ slot = [p \in AtomIds \X AtomTypes \X Hows |-> [n \in AttrName |-> Unset]]
  /\ sets = 0 /\ resGot = Unset
  /\ resAsked = [op |-> "", atom |-> Unset, path |-> <<>>, with |-> Unset]

ResolvingNext == data_set \/ data_invoke \/ mth_call
-----------------------------------------------------------------------------
(* data.c:560 -- what was assigned to a name is what the name means from   *)
(* then on, whichever of the types took it; a longer name means what its   *)
(* last part means for what the rest of it means.                          *)
SetIsGot ==
  /\ resAsked.op = "set" /\ resGot = resAsked.with /\ resGot # Unset /\ data_resolve(resAsked.atom, Front(resAsked.path)) \in AtomIds
       => data_resolve(resAsked.atom, resAsked.path) = resGot
  /\ \A a \in AtomIds, p \in AttrName, q \in AttrName :
       LET head == ResolvedPart(a, p, FALSE)
       IN data_resolve(a, <<p, q>>) = IF StopsAt(head) THEN head ELSE ResolvedPart(head, q, TRUE)

(* method.c:81 -- a method is called only with arguments of the number and *)
(* the types it declares, whatever is declared of those it may have more.  *)
ArgumentsFit ==
  resAsked.op = "method" /\ resGot = "called" =>
    LET md == resAsked.atom
        args == resAsked.with
    IN /\ Len(args) >= md.minargs /\ (~md.varargs => Len(args) <= md.minargs \/ Len(args) <= md.maxargs)
       /\ \A i \in DOMAIN args : \E j \in 1 .. i : j \in DOMAIN md.argtypes /\ data_hastype(args[i], md.argtypes[j])
=============================================================================
