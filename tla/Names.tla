--------------------------------- MODULE Names ---------------------------------
(***************************************************************************)
(* name.c: names are arrays of components with the text they were last     *)
(* printed as, by the separator they were last printed with.               *)
(* hierarchy.c: trees in which names lead to values.                       *)
(***************************************************************************)
EXTENDS Integers, Sequences, SequencesExt, FiniteSets, TLC

CONSTANTS
  Components,     \* what a name may be made of
  Separators,     \* what may stand between the components
  MaxComponents,  \* bound: the length of a name
  MaxNames,       \* bound: the names there are
  MaxNameSteps,   \* bound: operations
  MaxNodes        \* bound: the nodes of a tree

ASSUME NamesAssumption == "." \in Separators

VARIABLES
  names,          \* [parts, str, sep, literal]: str is what was printed or Unprinted, literal says it is the constant ""
  nameAnswer,     \* of the last comparison: [of, other, cmp, starts]
  nameCrash,      \* a constant was freed
  nameSteps
nameVars == <<names, nameAnswer, nameCrash, nameSteps>>

\* A text stands for its components and what is between them.
Unprinted == <<"none", <<>>, "">>
Joined(parts, sep) == <<"text", parts, IF Len(parts) > 1 THEN sep ELSE "">>
NoAnswer == [of |-> <<>>, other |-> <<>>, cmp |-> 0, starts |-> FALSE]

Step == nameSteps < MaxNameSteps /\ ~nameCrash /\ nameSteps' = nameSteps + 1
-----------------------------------------------------------------------------
FreshName(parts) == [parts |-> parts, str |-> Unprinted, sep |-> "", literal |-> FALSE]

\* Wrong: the printed text would stay as it was.
KeepsItsText(n, more) == [n EXCEPT !.parts = @ \o more]

\* What was printed is freed, the separator stays.
name_append_array(n, more) == [n EXCEPT !.parts = @ \o more, !.str = Unprinted]

\* The text of an empty name is a constant, and the free does not ask.
FreesConstant(n) == n.literal /\ n.str # Unprinted

name_tostring_sep(n, sep) ==
  LET stale == n.sep # "" /\ n.sep # sep
      had == IF stale THEN [n EXCEPT !.str = Unprinted, !.literal = FALSE] ELSE n
      s == IF had.sep = "" \/ stale THEN sep ELSE had.sep
  IN IF had.str # Unprinted THEN [had EXCEPT !.sep = s]
     ELSE [had EXCEPT !.sep = s, !.str = Joined(n.parts, s), !.literal = (n.parts = <<>>)]

\* The text it was parsed from is kept, and the separator; of an empty text a name without either.
name_split(parts, sep) ==
  IF parts = <<>> THEN FreshName(<<>>) ELSE [parts |-> parts, str |-> Joined(parts, sep), sep |-> sep, literal |-> FALSE]

name_deepcopy(n) == FreshName(n.parts)

\* Slices: the first component goes, or the last.
name_tail(n) == FreshName(IF n.parts = <<>> THEN <<>> ELSE Tail(n.parts))
name_head(n) == FreshName(IF n.parts = <<>> THEN <<>> ELSE Front(n.parts))

Ranked(a, b) == CHOOSE r \in [Components -> 1 .. Cardinality(Components)] : \A x, y \in Components : x # y => r[x] # r[y]
StrCmp(a, b) == Ranked(a, b)[a] - Ranked(a, b)[b]

\* The longer name is the greater one; else the first component that differs decides.
name_cmp(m, n) ==
  LET differ == {i \in DOMAIN m : m[i] # n[i]}
  IN IF Len(m) # Len(n) THEN Len(m) - Len(n)
     ELSE IF differ = {} THEN 0
     ELSE LET i == CHOOSE j \in differ : \A k \in differ : j <= k IN StrCmp(m[i], n[i])

name_startswith(n, start) == Len(n) >= Len(start) /\ \A i \in DOMAIN start : n[i] = start[i]
-----------------------------------------------------------------------------
Lists == UNION {[1 .. k -> Components] : k \in 0 .. 2}

NewName ==
  /\ Step /\ Len(names) < MaxNames
  /\ \E parts \in Lists, sep \in Separators : names' = Append(names, name_split(parts, sep))
  /\ UNCHANGED <<nameAnswer, nameCrash>>

DerivedName ==
  /\ Step /\ Len(names) < MaxNames
  /\ \E i \in DOMAIN names : \E n \in {name_deepcopy(names[i]), name_tail(names[i]), name_head(names[i])} : names' = Append(names, n)
  /\ UNCHANGED <<nameAnswer, nameCrash>>

\* name_extend with one component, name_append with those of another name.
ExtendName ==
  /\ Step
  /\ \E i \in DOMAIN names : \E more \in {<<c>> : c \in Components} \cup {names[j].parts : j \in DOMAIN names} :
       /\ Len(names[i].parts) + Len(more) <= MaxComponents
       /\ nameCrash' = FreesConstant(names[i])
       /\ names' = [names EXCEPT ![i] = name_append_array(@, more)]
  /\ UNCHANGED nameAnswer

PrintName ==
  /\ Step /\ \E i \in DOMAIN names, sep \in Separators : names' = [names EXCEPT ![i] = name_tostring_sep(@, sep)]
  /\ UNCHANGED <<nameAnswer, nameCrash>>

CompareNames ==
  /\ Step
  /\ \E i, j \in DOMAIN names :
       nameAnswer' = [of |-> names[i].parts, other |-> names[j].parts,
                      cmp |-> name_cmp(names[i].parts, names[j].parts),
                      starts |-> name_startswith(names[i].parts, names[j].parts)]
  /\ UNCHANGED <<names, nameCrash>>

NamesInit == names = <<>> /\ nameAnswer = NoAnswer /\ nameCrash = FALSE /\ nameSteps = 0
NamesNext == NewName \/ DerivedName \/ ExtendName \/ PrintName \/ CompareNames
-----------------------------------------------------------------------------
(* name.c:263 -- what a name is printed as is always what it is made of,   *)
(* whatever was appended since and whichever separator was used before;    *)
(* and a prefix is never the greater one of two names.  Appending to an    *)
(* empty name that was printed frees a constant.                           *)
PrintedAsTheyAre ==
  /\ \A i \in DOMAIN names : names[i].str # Unprinted => names[i].str = Joined(names[i].parts, names[i].sep)
  /\ nameAnswer.starts => nameAnswer.cmp >= 0 /\ (nameAnswer.cmp = 0 <=> nameAnswer.of = nameAnswer.other)
-----------------------------------------------------------------------------
(* A tree: nodes[1] is the root, and a node knows the one above it.        *)
VARIABLES
  nodes,       \* [label, up, branches, data]: up and branches are nodes, 0 is none
  treeHeld,    \* history: the names of the nodes that were put in and not taken out, with their data
  treeTwins,   \* history: a label was appended where it was already
  treeCrash,   \* a NULL was copied as a text
  treeSteps
treeVars == <<nodes, treeHeld, treeTwins, treeCrash, treeSteps>>

TreeStep == treeSteps < MaxNameSteps /\ ~treeCrash /\ treeSteps' = treeSteps + 1
NoData_ == "no data"

hierarchy_get_bylabel(t, n, label) ==
  LET at == SelectInSeq(t[n].branches, LAMBDA b : t[b].label = label) IN IF at = 0 THEN 0 ELSE t[n].branches[at]

hierarchy_append(t, n, label, data) ==
  Append([t EXCEPT ![n].branches = Append(@, Len(t) + 1)], [label |-> label, up |-> n, branches |-> <<>>, data |-> data])

\* Wrong: a branch would be made for every component.
AlwaysAppends(t, n, name, data) ==
  LET there == FoldLeft(LAMBDA at, label : [t |-> hierarchy_append(at.t, at.n, label, NoData_), n |-> Len(at.t) + 1],
                        [t |-> t, n |-> n], name)
  IN [there.t EXCEPT ![there.n].data = data]

(* What is missing on the way is made; the last one gets the data.         *)
hierarchy_insert(t, n, name, data) ==
  LET down(at, label) ==
        LET b == hierarchy_get_bylabel(at.t, at.n, label)
        IN IF b # 0 THEN [at EXCEPT !.n = b]
           ELSE [t |-> hierarchy_append(at.t, at.n, label, NoData_), n |-> Len(at.t) + 1]
      there == FoldLeft(down, [t |-> t, n |-> n], name)
  IN [there.t EXCEPT ![there.n].data = data]

hierarchy_find(t, n, name) ==
  FoldLeft(LAMBDA at, label : IF at = 0 THEN 0 ELSE hierarchy_get_bylabel(t, at, label), n, name)

(* As far down as the name leads.                                          *)
hierarchy_match(t, n, name) ==
  FoldLeft(LAMBDA at, label :
             LET b == IF at.lost THEN 0 ELSE hierarchy_get_bylabel(t, at.node, label)
             IN IF b = 0 THEN [at EXCEPT !.lost = TRUE] ELSE [at EXCEPT !.node = b, !.count = @ + 1],
           [node |-> n, count |-> 0, lost |-> FALSE], name)

(* The branch is taken out; the node itself keeps the way up.              *)
hierarchy_remove(t, n, name) ==
  LET leaf == hierarchy_find(t, n, name)
  IN IF name = <<>> \/ leaf = 0 THEN t
     ELSE [t EXCEPT ![t[leaf].up].branches = SelectSeq(@, LAMBDA b : b # leaf)]

hierarchy_depth(t, n) ==
  LET depth[k \in 0 .. Len(t)] == IF k = 0 THEN 0 ELSE 1 + depth[t[k].up] IN depth[n]
hierarchy_root(t, n) ==
  LET root[k \in DOMAIN t] == IF t[k].up = 0 THEN k ELSE root[t[k].up] IN root[n]

\* The nodes below a node.
Below_(t, n) ==
  LET below[k \in DOMAIN t] == UNION {{b} \cup below[b] : b \in ToSet(t[k].branches)} IN below[n]

(* A label, the number of a branch, or what the node knows of itself.      *)
_hierarchy_resolve(t, n, what) ==
  LET branch == IF what.kind = "label" THEN hierarchy_get_bylabel(t, n, what.of) ELSE 0
  IN CASE branch # 0 -> branch
       [] branch = 0 /\ what.kind = "index" /\ what.of \in 0 .. Len(t[n].branches) - 1 -> t[n].branches[what.of + 1]
       [] branch = 0 /\ what.kind = "label" /\ what.of = "up" -> t[n].up
       [] branch = 0 /\ what.kind = "label" /\ what.of = "root" -> hierarchy_root(t, n)
       [] OTHER -> 0
-----------------------------------------------------------------------------
TreeInsert ==
  /\ TreeStep
  /\ \E name \in Lists, data \in {NoData_, "data"} :
       /\ Len(nodes) + Len(name) <= MaxNodes
       /\ nodes' = hierarchy_insert(nodes, 1, name, data)
       /\ treeHeld' = [m \in DOMAIN treeHeld \cup {SubSeq(name, 1, k) : k \in 0 .. Len(name)} |->
                         IF m = name THEN data ELSE IF m \in DOMAIN treeHeld THEN treeHeld[m] ELSE NoData_]
  /\ UNCHANGED <<treeTwins, treeCrash>>

\* The script's method takes its first argument for the data as well.
TreeAppend ==
  /\ TreeStep
  /\ \E name \in DOMAIN treeHeld, label \in Components :
       /\ Len(name) < 2 /\ Len(nodes) < MaxNodes
       /\ LET n == hierarchy_find(nodes, 1, name)
              there == hierarchy_get_bylabel(nodes, n, label) # 0
          IN /\ nodes' = hierarchy_append(nodes, n, label, "data")
             /\ treeTwins' = (treeTwins \/ there)
             /\ treeHeld' = IF there THEN treeHeld ELSE (Append(name, label) :> "data") @@ treeHeld
  /\ UNCHANGED treeCrash

TreeRemove ==
  /\ TreeStep
  /\ \E name \in Lists :
       /\ nodes' = hierarchy_remove(nodes, 1, name)
       /\ treeHeld' = [m \in {x \in DOMAIN treeHeld : name = <<>> \/ ~name_startswith(x, name)} |-> treeHeld[m]]
  /\ UNCHANGED <<treeTwins, treeCrash>>

(* The iterator names each node that has data, and hierarchy_name leaves   *)
(* the first of its labels unset, but copies it.                           *)
TreeIterate ==
  /\ TreeStep
  /\ treeCrash' = \E b \in Below_(nodes, 1) : nodes[b].data # NoData_
  /\ UNCHANGED <<nodes, treeHeld, treeTwins>>

TreeInit ==
  /\ nodes = <<[label |-> "/", up |-> 0, branches |-> <<>>, data |-> NoData_]>>
  /\ treeHeld = (<<>> :> NoData_) /\ treeTwins = FALSE /\ treeCrash = FALSE /\ treeSteps = 0
TreeNext == TreeInsert \/ TreeAppend \/ TreeRemove \/ TreeIterate
-----------------------------------------------------------------------------
Reached(n, kind, of) == _hierarchy_resolve(nodes, n, [kind |-> kind, of |-> of])

(* hierarchy.c:199, hierarchy.c:217 -- a tree is the mapping of the names  *)
(* that were put in: a name leads to a node just when it is held, and that *)
(* node has its data, as long as no label was appended twice in one place; *)
(* a match goes as far as some prefix of the name is held, and the way up  *)
(* from a node is the way that led down to it.                             *)
TreeHoldsNames ==
  ~treeTwins =>
    \A name \in Lists \cup {n \o <<c>> : n \in Lists, c \in Components} :
      LET at == hierarchy_find(nodes, 1, name)
          match == hierarchy_match(nodes, 1, name)
      IN /\ at # 0 <=> name \in DOMAIN treeHeld
         /\ at # 0 =>
              /\ nodes[at].data = treeHeld[name]
              /\ hierarchy_depth(nodes, at) = Len(name) + 1 /\ hierarchy_root(nodes, at) = 1
              /\ name # <<>> => Reached(at, "label", "up") = hierarchy_find(nodes, 1, Front(name))
              /\ \A c \in Components : Reached(at, "label", c) = hierarchy_find(nodes, 1, Append(name, c))
              /\ \A i \in DOMAIN nodes[at].branches : nodes[Reached(at, "index", i - 1)].up = at
         /\ SubSeq(name, 1, match.count) \in DOMAIN treeHeld
         /\ \A k \in match.count + 1 .. Len(name) : SubSeq(name, 1, k) \notin DOMAIN treeHeld
=============================================================================
