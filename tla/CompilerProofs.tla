---------------------------- MODULE CompilerProofs ----------------------------
(***************************************************************************)
(* The compiler's promises, for scripts of any size.                       *)
(*                                                                         *)
(* The argument has three levels.  The code of a function under            *)
(* construction: every label has a home, the blocks it has to be placed    *)
(* in, and is placed, pending, or due, which is to say that somebody holds *)
(* it.  The parser: its stack, bookmarks, counters and functions are what  *)
(* a list of kinds of items stands for, and the labels on the stack are    *)
(* those that are due.  The production stack: each symbol takes some items *)
(* from the top of the list and puts others there, and the symbols that    *)
(* are left take the list to its end.                                      *)
(***************************************************************************)
EXTENDS MCCompiler, Induction

Names == LabelNames \cup {"", "ERROR", "END", "Break", "Continue", "varargs",
                          "constructor"}
Instructions == [op : Ops, name : Names, value : Value]
Node == [instr : Instructions, labels : SUBSET Names]
Bytecodes == [instructions : Seq(Node), pending_labels : Seq(Names),
              deferred_blocks : {<<>>}, bookmarks : Seq(Nat)]

\* Where a label belongs: in these blocks, as the end of one or as a target.
Home == [nest : Seq(Names), block : BOOLEAN]

\* What an instruction behind n others does to the open blocks.
Passes(instr, cur, after, n) ==
    /\ instr.op = "EnterContext" => after = <<instr.name>> \o cur /\ (n = 0 \/ cur # <<>>)
    /\ instr.op = "LeaveContext" => cur # <<>> /\ after = Tail(cur)
    /\ instr.op \notin {"EnterContext", "LeaveContext"} => after = cur

\* nest[i]: the blocks open before node i, innermost first.
Opens(nodes, nest) ==
    /\ nest \in [1..(Len(nodes) + 1) -> Seq(Names)] /\ nest[1] = <<>>
    /\ \A i \in 1..Len(nodes) : Passes(nodes[i].instr, nest[i], nest[i + 1], i - 1)

\* The labels of a node are at home there, and it names labels with a home.
AtHome(node, before, after, home) ==
    /\ \A l \in node.labels :
        /\ l \in DOMAIN home /\ home[l].nest = before
        /\ home[l].block => node.instr.op = "LeaveContext"
    /\ node.instr.op = "EnterContext" =>
        /\ node.instr.name \in DOMAIN home
        /\ home[node.instr.name] = [nest |-> after, block |-> TRUE]
    /\ node.instr.op \in Branches =>
        node.instr.name \in DOMAIN home /\ home[node.instr.name].nest = before

NodesAtHome(nodes, nest, home) ==
    \A i \in 1..Len(nodes) : AtHome(nodes[i], nest[i], nest[i + 1], home)

\* So are the labels that wait for the next node, and those that are due.
PendingAtHome(b, cur, home) ==
    \A l \in Elements(b.pending_labels) : l \in DOMAIN home /\ home[l].nest = cur
NoBlockPending(b, home) == \A l \in Elements(b.pending_labels) : ~home[l].block
DueAtHome(due, home) == \A d \in due : d[1] \in DOMAIN home /\ home[d[1]] = d[2]

\* No label is lost.
Kept(b, home, due) ==
    \A l \in DOMAIN home : \/ \E i \in 1..Len(b.instructions) : l \in b.instructions[i].labels
                           \/ l \in Elements(b.pending_labels)
                           \/ \E d \in due : d[1] = l

Homes(home, L) ==
    home \in [DOMAIN home -> Home] /\ DOMAIN home \subseteq L /\ DOMAIN home \subseteq Names

Fits(b, nest, home, due, L) ==
    /\ b \in Bytecodes
    /\ Opens(b.instructions, nest)
    /\ Homes(home, L)
    /\ NodesAtHome(b.instructions, nest, home)
    /\ PendingAtHome(b, nest[Len(b.instructions) + 1], home)
    /\ due \in SUBSET (Names \X Home) /\ DueAtHome(due, home)
    /\ Kept(b, home, due)
-------------------------------------------------------------------------------
(* A node more: the blocks open behind it follow from its instruction.     *)
LEMMA OneMoreOpens ==
  ASSUME NEW nodes \in Seq(Node), NEW nest, Opens(nodes, nest), NEW node \in Node,
         NEW after \in Seq(Names), NEW cur, cur = nest[Len(nodes) + 1],
         Passes(node.instr, cur, after, Len(nodes)),
         NEW nest2, nest2 = [i \in 1..(Len(nodes) + 2) |->
                               IF i = Len(nodes) + 2 THEN after ELSE nest[i]]
  PROVE  Opens(Append(nodes, node), nest2)
<1> DEFINE n == Len(nodes)
           more == Append(nodes, node)
<1>1. n \in Nat /\ Len(more) = n + 1 /\ more[n + 1] = node
      /\ \A i \in 1..n : more[i] = nodes[i]
  OBVIOUS
<1>2. nest \in [1..(n + 1) -> Seq(Names)] /\ nest[1] = <<>>
  BY DEF Opens
<1>3. /\ \A i \in 1..(n + 1) : nest2[i] = nest[i]
      /\ nest2[n + 2] = after /\ nest2 \in [1..(n + 2) -> Seq(Names)]
  BY <1>1, <1>2
<1> HIDE DEF n, more
<1>4. ASSUME NEW i \in 1..(n + 1)
      PROVE  Passes(more[i].instr, nest2[i], nest2[i + 1], i - 1)
  <2>1. CASE i = n + 1
    <3>1. nest2[i] = cur /\ nest2[i + 1] = after /\ more[i] = node /\ i - 1 = Len(nodes)
      BY <1>1, <1>3, <2>1 DEF n
    <3> QED BY <3>1
  <2>2. CASE i \in 1..n
    <3>1. i \in 1..(n + 1) /\ i + 1 \in 1..(n + 1)
      BY <1>1, <2>2
    <3>2. nest2[i] = nest[i] /\ nest2[i + 1] = nest[i + 1]
      BY <1>3, <3>1
    <3>3. more[i] = nodes[i]
      BY <1>1, <2>2
    <3> QED BY <2>2, <3>2, <3>3 DEF Opens, n
  <2> QED BY <1>1, <2>1, <2>2
<1>5. nest2[1] = <<>>
  BY <1>1, <1>2, <1>3
<1>6. Len(more) + 1 = n + 2
  BY <1>1
<1>7. Opens(more, nest2)
  BY <1>1, <1>3, <1>4, <1>5, <1>6, Zenon DEF Opens
<1> QED BY <1>7 DEF more

Current(b, nest) == nest[Len(b.instructions) + 1]

\* The node an instruction becomes.
NodeFor(b, instr) == [instr |-> instr, labels |-> Elements(b.pending_labels)]

(* Pushing an instruction that is at home keeps everything in its place;   *)
(* it takes the pending labels.                                            *)
LEMMA Pushed ==
  ASSUME NEW b, NEW nest, NEW home, NEW due, NEW L, Fits(b, nest, home, due, L),
         NEW x \in Instructions, NEW after \in Seq(Names),
         Passes(x, Current(b, nest), after, Len(b.instructions)),
         AtHome(NodeFor(b, x), Current(b, nest), after, home),
         NEW c, c = bytecode_push_instruction(b, x)
  PROVE  /\ c.instructions = Append(b.instructions, NodeFor(b, x))
         /\ c.pending_labels = <<>> /\ c.bookmarks = b.bookmarks
         /\ \E nest2 : Fits(c, nest2, home, due, L) /\ Current(c, nest2) = after
<1> DEFINE nodes == b.instructions
           node == NodeFor(b, x)
           n == Len(nodes)
           nest2 == [i \in 1..(n + 2) |-> IF i = n + 2 THEN after ELSE nest[i]]
<1>1. /\ b \in Bytecodes /\ nodes \in Seq(Node) /\ n \in Nat
      /\ Elements(b.pending_labels) \subseteq Names /\ node \in Node
  BY DEF Fits, Bytecodes, Elements, NodeFor, Node
<1>2. /\ c.instructions = Append(nodes, node) /\ c.pending_labels = <<>>
      /\ c.bookmarks = b.bookmarks /\ c.deferred_blocks = b.deferred_blocks
      /\ c \in Bytecodes
  <2>1. c = [b EXCEPT !.instructions = Append(nodes, node), !.pending_labels = <<>>]
    BY <1>1 DEF bytecode_push_instruction, NodeFor, Bytecodes
  <2>2. Append(nodes, node) \in Seq(Node) /\ <<>> \in Seq(Names)
    BY <1>1
  <2> HIDE DEF node, nodes
  <2>3. c \in Bytecodes
    BY <1>1, <2>1, <2>2 DEF Bytecodes
  <2> QED BY <1>1, <2>1, <2>3 DEF Bytecodes, nodes
<1>3. Elements(c.pending_labels) = {}
  BY <1>2 DEF Elements
<1>4. /\ Len(c.instructions) = n + 1 /\ c.instructions[n + 1] = node
      /\ \A i \in 1..n : c.instructions[i] = nodes[i]
  BY <1>1, <1>2
<1>5. n > 0 => nodes # <<>>
  BY <1>1
<1>6. /\ \A i \in 1..(n + 1) : nest2[i] = nest[i]
      /\ nest2[n + 2] = after
  BY <1>1
<1>7. Opens(c.instructions, nest2)
  <2>1. Opens(nodes, nest) /\ node.instr = x
    BY DEF Fits, NodeFor
  <2>2. Passes(node.instr, nest[n + 1], after, n)
    BY <2>1 DEF Current
  <2> HIDE DEF node, n
  <2>3. Opens(Append(nodes, node), nest2)
    BY <1>1, <2>1, <2>2, OneMoreOpens DEF n
  <2> QED BY <1>2, <2>3
<1> HIDE DEF nest2, node, n, nodes
<1>8. NodesAtHome(c.instructions, nest2, home)
  <2> SUFFICES ASSUME NEW i \in 1..(n + 1)
               PROVE  AtHome(c.instructions[i], nest2[i], nest2[i + 1], home)
    BY <1>4 DEF NodesAtHome
  <2>1. CASE i = n + 1
    <3>1. nest2[i] = Current(b, nest) /\ nest2[i + 1] = after /\ c.instructions[i] = node
      BY <1>1, <1>4, <1>6, <2>1 DEF Current, n, nodes
    <3> QED BY <3>1 DEF node
  <2>2. CASE i \in 1..n
    <3>1. i \in 1..(n + 1) /\ i + 1 \in 1..(n + 1)
      BY <1>1, <2>2
    <3>2. nest2[i] = nest[i] /\ nest2[i + 1] = nest[i + 1]
      BY <1>6, <3>1
    <3>3. AtHome(nodes[i], nest[i], nest[i + 1], home)
      BY <2>2 DEF Fits, NodesAtHome, nodes, n
    <3> QED BY <1>4, <2>2, <3>2, <3>3
  <2> QED BY <1>1, <2>1, <2>2
<1>9. PendingAtHome(c, nest2[n + 2], home)
  BY <1>3 DEF PendingAtHome
<1>10. Kept(c, home, due)
  <2> SUFFICES ASSUME NEW l \in DOMAIN home
               PROVE  \/ \E i \in 1..(n + 1) : l \in c.instructions[i].labels
                      \/ \E d \in due : d[1] = l
    BY <1>4 DEF Kept
  <2>1. \/ \E i \in 1..n : l \in nodes[i].labels
        \/ l \in Elements(b.pending_labels)
        \/ \E d \in due : d[1] = l
    BY DEF Fits, Kept, nodes, n
  <2>2. CASE \E i \in 1..n : l \in nodes[i].labels
    BY <1>1, <1>4, <2>2
  <2>3. CASE l \in Elements(b.pending_labels)
    <3>1. l \in node.labels
      BY <2>3 DEF node, NodeFor
    <3>2. n + 1 \in 1..(n + 1)
      BY <1>1
    <3> QED BY <1>4, <3>1, <3>2
  <2> QED BY <2>1, <2>2, <2>3
<1>11. Len(c.instructions) + 1 = n + 2
  BY <1>1, <1>4
<1>12. Fits(c, nest2, home, due, L)
  BY <1>2, <1>7, <1>8, <1>9, <1>10, <1>11 DEF Fits
<1>13. Current(c, nest2) = after
  BY <1>6, <1>11 DEF Current
<1> QED BY <1>2, <1>12, <1>13 DEF node, nodes

\* What remains due once label l is taken care of.
Remains(due, rest, l, h) ==
    <<l, h>> \in due /\ rest \subseteq due /\ due \subseteq rest \cup {<<l, h>>}

(* A label that is due and at home here may be attached to the next node.  *)
LEMMA Attached ==
  ASSUME NEW b, NEW nest, NEW home, NEW due, NEW L, Fits(b, nest, home, due, L),
         NEW l, NEW h, NEW rest, Remains(due, rest, l, h), h.nest = Current(b, nest),
         NEW c, c = AddPending(b, l)
  PROVE  /\ Fits(c, nest, home, rest, L)
         /\ c.instructions = b.instructions /\ c.bookmarks = b.bookmarks
         /\ Elements(c.pending_labels) = Elements(b.pending_labels) \cup {l}
         /\ home[l] = h
<1>1. b \in Bytecodes /\ l \in Names /\ l \in DOMAIN home /\ home[l] = h
  <2>1. <<l, h>> \in due /\ <<l, h>> \in Names \X Home
    BY DEF Fits, Remains
  <2> QED BY <2>1 DEF Fits, DueAtHome
<1>2. /\ c.instructions = b.instructions /\ c.pending_labels = <<l>> \o b.pending_labels
      /\ c.bookmarks = b.bookmarks /\ c.deferred_blocks = b.deferred_blocks
      /\ c \in Bytecodes
  <2>1. <<l>> \o b.pending_labels \in Seq(Names)
    BY <1>1 DEF Bytecodes
  <2>2. c = [b EXCEPT !.pending_labels = <<l>> \o b.pending_labels]
    BY <1>1 DEF AddPending, Bytecodes
  <2>3. c \in Bytecodes
    BY <1>1, <2>1, <2>2 DEF Bytecodes
  <2> QED BY <1>1, <2>2, <2>3 DEF Bytecodes
<1>3. Elements(c.pending_labels) = Elements(b.pending_labels) \cup {l}
  <2>1. b.pending_labels \in Seq(Names)
    BY <1>1 DEF Bytecodes
  <2> DEFINE p == b.pending_labels
             q == <<l>> \o p
  <2>2. /\ Len(q) = Len(p) + 1 /\ q[1] = l /\ Len(p) \in Nat
        /\ DOMAIN q = 1..(Len(p) + 1) /\ DOMAIN p = 1..Len(p)
        /\ \A i \in 1..Len(p) : q[i + 1] = p[i]
        /\ \A i \in 2..Len(q) : q[i] = p[i - 1]
    BY <1>1, <2>1
  <2> HIDE DEF p, q
  <2>3. Elements(q) \subseteq Elements(p) \cup {l}
    <3> SUFFICES ASSUME NEW i \in 1..(Len(p) + 1) PROVE q[i] \in Elements(p) \cup {l}
      BY <2>2 DEF Elements
    <3>1. CASE i = 1
      BY <2>2, <3>1
    <3>2. CASE i \in 2..Len(q)
      <4>1. i - 1 \in 1..Len(p) /\ q[i] = p[i - 1]
        BY <2>2, <3>2
      <4> QED BY <2>2, <4>1 DEF Elements
    <3> QED BY <2>2, <3>1, <3>2
  <2>4. l \in Elements(q)
    <3>1. 1 \in DOMAIN q
      BY <2>2
    <3> QED BY <2>2, <3>1 DEF Elements
  <2>5. Elements(p) \subseteq Elements(q)
    <3> SUFFICES ASSUME NEW i \in 1..Len(p) PROVE p[i] \in Elements(q)
      BY <2>2 DEF Elements
    <3>1. i + 1 \in DOMAIN q /\ q[i + 1] = p[i]
      BY <2>2
    <3> QED BY <3>1 DEF Elements
  <2> QED BY <1>2, <2>3, <2>4, <2>5 DEF p, q
<1>4. PendingAtHome(c, nest[Len(c.instructions) + 1], home)
  BY <1>1, <1>2, <1>3 DEF PendingAtHome, Current, Fits
<1>5. Kept(c, home, rest)
  <2> SUFFICES ASSUME NEW k \in DOMAIN home
               PROVE  \/ \E i \in 1..Len(b.instructions) : k \in b.instructions[i].labels
                      \/ k \in Elements(c.pending_labels)
                      \/ \E d \in rest : d[1] = k
    BY <1>2 DEF Kept
  <2>1. \/ \E i \in 1..Len(b.instructions) : k \in b.instructions[i].labels
        \/ k \in Elements(b.pending_labels)
        \/ \E d \in due : d[1] = k
    BY DEF Fits, Kept
  <2>2. <<l, h>>[1] = l /\ due \subseteq rest \cup {<<l, h>>}
    BY DEF Remains
  <2> QED BY <1>3, <2>1, <2>2
<1>6. DueAtHome(rest, home) /\ rest \in SUBSET (Names \X Home)
  BY DEF Fits, DueAtHome, Remains
<1> QED BY <1>1, <1>2, <1>3, <1>4, <1>5, <1>6 DEF Fits

(* A label nobody has seen gets a home, and whoever made it owes it.       *)
LEMMA Settled ==
  ASSUME NEW b, NEW nest, NEW home, NEW due, NEW L, Fits(b, nest, home, due, L),
         NEW l \in Names, l \notin L, NEW h \in Home
  PROVE  \E home2 : /\ Fits(b, nest, home2, due \cup {<<l, h>>}, L \cup {l})
                    /\ \A k \in DOMAIN home : home2[k] = home[k] /\ k \in DOMAIN home2
<1> DEFINE home2 == [k \in DOMAIN home \cup {l} |-> IF k = l THEN h ELSE home[k]]
           due2 == due \cup {<<l, h>>}
<1>1. home \in [DOMAIN home -> Home] /\ DOMAIN home \subseteq L /\ DOMAIN home \subseteq Names
  BY DEF Fits, Homes
<1>2. l \notin DOMAIN home
  BY <1>1
<1>3. /\ DOMAIN home2 = DOMAIN home \cup {l} /\ home2[l] = h
      /\ \A k \in DOMAIN home : home2[k] = home[k] /\ k \in DOMAIN home2
      /\ home2 \in [DOMAIN home2 -> Home]
  BY <1>1, <1>2
<1> HIDE DEF home2
<1>4. Homes(home2, L \cup {l})
  BY <1>1, <1>3 DEF Homes
<1>5. NodesAtHome(b.instructions, nest, home2)
  <2> SUFFICES ASSUME NEW i \in 1..Len(b.instructions)
               PROVE  AtHome(b.instructions[i], nest[i], nest[i + 1], home2)
    BY DEF NodesAtHome
  <2>1. AtHome(b.instructions[i], nest[i], nest[i + 1], home)
    BY DEF Fits, NodesAtHome
  <2> QED BY <1>3, <2>1 DEF AtHome
<1>6. PendingAtHome(b, nest[Len(b.instructions) + 1], home2)
  BY <1>3 DEF Fits, PendingAtHome
<1>7. due2 \in SUBSET (Names \X Home) /\ DueAtHome(due2, home2)
  BY <1>3 DEF Fits, DueAtHome
<1>8. Kept(b, home2, due2)
  <2> SUFFICES ASSUME NEW k \in DOMAIN home2
               PROVE  \/ \E i \in 1..Len(b.instructions) : k \in b.instructions[i].labels
                      \/ k \in Elements(b.pending_labels)
                      \/ \E d \in due2 : d[1] = k
    BY DEF Kept
  <2>1. CASE k = l
    <3>1. <<l, h>> \in due2 /\ <<l, h>>[1] = l
      OBVIOUS
    <3> QED BY <2>1, <3>1
  <2>2. CASE k \in DOMAIN home
    BY <2>2 DEF Fits, Kept
  <2> QED BY <1>3, <2>1, <2>2
<1>9. Fits(b, nest, home2, due2, L \cup {l})
  BY <1>4, <1>5, <1>6, <1>7, <1>8 DEF Fits
<1> QED BY <1>3, <1>9

-------------------------------------------------------------------------------
(* A function under construction: the blocks open behind its last node,    *)
(* the labels that are due, those that are placed and may be jumped back   *)
(* to, and the places to cut.                                              *)
Functions == [nest : Seq(Names), due : SUBSET (Names \X Home),
              known : SUBSET (Names \X Home), cuts : Seq(Nat)]

Target(nest) == [nest |-> nest, block |-> FALSE]
EndOf(nest) == [nest |-> nest, block |-> TRUE]

\* Bytecode b is what has been written of function f; its labels are of L.
Written(b, f, L) ==
    /\ b.instructions # <<>> /\ b.instructions[1].instr = Enter("ERROR", FALSE)
    /\ b.bookmarks = f.cuts
    /\ \E nest, home : /\ Fits(b, nest, home, f.due, L) /\ Current(b, nest) = f.nest
                       /\ NoBlockPending(b, home) /\ DueAtHome(f.known, home)

\* g is f but for a label that has been taken care of.
Without(f, g, l, h) ==
    g.cuts = f.cuts /\ g.known = f.known /\ Remains(f.due, g.due, l, h)

\* So is g, and the label may be jumped back to.
Placed(f, g, l) ==
    /\ g.nest = f.nest /\ g.cuts = f.cuts /\ Remains(f.due, g.due, l, Target(f.nest))
    /\ g.known \subseteq f.known \cup {<<l, Target(f.nest)>>}

Straight(op) == op \notin Branches \cup {"EnterContext", "LeaveContext"}

(* The values and the instructions there are.                              *)
LEMMA ValuesAre ==
  /\ Nil \in Value /\ Data \in Value /\ \A n \in Int : Num(n) \in Value
  /\ \A e \in Errors : Err(e) \in Value
<1>1. Nil \in Value
  BY DEF Nil, Value
<1>2. \A n \in Int : Num(n) \in Value
  BY DEF Num, Value
<1>3. Data \in Value
  BY <1>2 DEF Data
<1>4. \A e \in Errors : Err(e) \in Value
  BY <1>1 DEF Err, Value
<1> QED BY <1>1, <1>2, <1>3, <1>4

(* An instruction has the parts it was made of.                            *)
LEMMA InstructionsAre ==
  ASSUME NEW op \in Ops, NEW name \in Names, NEW value \in Value
  PROVE  /\ Instr(op, name, value) \in Instructions
         /\ Instr(op, name, value).op = op /\ Instr(op, name, value).name = name
         /\ Instr(op, name, value).value = value
BY DEF Instr, Instructions

(* The simple ones.                                                        *)
LEMMA PlainsAre ==
  ASSUME NEW op \in Ops
  PROVE  Plain(op) \in Instructions /\ Plain(op).op = op
<1>1. "" \in Names
  BY DEF Names
<1> QED BY <1>1, ValuesAre DEF Plain, Instr, Instructions

(* The first node stays where it is.                                       *)
LEMMA FirstStays ==
  ASSUME NEW b, NEW L, NEW nest, NEW home, NEW due, Fits(b, nest, home, due, L),
         b.instructions # <<>>, NEW node \in Node, NEW nodes, nodes = Append(b.instructions, node)
  PROVE  nodes # <<>> /\ nodes[1] = b.instructions[1]
<1>1. b.instructions \in Seq(Node)
  BY DEF Fits, Bytecodes
<1> QED BY <1>1

(* bytecode.c:112 -- an instruction that opens, closes and names nothing.  *)
LEMMA StraightIsWritten ==
  ASSUME NEW b, NEW f \in Functions, NEW L, Written(b, f, L),
         NEW x \in Instructions, Straight(x.op)
  PROVE  Written(bytecode_push_instruction(b, x), f, L)
<1> DEFINE c == bytecode_push_instruction(b, x)
<1>1. PICK nest, home : /\ Fits(b, nest, home, f.due, L) /\ Current(b, nest) = f.nest
                        /\ NoBlockPending(b, home) /\ DueAtHome(f.known, home)
  BY DEF Written
<1>2. Passes(x, Current(b, nest), f.nest, Len(b.instructions)) /\ f.nest \in Seq(Names)
  BY <1>1 DEF Passes, Straight, Functions
<1>3. AtHome(NodeFor(b, x), Current(b, nest), f.nest, home)
  BY <1>1 DEF AtHome, NodeFor, Straight, Fits, PendingAtHome, NoBlockPending, Current
<1>4. /\ c.instructions = Append(b.instructions, NodeFor(b, x))
      /\ c.pending_labels = <<>> /\ c.bookmarks = b.bookmarks
      /\ \E nest2 : Fits(c, nest2, home, f.due, L) /\ Current(c, nest2) = f.nest
  BY <1>1, <1>2, <1>3, Pushed
<1>5. NoBlockPending(c, home)
  BY <1>4 DEF NoBlockPending, Elements
<1>6. NodeFor(b, x) \in Node
  BY <1>1 DEF NodeFor, Node, Elements, Fits, Bytecodes
<1>7. c.instructions # <<>> /\ c.instructions[1] = b.instructions[1]
  BY <1>1, <1>4, <1>6, FirstStays DEF Written
<1> QED BY <1>1, <1>4, <1>5, <1>7 DEF Written

(* A branch to a label that is due in the blocks around it.                *)
LEMMA BranchIsWritten ==
  ASSUME NEW b, NEW f \in Functions, NEW L, Written(b, f, L),
         NEW x \in Instructions, x.op \in Branches,
         NEW h, <<x.name, h>> \in f.due \cup f.known, h.nest = f.nest
  PROVE  Written(bytecode_push_instruction(b, x), f, L)
<1> DEFINE c == bytecode_push_instruction(b, x)
<1>1. PICK nest, home : /\ Fits(b, nest, home, f.due, L) /\ Current(b, nest) = f.nest
                        /\ NoBlockPending(b, home) /\ DueAtHome(f.known, home)
  BY DEF Written
<1>2. Passes(x, Current(b, nest), f.nest, Len(b.instructions)) /\ f.nest \in Seq(Names)
  BY <1>1 DEF Passes, Branches, Functions
<1>3. x.name \in DOMAIN home /\ home[x.name].nest = f.nest
  <2>1. <<x.name, h>>[1] = x.name /\ <<x.name, h>>[2] = h
    OBVIOUS
  <2> QED BY <1>1, <2>1 DEF Fits, DueAtHome
<1>4. AtHome(NodeFor(b, x), Current(b, nest), f.nest, home)
  BY <1>1, <1>3 DEF AtHome, NodeFor, Branches, Fits, PendingAtHome, NoBlockPending, Current
<1>5. /\ c.instructions = Append(b.instructions, NodeFor(b, x))
      /\ c.pending_labels = <<>> /\ c.bookmarks = b.bookmarks
      /\ \E nest2 : Fits(c, nest2, home, f.due, L) /\ Current(c, nest2) = f.nest
  BY <1>1, <1>2, <1>4, Pushed
<1>6. NoBlockPending(c, home)
  BY <1>5 DEF NoBlockPending, Elements
<1>7. NodeFor(b, x) \in Node
  BY <1>1 DEF NodeFor, Node, Elements, Fits, Bytecodes
<1>8. c.instructions # <<>> /\ c.instructions[1] = b.instructions[1]
  BY <1>1, <1>5, <1>7, FirstStays DEF Written
<1> QED BY <1>1, <1>5, <1>6, <1>8 DEF Written

(* scriptparse.c:905 -- a block whose label is due where it ends.          *)
LEMMA EnterIsWritten ==
  ASSUME NEW b, NEW f \in Functions, NEW L, Written(b, f, L), f.nest # <<>>,
         NEW x \in Instructions, x.op = "EnterContext",
         NEW g \in Functions, g.nest = <<x.name>> \o f.nest, g.due = f.due, g.cuts = f.cuts,
         g.known = f.known, <<x.name, EndOf(g.nest)>> \in f.due
  PROVE  Written(bytecode_push_instruction(b, x), g, L)
<1> DEFINE c == bytecode_push_instruction(b, x)
<1>1. PICK nest, home : /\ Fits(b, nest, home, f.due, L) /\ Current(b, nest) = f.nest
                        /\ NoBlockPending(b, home) /\ DueAtHome(f.known, home)
  BY DEF Written
<1>2. Passes(x, Current(b, nest), g.nest, Len(b.instructions)) /\ g.nest \in Seq(Names)
  BY <1>1 DEF Passes, Functions
<1>3. x.name \in DOMAIN home /\ home[x.name] = EndOf(g.nest)
  <2> DEFINE h == EndOf(g.nest)
  <2>1. <<x.name, h>>[1] = x.name /\ <<x.name, h>>[2] = h
    OBVIOUS
  <2> QED BY <1>1, <2>1 DEF Fits, DueAtHome
<1>4. AtHome(NodeFor(b, x), Current(b, nest), g.nest, home)
  BY <1>1, <1>3 DEF AtHome, NodeFor, Branches, Fits, PendingAtHome, NoBlockPending, Current,
                    EndOf
<1>5. /\ c.instructions = Append(b.instructions, NodeFor(b, x))
      /\ c.pending_labels = <<>> /\ c.bookmarks = b.bookmarks
      /\ \E nest2 : Fits(c, nest2, home, f.due, L) /\ Current(c, nest2) = g.nest
  <2> DEFINE after == g.nest
             due == f.due
  <2>1. Fits(b, nest, home, due, L) /\ after \in Seq(Names)
    BY <1>1, <1>2
  <2>2. AtHome(NodeFor(b, x), Current(b, nest), after, home)
    BY <1>4
  <2>3. Passes(x, Current(b, nest), after, Len(b.instructions))
    BY <1>2
  <2> HIDE DEF after, due
  <2>4. /\ c.instructions = Append(b.instructions, NodeFor(b, x))
        /\ c.pending_labels = <<>> /\ c.bookmarks = b.bookmarks
        /\ \E nest2 : Fits(c, nest2, home, due, L) /\ Current(c, nest2) = after
    BY <2>1, <2>2, <2>3, Pushed
  <2> QED BY <2>4 DEF after, due
<1>6. NoBlockPending(c, home)
  BY <1>5 DEF NoBlockPending, Elements
<1>7. NodeFor(b, x) \in Node
  BY <1>1 DEF NodeFor, Node, Elements, Fits, Bytecodes
<1>8. c.instructions # <<>> /\ c.instructions[1] = b.instructions[1]
  BY <1>1, <1>5, <1>7, FirstStays DEF Written
<1> QED BY <1>1, <1>5, <1>6, <1>8 DEF Written

(* The innermost block ends: its label is attached to a LeaveContext.      *)
LEMMA Closed ==
  ASSUME NEW b, NEW nest, NEW home, NEW due, NEW L, Fits(b, nest, home, due, L),
         NEW l, NEW h, NEW rest, Remains(due, rest, l, h), h.nest = Current(b, nest),
         NEW after \in Seq(Names), NEW x \in Instructions, x.op = "LeaveContext",
         Passes(x, h.nest, after, Len(b.instructions)),
         NEW d, d = AddPending(b, l), NEW c, c = bytecode_push_instruction(d, x)
  PROVE  /\ d.instructions = b.instructions /\ NodeFor(d, x) \in Node
         /\ c.instructions = Append(d.instructions, NodeFor(d, x))
         /\ c.pending_labels = <<>> /\ c.bookmarks = b.bookmarks
         /\ \E nest2 : Fits(c, nest2, home, rest, L) /\ Current(c, nest2) = after
<1>1. /\ Fits(d, nest, home, rest, L)
      /\ d.instructions = b.instructions /\ d.bookmarks = b.bookmarks
  BY Attached
<1>2. Current(d, nest) = h.nest
  BY <1>1 DEF Current
<1>3. Passes(x, Current(d, nest), after, Len(d.instructions))
  BY <1>1, <1>2
<1>4. AtHome(NodeFor(d, x), Current(d, nest), after, home)
  BY <1>1 DEF AtHome, NodeFor, Branches, Fits, PendingAtHome, Current
<1>5. /\ c.instructions = Append(d.instructions, NodeFor(d, x))
      /\ c.pending_labels = <<>> /\ c.bookmarks = d.bookmarks
      /\ \E nest2 : Fits(c, nest2, home, rest, L) /\ Current(c, nest2) = after
  BY <1>1, <1>3, <1>4, Pushed
<1>6. NodeFor(d, x) \in Node
  BY <1>1 DEF NodeFor, Node, Elements, Fits, Bytecodes
<1> QED BY <1>1, <1>5, <1>6

(* scriptparse.c:941 -- the end of the innermost block, with its label.    *)
LEMMA LeaveIsWritten ==
  ASSUME NEW b, NEW f \in Functions, NEW L, Written(b, f, L),
         NEW l, NEW g \in Functions,
         f.nest # <<>>, g.nest = Tail(f.nest), Without(f, g, l, EndOf(f.nest))
  PROVE  Written(bytecode_push_instruction(AddPending(b, l), Plain("LeaveContext")), g, L)
<1> DEFINE d == AddPending(b, l)
           x == Plain("LeaveContext")
           c == bytecode_push_instruction(d, x)
           h == EndOf(f.nest)
           rest == g.due
           due == f.due
           after == g.nest
<1>1. PICK nest, home : /\ Fits(b, nest, home, due, L) /\ Current(b, nest) = f.nest
                        /\ NoBlockPending(b, home) /\ DueAtHome(f.known, home)
  BY DEF Written
<1>2. h.nest = f.nest /\ after \in Seq(Names) /\ h.nest = Current(b, nest)
  BY <1>1 DEF EndOf, Functions
<1>3. Remains(due, rest, l, h)
  BY DEF Without
<1>4. x \in Instructions /\ x.op = "LeaveContext"
  <2>1. "LeaveContext" \in Ops
    BY DEF Ops
  <2> QED BY <2>1, PlainsAre
<1>5. Passes(x, h.nest, after, Len(b.instructions))
  BY <1>2, <1>4 DEF Passes
<1>6. d = AddPending(b, l) /\ c = bytecode_push_instruction(d, x)
  OBVIOUS
<1> HIDE DEF c, d, x, h, rest, due, after
<1>7. /\ d.instructions = b.instructions /\ NodeFor(d, x) \in Node
      /\ c.instructions = Append(d.instructions, NodeFor(d, x))
      /\ c.pending_labels = <<>> /\ c.bookmarks = b.bookmarks
      /\ \E nest2 : Fits(c, nest2, home, rest, L) /\ Current(c, nest2) = after
  BY <1>1, <1>2, <1>3, <1>4, <1>6, <1>5, Closed
<1>8. NoBlockPending(c, home)
  BY <1>7 DEF NoBlockPending, Elements
<1>9. c.instructions # <<>> /\ c.instructions[1] = b.instructions[1]
  BY <1>1, <1>7, FirstStays DEF Written
<1>10. g.cuts = f.cuts /\ g.known = f.known
  BY DEF Without
<1>11. Written(c, g, L)
  BY <1>1, <1>7, <1>8, <1>9, <1>10 DEF Written, rest, after
<1> QED BY <1>11 DEF c, d, x

(* A label that is due here becomes pending.                               *)
LEMMA PendingIsWritten ==
  ASSUME NEW b, NEW f \in Functions, NEW L, Written(b, f, L),
         NEW l, NEW g \in Functions, Placed(f, g, l)
  PROVE  Written(AddPending(b, l), g, L)
<1> DEFINE c == AddPending(b, l)
           h == Target(f.nest)
<1>1. PICK nest, home : /\ Fits(b, nest, home, f.due, L) /\ Current(b, nest) = f.nest
                        /\ NoBlockPending(b, home) /\ DueAtHome(f.known, home)
  BY DEF Written
<1>2. h.nest = Current(b, nest) /\ ~h.block
  BY <1>1 DEF Target
<1>3. /\ Fits(c, nest, home, g.due, L)
      /\ c.instructions = b.instructions /\ c.bookmarks = b.bookmarks
      /\ Elements(c.pending_labels) = Elements(b.pending_labels) \cup {l}
      /\ home[l] = h
  <2> DEFINE rest == g.due
             due == f.due
  <2>1. Remains(due, rest, l, h)
    BY DEF Placed
  <2>2. Fits(b, nest, home, due, L)
    BY <1>1
  <2> HIDE DEF h, rest, due, c
  <2>3. /\ Fits(c, nest, home, rest, L)
        /\ c.instructions = b.instructions /\ c.bookmarks = b.bookmarks
        /\ Elements(c.pending_labels) = Elements(b.pending_labels) \cup {l}
        /\ home[l] = h
    BY <1>2, <2>1, <2>2, Attached DEF c
  <2> QED BY <2>3 DEF rest
<1>4. NoBlockPending(c, home)
  BY <1>1, <1>2, <1>3 DEF NoBlockPending
<1>5. Current(c, nest) = g.nest
  BY <1>1, <1>3 DEF Current, Placed
<1>6. DueAtHome(g.known, home)
  <2>1. l \in DOMAIN home
    <3>1. <<l, h>> \in f.due /\ <<l, h>>[1] = l
      BY DEF Placed, Remains
    <3> QED BY <1>1, <3>1 DEF Fits, DueAtHome
  <2>2. <<l, h>>[1] = l /\ <<l, h>>[2] = h /\ g.known \subseteq f.known \cup {<<l, h>>}
    BY DEF Placed
  <2> HIDE DEF h
  <2> QED BY <1>1, <1>3, <2>1, <2>2 DEF DueAtHome
<1> QED BY <1>1, <1>3, <1>4, <1>5, <1>6 DEF Written, Placed

(* A label that was just generated is due from now on.                     *)
LEMMA NewLabelIsDue ==
  ASSUME NEW b, NEW f \in Functions, NEW L, Written(b, f, L),
         NEW l \in Names, l \notin L, NEW h \in Home
  PROVE  Written(b, [f EXCEPT !.due = @ \cup {<<l, h>>}], L \cup {l})
<1> DEFINE g == [f EXCEPT !.due = @ \cup {<<l, h>>}]
<1>1. PICK nest, home : /\ Fits(b, nest, home, f.due, L) /\ Current(b, nest) = f.nest
                        /\ NoBlockPending(b, home) /\ DueAtHome(f.known, home)
  BY DEF Written
<1>2. g.nest = f.nest /\ g.cuts = f.cuts /\ g.known = f.known /\ g.due = f.due \cup {<<l, h>>}
  BY DEF Functions
<1>3. PICK home2 : /\ Fits(b, nest, home2, f.due \cup {<<l, h>>}, L \cup {l})
                   /\ \A k \in DOMAIN home : home2[k] = home[k] /\ k \in DOMAIN home2
  BY <1>1, Settled
<1>4. NoBlockPending(b, home2)
  BY <1>1, <1>3 DEF NoBlockPending, Fits, PendingAtHome
<1>5. DueAtHome(f.known, home2)
  BY <1>1, <1>3 DEF DueAtHome
<1> HIDE DEF g
<1> QED BY <1>1, <1>2, <1>3, <1>4, <1>5 DEF Written, g

(* Labels of other functions do no harm.                                   *)
LEMMA MoreLabels ==
  ASSUME NEW b, NEW f, NEW L, Written(b, f, L), NEW M, L \subseteq M
  PROVE  Written(b, f, M)
<1>1. PICK nest, home : /\ Fits(b, nest, home, f.due, L) /\ Current(b, nest) = f.nest
                        /\ NoBlockPending(b, home) /\ DueAtHome(f.known, home)
  BY DEF Written
<1>2. Fits(b, nest, home, f.due, M)
  BY <1>1 DEF Fits, Homes
<1> QED BY <1>1, <1>2 DEF Written

(* Bookmarks and deferred blocks do not matter to the code.                *)
LEMMA SameCode ==
  ASSUME NEW b, NEW nest, NEW home, NEW due, NEW L, Fits(b, nest, home, due, L),
         NEW c \in Bytecodes, c.instructions = b.instructions,
         c.pending_labels = b.pending_labels
  PROVE  Fits(c, nest, home, due, L)
BY DEF Fits, PendingAtHome, Kept

(* bytecode.c -- a place to cut is marked, or given up again.              *)
LEMMA CutIsWritten ==
  ASSUME NEW b, NEW f, NEW L, Written(b, f, L),
         NEW c \in Bytecodes, c.instructions = b.instructions,
         c.pending_labels = b.pending_labels,
         NEW g, g.nest = f.nest, g.due = f.due, g.known = f.known, c.bookmarks = g.cuts
  PROVE  Written(c, g, L)
<1>1. PICK nest, home : /\ Fits(b, nest, home, f.due, L) /\ Current(b, nest) = f.nest
                        /\ NoBlockPending(b, home) /\ DueAtHome(f.known, home)
  BY DEF Written
<1>2. Fits(c, nest, home, f.due, L)
  BY <1>1, SameCode
<1> QED BY <1>1, <1>2 DEF Written, Current, NoBlockPending

\* A function of which nothing is written but its own block.
ErrorDue == {<<"ERROR", EndOf(<<"ERROR">>)>>}
Fresh == [nest |-> <<"ERROR">>, due |-> ErrorDue, known |-> {}, cuts |-> <<>>]

(* Where the target of a jump, and the end of a block, belong.             *)
LEMMA HomesAre ==
  ASSUME NEW nest \in Seq(Names)
  PROVE  Target(nest) \in Home /\ EndOf(nest) \in Home
BY DEF Target, EndOf, Home

(* A function begins in the block of its errors, whose label is due.       *)
LEMMA FreshIs ==
  /\ Fresh \in Functions /\ Fresh.nest = <<"ERROR">> /\ Fresh.nest # <<>>
  /\ Fresh.due = ErrorDue /\ Fresh.known = {} /\ Fresh.cuts = <<>>
  /\ ErrorDue \in SUBSET (Names \X Home) /\ Tail(Fresh.nest) = <<>>
<1>1. "ERROR" \in Names
  BY DEF Names
<1> DEFINE e == "ERROR"
<1>2. <<e>> \in Seq(Names) /\ <<e>> # <<>> /\ Tail(<<e>>) = <<>>
  <2> HIDE DEF e
  <2>1. e \in Names
    BY <1>1 DEF e
  <2> QED BY <2>1
<1>3. EndOf(<<e>>) \in Home
  BY <1>2, HomesAre
<1>4. ErrorDue \in SUBSET (Names \X Home)
  BY <1>1, <1>3 DEF ErrorDue
<1>5. <<>> \in Seq(Nat) /\ {} \in SUBSET (Names \X Home)
  OBVIOUS
<1> HIDE DEF e
<1>6. Fresh = [nest |-> <<e>>, due |-> ErrorDue, known |-> {}, cuts |-> <<>>]
  BY DEF Fresh, e
<1>7. Fresh \in Functions
  BY <1>2, <1>4, <1>5, <1>6 DEF Functions
<1> QED BY <1>2, <1>4, <1>6, <1>7 DEF e

(* scriptparse.c: the prolog, in a bytecode just made.                     *)
LEMMA FreshIsWritten ==
  ASSUME NEW L, "ERROR" \in L
  PROVE  Written(bytecode_push_instruction(bytecode_create, Enter("ERROR", FALSE)), Fresh, L)
<1> DEFINE b == bytecode_create
           x == Enter("ERROR", FALSE)
           c == bytecode_push_instruction(b, x)
           after == <<"ERROR">>
           h == EndOf(after)
           home == [l \in {"ERROR"} |-> h]
           nest == [i \in 1..1 |-> <<>>]
<1>1. "ERROR" \in Names /\ "EnterContext" \in Ops
  BY DEF Names, Ops
<1>2. x \in Instructions /\ x.op = "EnterContext" /\ x.name = "ERROR"
  BY <1>1, ValuesAre DEF Enter, Instr, Instructions
<1>3. /\ b \in Bytecodes /\ b.instructions = <<>> /\ b.pending_labels = <<>>
      /\ b.bookmarks = <<>> /\ Len(b.instructions) = 0 /\ Elements(b.pending_labels) = {}
  BY DEF bytecode_create, Bytecodes, Elements
<1>4. after \in Seq(Names) /\ h \in Home /\ ErrorDue = {<<"ERROR", h>>}
      /\ ErrorDue \in SUBSET (Names \X Home)
  BY FreshIs, HomesAre, <1>1 DEF ErrorDue, Functions
<1>5. Homes(home, L) /\ DOMAIN home = {"ERROR"} /\ home["ERROR"] = h
  BY <1>1, <1>4 DEF Homes
<1>6. Opens(b.instructions, nest) /\ nest[1] = <<>>
  BY <1>3 DEF Opens
<1>7. DueAtHome(ErrorDue, home)
  <2> SUFFICES ASSUME NEW d \in ErrorDue PROVE d[1] \in DOMAIN home /\ home[d[1]] = d[2]
    BY DEF DueAtHome
  <2>1. d = <<"ERROR", h>>
    BY DEF ErrorDue
  <2> QED BY <1>5, <2>1
<1>8. Kept(b, home, ErrorDue)
  <2>1. <<"ERROR", h>> \in ErrorDue /\ <<"ERROR", h>>[1] = "ERROR"
    BY DEF ErrorDue
  <2>2. \E d \in ErrorDue : d[1] = "ERROR"
    BY <2>1
  <2> QED BY <1>5, <2>2 DEF Kept
<1>9. PendingAtHome(b, nest[Len(b.instructions) + 1], home)
  BY <1>3 DEF PendingAtHome
<1>10. NodesAtHome(b.instructions, nest, home)
  BY <1>3 DEF NodesAtHome
<1>11. Fits(b, nest, home, ErrorDue, L)
  <2> HIDE DEF b, nest, home
  <2> QED BY <1>3, <1>4, <1>5, <1>6, <1>7, <1>8, <1>9, <1>10 DEF Fits
<1>12. Current(b, nest) = <<>>
  BY <1>3 DEF Current
<1>13. Passes(x, Current(b, nest), after, Len(b.instructions))
  <2>1. after = <<"ERROR">> \o <<>>
    OBVIOUS
  <2> HIDE DEF b, x, after, nest
  <2> QED BY <1>2, <1>3, <1>12, <2>1 DEF Passes
<1>14. AtHome(NodeFor(b, x), Current(b, nest), after, home)
  <2>1. NodeFor(b, x).instr = x /\ NodeFor(b, x).labels = {}
    BY <1>3 DEF NodeFor
  <2>2. home[x.name] = [nest |-> after, block |-> TRUE]
    BY <1>2, <1>5 DEF EndOf
  <2> HIDE DEF b, x, nest, home, after
  <2> QED BY <1>2, <1>5, <2>1, <2>2 DEF AtHome, Branches
<1>15. c = bytecode_push_instruction(b, x)
  OBVIOUS
<1> HIDE DEF b, x, nest, home, after, c, h
<1>16. /\ c.instructions = Append(b.instructions, NodeFor(b, x))
       /\ c.pending_labels = <<>> /\ c.bookmarks = b.bookmarks
       /\ \E nest2 : Fits(c, nest2, home, ErrorDue, L) /\ Current(c, nest2) = after
  BY <1>2, <1>4, <1>11, <1>13, <1>14, <1>15, Pushed
<1>17. NoBlockPending(c, home)
  BY <1>16 DEF NoBlockPending, Elements
<1>18. c.instructions # <<>> /\ c.instructions[1].instr = x
  <2>1. NodeFor(b, x) \in Node /\ NodeFor(b, x).instr = x
    BY <1>2, <1>3 DEF NodeFor, Node
  <2> QED BY <1>3, <1>16, <2>1
<1>19. DueAtHome({}, home)
  BY DEF DueAtHome
<1>20. Fresh.nest = after /\ Fresh.due = ErrorDue /\ Fresh.known = {} /\ Fresh.cuts = <<>>
  BY FreshIs DEF after
<1>21. x = Enter("ERROR", FALSE)
  BY DEF x
<1>22. Written(c, Fresh, L)
  BY <1>3, <1>16, <1>17, <1>18, <1>19, <1>20, <1>21 DEF Written
<1> QED BY <1>15, <1>22 DEF b, x

-------------------------------------------------------------------------------
(* A finished function: its blocks are nested, its labels are found, and   *)
(* nothing is left to cut or to paste.                                     *)
AllLabelsFound(p) ==
    \A i \in DOMAIN p.code :
        p.code[i].op \in Branches \cup {"EnterContext"} => p.code[i].name \in DOMAIN p.labels

Whole(b) ==
    /\ WellNested(Program(b), NestOf(Program(b))) /\ AllLabelsFound(Program(b))
    /\ b.deferred_blocks = <<>> /\ b.bookmarks = <<>>

\* No block is open, and nothing is due.
Ended == [nest |-> <<>>, due |-> {}, known |-> {}, cuts |-> <<>>]

(* It is a state that a function can be in.                                *)
LEMMA EndedIs ==
  /\ Ended \in Functions /\ Ended.nest = <<>> /\ Ended.due = {} /\ Ended.known = {}
  /\ Ended.cuts = <<>>
<1>1. <<>> \in Seq(Names) /\ <<>> \in Seq(Nat) /\ {} \in SUBSET (Names \X Home)
  OBVIOUS
<1> QED BY <1>1 DEF Ended, Functions

(* NestOf, of Bytecode, computes the open blocks from the text alone.      *)
LEMMA NestsAgree ==
  ASSUME NEW p, NEW nodes \in Seq(Node), NEW nest, Opens(nodes, nest),
         p.code \in Seq(Instructions), Len(p.code) = Len(nodes),
         \A i \in 1..Len(nodes) : p.code[i] = nodes[i].instr
  PROVE  /\ NestOf(p) = nest
         /\ nest \in [1..(Len(p.code) + 1) -> Seq({p.code[i].name : i \in 1..Len(p.code)})]
<1> DEFINE n == Len(nodes)
           S == {p.code[i].name : i \in 1..n}
           F == NestOf(p)
<1>1. n \in Nat /\ Len(p.code) = n
  OBVIOUS
<1>2. nest \in [1..(n + 1) -> Seq(Names)] /\ nest[1] = <<>>
  BY DEF Opens
<1>3. ASSUME NEW i \in 1..n PROVE nest[i + 1] = After(p.code[i], nest[i])
  <2>1. Passes(p.code[i], nest[i], nest[i + 1], i - 1)
    BY DEF Opens
  <2> QED BY <2>1 DEF Passes, After
<1>4. ASSUME NEW G, G = [i \in 1..(n + 1) |-> IF i = 1 THEN <<>> ELSE After(p.code[i - 1], G[i - 1])]
      PROVE  G = nest
  <2> DEFINE same == {i \in Nat : i + 1 \in 1..(n + 1) => G[i + 1] = nest[i + 1]}
  <2>1. 0 \in same
    BY <1>1, <1>2, <1>4
  <2>2. ASSUME NEW i \in Nat, i \in same PROVE i + 1 \in same
    <3> SUFFICES ASSUME (i + 1) + 1 \in 1..(n + 1)
                 PROVE  G[(i + 1) + 1] = nest[(i + 1) + 1]
      OBVIOUS
    <3>1. i + 1 \in 1..n /\ i + 1 \in 1..(n + 1) /\ ((i + 1) + 1) - 1 = i + 1 /\ (i + 1) + 1 # 1
      BY <1>1
    <3>2. G[i + 1] = nest[i + 1]
      BY <2>2, <3>1
    <3>3. G[(i + 1) + 1] = After(p.code[i + 1], G[i + 1])
      BY <1>4, <3>1
    <3> QED BY <1>3, <3>1, <3>2, <3>3
  <2>3. Nat \subseteq same
    <3> HIDE DEF same
    <3> QED BY <2>1, <2>2, SetInduction
  <2>4. ASSUME NEW i \in 1..(n + 1) PROVE G[i] = nest[i]
    <3>1. i - 1 \in Nat /\ (i - 1) + 1 = i
      BY <1>1
    <3>2. i - 1 \in same
      <4> HIDE DEF same
      <4> QED BY <2>3, <3>1
    <3> QED BY <3>1, <3>2
  <2>5. DOMAIN G = 1..(n + 1) /\ G = [i \in DOMAIN G |-> G[i]]
    BY <1>4
  <2>6. nest = [i \in 1..(n + 1) |-> nest[i]]
    BY <1>2
  <2> QED BY <2>4, <2>5, <2>6
<1>5. nest = [i \in 1..(n + 1) |-> IF i = 1 THEN <<>> ELSE After(p.code[i - 1], nest[i - 1])]
  <2>1. ASSUME NEW i \in 1..(n + 1), i # 1 PROVE nest[i] = After(p.code[i - 1], nest[i - 1])
    <3>1. i - 1 \in 1..n /\ (i - 1) + 1 = i
      BY <1>1, <2>1
    <3>2. nest[(i - 1) + 1] = After(p.code[i - 1], nest[i - 1])
      BY <1>3, <3>1
    <3> QED BY <3>1, <3>2
  <2> QED BY <1>2, <2>1
<1>6. F = nest
  <2> DEFINE Is(G) ==
        G = [i \in 1..(n + 1) |-> IF i = 1 THEN <<>> ELSE After(p.code[i - 1], G[i - 1])]
  <2>1. F = CHOOSE G : Is(G)
    BY <1>1 DEF NestOf
  <2>2. Is(nest)
    BY <1>5
  <2>3. \A G : Is(G) => G = nest
    BY <1>4
  <2> HIDE DEF Is, F
  <2> QED BY <2>1, <2>2, <2>3
<1>7. ASSUME NEW i \in 1..(n + 1) PROVE nest[i] \in Seq(S)
  <2> DEFINE B == {k \in Nat : k + 1 \in 1..(n + 1) => nest[k + 1] \in Seq(S)}
  <2>1. 0 \in B
    <3>1. <<>> \in Seq(S)
      OBVIOUS
    <3> QED BY <1>1, <1>2, <3>1
  <2>2. ASSUME NEW k \in Nat, k \in B PROVE k + 1 \in B
    <3> SUFFICES ASSUME (k + 1) + 1 \in 1..(n + 1)
                 PROVE  nest[(k + 1) + 1] \in Seq(S)
      OBVIOUS
    <3>1. k + 1 \in 1..n /\ k + 1 \in 1..(n + 1)
      BY <1>1
    <3>2. nest[k + 1] \in Seq(S)
      BY <2>2, <3>1
    <3>3. Passes(p.code[k + 1], nest[k + 1], nest[(k + 1) + 1], (k + 1) - 1)
      BY <3>1 DEF Opens
    <3>4. p.code[k + 1].name \in S
      BY <3>1
    <3> DEFINE instr == p.code[k + 1]
               cur == nest[k + 1]
               after == nest[(k + 1) + 1]
    <3> HIDE DEF S, instr, cur, after
    <3>5. cur \in Seq(S) /\ instr.name \in S /\ Passes(instr, cur, after, (k + 1) - 1)
      BY <3>2, <3>3, <3>4 DEF instr, cur, after
    <3>6. CASE instr.op = "EnterContext"
      <4>1. after = <<instr.name>> \o cur
        BY <3>5, <3>6 DEF Passes
      <4> QED BY <3>5, <4>1 DEF after
    <3>7. CASE instr.op = "LeaveContext"
      <4>1. after = Tail(cur) /\ cur # <<>>
        BY <3>5, <3>7 DEF Passes
      <4> QED BY <3>5, <4>1 DEF after
    <3>8. CASE instr.op \notin {"EnterContext", "LeaveContext"}
      <4>1. after = cur
        BY <3>5, <3>8 DEF Passes
      <4> QED BY <3>5, <4>1 DEF after
    <3> QED BY <3>6, <3>7, <3>8
  <2>3. Nat \subseteq B
    <3> HIDE DEF B
    <3> QED BY <2>1, <2>2, SetInduction
  <2>4. i - 1 \in Nat /\ (i - 1) + 1 = i
    BY <1>1
  <2>5. i - 1 \in B
    <3> HIDE DEF B
    <3> QED BY <2>3, <2>4
  <2> QED BY <2>4, <2>5
<1>8. nest \in [1..(n + 1) -> Seq(S)]
  <2> HIDE DEF S
  <2> QED BY <1>2, <1>7
<1> QED BY <1>1, <1>6, <1>8

(* A bytecode with no block open and nothing due is whole: every label is  *)
(* on a node, and wherever it is found it is at home.                      *)
LEMMA WholeWhen ==
  ASSUME NEW b, NEW L, Written(b, Ended, L), b.pending_labels = <<>>
  PROVE  Whole(b)
<1> DEFINE nodes == b.instructions
           n == Len(nodes)
           p == Program(b)
<1>1. PICK nest, home : /\ Fits(b, nest, home, {}, L) /\ Current(b, nest) = <<>>
                        /\ NoBlockPending(b, home)
  BY EndedIs DEF Written
<1>2. /\ b \in Bytecodes /\ nodes \in Seq(Node) /\ n \in Nat /\ nodes # <<>> /\ n > 0
      /\ nodes[1].instr = Enter("ERROR", FALSE) /\ b.bookmarks = <<>>
      /\ b.deferred_blocks = <<>>
  BY <1>1, EndedIs DEF Fits, Bytecodes, Written
<1>3. /\ p.code = [i \in 1..n |-> nodes[i].instr] /\ p.labels = LabelTable(b)
      /\ DOMAIN p.labels = LabelsOf(b)
  BY <1>2 DEF Program, Code, LabelTable
<1>4. p.code \in Seq(Instructions) /\ Len(p.code) = n /\ DOMAIN p.code = 1..n
  <2>1. \A i \in 1..n : nodes[i].instr \in Instructions
    <3> TAKE i \in 1..n
    <3>1. nodes[i] \in Node
      BY <1>2
    <3> QED BY <3>1 DEF Node
  <2> HIDE DEF p, n
  <2> QED BY <1>2, <1>3, <2>1
<1>5. Opens(nodes, nest)
  BY <1>1 DEF Fits
<1>6. NestOf(p) = nest /\ nest \in [1..(n + 1) -> Seq({p.code[i].name : i \in 1..n})]
  <2>1. \A i \in 1..n : p.code[i] = nodes[i].instr
    BY <1>3
  <2> HIDE DEF p, nodes
  <2> QED BY <1>2, <1>4, <1>5, <2>1, NestsAgree
<1>7. ASSUME NEW l \in DOMAIN home
      PROVE  /\ l \in DOMAIN p.labels /\ p.labels[l] \in 1..n
             /\ home[l].nest = nest[p.labels[l]]
             /\ home[l].block => p.code[p.labels[l]].op = "LeaveContext"
  <2>1. Elements(b.pending_labels) = {}
    BY DEF Elements
  <2>2. \E i \in 1..n : l \in nodes[i].labels
    BY <1>1, <2>1 DEF Fits, Kept
  <2>3. l \in LabelsOf(b)
    BY <1>2, <2>2 DEF LabelsOf
  <2>4. p.labels[l] = CHOOSE i \in DOMAIN nodes : l \in nodes[i].labels
    BY <1>3, <2>3 DEF LabelTable
  <2>5. DOMAIN nodes = 1..n
    BY <1>2
  <2> DEFINE k == p.labels[l]
  <2>6. k \in 1..n /\ l \in nodes[k].labels
    BY <2>2, <2>4, <2>5
  <2>7. AtHome(nodes[k], nest[k], nest[k + 1], home)
    BY <1>1, <2>6 DEF Fits, NodesAtHome
  <2>8. p.code[k] = nodes[k].instr
    BY <1>3, <2>6
  <2> HIDE DEF k, nodes, n, p
  <2>9. home[l].nest = nest[k] /\ (home[l].block => p.code[k].op = "LeaveContext")
    BY <2>6, <2>7, <2>8 DEF AtHome
  <2> QED BY <1>3, <2>3, <2>6, <2>9 DEF k
<1>8. ASSUME NEW i \in 1..n
      PROVE  /\ p.code[i].op = "EnterContext" => p.code[i].name \in DOMAIN home
             /\ p.code[i].op = "EnterContext" => home[p.code[i].name] = EndOf(nest[i + 1])
             /\ p.code[i].op \in Branches => p.code[i].name \in DOMAIN home
             /\ p.code[i].op \in Branches => home[p.code[i].name].nest = nest[i]
             /\ Passes(p.code[i], nest[i], nest[i + 1], i - 1)
  <2>1. p.code[i] = nodes[i].instr
    BY <1>3
  <2>2. AtHome(nodes[i], nest[i], nest[i + 1], home)
    BY <1>1 DEF Fits, NodesAtHome
  <2>3. Passes(nodes[i].instr, nest[i], nest[i + 1], i - 1)
    BY <1>5 DEF Opens
  <2> HIDE DEF p, nodes
  <2> QED BY <2>1, <2>2, <2>3 DEF AtHome, EndOf
<1> HIDE DEF p, nodes, n
<1>9. AllLabelsFound(p)
  BY <1>4, <1>7, <1>8 DEF AllLabelsFound
<1>10. ASSUME NEW i \in 1..n
       PROVE  LET instr == p.code[i] IN
        /\ instr.op = "EnterContext" =>
              /\ nest[i + 1] = <<instr.name>> \o nest[i]
              /\ instr.name \in DOMAIN p.labels
              /\ p.code[p.labels[instr.name]].op = "LeaveContext"
              /\ nest[p.labels[instr.name]] = nest[i + 1]
              /\ i > 1 => nest[i] # <<>>
        /\ instr.op = "LeaveContext" =>
              nest[i] # <<>> /\ nest[i + 1] = Tail(nest[i])
        /\ instr.op \notin {"EnterContext", "LeaveContext"} => nest[i + 1] = nest[i]
        /\ instr.op \in Branches =>
              instr.name \in DOMAIN p.labels /\ nest[p.labels[instr.name]] = nest[i]
  <2> DEFINE instr == p.code[i]
             after == nest[i + 1]
             cur == nest[i]
  <2>1. Passes(instr, cur, after, i - 1)
    BY <1>8
  <2>2. instr.op = "EnterContext" =>
          instr.name \in DOMAIN home /\ home[instr.name] = EndOf(after)
    BY <1>8
  <2>3. instr.op \in Branches => instr.name \in DOMAIN home /\ home[instr.name].nest = cur
    BY <1>8
  <2>4. i - 1 = 0 \/ i > 1 => cur # <<>> \/ ~(i > 1) \/ instr.op # "EnterContext"
    BY <2>1 DEF Passes
  <2>5. i \in Nat /\ i >= 1
    BY <1>2 DEF n
  <2> HIDE DEF instr, after, cur
  <2>6. instr.op = "EnterContext" =>
              /\ after = <<instr.name>> \o cur
              /\ instr.name \in DOMAIN p.labels
              /\ p.code[p.labels[instr.name]].op = "LeaveContext"
              /\ nest[p.labels[instr.name]] = after
              /\ i > 1 => cur # <<>>
    <3> SUFFICES ASSUME instr.op = "EnterContext"
                 PROVE  /\ after = <<instr.name>> \o cur
                        /\ instr.name \in DOMAIN p.labels
                        /\ p.code[p.labels[instr.name]].op = "LeaveContext"
                        /\ nest[p.labels[instr.name]] = after
                        /\ i > 1 => cur # <<>>
      OBVIOUS
    <3>1. after = <<instr.name>> \o cur
      BY <2>1 DEF Passes
    <3>2. i > 1 => cur # <<>>
      BY <2>1, <2>5 DEF Passes
    <3>3. home[instr.name].nest = after /\ home[instr.name].block
      BY <2>2 DEF EndOf
    <3> QED BY <1>7, <2>2, <3>1, <3>2, <3>3
  <2>7. instr.op \in Branches =>
              instr.name \in DOMAIN p.labels /\ nest[p.labels[instr.name]] = cur
    BY <1>7, <2>3
  <2> QED BY <2>1, <2>6, <2>7 DEF Passes, instr, after, cur
<1>11. p.code[1].op = "EnterContext" /\ p.code[1].value = Nil
  BY <1>2, <1>3 DEF Enter, Instr, n, nodes
<1>12. nest[1] = <<>> /\ nest[n + 1] = <<>>
  BY <1>1, <1>5 DEF Opens, Current, n, nodes
<1>13. WellNested(p, nest)
  BY <1>2, <1>4, <1>6, <1>10, <1>11, <1>12 DEF WellNested
<1> QED BY <1>2, <1>6, <1>9, <1>13 DEF Whole, p

(* scriptparse.c: the epilog behind its last instructions.                 *)
LEMMA FinishIsWhole ==
  ASSUME NEW b, NEW L, Written(b, Fresh, L), "END" \notin L,
         NEW d, d = bytecode_push_instruction(AddPending(b, "ERROR"), Plain("LeaveContext")),
         NEW c, c = bytecode_push_instruction(AddPending(d, "END"), Plain("Nop"))
  PROVE  Whole(c) /\ c \in Bytecodes
<1> DEFINE h == Target(<<>>)
           last == [Ended EXCEPT !.due = @ \cup {<<"END", h>>}]
           owed == {<<"END", h>>}
           more == L \cup {"END"}
<1>1. "END" \in Names /\ "Nop" \in Ops /\ <<>> \in Seq(Names)
  BY DEF Names, Ops
<1>2. Without(Fresh, Ended, "ERROR", EndOf(Fresh.nest))
  BY FreshIs, EndedIs DEF Without, Remains, ErrorDue
<1>3. Fresh \in Functions /\ Ended \in Functions /\ Fresh.nest # <<>> /\ Ended.nest = Tail(Fresh.nest)
  BY FreshIs, EndedIs
<1>4. Written(d, Ended, L)
  BY <1>2, <1>3, LeaveIsWritten
<1>5. h \in Home
  BY <1>1, HomesAre
<1>6. Written(d, last, more)
  <2> HIDE DEF h
  <2> QED BY <1>1, <1>3, <1>4, <1>5, NewLabelIsDue
<1>7. last \in Functions /\ Placed(last, Ended, "END")
  <2>1. owed \in SUBSET (Names \X Home)
    BY <1>1, <1>5
  <2>2. last = [Ended EXCEPT !.due = {} \cup owed]
    BY EndedIs
  <2> HIDE DEF last, h, owed
  <2>3. last.nest = <<>> /\ last.due = owed /\ last.known = {} /\ last.cuts = <<>>
    BY <2>2, EndedIs DEF Functions
  <2>4. last \in Functions
    BY <2>1, <2>2, EndedIs DEF Functions
  <2>5. Remains(last.due, Ended.due, "END", h)
    BY <2>3, EndedIs DEF Remains, owed
  <2> QED BY <2>3, <2>4, <2>5, EndedIs DEF Placed, h
<1> HIDE DEF last, more, h
<1>8. Written(AddPending(d, "END"), Ended, more)
  BY <1>3, <1>6, <1>7, PendingIsWritten
<1>9. Plain("Nop") \in Instructions /\ Straight(Plain("Nop").op)
  <2>1. Plain("Nop").op = "Nop"
    BY <1>1, PlainsAre
  <2> QED BY <1>1, <2>1, PlainsAre DEF Straight, Branches
<1>10. Written(c, Ended, more)
  BY <1>3, <1>8, <1>9, StraightIsWritten
<1>11. AddPending(d, "END") \in Bytecodes /\ c \in Bytecodes
  BY <1>8, <1>10 DEF Written, Fits
<1>12. c.pending_labels = <<>>
  BY <1>11 DEF bytecode_push_instruction, Bytecodes
<1> QED BY <1>10, <1>11, <1>12, WholeWhen

-------------------------------------------------------------------------------
(* The parser.  What it has is laid out in parts: the parse stack, its     *)
(* bookmarks and counters, and the functions under construction, the       *)
(* innermost first.                                                        *)
Items == LabelNames \cup {"token", "list", "name", "0", "1", NoValue, Call(1)}
Open == {f \in Functions : f.nest # <<>>}
Layouts == [stack : Seq(Items), bookmarks : Seq(Nat), counters : Seq(Nat),
            funs : Seq(Open)]

Parsers == [stack : Seq(Items), bookmarks : Seq(Nat), counters : Seq(Nat),
            constructor : BOOLEAN, varargs : BOOLEAN, aborted : BOOLEAN,
            scripts : Seq(Bytecodes), finished : Seq(Bytecodes),
            labels : SUBSET LabelNames]

Given(p) == p.labels \cup {"ERROR"}

\* c is the layout of parser p.
Shows(p, c) ==
    /\ p \in Parsers /\ c \in Layouts
    /\ p.varargs = FALSE /\ p.aborted = FALSE
    /\ p.stack = c.stack /\ p.bookmarks = c.bookmarks /\ p.counters = c.counters
    /\ Len(p.scripts) = Len(c.funs)
    /\ \A i \in 1..Len(c.funs) : Written(p.scripts[i], c.funs[i], Given(p))
    /\ \A i \in 1..Len(p.finished) : Whole(p.finished[i])

Top(c) == c.funs[1]
Push(c, x) == [c EXCEPT !.stack = <<x>> \o @]
WithTop(c, f) == [c EXCEPT !.funs = <<f>> \o Tail(@)]

(* A sequence with one element more in front.                              *)
LEMMA ConsIs ==
  ASSUME NEW S, NEW s \in Seq(S), NEW x \in S
  PROVE  /\ <<x>> \o s \in Seq(S) /\ Len(<<x>> \o s) = Len(s) + 1
         /\ (<<x>> \o s)[1] = x /\ Tail(<<x>> \o s) = s /\ Head(<<x>> \o s) = x
         /\ <<x>> \o s # <<>>
         /\ \A i \in 1..Len(s) : (<<x>> \o s)[i + 1] = s[i]
         /\ SubSeq(<<x>> \o s, 2, Len(<<x>> \o s)) = s
<1> DEFINE t == <<x>> \o s
<1>1. /\ t \in Seq(S) /\ Len(t) = Len(s) + 1 /\ t[1] = x /\ Len(s) \in Nat
      /\ \A i \in 1..Len(s) : t[i + 1] = s[i]
  OBVIOUS
<1> HIDE DEF t
<1>2. t # <<>> /\ Head(t) = x
  BY <1>1
<1>3. Tail(t) = s
  <2>1. Tail(t) \in Seq(S) /\ Len(Tail(t)) = Len(s) /\ \A i \in 1..Len(s) : Tail(t)[i] = s[i]
    BY <1>1, <1>2
  <2> QED BY <2>1
<1>4. SubSeq(t, 2, Len(t)) = s
  <2> DEFINE u == SubSeq(t, 2, Len(t))
  <2>1. u \in Seq(S) /\ Len(u) = Len(s) /\ \A i \in 1..Len(s) : u[i] = s[i]
    BY <1>1
  <2> HIDE DEF u
  <2>2. u = s
    BY <2>1
  <2> QED BY <2>2 DEF u
<1> QED BY <1>1, <1>2, <1>3, <1>4 DEF t

(* A sequence that is not empty is its head in front of its tail.          *)
LEMMA HeadAndTail ==
  ASSUME NEW S, NEW s \in Seq(S), s # <<>>
  PROVE  /\ s = <<s[1]>> \o Tail(s) /\ s[1] \in S /\ Tail(s) \in Seq(S)
         /\ Len(Tail(s)) = Len(s) - 1 /\ Head(s) = s[1] /\ Len(s) \in Nat \ {0}
         /\ \A i \in 1..(Len(s) - 1) : Tail(s)[i] = s[i + 1]
<1>1. /\ s[1] \in S /\ Tail(s) \in Seq(S) /\ Len(Tail(s)) = Len(s) - 1 /\ Head(s) = s[1]
      /\ Len(s) \in Nat \ {0} /\ \A i \in 1..(Len(s) - 1) : Tail(s)[i] = s[i + 1]
  OBVIOUS
<1> DEFINE x == s[1]
           u == Tail(s)
<1> HIDE DEF x, u
<1>2. x \in S /\ u \in Seq(S)
  BY <1>1 DEF x, u
<1>3. /\ <<x>> \o u \in Seq(S) /\ Len(<<x>> \o u) = Len(u) + 1 /\ (<<x>> \o u)[1] = x
      /\ \A i \in 1..Len(u) : (<<x>> \o u)[i + 1] = u[i]
  BY <1>2
<1> DEFINE t == <<x>> \o u
<1> HIDE DEF t
<1>4. Len(t) = Len(s) /\ t \in Seq(S) /\ \A i \in 1..Len(s) : t[i] = s[i]
  <2>1. Len(t) = Len(s) /\ t \in Seq(S) /\ t[1] = s[1]
    BY <1>1, <1>3 DEF t, u, x
  <2>2. ASSUME NEW i \in 1..Len(s), i # 1 PROVE t[i] = s[i]
    <3>1. i - 1 \in 1..Len(u) /\ (i - 1) + 1 = i /\ i - 1 \in 1..(Len(s) - 1)
      BY <1>1, <2>2 DEF u
    <3>2. t[(i - 1) + 1] = u[i - 1]
      BY <1>3, <3>1 DEF t
    <3>3. u[i - 1] = s[(i - 1) + 1]
      BY <1>1, <3>1 DEF u
    <3> QED BY <3>1, <3>2, <3>3
  <2> QED BY <2>1, <2>2
<1>5. t = s
  BY <1>4
<1> QED BY <1>1, <1>5 DEF t, u, x

(* What is pushed is laid on top.                                          *)
LEMMA PushKeeps ==
  ASSUME NEW p, NEW c, Shows(p, c), NEW x \in Items
  PROVE  Shows(PushStack(p, x), Push(c, x))
<1> DEFINE s == <<x>> \o p.stack
           q == [p EXCEPT !.stack = s]
           e == [c EXCEPT !.stack = s]
<1>1. p \in Parsers /\ c \in Layouts /\ p.stack = c.stack
  BY DEF Shows
<1>2. s \in Seq(Items)
  BY <1>1, ConsIs DEF Parsers
<1> HIDE DEF s
<1>3. /\ q \in Parsers /\ q.stack = s /\ q.bookmarks = p.bookmarks /\ q.counters = p.counters
      /\ q.varargs = p.varargs /\ q.aborted = p.aborted /\ q.scripts = p.scripts
      /\ q.finished = p.finished /\ q.labels = p.labels
  BY <1>1, <1>2 DEF Parsers
<1>4. /\ e \in Layouts /\ e.stack = s /\ e.bookmarks = c.bookmarks
      /\ e.counters = c.counters /\ e.funs = c.funs
  BY <1>1, <1>2 DEF Layouts
<1> HIDE DEF q, e
<1>5. Shows(q, e)
  BY <1>3, <1>4 DEF Shows, Given
<1>6. PushStack(p, x) = q /\ Push(c, x) = e
  BY <1>1 DEF PushStack, Push, q, e, s
<1> QED BY <1>5, <1>6

(* What is not code may change with its layout.                            *)
LEMMA OthersKeep ==
  ASSUME NEW p, NEW c, Shows(p, c), NEW q \in Parsers, NEW e \in Layouts,
         q.scripts = p.scripts, q.finished = p.finished, q.labels = p.labels,
         q.varargs = FALSE, q.aborted = FALSE,
         q.stack = e.stack, q.bookmarks = e.bookmarks, q.counters = e.counters,
         e.funs = c.funs
  PROVE  Shows(q, e)
BY DEF Shows, Given

(* The parts there are.                                                    *)
LEMMA ShownIs ==
  ASSUME NEW p, NEW c, Shows(p, c)
  PROVE  /\ p \in Parsers /\ c \in Layouts
         /\ p.stack = c.stack /\ p.bookmarks = c.bookmarks /\ p.counters = c.counters
         /\ c.stack \in Seq(Items) /\ c.bookmarks \in Seq(Nat) /\ c.counters \in Seq(Nat)
         /\ c.funs \in Seq(Open) /\ p.scripts \in Seq(Bytecodes)
         /\ p.finished \in Seq(Bytecodes) /\ p.labels \in SUBSET LabelNames
         /\ p.varargs = FALSE /\ p.aborted = FALSE
BY DEF Shows, Parsers, Layouts

(* The function at work and its code.                                      *)
LEMMA TopIs ==
  ASSUME NEW p, NEW c, Shows(p, c), c.funs # <<>>
  PROVE  /\ Top(c) \in Open /\ Top(c) \in Functions /\ Top(c).nest # <<>>
         /\ Bytecode(p) \in Bytecodes /\ Written(Bytecode(p), Top(c), Given(p))
         /\ p.scripts # <<>> /\ c = WithTop(c, Top(c))
<1>1. c.funs \in Seq(Open) /\ p.scripts \in Seq(Bytecodes) /\ Len(p.scripts) = Len(c.funs)
  BY ShownIs DEF Shows
<1>2. 1 \in 1..Len(c.funs) /\ p.scripts # <<>> /\ Top(c) \in Open /\ Head(p.scripts) = p.scripts[1]
      /\ Head(p.scripts) \in Bytecodes
  BY <1>1 DEF Top
<1>3. Written(Bytecode(p), Top(c), Given(p))
  BY <1>2 DEF Shows, Bytecode, Top
<1>4. c.funs = <<Top(c)>> \o Tail(c.funs)
  BY <1>1, HeadAndTail DEF Top
<1> DEFINE F == <<Top(c)>> \o Tail(c.funs)
<1> HIDE DEF F
<1>5. c \in Layouts /\ c.funs = F
  BY <1>4, ShownIs DEF F
<1>6. c = [c EXCEPT !.funs = F]
  BY <1>5, Zenon DEF Layouts
<1>7. c = WithTop(c, Top(c))
  BY <1>6 DEF WithTop, F
<1> QED BY <1>2, <1>3, <1>7 DEF Open, Bytecode

(* The code of the function at work goes on.                               *)
LEMMA CodeKeeps ==
  ASSUME NEW p, NEW c, Shows(p, c), c.funs # <<>>, NEW b \in Bytecodes, NEW f \in Open,
         Written(b, f, Given(p))
  PROVE  Shows(WithBytecode(p, b), WithTop(c, f))
<1> DEFINE s == <<b>> \o Tail(p.scripts)
           F == <<f>> \o Tail(c.funs)
           q == [p EXCEPT !.scripts = s]
           e == [c EXCEPT !.funs = F]
<1>1. /\ p \in Parsers /\ c \in Layouts /\ c.funs \in Seq(Open) /\ p.scripts \in Seq(Bytecodes)
      /\ Len(p.scripts) = Len(c.funs) /\ p.scripts # <<>>
  BY ShownIs, TopIs DEF Shows
<1>2. /\ s \in Seq(Bytecodes) /\ Len(s) = Len(p.scripts) /\ s[1] = b
      /\ \A i \in 1..(Len(p.scripts) - 1) : s[i + 1] = p.scripts[i + 1]
  <2> DEFINE u == Tail(p.scripts)
  <2>1. u \in Seq(Bytecodes) /\ Len(u) = Len(p.scripts) - 1
        /\ \A i \in 1..(Len(p.scripts) - 1) : u[i] = p.scripts[i + 1]
    BY <1>1, HeadAndTail
  <2> HIDE DEF u
  <2>2. /\ <<b>> \o u \in Seq(Bytecodes) /\ Len(<<b>> \o u) = Len(u) + 1 /\ (<<b>> \o u)[1] = b
        /\ \A i \in 1..Len(u) : (<<b>> \o u)[i + 1] = u[i]
    BY <2>1, ConsIs
  <2>3. Len(p.scripts) \in Nat
    BY <1>1
  <2> QED BY <2>1, <2>2, <2>3 DEF u
<1>3. /\ F \in Seq(Open) /\ Len(F) = Len(c.funs) /\ F[1] = f
      /\ \A i \in 1..(Len(c.funs) - 1) : F[i + 1] = c.funs[i + 1]
  <2> DEFINE u == Tail(c.funs)
  <2>1. u \in Seq(Open) /\ Len(u) = Len(c.funs) - 1
        /\ \A i \in 1..(Len(c.funs) - 1) : u[i] = c.funs[i + 1]
    BY <1>1, HeadAndTail
  <2> HIDE DEF u
  <2>2. /\ <<f>> \o u \in Seq(Open) /\ Len(<<f>> \o u) = Len(u) + 1 /\ (<<f>> \o u)[1] = f
        /\ \A i \in 1..Len(u) : (<<f>> \o u)[i + 1] = u[i]
    BY <2>1, ConsIs
  <2>3. Len(c.funs) \in Nat
    BY <1>1
  <2> QED BY <2>1, <2>2, <2>3 DEF u
<1> HIDE DEF s, F
<1>4. /\ q \in Parsers /\ q.stack = p.stack /\ q.bookmarks = p.bookmarks
      /\ q.counters = p.counters /\ q.varargs = p.varargs /\ q.aborted = p.aborted
      /\ q.scripts = s /\ q.finished = p.finished /\ q.labels = p.labels
  BY <1>1, <1>2 DEF Parsers
<1>5. /\ e \in Layouts /\ e.stack = c.stack /\ e.bookmarks = c.bookmarks
      /\ e.counters = c.counters /\ e.funs = F
  BY <1>1, <1>3 DEF Layouts
<1> HIDE DEF q, e
<1>6. ASSUME NEW i \in 1..Len(F) PROVE Written(s[i], F[i], Given(p))
  <2>1. CASE i = 1
    BY <1>2, <1>3, <2>1
  <2>2. CASE i # 1
    <3>1. i - 1 \in 1..(Len(c.funs) - 1) /\ (i - 1) + 1 = i /\ i \in 1..Len(c.funs)
      BY <1>1, <1>3, <2>2
    <3>2. s[i] = p.scripts[i] /\ F[i] = c.funs[i]
      BY <1>1, <1>2, <1>3, <3>1
    <3> QED BY <3>1, <3>2 DEF Shows
  <2> QED BY <2>1, <2>2
<1>7. Shows(q, e)
  BY <1>1, <1>2, <1>3, <1>4, <1>5, <1>6 DEF Shows, Given
<1>8. WithBytecode(p, b) = q /\ WithTop(c, f) = e
  BY DEF WithBytecode, WithTop, q, e, s, F
<1> QED BY <1>7, <1>8

(* An instruction that opens, closes and names nothing.                    *)
LEMMA StraightKeeps ==
  ASSUME NEW p, NEW c, Shows(p, c), c.funs # <<>>, NEW x \in Instructions, Straight(x.op)
  PROVE  Shows(push_instruction(p, x), c)
<1> DEFINE b == bytecode_push_instruction(Bytecode(p), x)
<1>1. Written(b, Top(c), Given(p))
  BY TopIs, StraightIsWritten
<1>2. b \in Bytecodes /\ Top(c) \in Open /\ c = WithTop(c, Top(c))
  BY <1>1, TopIs DEF Written, Fits
<1> HIDE DEF b
<1>3. Shows(WithBytecode(p, b), WithTop(c, Top(c)))
  BY <1>1, <1>2, CodeKeeps
<1> QED BY <1>2, <1>3 DEF push_instruction, b

(* A branch to a label that is due, or known, in the blocks around it.     *)
LEMMA BranchKeeps ==
  ASSUME NEW p, NEW c, Shows(p, c), c.funs # <<>>, NEW op \in Branches, NEW l,
         NEW h, <<l, h>> \in Top(c).due \cup Top(c).known, h.nest = Top(c).nest
  PROVE  Shows(push_instruction(p, To(op, l)), c)
<1> DEFINE x == To(op, l)
           b == bytecode_push_instruction(Bytecode(p), x)
<1>1. x \in Instructions /\ x.op = op /\ x.name = l
  <2>1. <<l, h>> \in Names \X Home
    BY TopIs DEF Functions
  <2>2. l \in Names
    BY <2>1
  <2>3. op \in Ops
    BY DEF Ops
  <2> QED BY <2>2, <2>3, ValuesAre DEF To, Instr, Instructions
<1>2. Written(b, Top(c), Given(p))
  <2> HIDE DEF x
  <2> QED BY <1>1, TopIs, BranchIsWritten
<1>3. b \in Bytecodes /\ Top(c) \in Open /\ c = WithTop(c, Top(c))
  BY <1>2, TopIs DEF Written, Fits
<1> HIDE DEF b
<1>4. Shows(WithBytecode(p, b), WithTop(c, Top(c)))
  BY <1>2, <1>3, CodeKeeps
<1> QED BY <1>3, <1>4 DEF push_instruction, b

(* A label that is due is placed.                                          *)
LEMMA PendingKeeps ==
  ASSUME NEW p, NEW c, Shows(p, c), c.funs # <<>>, NEW l, NEW g \in Open,
         Placed(Top(c), g, l)
  PROVE  Shows(Pending(p, l), WithTop(c, g))
<1> DEFINE b == AddPending(Bytecode(p), l)
<1>1. Written(b, g, Given(p))
  BY TopIs, PendingIsWritten DEF Open
<1>2. b \in Bytecodes
  BY <1>1 DEF Written, Fits
<1> HIDE DEF b
<1>3. Shows(WithBytecode(p, b), WithTop(c, g))
  BY <1>1, <1>2, CodeKeeps
<1> QED BY <1>3 DEF Pending, b

(* A block begins, whose label is due.                                     *)
LEMMA EnterKeeps ==
  ASSUME NEW p, NEW c, Shows(p, c), c.funs # <<>>,
         NEW x \in Instructions, x.op = "EnterContext", NEW g \in Open,
         g.nest = <<x.name>> \o Top(c).nest, g.due = Top(c).due, g.cuts = Top(c).cuts,
         g.known = Top(c).known, <<x.name, EndOf(g.nest)>> \in Top(c).due
  PROVE  Shows(push_instruction(p, x), WithTop(c, g))
<1> DEFINE b == bytecode_push_instruction(Bytecode(p), x)
           f == Top(c)
<1>1. f \in Functions /\ f.nest # <<>> /\ Written(Bytecode(p), f, Given(p)) /\ g \in Functions
  BY TopIs DEF Open
<1>2. /\ g.nest = <<x.name>> \o f.nest /\ g.due = f.due /\ g.cuts = f.cuts
      /\ g.known = f.known /\ <<x.name, EndOf(g.nest)>> \in f.due
  OBVIOUS
<1>3. Written(b, g, Given(p))
  <2> HIDE DEF f
  <2> QED BY <1>1, <1>2, EnterIsWritten
<1>4. b \in Bytecodes
  BY <1>3 DEF Written, Fits
<1> HIDE DEF b
<1>5. Shows(WithBytecode(p, b), WithTop(c, g))
  BY <1>3, <1>4, CodeKeeps
<1> QED BY <1>5 DEF push_instruction, b

(* A parser has the bytecode it was given last.                            *)
LEMMA Twice ==
  ASSUME NEW p \in Parsers, p.scripts # <<>>, NEW b \in Bytecodes, NEW q, q = WithBytecode(p, b)
  PROVE  /\ q \in Parsers /\ q.scripts # <<>> /\ Bytecode(q) = b
         /\ Tail(q.scripts) = Tail(p.scripts) /\ q.finished = p.finished
         /\ \A d : WithBytecode(q, d) = WithBytecode(p, d)
<1> DEFINE u == Tail(p.scripts)
           s == <<b>> \o u
<1>1. u \in Seq(Bytecodes)
  BY HeadAndTail DEF Parsers
<1> HIDE DEF u
<1>2. s \in Seq(Bytecodes) /\ Tail(s) = u /\ Head(s) = b /\ s # <<>>
  BY <1>1, ConsIs
<1> HIDE DEF s
<1>3. q = [p EXCEPT !.scripts = s]
  BY DEF WithBytecode, s, u
<1>4. q \in Parsers /\ q.scripts = s /\ q.finished = p.finished
  BY <1>2, <1>3 DEF Parsers
<1>5. ASSUME NEW d PROVE WithBytecode(q, d) = WithBytecode(p, d)
  <2> DEFINE t == <<d>> \o u
  <2>1. WithBytecode(p, d) = [p EXCEPT !.scripts = t]
    BY DEF WithBytecode, u
  <2>2. WithBytecode(q, d) = [q EXCEPT !.scripts = t]
    BY <1>2, <1>4 DEF WithBytecode
  <2> HIDE DEF t
  <2> QED BY <1>3, <2>1, <2>2 DEF Parsers
<1> QED BY <1>2, <1>4, <1>5 DEF Bytecode, u

(* The innermost block ends.                                               *)
LEMMA LeaveKeeps ==
  ASSUME NEW p, NEW c, Shows(p, c), c.funs # <<>>, NEW l, NEW g \in Open,
         g.nest = Tail(Top(c).nest), Without(Top(c), g, l, EndOf(Top(c).nest))
  PROVE  Shows(push_instruction(Pending(p, l), Plain("LeaveContext")), WithTop(c, g))
<1> DEFINE f == Top(c)
           a == AddPending(Bytecode(p), l)
           b == bytecode_push_instruction(a, Plain("LeaveContext"))
<1>1. f \in Functions /\ f.nest # <<>> /\ Written(Bytecode(p), f, Given(p)) /\ g \in Functions
      /\ p.scripts # <<>> /\ p.scripts \in Seq(Bytecodes) /\ p \in Parsers
  BY TopIs, ShownIs DEF Open
<1>2. g.nest = Tail(f.nest) /\ Without(f, g, l, EndOf(f.nest))
  OBVIOUS
<1>3. Written(b, g, Given(p))
  <2> HIDE DEF f
  <2> QED BY <1>1, <1>2, LeaveIsWritten
<1>4. b \in Bytecodes
  BY <1>3 DEF Written, Fits
<1>5. a \in Bytecodes
  <2>1. l \in Names
    <3>1. <<l, EndOf(f.nest)>> \in Names \X Home
      BY <1>1, <1>2 DEF Without, Remains, Functions
    <3> QED BY <3>1
  <2>2. Bytecode(p) \in Bytecodes
    BY TopIs
  <2>3. <<l>> \o Bytecode(p).pending_labels \in Seq(Names)
    BY <2>1, <2>2 DEF Bytecodes
  <2> QED BY <2>2, <2>3 DEF AddPending, Bytecodes
<1> HIDE DEF a
<1>6. WithBytecode(Pending(p, l), b) = WithBytecode(p, b) /\ Bytecode(Pending(p, l)) = a
  <2>1. Pending(p, l) = WithBytecode(p, a)
    BY DEF Pending, a
  <2> HIDE DEF b
  <2> QED BY <1>1, <1>5, <2>1, Twice
<1> HIDE DEF b
<1>7. Shows(WithBytecode(p, b), WithTop(c, g))
  BY <1>3, <1>4, CodeKeeps
<1>8. push_instruction(Pending(p, l), Plain("LeaveContext"))
      = WithBytecode(Pending(p, l), bytecode_push_instruction(a, Plain("LeaveContext")))
  BY <1>6 DEF push_instruction
<1> QED BY <1>6, <1>7, <1>8 DEF b

\* A label that nobody has seen.
Unseen(p) == \E l \in LabelNames : l \notin p.labels

(* Compiler's guard leaves room for two labels.                            *)
LEMMA RoomForTwo ==
  ASSUME NEW p, LabelsLeft(p), p \in Parsers
  PROVE  Unseen(p) /\ Unseen(Generated(p)) /\ Generated(p).labels \in SUBSET LabelNames
<1>1. PICK l, m \in LabelNames \ p.labels : l # m
  BY DEF LabelsLeft
<1> DEFINE k == _script_parse_gen_label(p)
<1>2. k \in LabelNames /\ k \notin p.labels
  BY <1>1 DEF _script_parse_gen_label
<1> HIDE DEF k
<1>3. Generated(p).labels = p.labels \cup {k}
  BY DEF Generated, Parsers, k
<1> QED BY <1>1, <1>2, <1>3 DEF Unseen, Parsers

\* Function f owes label l as well.
Owes(f, l, h) == [f EXCEPT !.due = @ \cup {<<l, h>>}]

(* It is in the same blocks, with one label more that is due.              *)
LEMMA OwesIs ==
  ASSUME NEW f \in Functions, NEW l \in Names, NEW h \in Home
  PROVE  /\ Owes(f, l, h) \in Functions /\ Owes(f, l, h).nest = f.nest
         /\ Owes(f, l, h).due = f.due \cup {<<l, h>>}
         /\ Owes(f, l, h).known = f.known /\ Owes(f, l, h).cuts = f.cuts
<1> DEFINE due == f.due \cup {<<l, h>>}
<1>1. due \in SUBSET (Names \X Home)
  BY DEF Functions
<1> HIDE DEF due
<1>2. Owes(f, l, h) = [f EXCEPT !.due = due]
  BY DEF Owes, due
<1> QED BY <1>1, <1>2 DEF Functions, due

(* The next label is generated, and due.                                   *)
LEMMA LabelKeeps ==
  ASSUME NEW p, NEW c, Shows(p, c), c.funs # <<>>, Unseen(p), NEW h \in Home,
         NEW l, l = _script_parse_gen_label(p)
  PROVE  /\ Shows(Generated(p), WithTop(c, Owes(Top(c), l, h)))
         /\ l \in LabelNames /\ l \in Items /\ Owes(Top(c), l, h) \in Open
<1> DEFINE f == Top(c)
           g == Owes(f, l, h)
           q == Generated(p)
           F == <<g>> \o Tail(c.funs)
           e == [c EXCEPT !.funs = F]
<1>1. l \in LabelNames /\ l \notin p.labels /\ l \in Names /\ l \in Items
  BY DEF Unseen, _script_parse_gen_label, Names, Items
<1>2. /\ f \in Functions /\ f.nest # <<>> /\ Written(Bytecode(p), f, Given(p))
      /\ Bytecode(p) = p.scripts[1] /\ p.scripts # <<>>
  BY TopIs, ShownIs DEF Bytecode
<1>3. g \in Open
  BY <1>1, <1>2, OwesIs DEF Open
<1>4. /\ p \in Parsers /\ c \in Layouts /\ c.funs \in Seq(Open) /\ Len(p.scripts) = Len(c.funs)
      /\ Len(c.funs) \in Nat
  <2>1. p \in Parsers /\ c \in Layouts /\ c.funs \in Seq(Open) /\ Len(p.scripts) = Len(c.funs)
    BY ShownIs DEF Shows
  <2> QED BY <2>1
<1>5. /\ F \in Seq(Open) /\ Len(F) = Len(c.funs) /\ F[1] = g
      /\ \A i \in 1..(Len(c.funs) - 1) : F[i + 1] = c.funs[i + 1]
  <2> DEFINE u == Tail(c.funs)
  <2>1. u \in Seq(Open) /\ Len(u) = Len(c.funs) - 1
        /\ \A i \in 1..(Len(c.funs) - 1) : u[i] = c.funs[i + 1]
    BY <1>4, HeadAndTail
  <2> HIDE DEF u, g
  <2>2. /\ <<g>> \o u \in Seq(Open) /\ Len(<<g>> \o u) = Len(u) + 1 /\ (<<g>> \o u)[1] = g
        /\ \A i \in 1..Len(u) : (<<g>> \o u)[i + 1] = u[i]
    BY <1>3, <2>1, ConsIs
  <2> QED BY <1>4, <2>1, <2>2 DEF u
<1>6. /\ q \in Parsers /\ q.stack = p.stack /\ q.bookmarks = p.bookmarks
      /\ q.counters = p.counters /\ q.varargs = p.varargs /\ q.aborted = p.aborted
      /\ q.scripts = p.scripts /\ q.finished = p.finished /\ q.labels = p.labels \cup {l}
  <2> DEFINE M == p.labels \cup {l}
  <2>1. M \in SUBSET LabelNames
    BY <1>1, <1>4 DEF Parsers
  <2> HIDE DEF M
  <2>2. q = [p EXCEPT !.labels = M]
    BY DEF Generated, M
  <2> HIDE DEF q
  <2>3. /\ q \in Parsers /\ q.stack = p.stack /\ q.bookmarks = p.bookmarks
        /\ q.counters = p.counters /\ q.varargs = p.varargs /\ q.aborted = p.aborted
        /\ q.scripts = p.scripts /\ q.finished = p.finished /\ q.labels = M
    BY <1>4, <2>1, <2>2 DEF Parsers
  <2> QED BY <2>3 DEF M
<1> HIDE DEF F, q
<1>7. /\ e \in Layouts /\ e.stack = c.stack /\ e.bookmarks = c.bookmarks
      /\ e.counters = c.counters /\ e.funs = F
  BY <1>4, <1>5 DEF Layouts
<1> HIDE DEF e
<1>8. l \notin Given(p) /\ Given(q) = Given(p) \cup {l}
  <2>1. l # "ERROR"
    BY <1>1, LabelAssumption
  <2> QED BY <1>1, <1>6, <2>1 DEF Given
<1>9. Written(p.scripts[1], g, Given(q))
  <2> HIDE DEF f
  <2>1. Written(p.scripts[1], [f EXCEPT !.due = @ \cup {<<l, h>>}], Given(p) \cup {l})
    BY <1>1, <1>2, <1>8, NewLabelIsDue
  <2> QED BY <1>8, <2>1 DEF Owes
<1> HIDE DEF g
<1>10. ASSUME NEW i \in 1..Len(F) PROVE Written(q.scripts[i], F[i], Given(q))
  <2>1. CASE i = 1
    BY <1>5, <1>6, <1>9, <2>1
  <2>2. CASE i # 1
    <3>1. i - 1 \in 1..(Len(c.funs) - 1) /\ (i - 1) + 1 = i /\ i \in 1..Len(c.funs)
      BY <1>4, <1>5, <2>2
    <3>2. F[i] = c.funs[i]
      BY <1>5, <3>1
    <3>3. Written(p.scripts[i], c.funs[i], Given(p))
      BY <3>1 DEF Shows
    <3> QED BY <1>6, <1>8, <3>2, <3>3, MoreLabels
  <2> QED BY <2>1, <2>2
<1>11. Shows(q, e)
  BY <1>4, <1>5, <1>6, <1>7, <1>10 DEF Shows
<1>12. WithTop(c, g) = e
  BY DEF WithTop, e, F
<1> QED BY <1>1, <1>3, <1>11, <1>12 DEF q, g

(* A pending label is in the way of no type.                               *)
LEMMA PendingIs ==
  ASSUME NEW b \in Bytecodes, NEW l \in Names
  PROVE  AddPending(b, l) \in Bytecodes
<1>1. <<l>> \o b.pending_labels \in Seq(Names)
  BY DEF Bytecodes
<1> QED BY <1>1 DEF AddPending, Bytecodes

(* An instruction takes the pending labels with it.                        *)
LEMMA PushedIs ==
  ASSUME NEW b \in Bytecodes, NEW x \in Instructions
  PROVE  bytecode_push_instruction(b, x) \in Bytecodes
<1> DEFINE node == [instr |-> x, labels |-> Elements(b.pending_labels)]
           nodes == Append(b.instructions, node)
<1>1. node \in Node
  BY DEF Node, Elements, Bytecodes
<1> HIDE DEF node
<1>2. nodes \in Seq(Node) /\ <<>> \in Seq(Names)
  BY <1>1 DEF Bytecodes
<1> HIDE DEF nodes
<1>3. bytecode_push_instruction(b, x) = [b EXCEPT !.instructions = nodes, !.pending_labels = <<>>]
  BY DEF bytecode_push_instruction, nodes, node
<1> QED BY <1>2, <1>3 DEF Bytecodes

(* A function begins: what is around it waits.                             *)
LEMMA NestedKeeps ==
  ASSUME NEW p, NEW c, Shows(p, c)
  PROVE  Shows(Nested(p), [c EXCEPT !.funs = <<Fresh>> \o @])
<1> DEFINE b == bytecode_push_instruction(bytecode_create, Enter("ERROR", FALSE))
           s == <<b>> \o p.scripts
           F == <<Fresh>> \o c.funs
           q == [p EXCEPT !.scripts = s]
           e == [c EXCEPT !.funs = F]
<1>1. /\ p \in Parsers /\ c \in Layouts /\ c.funs \in Seq(Open) /\ p.scripts \in Seq(Bytecodes)
      /\ Len(p.scripts) = Len(c.funs)
  BY ShownIs DEF Shows
<1>2. Written(b, Fresh, Given(p)) /\ b \in Bytecodes
  <2>1. Written(b, Fresh, Given(p))
    BY FreshIsWritten DEF Given
  <2> QED BY <2>1 DEF Written, Fits
<1>3. bytecode_create \in Bytecodes /\ Fresh \in Open
  <2>1. <<>> \in Seq(Node) /\ <<>> \in Seq(Names) /\ <<>> \in Seq(Nat)
    OBVIOUS
  <2> QED BY <2>1, FreshIs DEF bytecode_create, Bytecodes, Open
<1> HIDE DEF b
<1>4. /\ s \in Seq(Bytecodes) /\ Len(s) = Len(p.scripts) + 1 /\ s[1] = b
      /\ \A i \in 1..Len(p.scripts) : s[i + 1] = p.scripts[i]
  BY <1>1, <1>2, ConsIs
<1>5. /\ F \in Seq(Open) /\ Len(F) = Len(c.funs) + 1 /\ F[1] = Fresh
      /\ \A i \in 1..Len(c.funs) : F[i + 1] = c.funs[i]
  BY <1>1, <1>3, ConsIs
<1>6. Nested(p) = q
  <2> DEFINE s0 == <<bytecode_create>> \o p.scripts
             p0 == [p EXCEPT !.scripts = s0]
  <2>1. s0 \in Seq(Bytecodes) /\ Tail(s0) = p.scripts /\ Head(s0) = bytecode_create /\ s0 # <<>>
    BY <1>1, <1>3, ConsIs
  <2> HIDE DEF s0
  <2>2. p0.scripts = s0 /\ Bytecode(p0) = bytecode_create
    BY <1>1, <2>1 DEF Parsers, Bytecode
  <2>3. Nested(p) = WithBytecode(p0, b)
    BY <2>2 DEF Nested, _script_parse_prolog, push_instruction, b, s0
  <2>4. WithBytecode(p0, b) = [p0 EXCEPT !.scripts = s]
    BY <2>1, <2>2 DEF WithBytecode
  <2> HIDE DEF s
  <2> QED BY <1>1, <2>3, <2>4 DEF Parsers
<1> HIDE DEF s, F
<1>7. /\ q \in Parsers /\ q.stack = p.stack /\ q.bookmarks = p.bookmarks
      /\ q.counters = p.counters /\ q.varargs = p.varargs /\ q.aborted = p.aborted
      /\ q.scripts = s /\ q.finished = p.finished /\ q.labels = p.labels
  BY <1>1, <1>4 DEF Parsers
<1>8. /\ e \in Layouts /\ e.stack = c.stack /\ e.bookmarks = c.bookmarks
      /\ e.counters = c.counters /\ e.funs = F
  BY <1>1, <1>5 DEF Layouts
<1> HIDE DEF q, e
<1>9. ASSUME NEW i \in 1..Len(F) PROVE Written(s[i], F[i], Given(p))
  <2>1. CASE i = 1
    BY <1>2, <1>4, <1>5, <2>1
  <2>2. CASE i # 1
    <3>1. Len(c.funs) \in Nat
      BY <1>1
    <3>2. i - 1 \in 1..Len(c.funs) /\ (i - 1) + 1 = i
      BY <1>5, <2>2, <3>1
    <3>3. s[i] = p.scripts[i - 1] /\ F[i] = c.funs[i - 1]
      BY <1>1, <1>4, <1>5, <3>2
    <3> QED BY <3>2, <3>3 DEF Shows
  <2> QED BY <2>1, <2>2
<1>10. Shows(q, e)
  BY <1>1, <1>4, <1>5, <1>7, <1>8, <1>9 DEF Shows, Given
<1> QED BY <1>6, <1>10 DEF e, F

(* A function ends: it is whole, and what is around it goes on.            *)
LEMMA CompleteKeeps ==
  ASSUME NEW p, NEW c, Shows(p, c), NEW F \in Seq(Open), c.funs = <<Fresh>> \o F
  PROVE  Shows(Complete(p), [c EXCEPT !.funs = F])
<1>1. Fresh \in Open /\ c.funs # <<>> /\ Top(c) = Fresh
  <2>1. Fresh \in Open
    BY FreshIs DEF Open
  <2>2. (<<Fresh>> \o F)[1] = Fresh /\ <<Fresh>> \o F # <<>>
    BY <2>1, ConsIs
  <2> QED BY <2>1, <2>2 DEF Top
<1>2. /\ Plain("Nop") \in Instructions /\ Straight(Plain("Nop").op)
      /\ PushValue(Num(0)) \in Instructions /\ Straight(PushValue(Num(0)).op)
      /\ Plain("LeaveContext") \in Instructions /\ "ERROR" \in Names /\ "END" \in Names
  <2>1. "Nop" \in Ops /\ "LeaveContext" \in Ops /\ "PushVal" \in Ops /\ "" \in Names
        /\ "ERROR" \in Names /\ "END" \in Names
    BY DEF Ops, Names
  <2>2. Plain("Nop") \in Instructions /\ Plain("LeaveContext") \in Instructions
        /\ Plain("Nop").op = "Nop"
    BY <2>1, PlainsAre
  <2>3. PushValue(Num(0)) \in Instructions /\ PushValue(Num(0)).op = "PushVal"
    <3>1. Num(0) \in Value
      BY ValuesAre
    <3> QED BY <2>1, <3>1 DEF PushValue, Instr, Instructions
  <2>4. Straight("Nop") /\ Straight("PushVal")
    BY DEF Straight, Branches
  <2> QED BY <2>1, <2>2, <2>3, <2>4
<1>3. PICK r : /\ Shows(r, c)
               /\ _script_parse_epilog(p) =
                    push_instruction(Pending(push_instruction(Pending(r, "ERROR"),
                                                              Plain("LeaveContext")), "END"),
                                     Plain("Nop"))
  <2> DEFINE b == Bytecode(p)
             last == b.instructions[Len(b.instructions)].instr
             r == IF last.op = "Jump" \/ b.pending_labels = <<>> THEN p
                  ELSE IF Len(b.pending_labels) = 1 THEN p ++ PushValue(Num(0))
                  ELSE p ++ Plain("Nop") ++ PushValue(Num(0))
  <2>1. _script_parse_epilog(p) =
                    push_instruction(Pending(push_instruction(Pending(r, "ERROR"),
                                                              Plain("LeaveContext")), "END"),
                                     Plain("Nop"))
    BY DEF _script_parse_epilog
  <2>2. Shows(p ++ Plain("Nop"), c)
    BY <1>1, <1>2, StraightKeeps DEF ++
  <2>3. Shows(p ++ PushValue(Num(0)), c) /\ Shows(p ++ Plain("Nop") ++ PushValue(Num(0)), c)
    BY <1>1, <1>2, <2>2, StraightKeeps DEF ++
  <2>4. Shows(r, c)
    <3> HIDE DEF last
    <3> QED BY <2>3
  <2> HIDE DEF r
  <2> QED BY <2>1, <2>4
<1> DEFINE a1 == AddPending(Bytecode(r), "ERROR")
           d == bytecode_push_instruction(a1, Plain("LeaveContext"))
           a2 == AddPending(d, "END")
           b == bytecode_push_instruction(a2, Plain("Nop"))
<1>4. /\ r \in Parsers /\ r.scripts # <<>> /\ Bytecode(r) \in Bytecodes
      /\ Written(Bytecode(r), Fresh, Given(r)) /\ "END" \notin Given(r)
  <2>1. r.labels \subseteq LabelNames
    BY <1>3, ShownIs
  <2>2. "END" \notin Given(r)
    BY <2>1, LabelAssumption DEF Given
  <2> QED BY <1>1, <1>3, <2>2, TopIs, ShownIs
<1>5. Whole(b) /\ b \in Bytecodes
  <2>1. d = bytecode_push_instruction(AddPending(Bytecode(r), "ERROR"), Plain("LeaveContext"))
        /\ b = bytecode_push_instruction(AddPending(d, "END"), Plain("Nop"))
    OBVIOUS
  <2> HIDE DEF a1, d, a2, b
  <2> QED BY <1>4, <2>1, FinishIsWhole
<1>6. a1 \in Bytecodes /\ d \in Bytecodes /\ a2 \in Bytecodes
  <2>1. a1 \in Bytecodes
    BY <1>2, <1>4, PendingIs
  <2>2. d \in Bytecodes
    <3> HIDE DEF a1
    <3> QED BY <1>2, <2>1, PushedIs
  <2> HIDE DEF d
  <2> QED BY <1>2, <2>1, <2>2, PendingIs
<1>7. _script_parse_epilog(p) = WithBytecode(r, b)
  <2> DEFINE r1 == Pending(r, "ERROR")
             r2 == push_instruction(r1, Plain("LeaveContext"))
             r3 == Pending(r2, "END")
  <2>1. r1 = WithBytecode(r, a1)
    BY DEF Pending
  <2>2. r1 \in Parsers /\ r1.scripts # <<>> /\ Bytecode(r1) = a1
        /\ \A x : WithBytecode(r1, x) = WithBytecode(r, x)
    <3> HIDE DEF r1, a1
    <3> QED BY <1>4, <1>6, <2>1, Twice
  <2>3. r2 = WithBytecode(r, d)
    <3> HIDE DEF r1, a1
    <3> QED BY <2>2 DEF push_instruction
  <2>4. r2 \in Parsers /\ r2.scripts # <<>> /\ Bytecode(r2) = d
        /\ \A x : WithBytecode(r2, x) = WithBytecode(r, x)
    <3> HIDE DEF r2, d
    <3> QED BY <1>4, <1>6, <2>3, Twice
  <2>5. r3 = WithBytecode(r, a2)
    <3> HIDE DEF r2, d
    <3> QED BY <2>4 DEF Pending
  <2>6. r3 \in Parsers /\ r3.scripts # <<>> /\ Bytecode(r3) = a2
        /\ \A x : WithBytecode(r3, x) = WithBytecode(r, x)
    <3> HIDE DEF r3, a2
    <3> QED BY <1>4, <1>6, <2>5, Twice
  <2> HIDE DEF r3, a2
  <2> QED BY <1>3, <2>6 DEF push_instruction, r3
<1> HIDE DEF a1, d, a2, b
<1> DEFINE q == WithBytecode(r, b)
           u == Tail(r.scripts)
           fin == Append(r.finished, b)
           w == [q EXCEPT !.scripts = u, !.finished = fin]
           e == [c EXCEPT !.funs = F]
<1>8. /\ q \in Parsers /\ Tail(q.scripts) = u /\ q.finished = r.finished /\ Bytecode(q) = b
      /\ q.stack = r.stack /\ q.bookmarks = r.bookmarks /\ q.counters = r.counters
      /\ q.varargs = r.varargs /\ q.aborted = r.aborted /\ q.labels = r.labels
  <2>1. /\ q \in Parsers /\ Tail(q.scripts) = u /\ q.finished = r.finished /\ Bytecode(q) = b
    BY <1>4, <1>5, Twice
  <2> DEFINE v == <<b>> \o Tail(r.scripts)
  <2> HIDE DEF v
  <2>2. q = [r EXCEPT !.scripts = v]
    BY DEF WithBytecode, v
  <2> HIDE DEF q, u
  <2>3. /\ q.stack = r.stack /\ q.bookmarks = r.bookmarks /\ q.counters = r.counters
        /\ q.varargs = r.varargs /\ q.aborted = r.aborted /\ q.labels = r.labels
    BY <1>4, <2>2 DEF Parsers
  <2> QED BY <2>1, <2>3
<1>9. Complete(p) = w
  BY <1>7, <1>8 DEF Complete
<1>10. /\ u \in Seq(Bytecodes) /\ Len(u) = Len(F) /\ Len(F) \in Nat
       /\ \A i \in 1..Len(F) : u[i] = r.scripts[i + 1] /\ F[i] = c.funs[i + 1]
       /\ Len(c.funs) = Len(F) + 1
  <2>1. /\ Len(c.funs) = Len(F) + 1 /\ \A i \in 1..Len(F) : F[i] = c.funs[i + 1]
    <3>1. /\ Len(<<Fresh>> \o F) = Len(F) + 1
          /\ \A i \in 1..Len(F) : (<<Fresh>> \o F)[i + 1] = F[i]
      BY <1>1, ConsIs
    <3> QED BY <3>1
  <2>2. Len(F) \in Nat
    OBVIOUS
  <2>3. r.scripts \in Seq(Bytecodes) /\ Len(r.scripts) = Len(c.funs) /\ r.scripts # <<>>
    BY <1>3, <1>4, ShownIs DEF Shows
  <2>4. u \in Seq(Bytecodes) /\ Len(u) = Len(r.scripts) - 1
        /\ \A i \in 1..(Len(r.scripts) - 1) : u[i] = r.scripts[i + 1]
    BY <2>3, HeadAndTail
  <2> HIDE DEF u
  <2> QED BY <2>1, <2>2, <2>3, <2>4
<1>11. /\ fin \in Seq(Bytecodes) /\ \A i \in 1..Len(fin) : Whole(fin[i])
  <2>1. r.finished \in Seq(Bytecodes) /\ \A i \in 1..Len(r.finished) : Whole(r.finished[i])
    BY <1>3, ShownIs DEF Shows
  <2>2. fin \in Seq(Bytecodes) /\ Len(fin) = Len(r.finished) + 1 /\ fin[Len(r.finished) + 1] = b
        /\ \A i \in 1..Len(r.finished) : fin[i] = r.finished[i]
    BY <1>5, <2>1
  <2>3. Len(r.finished) \in Nat
    BY <2>1
  <2> HIDE DEF fin
  <2>4. ASSUME NEW i \in 1..Len(fin) PROVE Whole(fin[i])
    <3>1. i \in 1..Len(r.finished) \/ i = Len(r.finished) + 1
      BY <2>2, <2>3
    <3> QED BY <1>5, <2>1, <2>2, <3>1
  <2> QED BY <2>2, <2>4
<1> HIDE DEF q, u, fin
<1>12. /\ w \in Parsers /\ w.stack = r.stack /\ w.bookmarks = r.bookmarks
       /\ w.counters = r.counters /\ w.varargs = r.varargs /\ w.aborted = r.aborted
       /\ w.scripts = u /\ w.finished = fin /\ w.labels = r.labels
  BY <1>8, <1>10, <1>11 DEF Parsers
<1>13. /\ e \in Layouts /\ e.stack = c.stack /\ e.bookmarks = c.bookmarks
       /\ e.counters = c.counters /\ e.funs = F
  <2>1. c \in Layouts
    BY <1>3, ShownIs
  <2> QED BY <2>1 DEF Layouts
<1> HIDE DEF w, e
<1>14. ASSUME NEW i \in 1..Len(F) PROVE Written(u[i], F[i], Given(r))
  <2>1. i + 1 \in 1..Len(c.funs)
    BY <1>10
  <2>2. Written(r.scripts[i + 1], c.funs[i + 1], Given(r))
    BY <1>3, <2>1 DEF Shows
  <2> QED BY <1>10, <2>2
<1>15. Shows(w, e)
  BY <1>3, <1>10, <1>11, <1>12, <1>13, <1>14 DEF Shows, Given
<1> QED BY <1>9, <1>15 DEF e

(* A sequence without its first k elements.                                *)
LEMMA DropIs ==
  ASSUME NEW S, NEW s \in Seq(S), NEW k \in Nat, k <= Len(s)
  PROVE  /\ SubSeq(s, k + 1, Len(s)) \in Seq(S)
         /\ Len(SubSeq(s, k + 1, Len(s))) = Len(s) - k
         /\ \A i \in 1..(Len(s) - k) : SubSeq(s, k + 1, Len(s))[i] = s[i + k]
OBVIOUS

(* What was laid on top comes off again.                                   *)
LEMMA PopKeeps ==
  ASSUME NEW p, NEW c, Shows(p, c), NEW x \in Items, NEW s \in Seq(Items),
         c.stack = <<x>> \o s
  PROVE  /\ Peek(p, 0) = x /\ Len(p.stack) = Len(s) + 1
         /\ Shows(PopStack(p, 1), [c EXCEPT !.stack = s])
<1> DEFINE t == <<x>> \o s
           q == [p EXCEPT !.stack = s]
           e == [c EXCEPT !.stack = s]
<1>1. p \in Parsers /\ c \in Layouts /\ p.stack = t /\ p.varargs = FALSE /\ p.aborted = FALSE
      /\ p.bookmarks = c.bookmarks /\ p.counters = c.counters
  BY ShownIs
<1>2. t \in Seq(Items) /\ Len(t) = Len(s) + 1 /\ t[1] = x /\ SubSeq(t, 2, Len(t)) = s
      /\ Len(s) \in Nat
  BY ConsIs
<1> HIDE DEF t
<1>3. Peek(p, 0) = x
  BY <1>1, <1>2 DEF Peek
<1>4. PopStack(p, 1) = q
  <2>1. SubSeq(p.stack, 1 + 1, Len(p.stack)) = s
    BY <1>1, <1>2
  <2> QED BY <2>1 DEF PopStack
<1>5. /\ q \in Parsers /\ q.stack = s /\ q.bookmarks = p.bookmarks /\ q.counters = p.counters
      /\ q.varargs = p.varargs /\ q.aborted = p.aborted /\ q.scripts = p.scripts
      /\ q.finished = p.finished /\ q.labels = p.labels
  BY <1>1 DEF Parsers
<1>6. /\ e \in Layouts /\ e.stack = s /\ e.bookmarks = c.bookmarks
      /\ e.counters = c.counters /\ e.funs = c.funs
  BY <1>1 DEF Layouts
<1> HIDE DEF q, e
<1>7. Shows(q, e)
  BY <1>1, <1>5, <1>6, OthersKeep
<1> QED BY <1>1, <1>2, <1>3, <1>4, <1>7 DEF e

(* Two at once, or three.                                                  *)
LEMMA PopMore ==
  ASSUME NEW p \in Parsers, Len(p.stack) > 1
  PROVE  /\ PopStack(p, 2) = PopStack(PopStack(p, 1), 1)
         /\ Peek(p, 1) = Peek(PopStack(p, 1), 0)
         /\ Len(p.stack) > 2 => PopStack(p, 3) = PopStack(PopStack(PopStack(p, 1), 1), 1)
<1> DEFINE s == p.stack
           s1 == SubSeq(s, 2, Len(s))
           s2 == SubSeq(s1, 2, Len(s1))
           s3 == SubSeq(s2, 2, Len(s2))
           p1 == [p EXCEPT !.stack = s1]
           p2 == [p1 EXCEPT !.stack = s2]
<1>1. s \in Seq(Items) /\ Len(s) \in Nat /\ Len(s) > 1
  BY DEF Parsers
<1> HIDE DEF s
<1>2. /\ s1 \in Seq(Items) /\ Len(s1) = Len(s) - 1
      /\ \A i \in 1..(Len(s) - 1) : s1[i] = s[i + 1]
  BY <1>1
<1> HIDE DEF s1
<1>3. /\ s2 \in Seq(Items) /\ Len(s2) = Len(s) - 2
      /\ \A i \in 1..(Len(s) - 2) : s2[i] = s[i + 2]
  BY <1>1, <1>2
<1>4. s2 = SubSeq(s, 3, Len(s))
  <2> DEFINE u == SubSeq(s, 3, Len(s))
  <2>1. u \in Seq(Items) /\ Len(u) = Len(s) - 2 /\ \A i \in 1..(Len(s) - 2) : u[i] = s[i + 2]
    <3>1. 2 \in Nat /\ 2 <= Len(s) /\ 2 + 1 = 3
      BY <1>1
    <3>2. /\ SubSeq(s, 2 + 1, Len(s)) \in Seq(Items)
          /\ Len(SubSeq(s, 2 + 1, Len(s))) = Len(s) - 2
          /\ \A i \in 1..(Len(s) - 2) : SubSeq(s, 2 + 1, Len(s))[i] = s[i + 2]
      BY <1>1, <3>1, DropIs
    <3> QED BY <3>1, <3>2
  <2> HIDE DEF u, s2
  <2>2. u = s2
    BY <1>3, <2>1
  <2> QED BY <2>2 DEF u
<1> HIDE DEF s2
<1>5. Len(s) > 2 => s3 = SubSeq(s, 4, Len(s))
  <2> SUFFICES ASSUME Len(s) > 2 PROVE s3 = SubSeq(s, 4, Len(s))
    OBVIOUS
  <2> DEFINE u == SubSeq(s, 4, Len(s))
  <2>1. u \in Seq(Items) /\ Len(u) = Len(s) - 3 /\ \A i \in 1..(Len(s) - 3) : u[i] = s[i + 3]
    <3>1. 3 \in Nat /\ 3 <= Len(s) /\ 3 + 1 = 4
      BY <1>1
    <3>2. /\ SubSeq(s, 3 + 1, Len(s)) \in Seq(Items)
          /\ Len(SubSeq(s, 3 + 1, Len(s))) = Len(s) - 3
          /\ \A i \in 1..(Len(s) - 3) : SubSeq(s, 3 + 1, Len(s))[i] = s[i + 3]
      BY <1>1, <3>1, DropIs
    <3> QED BY <3>1, <3>2
  <2>2. s3 \in Seq(Items) /\ Len(s3) = Len(s) - 3 /\ \A i \in 1..(Len(s) - 3) : s3[i] = s[i + 3]
    BY <1>1, <1>3
  <2> HIDE DEF u, s3
  <2>3. u = s3
    BY <2>1, <2>2
  <2> QED BY <2>3 DEF u
<1> HIDE DEF s3
<1>6. p1 \in Parsers /\ p1.stack = s1 /\ p2 \in Parsers /\ p2.stack = s2
  BY <1>2, <1>3 DEF Parsers
<1>7. PopStack(p, 1) = p1
  BY DEF PopStack, s, s1
<1>8. PopStack(p1, 1) = p2
  <2> HIDE DEF p1, p2
  <2>1. p2 = [p1 EXCEPT !.stack = s2]
    BY DEF p2
  <2> QED BY <1>6, <2>1 DEF PopStack, s2
<1>9. PopStack(p, 2) = p2
  <2>1. SubSeq(p.stack, 2 + 1, Len(p.stack)) = s2
    BY <1>4 DEF s
  <2>2. PopStack(p, 2) = [p EXCEPT !.stack = s2]
    BY <2>1 DEF PopStack
  <2> QED BY <2>2 DEF Parsers
<1>10. Len(s) > 2 => PopStack(p, 3) = PopStack(p2, 1)
  <2>1. PopStack(p2, 1) = [p2 EXCEPT !.stack = s3]
    <3> HIDE DEF p2
    <3> QED BY <1>6 DEF PopStack, s3
  <2>2. [p2 EXCEPT !.stack = s3] = [p EXCEPT !.stack = s3]
    BY DEF Parsers
  <2>3. PopStack(p, 3) = [p EXCEPT !.stack = SubSeq(s, 4, Len(s))]
    BY DEF PopStack, s
  <2> QED BY <1>5, <2>1, <2>2, <2>3
<1>11. Peek(p, 1) = Peek(p1, 0)
  <2>1. s1[1] = s[2]
    BY <1>1, <1>2
  <2> HIDE DEF p1
  <2> QED BY <1>1, <1>2, <1>6, <2>1 DEF Peek, s
<1> QED BY <1>7, <1>8, <1>9, <1>10, <1>11 DEF s

(* Layouts that differ in the function at work.                            *)
LEMMA WithTopIs ==
  ASSUME NEW c \in Layouts, c.funs # <<>>, NEW f \in Open
  PROVE  /\ WithTop(c, f) \in Layouts /\ WithTop(c, f).funs # <<>> /\ Top(WithTop(c, f)) = f
         /\ WithTop(c, f).stack = c.stack /\ WithTop(c, f).bookmarks = c.bookmarks
         /\ WithTop(c, f).counters = c.counters
         /\ \A g : WithTop(WithTop(c, f), g) = WithTop(c, g)
         /\ Top(c) \in Open /\ Top(c) \in Functions /\ Top(c).nest # <<>>
         /\ WithTop(c, Top(c)) = c /\ f \in Functions /\ f.nest # <<>>
<1> DEFINE u == Tail(c.funs)
           F == <<f>> \o u
           e == [c EXCEPT !.funs = F]
<1>1. c.funs \in Seq(Open)
  BY DEF Layouts
<1>2. u \in Seq(Open) /\ Top(c) \in Open /\ c.funs = <<Top(c)>> \o u
  BY <1>1, HeadAndTail DEF Top
<1> HIDE DEF u
<1>3. F \in Seq(Open) /\ Tail(F) = u /\ F[1] = f /\ F # <<>>
  BY <1>2, ConsIs
<1> HIDE DEF F
<1>4. e \in Layouts /\ e.stack = c.stack /\ e.bookmarks = c.bookmarks /\ e.funs = F
      /\ e.counters = c.counters
  BY <1>3 DEF Layouts
<1>5. WithTop(c, f) = e
  BY DEF WithTop, F, u
<1>6. ASSUME NEW g PROVE WithTop(e, g) = WithTop(c, g)
  <2> DEFINE G == <<g>> \o u
  <2>1. WithTop(c, g) = [c EXCEPT !.funs = G]
    BY DEF WithTop, u
  <2>2. WithTop(e, g) = [e EXCEPT !.funs = G]
    <3> HIDE DEF e
    <3> QED BY <1>3, <1>4 DEF WithTop
  <2> HIDE DEF G
  <2> QED BY <2>1, <2>2 DEF Layouts
<1>7. Top(c) \in Functions /\ Top(c).nest # <<>> /\ f \in Functions /\ f.nest # <<>>
  BY <1>2 DEF Open
<1>8. WithTop(c, Top(c)) = c
  <2> DEFINE G == <<Top(c)>> \o u
  <2>1. WithTop(c, Top(c)) = [c EXCEPT !.funs = G]
    BY DEF WithTop, u
  <2> HIDE DEF G
  <2>2. c.funs = G
    BY <1>2 DEF G
  <2> QED BY <2>1, <2>2, Zenon DEF Layouts
<1>9. Top(e) = f
  <2> HIDE DEF e
  <2> QED BY <1>3, <1>4 DEF Top
<1> HIDE DEF e
<1> QED BY <1>2, <1>3, <1>4, <1>5, <1>6, <1>7, <1>8, <1>9

(* The stack is another matter.                                            *)
LEMMA StackIs ==
  ASSUME NEW c \in Layouts, NEW f, NEW s
  PROVE  [WithTop(c, f) EXCEPT !.stack = s] = WithTop([c EXCEPT !.stack = s], f)
<1> DEFINE F == <<f>> \o Tail(c.funs)
           e == [c EXCEPT !.stack = s]
<1>1. e.funs = c.funs
  BY DEF Layouts
<1>2. WithTop(e, f) = [e EXCEPT !.funs = F]
  <2> HIDE DEF e
  <2> QED BY <1>1 DEF WithTop
<1>3. WithTop(c, f) = [c EXCEPT !.funs = F]
  BY DEF WithTop
<1> HIDE DEF F
<1> QED BY <1>2, <1>3 DEF Layouts

(* Layouts with an item more on the stack.                                 *)
LEMMA PushIs ==
  ASSUME NEW c \in Layouts, NEW x \in Items
  PROVE  /\ Push(c, x) \in Layouts /\ Push(c, x).stack = <<x>> \o c.stack
         /\ Push(c, x).bookmarks = c.bookmarks /\ Push(c, x).counters = c.counters
         /\ Push(c, x).funs = c.funs /\ Top(Push(c, x)) = Top(c)
         /\ [Push(c, x) EXCEPT !.stack = c.stack] = c
<1> DEFINE s == <<x>> \o c.stack
           e == [c EXCEPT !.stack = s]
<1>1. s \in Seq(Items)
  BY ConsIs DEF Layouts
<1> HIDE DEF s
<1>2. /\ e \in Layouts /\ e.stack = s /\ e.bookmarks = c.bookmarks
      /\ e.counters = c.counters /\ e.funs = c.funs /\ [e EXCEPT !.stack = c.stack] = c
  BY <1>1 DEF Layouts
<1>3. Push(c, x) = e
  BY DEF Push, s
<1> HIDE DEF e
<1> QED BY <1>2, <1>3 DEF Top, s

-----------------------------------------------------------------------------
(* Shapes.  What a construct has left with the parser until it is done is  *)
(* an item of a kind; a shape is a kind in front of a shape.               *)
free(t) == <<"free", t>>   \* a token on the parse stack
call(t) == <<"call", t>>   \* the call of an operator
lab(t) == <<"lab", t>>     \* a label that is due in the blocks open now
loop(t) == <<"loop", t>>   \* a label that is placed, to jump back to
ctx(t) == <<"ctx", t>>     \* the label of an open block
mark(t) == <<"mark", t>>   \* a bookmark, and what was pushed since
zero(t) == <<"zero", t>>   \* a counter at 0
pos(t) == <<"pos", t>>     \* one that has counted
any(t) == <<"any", t>>     \* either
cut(t) == <<"cut", t>>     \* a place to cut
fn(t) == <<"fn", t>>       \* a function

\* What becomes of function f when a label is held: it is due here, or placed
\* here, or due as the end of a block that began.
Labels == {"lab", "loop", "ctx"}
Owing(k, f, l, g) ==
    CASE k = "lab" -> g.nest = f.nest /\ Without(g, f, l, Target(g.nest))
      [] k = "loop" -> /\ g.nest = f.nest /\ g.cuts = f.cuts /\ g.due = f.due
                       /\ g.known = f.known \cup {<<l, Target(g.nest)>>}
      [] OTHER -> g.nest = <<l>> \o f.nest /\ Without(g, f, l, EndOf(g.nest))
\* A label is pushed, and the function at work becomes g.
Labelled(d, l, g, c) == c = WithTop(Push(d, l), g)
\* A bookmark is set, and s is pushed.
Marked(d, s, c) == c = [d EXCEPT !.stack = s \o @, !.bookmarks = <<Len(d.stack)>> \o @]

\* A counter is new, and stands at n.
Counted(d, n, c) == c = [d EXCEPT !.counters = <<n>> \o @]
Counters == {"zero", "pos", "any"}
CountOf(k) == CASE k = "zero" -> {0} [] k = "pos" -> Nat \ {0} [] OTHER -> Nat

\* c is d with an item of kind k more.
Adds(k, d, c) ==
    \/ k = "free" /\ \E x \in Items : c = Push(d, x)
    \/ k = "call" /\ c = Push(d, Call(1))
    \/ k \in Labels /\ \E l \in LabelNames, g \in Open :
          Labelled(d, l, g, c) /\ Owing(k, Top(d), l, g)
    \/ k = "mark" /\ \E s \in Seq(Items) : Marked(d, s, c)
    \/ k \in Counters /\ \E n \in CountOf(k) : Counted(d, n, c)
    \/ k = "cut" /\ \E n \in Nat :
          c = WithTop(d, [Top(d) EXCEPT !.cuts = <<n>> \o @])
    \/ k = "fn" /\ c = [d EXCEPT !.funs = <<Fresh>> \o @]

\* Before there is anything: the script itself is a function.
Bottom == [stack |-> <<>>, bookmarks |-> <<>>, counters |-> <<>>, funs |-> <<Fresh>>]

\* There are layouts for a shape and all that is below it.
Sound(s, c, R) ==
    /\ c \in Layouts /\ c.funs # <<>>
    /\ \/ s = <<>> /\ c = Bottom
       \/ \E k, t, d : s = <<k, t>> /\ Adds(k, d, c) /\ <<t, d>> \in R
Holds(s, c) == \E R : <<s, c>> \in R /\ \A r \in R : \E t, d : r = <<t, d>> /\ Sound(t, d, R)

\* The parser is in a state of shape s.
Stands(p, s) == \E c : Shows(p, c) /\ Holds(s, c)

(* A shape's layout has something to work on.                              *)
LEMMA HoldsIs ==
  ASSUME NEW s, NEW c, Holds(s, c)
  PROVE  c \in Layouts /\ c.funs # <<>>
BY Zenon DEF Holds, Sound

(* The bottom has one layout.                                              *)
LEMMA HoldsBottom ==
  ASSUME NEW c, Holds(<<>>, c)
  PROVE  c = Bottom
<1>1. \A k, t : <<>> # <<k, t>>
  OBVIOUS
<1>2. PICK R : <<<<>>, c>> \in R /\ \A r \in R : \E u, d : r = <<u, d>> /\ Sound(u, d, R)
  BY DEF Holds
<1>3. Sound(<<>>, c, R)
  BY <1>2
<1> QED BY <1>1, <1>3, Zenon DEF Sound

(* Below an item is the rest of its shape.                                 *)
LEMMA HoldsTop ==
  ASSUME NEW k, NEW t, NEW c, Holds(<<k, t>>, c)
  PROVE  /\ c \in Layouts /\ c.funs # <<>>
         /\ \E d : Adds(k, d, c) /\ Holds(t, d) /\ d \in Layouts /\ d.funs # <<>>
<1>1. <<k, t>> # <<>> /\ \A k2, t2 : <<k, t>> = <<k2, t2>> => k = k2 /\ t = t2
  OBVIOUS
<1>2. PICK R : <<<<k, t>>, c>> \in R /\ \A r \in R : \E u, d : r = <<u, d>> /\ Sound(u, d, R)
  BY DEF Holds
<1>3. ASSUME NEW u, NEW d, <<u, d>> \in R PROVE Sound(u, d, R)
  BY <1>2, <1>3
<1>4. Sound(<<k, t>>, c, R)
  BY <1>2, <1>3
<1>5. PICK d : Adds(k, d, c) /\ <<t, d>> \in R
  BY <1>1, <1>4, Zenon DEF Sound
<1>6. Holds(t, d)
  BY <1>2, <1>5, Zenon DEF Holds
<1> QED BY <1>4, <1>5, <1>6, HoldsIs DEF Sound

(* An item is put in front.                                                *)
LEMMA HoldsMore ==
  ASSUME NEW k, NEW t, NEW d, Holds(t, d), NEW c \in Layouts, c.funs # <<>>, Adds(k, d, c)
  PROVE  Holds(<<k, t>>, c)
<1>1. PICK R : <<t, d>> \in R /\ \A r \in R : \E u, e : r = <<u, e>> /\ Sound(u, e, R)
  BY DEF Holds
<1> DEFINE Q == R \cup {<<<<k, t>>, c>>}
<1>2. <<t, d>> \in Q /\ <<<<k, t>>, c>> \in Q /\ \A r \in R : r \in Q
  BY <1>1
<1>3. ASSUME NEW u, NEW e, Sound(u, e, R) PROVE Sound(u, e, Q)
  BY <1>2, <1>3, Zenon DEF Sound
<1>4. Sound(<<k, t>>, c, Q)
  BY <1>2, Zenon DEF Sound
<1>5. ASSUME NEW r \in Q PROVE \E u, e : r = <<u, e>> /\ Sound(u, e, Q)
  BY <1>1, <1>3, <1>4
<1> HIDE DEF Q
<1> QED BY <1>2, <1>5, Zenon DEF Holds

(* At the beginning.                                                       *)
LEMMA BottomHolds == Holds(<<>>, Bottom) /\ Bottom \in Layouts
<1>1. Bottom \in Layouts /\ Bottom.funs # <<>>
  <2>1. Fresh \in Open
    BY FreshIs DEF Open
  <2>2. <<Fresh>> \in Seq(Open) /\ <<Fresh>> # <<>>
    BY <2>1
  <2> QED BY <2>2 DEF Bottom, Layouts
<1> DEFINE R == {<<<<>>, Bottom>>}
<1>2. Sound(<<>>, Bottom, R)
  BY <1>1, Zenon DEF Sound
<1>3. <<<<>>, Bottom>> \in R /\ \A r \in R : r = <<<<>>, Bottom>>
  OBVIOUS
<1> HIDE DEF R
<1> QED BY <1>1, <1>2, <1>3, Zenon DEF Holds

(* A parser of a shape with an item in front has a layout with an item     *)
(* more.                                                                   *)
LEMMA StandsIs ==
  ASSUME NEW p, NEW k, NEW t, Stands(p, <<k, t>>)
  PROVE  \E c, d : /\ Shows(p, c) /\ Adds(k, d, c) /\ Holds(t, d)
                   /\ c \in Layouts /\ c.funs # <<>> /\ d \in Layouts /\ d.funs # <<>>
<1>1. PICK c : Shows(p, c) /\ Holds(<<k, t>>, c)
  BY DEF Stands
<1> QED BY <1>1, HoldsTop

(* An item more for a parser.                                              *)
LEMMA StandsMore ==
  ASSUME NEW p, NEW c, Shows(p, c), NEW k, NEW t, NEW d, Holds(t, d), Adds(k, d, c),
         c.funs # <<>>
  PROVE  Stands(p, <<k, t>>)
<1>1. c \in Layouts
  BY ShownIs
<1> QED BY <1>1, HoldsMore DEF Stands

(* What a parser that stands is.                                           *)
LEMMA StandingIs ==
  ASSUME NEW p, NEW s, Stands(p, s)
  PROVE  /\ p \in Parsers /\ p.varargs = FALSE /\ p.aborted = FALSE
         /\ Bytecode(p) \in Bytecodes /\ p.scripts # <<>>
<1>1. PICK c : Shows(p, c) /\ Holds(s, c)
  BY DEF Stands
<1>2. c.funs # <<>>
  BY <1>1, HoldsIs
<1> QED BY <1>1, <1>2, ShownIs, TopIs

(* An instruction that opens, closes and names nothing changes no shape.   *)
LEMMA CodeStands ==
  ASSUME NEW p, NEW s, Stands(p, s), NEW x \in Instructions, Straight(x.op)
  PROVE  Stands(push_instruction(p, x), s)
<1>1. PICK c : Shows(p, c) /\ Holds(s, c)
  BY DEF Stands
<1>2. c.funs # <<>>
  BY <1>1, HoldsIs
<1>3. Shows(push_instruction(p, x), c)
  BY <1>1, <1>2, StraightKeeps
<1> QED BY <1>1, <1>3 DEF Stands

(* A token on the parse stack.                                             *)
LEMMA FreeStands ==
  ASSUME NEW p, NEW t, Stands(p, t), NEW x \in Items
  PROVE  /\ Stands(PushStack(p, x), free(t))
         /\ x = Call(1) => Stands(PushStack(p, x), call(t))
<1>1. PICK c : Shows(p, c) /\ Holds(t, c)
  BY DEF Stands
<1>2. c \in Layouts /\ c.funs # <<>>
  BY <1>1, HoldsIs
<1>3. Shows(PushStack(p, x), Push(c, x)) /\ Push(c, x).funs # <<>>
  BY <1>1, <1>2, PushKeeps, PushIs
<1>4. Adds("free", c, Push(c, x)) /\ (x = Call(1) => Adds("call", c, Push(c, x)))
  BY Zenon DEF Adds
<1> QED BY <1>1, <1>3, <1>4, StandsMore DEF free, call

(* It is taken off again.                                                  *)
LEMMA FreeTaken ==
  ASSUME NEW p, NEW t, Stands(p, free(t)) \/ Stands(p, call(t))
  PROVE  /\ Stands(PopStack(p, 1), t) /\ Peek(p, 0) \in Items
         /\ Stands(p, call(t)) => Peek(p, 0) = Call(1)
<1>1. Call(1) \in Items
  BY DEF Items
<1>2. ASSUME NEW x \in Items, NEW c, NEW d, Shows(p, c), c = Push(d, x), d \in Layouts,
             Holds(t, d)
      PROVE  Stands(PopStack(p, 1), t) /\ Peek(p, 0) = x
  <2>1. c.stack = <<x>> \o d.stack /\ [c EXCEPT !.stack = d.stack] = d
    BY <1>2, PushIs
  <2>2. d.stack \in Seq(Items)
    BY <1>2 DEF Layouts
  <2> DEFINE u == d.stack
             e == [c EXCEPT !.stack = u]
  <2>3. Peek(p, 0) = x /\ Shows(PopStack(p, 1), d)
    <3>1. c.stack = <<x>> \o u /\ u \in Seq(Items) /\ e = d
      BY <2>1, <2>2
    <3> HIDE DEF u
    <3>2. Peek(p, 0) = x /\ Shows(PopStack(p, 1), e)
      BY <1>2, <3>1, PopKeeps
    <3> HIDE DEF e
    <3> QED BY <3>1, <3>2
  <2> QED BY <1>2, <2>3 DEF Stands
<1>3. ASSUME Stands(p, call(t)) PROVE Stands(PopStack(p, 1), t) /\ Peek(p, 0) = Call(1)
  <2>1. PICK c, d : Shows(p, c) /\ Adds("call", d, c) /\ Holds(t, d) /\ d \in Layouts
    BY <1>3, StandsIs DEF call
  <2>2. c = Push(d, Call(1))
    BY <2>1, Zenon DEF Adds, Counters, Labels
  <2> QED BY <1>1, <1>2, <2>1, <2>2
<1>4. ASSUME Stands(p, free(t)) PROVE Stands(PopStack(p, 1), t) /\ Peek(p, 0) \in Items
  <2>1. PICK c, d : Shows(p, c) /\ Adds("free", d, c) /\ Holds(t, d) /\ d \in Layouts
    BY <1>4, StandsIs DEF free
  <2>2. PICK x \in Items : c = Push(d, x)
    BY <2>1, Zenon DEF Adds, Counters, Labels
  <2> QED BY <1>2, <2>1, <2>2
<1> QED BY <1>1, <1>3, <1>4

(* The constructor flag is nobody's business here.                         *)
LEMMA FlagStands ==
  ASSUME NEW p, NEW s, Stands(p, s), NEW b \in BOOLEAN
  PROVE  Stands([p EXCEPT !.constructor = b], s)
<1> DEFINE q == [p EXCEPT !.constructor = b]
<1>1. PICK c : Shows(p, c) /\ Holds(s, c)
  BY DEF Stands
<1>2. /\ p \in Parsers /\ c \in Layouts /\ p.varargs = FALSE /\ p.aborted = FALSE
      /\ p.stack = c.stack /\ p.bookmarks = c.bookmarks /\ p.counters = c.counters
  BY <1>1, ShownIs
<1>3. /\ q \in Parsers /\ q.stack = p.stack /\ q.bookmarks = p.bookmarks
      /\ q.counters = p.counters /\ q.varargs = p.varargs /\ q.aborted = p.aborted
      /\ q.scripts = p.scripts /\ q.finished = p.finished /\ q.labels = p.labels
  BY <1>2 DEF Parsers
<1> HIDE DEF q
<1>4. Shows(q, c)
  BY <1>1, <1>2, <1>3, OthersKeep
<1> QED BY <1>1, <1>4 DEF Stands, q

(* A bookmark.                                                             *)
LEMMA MarkStands ==
  ASSUME NEW p, NEW t, Stands(p, t)
  PROVE  Stands(datastack_bookmark(p), mark(t))
<1>1. PICK c : Shows(p, c) /\ Holds(t, c)
  BY DEF Stands
<1> DEFINE m == <<Len(c.stack)>> \o c.bookmarks
           q == [p EXCEPT !.bookmarks = m]
           e == [c EXCEPT !.bookmarks = m]
<1>2. c \in Layouts /\ c.funs # <<>> /\ p \in Parsers
      /\ c.stack \in Seq(Items) /\ c.bookmarks \in Seq(Nat)
      /\ p.stack = c.stack /\ p.bookmarks = c.bookmarks /\ p.counters = c.counters
      /\ p.varargs = FALSE /\ p.aborted = FALSE
  BY <1>1, HoldsIs, ShownIs
<1>3. m \in Seq(Nat)
  BY <1>2, ConsIs
<1>4. datastack_bookmark(p) = q
  BY <1>2 DEF datastack_bookmark
<1>5. <<>> \in Seq(Items) /\ <<>> \o c.stack = c.stack
  BY <1>2, ConcatEmptySeq
<1> HIDE DEF m
<1>6. /\ q \in Parsers /\ q.stack = p.stack /\ q.bookmarks = m
      /\ q.counters = p.counters /\ q.varargs = p.varargs /\ q.aborted = p.aborted
      /\ q.scripts = p.scripts /\ q.finished = p.finished /\ q.labels = p.labels
  BY <1>2, <1>3 DEF Parsers
<1>7. /\ e \in Layouts /\ e.stack = c.stack /\ e.bookmarks = m
      /\ e.counters = c.counters /\ e.funs = c.funs
  BY <1>2, <1>3 DEF Layouts
<1>8. e = [c EXCEPT !.stack = c.stack, !.bookmarks = m]
  BY <1>2 DEF Layouts
<1>9. Adds("mark", c, e)
  <2> HIDE DEF e
  <2>1. Marked(c, <<>>, e)
    BY <1>5, <1>8 DEF Marked, m
  <2> QED BY <1>5, <2>1, Zenon DEF Adds
<1> HIDE DEF q, e
<1>10. Shows(q, e)
  BY <1>1, <1>2, <1>6, <1>7, OthersKeep
<1> QED BY <1>1, <1>2, <1>4, <1>7, <1>9, <1>10, StandsMore DEF mark

\* s was pushed since the bookmark.
Above(p, t, c, d, s) ==
    /\ Shows(p, c) /\ Holds(t, d) /\ d \in Layouts /\ d.funs # <<>> /\ s \in Seq(Items)
    /\ c.stack = s \o d.stack /\ c.bookmarks = <<Len(d.stack)>> \o d.bookmarks
    /\ c.counters = d.counters /\ c.funs = d.funs /\ Marked(d, s, c)

(* What a bookmark has been set below.                                     *)
LEMMA MarkIs ==
  ASSUME NEW p, NEW t, Stands(p, mark(t))
  PROVE  \E c, d, s : Above(p, t, c, d, s)
<1>1. PICK c, d : /\ Shows(p, c) /\ Adds("mark", d, c) /\ Holds(t, d)
                  /\ d \in Layouts /\ d.funs # <<>>
  BY StandsIs DEF mark
<1>2. PICK s \in Seq(Items) : Marked(d, s, c)
  BY <1>1, Zenon DEF Adds, Counters, Labels
<1>3. /\ c.stack = s \o d.stack /\ c.bookmarks = <<Len(d.stack)>> \o d.bookmarks
      /\ c.counters = d.counters /\ c.funs = d.funs
  BY <1>1, <1>2 DEF Layouts, Marked
<1> QED BY <1>1, <1>2, <1>3, Zenon DEF Above

(* What is pushed above a bookmark is its own.                             *)
LEMMA MarkTakes ==
  ASSUME NEW p, NEW t, Stands(p, mark(t)), NEW x \in Items
  PROVE  Stands(PushStack(p, x), mark(t))
<1>1. PICK c, d, s : Above(p, t, c, d, s)
  BY MarkIs
<1>2. /\ Shows(p, c) /\ Holds(t, d) /\ d \in Layouts /\ d.funs # <<>> /\ s \in Seq(Items)
      /\ c.stack = s \o d.stack /\ Marked(d, s, c)
  BY <1>1 DEF Above
<1> DEFINE r == <<x>> \o s
           w == s \o d.stack
           v == r \o d.stack
           m == <<Len(d.stack)>> \o d.bookmarks
<1>3. d.stack \in Seq(Items)
  BY <1>2 DEF Layouts
<1>4. r \in Seq(Items)
  BY <1>2, ConsIs
<1>5. v = <<x>> \o w
  <2> DEFINE u == d.stack
             k == <<x>>
  <2>1. u \in Seq(Items) /\ k \in Seq(Items) /\ s \in Seq(Items)
    BY <1>2, <1>3
  <2> HIDE DEF u, k
  <2>2. (k \o s) \o u = k \o (s \o u)
    BY <2>1, ConcatAssociative
  <2> QED BY <2>2 DEF u, k
<1> HIDE DEF r, w, v, m
<1>6. c = [d EXCEPT !.stack = w, !.bookmarks = m]
  BY <1>2 DEF w, m, Marked
<1>7. Push(c, x) = [d EXCEPT !.stack = v, !.bookmarks = m]
  <2>1. c.stack = w
    BY <1>2 DEF w
  <2>2. Push(c, x) = [c EXCEPT !.stack = v]
    BY <1>5, <2>1 DEF Push
  <2> QED BY <1>2, <1>6, <2>2 DEF Layouts
<1>8. Adds("mark", d, Push(c, x))
  <2>1. [d EXCEPT !.stack = r \o @, !.bookmarks = <<Len(d.stack)>> \o @]
          = [d EXCEPT !.stack = v, !.bookmarks = m]
    BY DEF v, m
  <2> QED BY <1>4, <1>7, <2>1, Zenon DEF Adds, Marked
<1>9. Shows(PushStack(p, x), Push(c, x)) /\ Push(c, x).funs # <<>>
  <2>1. c \in Layouts /\ c.funs # <<>>
    BY <1>1, ShownIs DEF Above
  <2> QED BY <1>2, <2>1, PushKeeps, PushIs
<1> QED BY <1>2, <1>8, <1>9, StandsMore DEF mark

(* Rolling up takes the stack back to where it was.                        *)
LEMMA MarkRolled ==
  ASSUME NEW p, NEW t, Stands(p, mark(t))
  PROVE  Stands(Rollup(p), t) /\ Len(p.stack) - Head(p.bookmarks) \in Int
<1>1. PICK c, d, s : Above(p, t, c, d, s)
  BY MarkIs
<1>2. /\ Shows(p, c) /\ Holds(t, d) /\ d \in Layouts /\ s \in Seq(Items)
      /\ c.stack = s \o d.stack /\ c.bookmarks = <<Len(d.stack)>> \o d.bookmarks
      /\ c.counters = d.counters /\ c.funs = d.funs
  BY <1>1 DEF Above
<1>3. /\ p \in Parsers /\ p.stack = c.stack /\ p.bookmarks = c.bookmarks
      /\ p.counters = c.counters /\ p.varargs = FALSE /\ p.aborted = FALSE
  BY <1>2, ShownIs
<1> DEFINE u == d.stack
           w == p.stack
           m == p.bookmarks
           q == [p EXCEPT !.stack = u, !.bookmarks = d.bookmarks]
<1>4. u \in Seq(Items) /\ Len(u) \in Nat /\ d.bookmarks \in Seq(Nat)
  BY <1>2 DEF Layouts
<1>5. Head(m) = Len(u) /\ Tail(m) = d.bookmarks
  <2> DEFINE n == Len(u)
             r == d.bookmarks
  <2>1. m = <<n>> \o r /\ n \in Nat /\ r \in Seq(Nat)
    BY <1>2, <1>3, <1>4
  <2> HIDE DEF n, r, m
  <2>2. Head(m) = n /\ Tail(m) = r
    BY <2>1, ConsIs
  <2> QED BY <2>2 DEF n, r
<1>6. Len(w) = Len(s) + Len(u) /\ SubSeq(w, Len(w) - Len(u) + 1, Len(w)) = u
      /\ ~(Len(u) > Len(w))
  <2>1. w = s \o u /\ s \in Seq(Items)
    BY <1>2, <1>3
  <2> HIDE DEF u, w
  <2>2. Len(w) = Len(s) + Len(u) /\ Len(s) \in Nat
    BY <1>4, <2>1
  <2>3. Len(w) - Len(u) + 1 = Len(s) + 1
    BY <1>4, <2>2
  <2>4. \A i \in 1..Len(u) : w[i + Len(s)] = u[i]
    BY <1>4, <2>1, <2>2
  <2> DEFINE z == SubSeq(w, Len(s) + 1, Len(w))
  <2>5. w \in Seq(Items) /\ Len(s) <= Len(w)
    BY <1>4, <2>1, <2>2
  <2>6. z \in Seq(Items) /\ Len(z) = Len(w) - Len(s)
        /\ \A i \in 1..(Len(w) - Len(s)) : z[i] = w[i + Len(s)]
    BY <2>2, <2>5, DropIs
  <2> HIDE DEF z
  <2>7. Len(w) - Len(s) = Len(u)
    BY <1>4, <2>2
  <2>8. z = u
    <3>1. \A i \in 1..Len(u) : z[i] = u[i]
      BY <2>4, <2>6, <2>7
    <3> QED BY <1>4, <2>6, <2>7, <3>1
  <2> QED BY <1>4, <2>2, <2>3, <2>8 DEF z
<1> HIDE DEF u, w, m
<1>7. Rollup(p) = q
  <2>1. ~(Head(p.bookmarks) > Len(p.stack))
    BY <1>5, <1>6 DEF w, m
  <2>2. SubSeq(p.stack, Len(p.stack) - Head(p.bookmarks) + 1, Len(p.stack)) = u
    BY <1>5, <1>6 DEF w, m
  <2>3. Tail(p.bookmarks) = d.bookmarks
    BY <1>5 DEF m
  <2> QED BY <2>1, <2>2, <2>3 DEF Rollup
<1>8. /\ q \in Parsers /\ q.stack = u /\ q.bookmarks = d.bookmarks
      /\ q.counters = p.counters /\ q.varargs = p.varargs /\ q.aborted = p.aborted
      /\ q.scripts = p.scripts /\ q.finished = p.finished /\ q.labels = p.labels
  BY <1>3, <1>4 DEF Parsers
<1> HIDE DEF q
<1>9. Shows(q, d)
  BY <1>2, <1>3, <1>8, OthersKeep DEF u
<1>10. Len(p.stack) - Head(p.bookmarks) \in Int
  <2>1. Len(w) - Head(m) = Len(s)
    BY <1>4, <1>5, <1>6
  <2>2. Len(s) \in Int
    BY <1>2
  <2> QED BY <2>1, <2>2 DEF w, m
<1> QED BY <1>2, <1>7, <1>9, <1>10 DEF Stands

-----------------------------------------------------------------------------
(* Counters may be changed below items that are not counters.              *)
Counting(c, u) == [c EXCEPT !.counters = u]
Still == {"free", "call", "lab", "loop", "ctx", "mark", "cut", "fn"}

(* These do not look at the counters.                                      *)
LEMMA StillKeeps ==
  ASSUME NEW k \in Still, NEW d \in Layouts, d.funs # <<>>, NEW c \in Layouts,
         Adds(k, d, c), NEW u \in Seq(Nat)
  PROVE  /\ c.counters = d.counters
         /\ Adds(k, Counting(d, u), Counting(c, u))
         /\ Counting(c, u) \in Layouts /\ Counting(c, u).funs = c.funs
<1> DEFINE a == Counting(d, u)
           b == Counting(c, u)
<1>1. /\ b \in Layouts /\ b.stack = c.stack /\ b.bookmarks = c.bookmarks /\ b.funs = c.funs
      /\ a.stack = d.stack /\ a.bookmarks = d.bookmarks /\ a.funs = d.funs
  BY DEF Counting, Layouts
<1>2. Top(a) = Top(d)
  BY <1>1 DEF Top
<1>3. ASSUME NEW x, c = Push(d, x) PROVE b = Push(a, x) /\ c.counters = d.counters
  <2> DEFINE s == <<x>> \o d.stack
  <2>1. c = [d EXCEPT !.stack = s]
    BY <1>3 DEF Push
  <2>2. Push(a, x) = [a EXCEPT !.stack = s]
    BY <1>1 DEF Push
  <2> HIDE DEF s
  <2> QED BY <2>1, <2>2 DEF Counting, Layouts
<1>4. ASSUME NEW l, NEW g, Labelled(d, l, g, c)
      PROVE  Labelled(a, l, g, b) /\ c.counters = d.counters
  <2> DEFINE s == <<l>> \o d.stack
             F == <<g>> \o Tail(d.funs)
  <2>1. c = [d EXCEPT !.stack = s, !.funs = F]
    BY <1>4 DEF Labelled, Push, WithTop, Layouts
  <2>2. WithTop(Push(a, l), g) = [a EXCEPT !.stack = s, !.funs = F]
    BY <1>1 DEF Push, WithTop, Counting, Layouts
  <2> HIDE DEF s, F
  <2> QED BY <2>1, <2>2 DEF Counting, Layouts, Labelled
<1>5. ASSUME NEW s, Marked(d, s, c) PROVE Marked(a, s, b) /\ c.counters = d.counters
  <2> DEFINE v == s \o d.stack
             m == <<Len(d.stack)>> \o d.bookmarks
  <2>1. c = [d EXCEPT !.stack = v, !.bookmarks = m]
    BY <1>5 DEF Marked
  <2>2. [a EXCEPT !.stack = s \o a.stack, !.bookmarks = <<Len(a.stack)>> \o a.bookmarks]
          = [a EXCEPT !.stack = v, !.bookmarks = m]
    BY <1>1
  <2> HIDE DEF v, m
  <2>3. b = [a EXCEPT !.stack = v, !.bookmarks = m] /\ c.counters = d.counters
    BY <2>1 DEF Counting, Layouts
  <2> QED BY <2>2, <2>3 DEF Marked
<1>6. ASSUME NEW g, c = WithTop(d, g) PROVE b = WithTop(a, g) /\ c.counters = d.counters
  <2> DEFINE F == <<g>> \o Tail(d.funs)
  <2>1. c = [d EXCEPT !.funs = F] /\ WithTop(a, g) = [a EXCEPT !.funs = F]
    BY <1>1, <1>6 DEF WithTop
  <2> HIDE DEF F
  <2> QED BY <2>1 DEF Counting, Layouts
<1>7. ASSUME c = [d EXCEPT !.funs = <<Fresh>> \o @]
      PROVE  b = [a EXCEPT !.funs = <<Fresh>> \o @] /\ c.counters = d.counters
  <2> DEFINE F == <<Fresh>> \o d.funs
  <2>1. c = [d EXCEPT !.funs = F]
    BY <1>7
  <2>2. [a EXCEPT !.funs = <<Fresh>> \o @] = [a EXCEPT !.funs = F]
    BY <1>1
  <2> HIDE DEF F
  <2>3. b = [a EXCEPT !.funs = F] /\ c.counters = d.counters
    BY <2>1 DEF Counting, Layouts
  <2> QED BY <2>2, <2>3
<1>8. CASE k = "free"
  <2>1. PICK x \in Items : c = Push(d, x)
    BY <1>8, Zenon DEF Adds, Counters, Labels
  <2> QED BY <1>1, <1>3, <1>8, <2>1, Zenon DEF Adds
<1>9. CASE k = "call"
  <2>1. c = Push(d, Call(1))
    BY <1>9, Zenon DEF Adds, Counters, Labels
  <2> QED BY <1>1, <1>3, <1>9, <2>1, Zenon DEF Adds
<1>10. CASE k \in Labels
  <2>1. PICK l \in LabelNames, g \in Open : Labelled(d, l, g, c) /\ Owing(k, Top(d), l, g)
    BY <1>10, Zenon DEF Adds, Counters, Labels
  <2>2. Labelled(a, l, g, b) /\ Owing(k, Top(a), l, g) /\ c.counters = d.counters
    BY <1>2, <1>4, <2>1
  <2> QED BY <1>1, <1>10, <2>2, Zenon DEF Adds
<1>11. CASE k = "mark"
  <2>1. PICK s \in Seq(Items) : Marked(d, s, c)
    BY <1>11, Zenon DEF Adds, Counters, Labels
  <2> QED BY <1>1, <1>5, <1>11, <2>1, Zenon DEF Adds
<1>12. CASE k = "cut"
  <2>1. PICK n \in Nat : c = WithTop(d, [Top(d) EXCEPT !.cuts = <<n>> \o @])
    BY <1>12, Zenon DEF Adds, Counters, Labels
  <2>2. /\ b = WithTop(a, [Top(a) EXCEPT !.cuts = <<n>> \o @])
        /\ c.counters = d.counters
    BY <1>2, <1>6, <2>1
  <2> QED BY <1>1, <1>12, <2>2, Zenon DEF Adds
<1>13. CASE k = "fn"
  <2>1. c = [d EXCEPT !.funs = <<Fresh>> \o @]
    BY <1>13, Zenon DEF Adds, Counters, Labels
  <2> QED BY <1>1, <1>7, <1>13, <2>1, Zenon DEF Adds
<1> QED BY <1>8, <1>9, <1>10, <1>11, <1>12, <1>13 DEF Still, Labels

\* Changing the counters by f changes the shape from s to t.
Recounts(s, t, f) == \A c : Holds(s, c) => Holds(t, Counting(c, f[c.counters]))
Counts == [Seq(Nat) -> Seq(Nat)]

(* It does so below other items.                                           *)
LEMMA RecountsBelow ==
  ASSUME NEW s, NEW t, NEW f \in Counts, Recounts(s, t, f), NEW k \in Still
  PROVE  Recounts(<<k, s>>, <<k, t>>, f)
<1> SUFFICES ASSUME NEW c, Holds(<<k, s>>, c)
             PROVE  Holds(<<k, t>>, Counting(c, f[c.counters]))
  BY DEF Recounts
<1>1. PICK d : /\ Adds(k, d, c) /\ Holds(s, d) /\ d \in Layouts /\ d.funs # <<>>
               /\ c \in Layouts /\ c.funs # <<>>
  BY HoldsTop
<1> DEFINE u == f[c.counters]
<1>2. u \in Seq(Nat)
  <2>1. c.counters \in Seq(Nat)
    BY <1>1 DEF Layouts
  <2> QED BY <2>1 DEF Counts
<1>3. Holds(t, Counting(d, f[d.counters]))
  BY <1>1 DEF Recounts
<1>4. d.counters = c.counters
  BY <1>1, <1>2, StillKeeps
<1>5. Holds(t, Counting(d, u))
  BY <1>3, <1>4
<1> HIDE DEF u
<1>6. Adds(k, Counting(d, u), Counting(c, u)) /\ Counting(c, u) \in Layouts
      /\ Counting(c, u).funs # <<>>
  BY <1>1, <1>2, StillKeeps
<1>7. Holds(<<k, t>>, Counting(c, u))
  BY <1>5, <1>6, HoldsMore
<1> QED BY <1>7 DEF u

(* The parser's counters change with the shape.                            *)
LEMMA RecountStands ==
  ASSUME NEW p, NEW s, NEW t, NEW f \in Counts, Stands(p, s), Recounts(s, t, f)
  PROVE  Stands(Counting(p, f[p.counters]), t)
<1>1. PICK c : Shows(p, c) /\ Holds(s, c)
  BY DEF Stands
<1> DEFINE u == f[p.counters]
           q == Counting(p, u)
           e == Counting(c, u)
<1>2. /\ p \in Parsers /\ c \in Layouts /\ p.varargs = FALSE /\ p.aborted = FALSE
      /\ p.stack = c.stack /\ p.bookmarks = c.bookmarks /\ p.counters = c.counters
      /\ p.counters \in Seq(Nat)
  BY <1>1, ShownIs
<1>3. u \in Seq(Nat)
  BY <1>2 DEF Counts
<1>4. Holds(t, Counting(c, u))
  BY <1>1, <1>2 DEF Recounts
<1> HIDE DEF u
<1>5. /\ q \in Parsers /\ q.stack = p.stack /\ q.bookmarks = p.bookmarks
      /\ q.counters = u /\ q.varargs = p.varargs /\ q.aborted = p.aborted
      /\ q.scripts = p.scripts /\ q.finished = p.finished /\ q.labels = p.labels
  BY <1>2, <1>3 DEF Parsers, Counting
<1>6. /\ e \in Layouts /\ e.stack = c.stack /\ e.bookmarks = c.bookmarks
      /\ e.counters = u /\ e.funs = c.funs
  BY <1>2, <1>3 DEF Layouts, Counting
<1> HIDE DEF q, e
<1>7. Shows(q, e)
  BY <1>1, <1>2, <1>5, <1>6, OthersKeep
<1> QED BY <1>4, <1>7, Zenon DEF Stands, q, e, u

Started == [v \in Seq(Nat) |-> <<0>> \o v]
Incremented == [v \in Seq(Nat) |-> IF v = <<>> THEN v ELSE <<Head(v) + 1>> \o Tail(v)]
Dropped == [v \in Seq(Nat) |-> IF v = <<>> THEN v ELSE Tail(v)]

(* These are what the counters' operations do.                             *)
LEMMA CountsAre ==
  /\ Started \in Counts /\ Incremented \in Counts /\ Dropped \in Counts
  /\ \A n \in Nat : \A v \in Seq(Nat) :
        /\ Started[v] = <<0>> \o v
        /\ Incremented[<<n>> \o v] = <<n + 1>> \o v /\ Dropped[<<n>> \o v] = v
        /\ <<n>> \o v \in Seq(Nat)
<1>1. ASSUME NEW n \in Nat, NEW v \in Seq(Nat)
      PROVE  <<n>> \o v \in Seq(Nat) /\ <<n>> \o v # <<>> /\ Head(<<n>> \o v) = n
             /\ Tail(<<n>> \o v) = v
  BY ConsIs
<1>2. Started \in Counts
  <2>1. 0 \in Nat /\ \A v \in Seq(Nat) : <<0>> \o v \in Seq(Nat)
    BY <1>1
  <2> QED BY <2>1, Zenon DEF Started, Counts
<1>3. ASSUME NEW v \in Seq(Nat), v # <<>>
      PROVE  <<Head(v) + 1>> \o Tail(v) \in Seq(Nat) /\ Tail(v) \in Seq(Nat)
  <2>1. Tail(v) \in Seq(Nat) /\ Head(v) \in Nat
    BY <1>3, HeadAndTail
  <2>2. Head(v) + 1 \in Nat
    BY <2>1
  <2> QED BY <1>1, <2>1, <2>2
<1>4. Incremented \in Counts /\ Dropped \in Counts
  BY <1>3, Zenon DEF Incremented, Dropped, Counts
<1>5. ASSUME NEW n \in Nat, NEW v \in Seq(Nat)
      PROVE  /\ Started[v] = <<0>> \o v /\ Dropped[<<n>> \o v] = v
             /\ Incremented[<<n>> \o v] = <<n + 1>> \o v
  <2> DEFINE w == <<n>> \o v
  <2>1. w \in Seq(Nat) /\ w # <<>> /\ Head(w) = n /\ Tail(w) = v
    BY <1>1
  <2> HIDE DEF w
  <2>2. Dropped[w] = v /\ Incremented[w] = <<n + 1>> \o v
    BY <2>1 DEF Dropped, Incremented
  <2>3. Started[v] = <<0>> \o v
    BY DEF Started
  <2> QED BY <2>2, <2>3 DEF w
<1> QED BY <1>1, <1>2, <1>4, <1>5

(* datastack.c -- on parsers.                                              *)
LEMMA CountersAre ==
  ASSUME NEW p \in Parsers
  PROVE  /\ datastack_new_counter(p) = Counting(p, Started[p.counters])
         /\ datastack_increment(p) = Counting(p, Incremented[p.counters])
         /\ DropCounter(p) = Counting(p, Dropped[p.counters])
<1>1. p.counters \in Seq(Nat) /\ p = [p EXCEPT !.counters = p.counters]
  BY DEF Parsers
<1> DEFINE v == p.counters
<1>2. /\ Started[v] = <<0>> \o v
      /\ Incremented[v] = IF v = <<>> THEN v ELSE <<Head(v) + 1>> \o Tail(v)
      /\ Dropped[v] = IF v = <<>> THEN v ELSE Tail(v)
  BY <1>1 DEF Started, Incremented, Dropped
<1>3. datastack_new_counter(p) = Counting(p, Started[v])
  BY <1>2 DEF datastack_new_counter, Counting
<1>4. CASE v = <<>>
  BY <1>1, <1>2, <1>3, <1>4, Zenon DEF datastack_increment, DropCounter, Counting
<1>5. CASE v # <<>>
  BY <1>2, <1>3, <1>5, Zenon DEF datastack_increment, DropCounter, Counting
<1> QED BY <1>4, <1>5

\* d is below a counter of c at n.
Below(t, c, d, n) ==
    /\ Counted(d, n, c) /\ Holds(t, d) /\ d \in Layouts /\ d.funs # <<>>
    /\ d.counters \in Seq(Nat) /\ c.counters = <<n>> \o d.counters
    /\ c.funs = d.funs /\ Counting(c, d.counters) = d /\ c \in Layouts
    /\ \A m : Counted(d, m, Counting(c, <<m>> \o d.counters))

(* The layout below a counter.                                             *)
LEMMA CounterHolds ==
  ASSUME NEW k \in Counters, NEW t, NEW c, Holds(<<k, t>>, c)
  PROVE  \E d, n : n \in CountOf(k) /\ Below(t, c, d, n)
<1>1. PICK d : /\ Adds(k, d, c) /\ Holds(t, d) /\ d \in Layouts /\ d.funs # <<>>
               /\ c \in Layouts
  BY HoldsTop
<1>2. PICK n \in CountOf(k) : Counted(d, n, c)
  BY <1>1, Zenon DEF Adds, Counters, Labels
<1> DEFINE v == <<n>> \o d.counters
<1>3. c = [d EXCEPT !.counters = v]
  BY <1>2 DEF Counted
<1> HIDE DEF v
<1>4. d.counters \in Seq(Nat) /\ c.counters = v /\ c.funs = d.funs
      /\ Counting(c, d.counters) = d
  BY <1>1, <1>3 DEF Layouts, Counting
<1>5. ASSUME NEW m PROVE Counted(d, m, Counting(c, <<m>> \o d.counters))
  <2> DEFINE w == <<m>> \o d.counters
  <2>1. [d EXCEPT !.counters = <<m>> \o @] = [d EXCEPT !.counters = w]
    OBVIOUS
  <2> HIDE DEF w
  <2>2. Counting(c, w) = [d EXCEPT !.counters = w]
    BY <1>1, <1>3 DEF Layouts, Counting
  <2> QED BY <2>1, <2>2 DEF Counted, w
<1> QED BY <1>1, <1>2, <1>4, <1>5 DEF v, Below

(* A new counter stands at 0.                                              *)
LEMMA ZeroHolds ==
  ASSUME NEW t
  PROVE  Recounts(t, zero(t), Started)
<1> SUFFICES ASSUME NEW c, Holds(t, c)
             PROVE  Holds(zero(t), Counting(c, Started[c.counters]))
  BY DEF Recounts
<1> DEFINE v == <<0>> \o c.counters
           e == Counting(c, v)
<1>1. c \in Layouts /\ c.funs # <<>> /\ c.counters \in Seq(Nat)
  BY HoldsIs DEF Layouts
<1>2. v = Started[c.counters] /\ v \in Seq(Nat)
  BY <1>1, CountsAre
<1>3. Counted(c, 0, e)
  BY DEF Counted, Counting
<1> HIDE DEF v
<1>4. e \in Layouts /\ e.funs # <<>>
  BY <1>1, <1>2 DEF Counting, Layouts
<1>5. Adds("zero", c, e)
  BY <1>3, Zenon DEF Adds, Counters, CountOf
<1>6. Holds(zero(t), e)
  BY <1>4, <1>5, HoldsMore DEF zero
<1> QED BY <1>2, <1>6

(* A counter is incremented.                                               *)
LEMMA IncrHolds ==
  ASSUME NEW t, NEW k \in Counters, NEW j \in Counters,
         \A n \in CountOf(k) : n \in Nat /\ n + 1 \in CountOf(j)
  PROVE  Recounts(<<k, t>>, <<j, t>>, Incremented)
<1> SUFFICES ASSUME NEW c, Holds(<<k, t>>, c)
             PROVE  Holds(<<j, t>>, Counting(c, Incremented[c.counters]))
  BY DEF Recounts
<1>1. PICK d, n : n \in CountOf(k) /\ Below(t, c, d, n)
  BY CounterHolds
<1>2. /\ Holds(t, d) /\ d \in Layouts /\ d.funs # <<>> /\ d.counters \in Seq(Nat)
      /\ c.funs = d.funs /\ Counting(c, d.counters) = d /\ c \in Layouts
      /\ \A m : Counted(d, m, Counting(c, <<m>> \o d.counters))
  BY <1>1 DEF Below
<1>3. n \in CountOf(k) /\ c.counters = <<n>> \o d.counters
  BY <1>1 DEF Below
<1> DEFINE m == n + 1
           v == <<m>> \o d.counters
           e == Counting(c, v)
<1>4. m \in CountOf(j) /\ m \in Nat
  BY <1>3
<1>5. v = Incremented[c.counters] /\ v \in Seq(Nat)
  <2> DEFINE w == d.counters
  <2>1. n \in Nat /\ w \in Seq(Nat) /\ c.counters = <<n>> \o w
    BY <1>2, <1>3
  <2> HIDE DEF w
  <2>2. Incremented[<<n>> \o w] = <<m>> \o w
    BY <2>1, CountsAre
  <2> HIDE DEF m
  <2>3. <<m>> \o w \in Seq(Nat)
    BY <1>4, <2>1, CountsAre
  <2> QED BY <2>1, <2>2, <2>3 DEF w
<1> HIDE DEF m
<1>6. Counted(d, m, e)
  BY <1>2
<1> HIDE DEF v
<1>7. e \in Layouts /\ e.funs # <<>>
  BY <1>2, <1>5 DEF Counting, Layouts
<1>8. Adds(j, d, e)
  BY <1>4, <1>6, Zenon DEF Adds
<1>9. Holds(<<j, t>>, e)
  BY <1>2, <1>7, <1>8, HoldsMore
<1> QED BY <1>5, <1>9

(* A counter is dropped.                                                   *)
LEMMA DropHolds ==
  ASSUME NEW t, NEW k \in Counters
  PROVE  Recounts(<<k, t>>, t, Dropped)
<1> SUFFICES ASSUME NEW c, Holds(<<k, t>>, c)
             PROVE  Holds(t, Counting(c, Dropped[c.counters]))
  BY DEF Recounts
<1>1. PICK d, n : n \in CountOf(k) /\ Below(t, c, d, n)
  BY CounterHolds
<1>2. /\ Holds(t, d) /\ d \in Layouts /\ d.funs # <<>> /\ d.counters \in Seq(Nat)
      /\ c.funs = d.funs /\ Counting(c, d.counters) = d /\ c \in Layouts
      /\ \A m : Counted(d, m, Counting(c, <<m>> \o d.counters))
  BY <1>1 DEF Below
<1>3. n \in CountOf(k) /\ c.counters = <<n>> \o d.counters
  BY <1>1 DEF Below
<1>4. n \in Nat
  BY <1>3 DEF CountOf
<1>5. Dropped[c.counters] = d.counters
  <2> DEFINE w == d.counters
  <2>1. w \in Seq(Nat) /\ c.counters = <<n>> \o w
    BY <1>2, <1>3
  <2> HIDE DEF w
  <2>2. Dropped[<<n>> \o w] = w
    BY <1>4, <2>1, CountsAre
  <2> QED BY <2>1, <2>2 DEF w
<1> QED BY <1>2, <1>5

(* What is known of a counter may be forgotten.                            *)
LEMMA AnyHolds ==
  ASSUME NEW t, NEW k \in Counters, NEW p, Stands(p, <<k, t>>)
  PROVE  Stands(p, any(t))
<1>1. PICK c, d : /\ Shows(p, c) /\ Adds(k, d, c) /\ Holds(t, d)
                  /\ c \in Layouts /\ c.funs # <<>>
  BY StandsIs
<1>2. PICK n \in CountOf(k) : Counted(d, n, c)
  BY <1>1, Zenon DEF Adds, Counters, Labels
<1>3. n \in Nat
  BY <1>2 DEF CountOf
<1>4. Adds("any", d, c)
  <2>1. n \in CountOf("any")
    BY <1>3 DEF CountOf
  <2> QED BY <1>2, <2>1, Zenon DEF Adds, Counters, Labels
<1> QED BY <1>1, <1>4, StandsMore DEF any

\* The innermost counter of a shape is one of these counts.
Has(s, counts) == \A c : Holds(s, c) => \E n \in counts : \E v \in Seq(Nat) : c.counters = <<n>> \o v

(* That is so below other items, and for the counters themselves.          *)
LEMMA HasBelow ==
  ASSUME NEW s, NEW counts
  PROVE  /\ \A k \in Still : Has(s, counts) => Has(<<k, s>>, counts)
         /\ \A k \in Counters : Has(<<k, s>>, CountOf(k))
<1>1. ASSUME NEW k \in Still, Has(s, counts), NEW c, Holds(<<k, s>>, c)
      PROVE  \E n \in counts : \E v \in Seq(Nat) : c.counters = <<n>> \o v
  <2>1. PICK d : /\ Adds(k, d, c) /\ Holds(s, d) /\ d \in Layouts /\ d.funs # <<>>
                 /\ c \in Layouts
    BY <1>1, HoldsTop
  <2>2. d.counters \in Seq(Nat)
    BY <2>1 DEF Layouts
  <2>3. c.counters = d.counters
    BY <1>1, <2>1, <2>2, StillKeeps
  <2> QED BY <1>1, <2>1, <2>3 DEF Has
<1>2. ASSUME NEW k \in Counters, NEW c, Holds(<<k, s>>, c)
      PROVE  \E n \in CountOf(k) : \E v \in Seq(Nat) : c.counters = <<n>> \o v
  <2>1. PICK d, n : n \in CountOf(k) /\ Below(s, c, d, n)
    BY <1>2, CounterHolds
  <2> QED BY <2>1 DEF Below
<1> QED BY <1>1, <1>2 DEF Has

(* The count is what the parser reads.                                     *)
LEMMA CountIs ==
  ASSUME NEW p, NEW s, Stands(p, s), NEW counts \in SUBSET Nat, Has(s, counts)
  PROVE  CurrentCount(p) \in counts
<1>1. PICK c : Shows(p, c) /\ Holds(s, c)
  BY DEF Stands
<1>2. PICK n \in counts : \E v \in Seq(Nat) : c.counters = <<n>> \o v
  BY <1>1 DEF Has
<1>3. PICK v \in Seq(Nat) : c.counters = <<n>> \o v
  BY <1>2
<1> DEFINE w == <<n>> \o v
<1>4. w # <<>> /\ Head(w) = n
  BY <1>3, ConsIs
<1> HIDE DEF w
<1>5. p.counters = w
  BY <1>1, <1>3, ShownIs DEF w
<1> QED BY <1>4, <1>5 DEF CurrentCount

-----------------------------------------------------------------------------
(* Places to cut and functions.                                            *)
LEMMA CutStands ==
  ASSUME NEW p, NEW t, Stands(p, t)
  PROVE  Stands(WithBytecode(p, bytecode_bookmark(Bytecode(p))), cut(t))
<1>1. PICK c : Shows(p, c) /\ Holds(t, c)
  BY DEF Stands
<1>2. c \in Layouts /\ c.funs # <<>>
  BY <1>1, HoldsIs
<1>3. /\ Top(c) \in Open /\ Bytecode(p) \in Bytecodes
      /\ Written(Bytecode(p), Top(c), Given(p))
  BY <1>1, <1>2, TopIs
<1> DEFINE b == Bytecode(p)
           f == Top(c)
           n == Len(b.instructions)
           m == <<n>> \o f.cuts
           g == [f EXCEPT !.cuts = m]
           d == [b EXCEPT !.bookmarks = m]
<1> HIDE DEF b, f
<1>4. f \in Open /\ f.cuts \in Seq(Nat) /\ b.bookmarks = f.cuts /\ n \in Nat
      /\ b \in Bytecodes
  BY <1>3 DEF b, f, Open, Functions, Written, Bytecodes
<1>5. m \in Seq(Nat)
  BY <1>4, ConsIs
<1> HIDE DEF n, m
<1>6. g \in Open /\ g.nest = f.nest /\ g.due = f.due /\ g.known = f.known /\ g.cuts = m
  BY <1>4, <1>5 DEF Open, Functions
<1>7. /\ d \in Bytecodes /\ d.instructions = b.instructions
      /\ d.pending_labels = b.pending_labels /\ d.bookmarks = m
  BY <1>4, <1>5 DEF Bytecodes
<1>8. bytecode_bookmark(b) = d
  BY <1>4 DEF bytecode_bookmark, m, n
<1>9. Adds("cut", c, WithTop(c, g))
  <2>1. g = [f EXCEPT !.cuts = <<n>> \o @]
    BY DEF m
  <2> HIDE DEF g
  <2>2. WithTop(c, g) = WithTop(c, [Top(c) EXCEPT !.cuts = <<n>> \o @])
    BY <2>1 DEF f
  <2> QED BY <1>4, <2>2, Zenon DEF Adds
<1> HIDE DEF g, d
<1>10. Written(d, g, Given(p))
  BY <1>3, <1>6, <1>7, CutIsWritten DEF b, f
<1>11. Shows(WithBytecode(p, d), WithTop(c, g))
  BY <1>1, <1>2, <1>6, <1>7, <1>10, CodeKeeps
<1>12. WithTop(c, g).funs # <<>>
  BY <1>2, <1>6, WithTopIs
<1> QED BY <1>1, <1>8, <1>9, <1>11, <1>12, StandsMore DEF cut, b

(* A place to cut is given up.                                             *)
LEMMA CutTaken ==
  ASSUME NEW p, NEW t, Stands(p, cut(t))
  PROVE  Stands(WithBytecode(p, bytecode_discard_bookmark(Bytecode(p))), t)
<1>1. PICK c, d : /\ Shows(p, c) /\ Adds("cut", d, c) /\ Holds(t, d)
                  /\ c \in Layouts /\ c.funs # <<>> /\ d \in Layouts /\ d.funs # <<>>
  BY StandsIs DEF cut
<1>2. PICK n \in Nat : c = WithTop(d, [Top(d) EXCEPT !.cuts = <<n>> \o @])
  BY <1>1, Zenon DEF Adds, Counters, Labels
<1> DEFINE b == Bytecode(p)
           f == Top(d)
           u == f.cuts
           m == <<n>> \o u
           g == [f EXCEPT !.cuts = m]
           e == [b EXCEPT !.bookmarks = u]
<1>3. f \in Open
  <2>1. Fresh \in Open
    BY FreshIs DEF Open
  <2> QED BY <1>1, <2>1, WithTopIs
<1> HIDE DEF f
<1>4. u \in Seq(Nat) /\ m \in Seq(Nat) /\ Tail(m) = u
  <2>1. u \in Seq(Nat)
    BY <1>3 DEF Open, Functions
  <2> HIDE DEF u
  <2> QED BY <2>1, ConsIs
<1> HIDE DEF u, m
<1>5. g \in Open /\ g.nest = f.nest /\ g.due = f.due /\ g.known = f.known /\ g.cuts = m
  BY <1>3, <1>4 DEF Open, Functions
<1>6. c = WithTop(d, g)
  BY <1>2 DEF f, m, u
<1> HIDE DEF g
<1>7. Top(c) = g /\ WithTop(c, f) = d
  <2>1. Top(WithTop(d, g)) = g /\ WithTop(WithTop(d, g), f) = WithTop(d, f)
    BY <1>1, <1>5, WithTopIs
  <2>2. WithTop(d, f) = d
    BY <1>1, <1>3, WithTopIs DEF f
  <2> QED BY <1>6, <2>1, <2>2
<1>8. b \in Bytecodes /\ Written(b, g, Given(p))
  BY <1>1, <1>7, TopIs
<1> HIDE DEF b
<1>9. b.bookmarks = m
  BY <1>5, <1>8 DEF Written
<1>10. /\ e \in Bytecodes /\ e.instructions = b.instructions
       /\ e.pending_labels = b.pending_labels /\ e.bookmarks = f.cuts
  BY <1>4, <1>8 DEF Bytecodes, u
<1>11. bytecode_discard_bookmark(b) = e
  BY <1>4, <1>9 DEF bytecode_discard_bookmark
<1> HIDE DEF e
<1>12. Written(e, f, Given(p))
  BY <1>5, <1>8, <1>10, CutIsWritten
<1>13. Shows(WithBytecode(p, e), d)
  BY <1>1, <1>3, <1>7, <1>10, <1>12, CodeKeeps
<1> QED BY <1>1, <1>11, <1>13 DEF Stands, b

(* A function begins.                                                      *)
LEMMA FnStands ==
  ASSUME NEW p, NEW t, Stands(p, t)
  PROVE  Stands(Nested(p), fn(t))
<1>1. PICK c : Shows(p, c) /\ Holds(t, c)
  BY DEF Stands
<1> DEFINE F == <<Fresh>> \o c.funs
           e == [c EXCEPT !.funs = <<Fresh>> \o @]
<1>2. c \in Layouts /\ c.funs \in Seq(Open) /\ Fresh \in Open
  <2>1. c \in Layouts
    BY <1>1, HoldsIs
  <2>2. Fresh \in Open
    BY FreshIs DEF Open
  <2> QED BY <2>1, <2>2 DEF Layouts
<1>3. F # <<>>
  BY <1>2, ConsIs
<1>4. e.funs = F
  <2> HIDE DEF F
  <2>1. e = [c EXCEPT !.funs = F]
    BY DEF F
  <2> HIDE DEF e
  <2> QED BY <1>2, <2>1 DEF Layouts
<1>5. Shows(Nested(p), e)
  BY <1>1, NestedKeeps
<1>6. Adds("fn", c, e)
  BY Zenon DEF Adds
<1> HIDE DEF e, F
<1> QED BY <1>1, <1>3, <1>4, <1>5, <1>6, StandsMore DEF fn

(* It ends, and is whole.                                                  *)
LEMMA FnTaken ==
  ASSUME NEW p, NEW t, Stands(p, fn(t))
  PROVE  Stands(Complete(p), t)
<1>1. PICK c, d : /\ Shows(p, c) /\ Adds("fn", d, c) /\ Holds(t, d)
                  /\ c \in Layouts /\ d \in Layouts /\ d.funs # <<>>
  BY StandsIs DEF fn
<1>2. c = [d EXCEPT !.funs = <<Fresh>> \o @]
  BY <1>1, Zenon DEF Adds, Counters, Labels
<1> DEFINE u == d.funs
           F == <<Fresh>> \o u
           e == [c EXCEPT !.funs = u]
<1>3. u \in Seq(Open)
  BY <1>1 DEF Layouts
<1>4. c = [d EXCEPT !.funs = F]
  BY <1>2
<1> HIDE DEF F
<1>5. c.funs = F /\ e = d
  BY <1>1, <1>4 DEF Layouts
<1> HIDE DEF u, e
<1>6. c.funs = <<Fresh>> \o u
  BY <1>5 DEF F
<1>7. Shows(Complete(p), e)
  BY <1>1, <1>3, <1>6, CompleteKeeps DEF e
<1> QED BY <1>1, <1>5, <1>7 DEF Stands
-----------------------------------------------------------------------------
(* Labels on the parse stack.                                              *)
LEMMA LabelledParts ==
  ASSUME NEW d \in Layouts, d.funs # <<>>, NEW l \in LabelNames, NEW g \in Open,
         NEW c, Labelled(d, l, g, c)
  PROVE  /\ c \in Layouts /\ c.funs # <<>> /\ Top(c) = g
         /\ c.stack = <<l>> \o d.stack /\ d.stack \in Seq(Items) /\ l \in Items /\ l \in Names
         /\ Top(d) \in Open /\ Push(WithTop(d, g), l) = c
         /\ \A h \in Open : Labelled(d, l, h, WithTop(c, h))
         /\ \A h \in Open : [WithTop(c, h) EXCEPT !.stack = d.stack] = WithTop(d, h)
         /\ WithTop(d, Top(d)) = d
<1> DEFINE e == Push(d, l)
           s == d.stack
<1>1. l \in Items /\ l \in Names
  BY DEF Items, Names
<1>2. /\ e \in Layouts /\ e.stack = <<l>> \o s /\ e.funs = d.funs /\ Top(e) = Top(d)
      /\ [e EXCEPT !.stack = s] = d
  BY <1>1, PushIs
<1>3. c = WithTop(e, g)
  BY DEF Labelled
<1>4. Push(WithTop(d, g), l) = c
  <2> DEFINE F == <<g>> \o Tail(d.funs)
             r == <<l>> \o s
             w == [d EXCEPT !.funs = F]
  <2>1. WithTop(d, g) = w
    BY DEF WithTop
  <2>2. WithTop(e, g) = [e EXCEPT !.funs = F]
    <3> HIDE DEF e
    <3> QED BY <1>2 DEF WithTop
  <2>3. e = [d EXCEPT !.stack = r]
    BY DEF Push
  <2> HIDE DEF F, r, e
  <2>4. w.stack = s
    BY DEF Layouts
  <2>5. Push(w, l) = [w EXCEPT !.stack = r]
    <3> HIDE DEF w
    <3> QED BY <2>4 DEF Push, r
  <2> QED BY <1>3, <2>1, <2>2, <2>3, <2>5 DEF Layouts
<1> HIDE DEF e, s
<1>5. /\ c \in Layouts /\ c.funs # <<>> /\ Top(c) = g /\ c.stack = e.stack
      /\ \A h : WithTop(c, h) = WithTop(e, h)
  BY <1>2, <1>3, WithTopIs
<1>6. ASSUME NEW h \in Open
      PROVE  /\ Labelled(d, l, h, WithTop(c, h))
             /\ [WithTop(c, h) EXCEPT !.stack = d.stack] = WithTop(d, h)
  <2>1. WithTop(c, h) = WithTop(e, h)
    BY <1>5
  <2>2. [WithTop(e, h) EXCEPT !.stack = s] = WithTop([e EXCEPT !.stack = s], h)
    BY <1>2, StackIs, Zenon
  <2> QED BY <1>2, <2>1, <2>2 DEF Labelled, e, s
<1>7. Top(d) \in Open /\ WithTop(d, Top(d)) = d
  BY <1>5, WithTopIs
<1>8. d.stack \in Seq(Items)
  BY DEF Layouts
<1> QED BY <1>1, <1>2, <1>4, <1>5, <1>6, <1>7, <1>8 DEF s

(* The parts that are needed most.                                         *)
LEMMA LabelledIs ==
  ASSUME NEW d \in Layouts, d.funs # <<>>, NEW l \in LabelNames, NEW g \in Open,
         NEW c, Labelled(d, l, g, c)
  PROVE  /\ c \in Layouts /\ c.funs # <<>> /\ Top(c) = g
         /\ c.stack = <<l>> \o d.stack /\ d.stack \in Seq(Items) /\ l \in Items /\ l \in Names
         /\ Top(d) \in Open /\ Push(WithTop(d, g), l) = c
         /\ \A h \in Open : Labelled(d, l, h, WithTop(c, h))
         /\ WithTop(d, Top(d)) = d
BY LabelledParts

\* A parser that holds a label: the layouts with it and below it.
Holding(p, k, t, c, d, l, g) ==
    /\ Shows(p, c) /\ Holds(t, d) /\ d \in Layouts /\ d.funs # <<>>
    /\ l \in LabelNames /\ g \in Open /\ Labelled(d, l, g, c) /\ Owing(k, Top(d), l, g)

(* A label held is on top of the stack.                                    *)
LEMMA HoldingIs ==
  ASSUME NEW p, NEW k \in Labels, NEW t, Stands(p, <<k, t>>)
  PROVE  \E c, d, l, g : Holding(p, k, t, c, d, l, g) /\ Peek(p, 0) = l
<1>1. PICK c, d : /\ Shows(p, c) /\ Adds(k, d, c) /\ Holds(t, d)
                  /\ d \in Layouts /\ d.funs # <<>>
  BY StandsIs
<1>2. PICK l \in LabelNames, g \in Open : Labelled(d, l, g, c) /\ Owing(k, Top(d), l, g)
  BY <1>1, Zenon DEF Adds, Counters, Labels
<1> DEFINE s == d.stack
<1>3. c.stack = <<l>> \o s /\ s \in Seq(Items) /\ l \in Items
  BY <1>1, <1>2, LabelledIs
<1> HIDE DEF s
<1>4. Peek(p, 0) = l
  BY <1>1, <1>3, PopKeeps
<1> QED BY <1>1, <1>2, <1>4, Zenon DEF Holding

(* What a held label has become of is what makes it held.                  *)
LEMMA HoldingStands ==
  ASSUME NEW p, NEW k \in Labels, NEW t, NEW c, NEW d, NEW l, NEW g,
         Holding(p, k, t, c, d, l, g)
  PROVE  Stands(p, <<k, t>>)
<1>1. c \in Layouts /\ c.funs # <<>>
  BY LabelledIs DEF Holding
<1>2. Adds(k, d, c)
  BY Zenon DEF Holding, Adds
<1> QED BY <1>1, <1>2, StandsMore DEF Holding

(* The label comes off the stack; the function at work is what it was.     *)
LEMMA LabelTaken ==
  ASSUME NEW p, NEW c, NEW d \in Layouts, d.funs # <<>>, NEW l \in LabelNames,
         NEW g \in Open, Labelled(d, l, g, c), Shows(p, c)
  PROVE  Shows(PopStack(p, 1), WithTop(d, g)) /\ Peek(p, 0) = l
<1> DEFINE s == d.stack
           e == [c EXCEPT !.stack = s]
<1>1. /\ c.stack = <<l>> \o s /\ s \in Seq(Items) /\ l \in Items /\ Top(c) = g
      /\ \A h \in Open : [WithTop(c, h) EXCEPT !.stack = s] = WithTop(d, h)
      /\ c \in Layouts /\ c.funs # <<>>
  BY LabelledParts
<1>2. WithTop(c, g) = c
  BY <1>1, WithTopIs
<1>3. e = WithTop(d, g)
  BY <1>1, <1>2
<1> HIDE DEF s
<1>4. Shows(PopStack(p, 1), e) /\ Peek(p, 0) = l
  BY <1>1, PopKeeps
<1> HIDE DEF e
<1> QED BY <1>3, <1>4

(* scriptparse.c:767 -- a label is generated and pushed; it is due here.   *)
LEMMA LabStands ==
  ASSUME NEW p, NEW t, Stands(p, t), Unseen(p)
  PROVE  Stands(PushStack(Generated(p), _script_parse_gen_label(p)), lab(t))
<1>1. PICK c : Shows(p, c) /\ Holds(t, c)
  BY DEF Stands
<1> DEFINE l == _script_parse_gen_label(p)
           f == Top(c)
           h == Target(f.nest)
           g == Owes(f, l, h)
           e == WithTop(Push(c, l), g)
<1>2. c \in Layouts /\ c.funs # <<>>
  BY <1>1, HoldsIs
<1>3. f \in Functions /\ h \in Home
  <2>1. f \in Functions
    BY <1>1, <1>2, TopIs
  <2>2. f.nest \in Seq(Names)
    BY <2>1 DEF Functions
  <2> QED BY <2>1, <2>2, HomesAre
<1> HIDE DEF l, h
<1>4. Shows(Generated(p), WithTop(c, g)) /\ l \in LabelNames /\ l \in Items /\ g \in Open
  BY <1>1, <1>2, <1>3, LabelKeeps DEF l
<1>5. l \in Names
  BY <1>4 DEF Names
<1> HIDE DEF f
<1>6. g.nest = f.nest /\ Without(g, f, l, h)
  <2>1. /\ g.nest = f.nest /\ g.due = f.due \cup {<<l, h>>}
        /\ g.known = f.known /\ g.cuts = f.cuts
    BY <1>3, <1>5, OwesIs
  <2> HIDE DEF g
  <2> QED BY <2>1 DEF Without, Remains
<1>7. Owing("lab", f, l, g)
  <2>1. h = Target(g.nest)
    BY <1>6 DEF h
  <2> QED BY <1>6, <2>1, Zenon DEF Owing
<1> HIDE DEF g
<1>8. Labelled(c, l, g, e)
  BY DEF Labelled
<1> HIDE DEF e
<1>9. Push(WithTop(c, g), l) = e
  BY <1>2, <1>4, <1>8, LabelledIs
<1>10. Shows(PushStack(Generated(p), l), e)
  BY <1>4, <1>9, PushKeeps
<1>11. Holding(PushStack(Generated(p), l), "lab", t, e, c, l, g)
  BY <1>1, <1>2, <1>4, <1>7, <1>8, <1>10 DEF Holding, f
<1> QED BY <1>11, HoldingStands DEF Labels, lab, l

(* scriptparse.c:905 -- a block begins, and its label is held.             *)
LEMMA CtxStands ==
  ASSUME NEW p, NEW t, Stands(p, t), Unseen(p)
  PROVE  Stands(script_parse_begin_context_block(p), ctx(t))
<1>1. PICK c : Shows(p, c) /\ Holds(t, c)
  BY DEF Stands
<1> DEFINE l == _script_parse_gen_label(p)
           f == Top(c)
           nest == <<l>> \o f.nest
           h == EndOf(nest)
           o == Owes(f, l, h)
           g == [o EXCEPT !.nest = nest]
           x == Enter(l, TRUE)
           q == push_instruction(Generated(p), x)
           e == WithTop(Push(c, l), g)
<1>2. c \in Layouts /\ c.funs # <<>>
  BY <1>1, HoldsIs
<1>3. f \in Functions /\ f.nest \in Seq(Names)
  BY <1>1, <1>2, TopIs DEF Functions
<1> HIDE DEF l, f
<1>4. l \in LabelNames
  <2>1. Target(f.nest) \in Home
    BY <1>3, HomesAre
  <2> QED BY <1>1, <1>2, <2>1, LabelKeeps DEF l
<1>5. l \in Names /\ l \in Items
  BY <1>4 DEF Names, Items
<1>6. nest \in Seq(Names) /\ nest # <<>>
  BY <1>3, <1>5, ConsIs
<1> HIDE DEF nest
<1>7. h \in Home
  BY <1>6, HomesAre
<1> HIDE DEF h
<1>8. Shows(Generated(p), WithTop(c, o)) /\ o \in Open
  BY <1>1, <1>2, <1>7, LabelKeeps DEF l, f
<1>9. /\ o.nest = f.nest /\ o.due = f.due \cup {<<l, h>>}
      /\ o.known = f.known /\ o.cuts = f.cuts
  BY <1>3, <1>5, <1>7, OwesIs
<1> HIDE DEF o
<1>10. /\ g \in Open /\ g.nest = nest /\ g.due = o.due /\ g.known = o.known
       /\ g.cuts = o.cuts
  BY <1>6, <1>8 DEF Open, Functions
<1> HIDE DEF g
<1>11. x \in Instructions /\ x.op = "EnterContext" /\ x.name = l
  <2>1. "EnterContext" \in Ops
    BY DEF Ops
  <2> QED BY <1>5, <2>1, ValuesAre DEF Enter, Instr, Instructions
<1> HIDE DEF x
<1>12. Shows(q, WithTop(c, g))
  <2> DEFINE w == WithTop(c, o)
  <2>1. w.funs # <<>> /\ Top(w) = o /\ WithTop(w, g) = WithTop(c, g)
    BY <1>2, <1>8, WithTopIs
  <2>2. g.nest = <<x.name>> \o o.nest /\ <<x.name, EndOf(g.nest)>> \in o.due
    BY <1>9, <1>10, <1>11 DEF nest, h
  <2> HIDE DEF w
  <2>3. Shows(push_instruction(Generated(p), x), WithTop(w, g))
    BY <1>8, <1>10, <1>11, <2>1, <2>2, EnterKeeps DEF w
  <2> QED BY <2>1, <2>3
<1>13. Labelled(c, l, g, e)
  BY DEF Labelled
<1> HIDE DEF e, q
<1>14. Push(WithTop(c, g), l) = e
  BY <1>2, <1>4, <1>10, <1>13, LabelledIs
<1>15. Shows(PushStack(q, l), e)
  BY <1>5, <1>12, <1>14, PushKeeps
<1>16. Owing("ctx", f, l, g)
  <2>1. g.nest = <<l>> \o f.nest /\ h = EndOf(g.nest)
    BY <1>10 DEF nest, h
  <2>2. Without(g, f, l, h)
    BY <1>9, <1>10 DEF Without, Remains
  <2> QED BY <2>1, <2>2, Zenon DEF Owing
<1>17. Holding(PushStack(q, l), "ctx", t, e, c, l, g)
  BY <1>1, <1>2, <1>4, <1>10, <1>13, <1>15, <1>16 DEF Holding, f
<1>18. script_parse_begin_context_block(p) = PushStack(q, l)
  BY DEF script_parse_begin_context_block, q, x, l
<1> QED BY <1>17, <1>18, HoldingStands DEF Labels, ctx

(* An instruction may branch to the label held last ...                    *)
LEMMA BranchToFirst ==
  ASSUME NEW p, NEW t, Stands(p, lab(t)), NEW op \in Branches
  PROVE  Stands(push_instruction(p, To(op, Peek(p, 0))), lab(t))
<1>1. PICK c, d, l, g : Holding(p, "lab", t, c, d, l, g) /\ Peek(p, 0) = l
  BY HoldingIs DEF lab, Labels
<1>2. c \in Layouts /\ c.funs # <<>> /\ Top(c) = g
  BY <1>1, LabelledIs DEF Holding
<1>3. <<l, Target(g.nest)>> \in g.due /\ Target(g.nest).nest = g.nest
  BY <1>1, Zenon DEF Holding, Owing, Without, Remains, Target
<1> DEFINE h == Target(g.nest)
<1>4. <<l, h>> \in Top(c).due \cup Top(c).known /\ h.nest = Top(c).nest
  BY <1>2, <1>3
<1>5. Shows(p, c)
  BY <1>1 DEF Holding
<1> HIDE DEF h
<1>6. Shows(push_instruction(p, To(op, l)), c)
  BY <1>2, <1>4, <1>5, BranchKeeps
<1>7. Holding(push_instruction(p, To(op, l)), "lab", t, c, d, l, g)
  BY <1>1, <1>6 DEF Holding
<1> QED BY <1>1, <1>7, HoldingStands DEF lab, Labels

(* ... or to the one before it.                                            *)
LEMMA BranchToSecond ==
  ASSUME NEW p, NEW j \in {"lab", "loop"}, NEW t, Stands(p, lab(<<j, t>>)),
         NEW op \in Branches
  PROVE  /\ Stands(push_instruction(p, To(op, Peek(p, 1))), lab(<<j, t>>))
         /\ Len(p.stack) > 1
<1>1. PICK c, d, l, g : Holding(p, "lab", <<j, t>>, c, d, l, g) /\ Peek(p, 0) = l
  BY HoldingIs DEF lab, Labels
<1>2. Shows(p, c) /\ d \in Layouts /\ d.funs # <<>> /\ Labelled(d, l, g, c)
      /\ l \in LabelNames /\ g \in Open /\ Owing("lab", Top(d), l, g)
  BY <1>1 DEF Holding
<1>3. Holds(<<j, t>>, d)
  BY <1>1 DEF Holding
<1>4. PICK e : Adds(j, e, d) /\ Holds(t, e) /\ e \in Layouts /\ e.funs # <<>>
  BY <1>3, HoldsTop
<1>5. PICK m \in LabelNames, h \in Open : Labelled(e, m, h, d) /\ Owing(j, Top(e), m, h)
  BY <1>4, Zenon DEF Adds, Counters, Labels
<1>6. /\ c \in Layouts /\ c.funs # <<>> /\ Top(c) = g /\ c.stack = <<l>> \o d.stack
      /\ d.stack \in Seq(Items) /\ l \in Items
  BY <1>2, LabelledIs
<1>7. Top(d) = h /\ d.stack = <<m>> \o e.stack /\ e.stack \in Seq(Items) /\ m \in Items
  BY <1>4, <1>5, LabelledIs
<1>8. Peek(p, 1) = m /\ Len(p.stack) > 1
  <2> DEFINE r == e.stack
             s == d.stack
             w == p.stack
  <2>1. s = <<m>> \o r /\ r \in Seq(Items) /\ w = <<l>> \o s /\ s \in Seq(Items)
    BY <1>2, <1>6, <1>7, ShownIs
  <2> HIDE DEF r, s, w
  <2>2. Len(s) = Len(r) + 1 /\ s[1] = m /\ Len(r) \in Nat
    BY <1>7, <2>1, ConsIs
  <2>3. Len(w) = Len(s) + 1 /\ 1 \in 1..Len(s) /\ w[1 + 1] = s[1]
    <3>1. 1 \in 1..Len(s)
      BY <2>2
    <3> QED BY <1>6, <2>1, <3>1, ConsIs
  <2>4. Len(w) > 1 /\ w[1 + 1] = m
    BY <2>2, <2>3
  <2> QED BY <2>4 DEF Peek, w
<1> DEFINE k == Target(h.nest)
<1>9. h.nest = g.nest /\ g.known = h.known /\ h.due \subseteq g.due
      /\ k.nest = h.nest
  BY <1>2, <1>7, Zenon DEF Owing, Without, Remains, Target
<1>10. <<m, k>> \in h.due \cup h.known
  <2>1. CASE j = "lab"
    BY <1>5, <2>1, Zenon DEF Owing, Without, Remains
  <2>2. CASE j = "loop"
    <3>1. h.known = Top(e).known \cup {<<m, k>>}
      BY <1>5, <2>2, Zenon DEF Owing
    <3> QED BY <3>1
  <2> QED BY <2>1, <2>2
<1> HIDE DEF k
<1>11. <<m, k>> \in Top(c).due \cup Top(c).known /\ k.nest = Top(c).nest
  BY <1>6, <1>9, <1>10
<1>12. Shows(push_instruction(p, To(op, m)), c)
  BY <1>2, <1>6, <1>11, BranchKeeps
<1>13. Holding(push_instruction(p, To(op, m)), "lab", <<j, t>>, c, d, l, g)
  BY <1>1, <1>12 DEF Holding
<1>14. Stands(push_instruction(p, To(op, m)), lab(<<j, t>>))
  BY <1>13, HoldingStands DEF lab, Labels
<1> QED BY <1>8, <1>14

(* A label held is placed, and taken off.                                  *)
LEMMA LabPlaced ==
  ASSUME NEW p, NEW t, Stands(p, lab(t))
  PROVE  Stands(PopStack(Pending(p, Peek(p, 0)), 1), t)
<1>1. PICK c, d, l, g : Holding(p, "lab", t, c, d, l, g) /\ Peek(p, 0) = l
  BY HoldingIs DEF lab, Labels
<1>2. /\ Shows(p, c) /\ d \in Layouts /\ d.funs # <<>> /\ Labelled(d, l, g, c)
      /\ l \in LabelNames /\ g \in Open /\ Owing("lab", Top(d), l, g) /\ Holds(t, d)
  BY <1>1 DEF Holding
<1> DEFINE f == Top(d)
           e == WithTop(c, f)
<1>3. /\ c \in Layouts /\ c.funs # <<>> /\ Top(c) = g /\ f \in Open
      /\ Labelled(d, l, f, e) /\ WithTop(d, f) = d
  BY <1>2, LabelledIs
<1>4. Placed(g, f, l)
  <2>1. g.nest = f.nest /\ Without(g, f, l, Target(g.nest))
    BY <1>2, Zenon DEF Owing
  <2> HIDE DEF f
  <2> QED BY <2>1 DEF Placed, Without
<1> HIDE DEF e
<1>5. Shows(Pending(p, l), e)
  <2> HIDE DEF f
  <2> QED BY <1>2, <1>3, <1>4, PendingKeeps DEF e
<1>6. Shows(PopStack(Pending(p, l), 1), d)
  <2>1. Shows(PopStack(Pending(p, l), 1), WithTop(d, f))
    <3> HIDE DEF f
    <3> QED BY <1>2, <1>3, <1>5, LabelTaken
  <2> QED BY <1>3, <2>1
<1> QED BY <1>1, <1>2, <1>6 DEF Stands

(* A label held is placed, and stays to be jumped back to.                 *)
LEMMA LoopStands ==
  ASSUME NEW p, NEW t, Stands(p, lab(t))
  PROVE  Stands(Pending(p, Peek(p, 0)), loop(t))
<1>1. PICK c, d, l, g : Holding(p, "lab", t, c, d, l, g) /\ Peek(p, 0) = l
  BY HoldingIs DEF lab, Labels
<1>2. /\ Shows(p, c) /\ d \in Layouts /\ d.funs # <<>> /\ Labelled(d, l, g, c)
      /\ l \in LabelNames /\ g \in Open /\ Owing("lab", Top(d), l, g) /\ Holds(t, d)
  BY <1>1 DEF Holding
<1> DEFINE f == Top(d)
           k == <<l, Target(f.nest)>>
           n == f.known \cup {k}
           h == [f EXCEPT !.known = n]
           e == WithTop(c, h)
<1>3. c \in Layouts /\ c.funs # <<>> /\ Top(c) = g /\ f \in Open /\ l \in Names
  BY <1>2, LabelledIs
<1> HIDE DEF f
<1>4. k \in Names \X Home
  <2>1. Target(f.nest) \in Home
    BY <1>3, HomesAre DEF Open, Functions
  <2> QED BY <1>3, <2>1
<1> HIDE DEF k
<1>5. n \in SUBSET (Names \X Home)
  BY <1>3, <1>4 DEF Open, Functions
<1> HIDE DEF n
<1>6. h \in Open /\ h.nest = f.nest /\ h.due = f.due /\ h.cuts = f.cuts /\ h.known = n
  BY <1>3, <1>5 DEF Open, Functions
<1> HIDE DEF h
<1>7. g.nest = f.nest /\ Without(g, f, l, Target(g.nest))
  BY <1>2, Zenon DEF Owing, f
<1>8. Placed(g, h, l)
  BY <1>6, <1>7 DEF Placed, Without, n, k
<1>9. Owing("loop", f, l, h)
  BY <1>6, Zenon DEF Owing, n, k
<1>10. Labelled(d, l, h, e)
  BY <1>2, <1>6, LabelledIs
<1> HIDE DEF e
<1>11. Shows(Pending(p, l), e)
  BY <1>2, <1>3, <1>6, <1>8, PendingKeeps DEF e
<1>12. Holding(Pending(p, l), "loop", t, e, d, l, h)
  BY <1>2, <1>6, <1>9, <1>10, <1>11 DEF Holding, f
<1> QED BY <1>1, <1>12, HoldingStands DEF loop, Labels

(* It is taken off, and need not be known any more.                        *)
LEMMA LoopTaken ==
  ASSUME NEW p, NEW t, Stands(p, loop(t))
  PROVE  Stands(PopStack(p, 1), t)
<1>1. PICK c, d, l, g : Holding(p, "loop", t, c, d, l, g) /\ Peek(p, 0) = l
  BY HoldingIs DEF loop, Labels
<1>2. /\ Shows(p, c) /\ d \in Layouts /\ d.funs # <<>> /\ Labelled(d, l, g, c)
      /\ l \in LabelNames /\ g \in Open /\ Owing("loop", Top(d), l, g) /\ Holds(t, d)
  BY <1>1 DEF Holding
<1> DEFINE f == Top(d)
           e == WithTop(d, g)
           q == PopStack(p, 1)
           b == Bytecode(q)
<1>3. f \in Open /\ WithTop(d, f) = d
  BY <1>2, LabelledIs
<1> HIDE DEF f, q
<1>4. Shows(q, e)
  BY <1>2, LabelTaken DEF q
<1>5. e.funs # <<>> /\ Top(e) = g /\ WithTop(e, f) = WithTop(d, f)
  BY <1>2, WithTopIs
<1> HIDE DEF e
<1>6. b \in Bytecodes /\ Written(b, g, Given(q)) /\ q.scripts # <<>> /\ q \in Parsers
  BY <1>4, <1>5, TopIs, ShownIs
<1>7. /\ g.nest = f.nest /\ g.cuts = f.cuts /\ g.due = f.due
      /\ g.known = f.known \cup {<<l, Target(g.nest)>>}
  BY <1>2, Zenon DEF Owing, f
<1>8. Written(b, f, Given(q))
  <2> HIDE DEF b
  <2>1. PICK nest, home : /\ Fits(b, nest, home, g.due, Given(q)) /\ Current(b, nest) = g.nest
                          /\ NoBlockPending(b, home) /\ DueAtHome(g.known, home)
    BY <1>6 DEF Written
  <2>2. DueAtHome(f.known, home)
    BY <1>7, <2>1 DEF DueAtHome
  <2>3. Fits(b, nest, home, f.due, Given(q)) /\ Current(b, nest) = f.nest
    BY <1>7, <2>1
  <2> QED BY <1>6, <1>7, <2>1, <2>2, <2>3, Zenon DEF Written
<1>9. WithBytecode(q, b) = q
  <2> DEFINE u == q.scripts
             v == <<u[1]>> \o Tail(u)
  <2>1. u = v /\ b = u[1]
    <3>1. u \in Seq(Bytecodes) /\ u # <<>>
      BY <1>6 DEF Parsers
    <3> HIDE DEF u
    <3>2. u = <<u[1]>> \o Tail(u) /\ Head(u) = u[1]
      BY <3>1, HeadAndTail
    <3> QED BY <3>2 DEF Bytecode, u
  <2>2. WithBytecode(q, b) = [q EXCEPT !.scripts = v]
    BY <2>1 DEF WithBytecode
  <2> HIDE DEF v
  <2>3. WithBytecode(q, b) = [q EXCEPT !.scripts = q.scripts]
    BY <2>1, <2>2
  <2> QED BY <1>6, <2>3, Zenon DEF Parsers
<1> HIDE DEF b
<1>10. Shows(WithBytecode(q, b), WithTop(e, f))
  BY <1>3, <1>4, <1>5, <1>6, <1>8, CodeKeeps
<1>11. Shows(q, d)
  BY <1>3, <1>5, <1>9, <1>10
<1> QED BY <1>2, <1>11 DEF Stands, q

(* The same label may be held twice.                                       *)
LEMMA LabAgain ==
  ASSUME NEW p, NEW t, Stands(p, lab(t))
  PROVE  Stands(PushStack(p, Peek(p, 0)), lab(lab(t)))
<1>1. PICK c, d, l, g : Holding(p, "lab", t, c, d, l, g) /\ Peek(p, 0) = l
  BY HoldingIs DEF lab, Labels
<1>2. /\ Shows(p, c) /\ d \in Layouts /\ d.funs # <<>> /\ Labelled(d, l, g, c)
      /\ l \in LabelNames /\ g \in Open /\ Owing("lab", Top(d), l, g) /\ Holds(t, d)
  BY <1>1 DEF Holding
<1>3. /\ c \in Layouts /\ c.funs # <<>> /\ Top(c) = g /\ l \in Items
  BY <1>2, LabelledIs
<1> DEFINE e == Push(c, l)
<1>4. Shows(PushStack(p, l), e)
  BY <1>2, <1>3, PushKeeps
<1>5. Labelled(c, l, g, e)
  <2>1. /\ e \in Layouts /\ e.funs # <<>> /\ Top(e) = g
    BY <1>3, PushIs
  <2> HIDE DEF e
  <2>2. WithTop(e, g) = e
    BY <1>2, <2>1, WithTopIs
  <2> QED BY <2>2 DEF Labelled, e
<1> HIDE DEF e
<1>6. Owing("lab", g, l, g)
  <2>1. <<l, Target(g.nest)>> \in g.due
    BY <1>2, Zenon DEF Owing, Without, Remains
  <2>2. Without(g, g, l, Target(g.nest))
    BY <2>1 DEF Without, Remains
  <2> QED BY <2>2, Zenon DEF Owing
<1>7. Holds(lab(t), c)
  <2>1. Adds("lab", d, c)
    BY <1>2, Zenon DEF Adds, Labels
  <2> QED BY <1>2, <1>3, <2>1, HoldsMore DEF lab
<1>8. Holding(PushStack(p, l), "lab", lab(t), e, c, l, g)
  BY <1>2, <1>3, <1>4, <1>5, <1>6, <1>7 DEF Holding
<1>9. Stands(PushStack(p, l), <<"lab", lab(t)>>)
  BY <1>8, HoldingStands DEF Labels
<1> QED BY <1>1, <1>9 DEF lab

(* scriptparse.c:941 -- a block ends, with its label.                      *)
LEMMA CtxTaken ==
  ASSUME NEW p, NEW t, Stands(p, ctx(t))
  PROVE  /\ Stands(PopStack(push_instruction(Pending(p, Peek(p, 0)), Plain("LeaveContext")), 1),
                   t)
<1>1. PICK c, d, l, g : Holding(p, "ctx", t, c, d, l, g) /\ Peek(p, 0) = l
  BY HoldingIs DEF ctx, Labels
<1>2. /\ Shows(p, c) /\ d \in Layouts /\ d.funs # <<>> /\ Labelled(d, l, g, c)
      /\ l \in LabelNames /\ g \in Open /\ Owing("ctx", Top(d), l, g) /\ Holds(t, d)
  BY <1>1 DEF Holding
<1> DEFINE f == Top(d)
           e == WithTop(c, f)
           q == push_instruction(Pending(p, l), Plain("LeaveContext"))
<1>3. /\ c \in Layouts /\ c.funs # <<>> /\ Top(c) = g /\ f \in Open /\ l \in Names
      /\ Labelled(d, l, f, e) /\ WithTop(d, f) = d
  BY <1>2, LabelledIs
<1>4. f.nest = Tail(g.nest) /\ Without(g, f, l, EndOf(g.nest))
  <2>1. g.nest = <<l>> \o f.nest /\ Without(g, f, l, EndOf(g.nest))
    BY <1>2, Zenon DEF Owing
  <2> DEFINE n == f.nest
  <2>2. n \in Seq(Names)
    <3> HIDE DEF f
    <3> QED BY <1>3 DEF Open, Functions
  <2> HIDE DEF n
  <2>3. Tail(<<l>> \o n) = n
    BY <1>3, <2>2, ConsIs
  <2> QED BY <2>1, <2>3 DEF n
<1> HIDE DEF f
<1>5. Shows(q, e)
  BY <1>2, <1>3, <1>4, LeaveKeeps
<1> HIDE DEF e, q
<1>6. Shows(PopStack(q, 1), WithTop(d, f))
  BY <1>2, <1>3, <1>5, LabelTaken
<1>7. Shows(PopStack(q, 1), d)
  BY <1>3, <1>6
<1> QED BY <1>1, <1>2, <1>7 DEF Stands, q

-----------------------------------------------------------------------------
(* The order of changes to different parts of a parser does not matter.    *)
Like(p) ==
    p = [stack |-> p.stack, bookmarks |-> p.bookmarks, counters |-> p.counters,
         constructor |-> p.constructor, varargs |-> p.varargs, aborted |-> p.aborted,
         scripts |-> p.scripts, finished |-> p.finished, labels |-> p.labels]

(* Parsers have these parts, and operations leave the others alone.        *)
LEMMA LikeIs ==
  ASSUME NEW p, p \in Parsers \/ Like(p), NEW n, NEW x, NEW l, NEW u
  PROVE  /\ Like(p) /\ Like(PopStack(p, n)) /\ Like(PushStack(p, x))
         /\ Like(push_instruction(p, x)) /\ Like(Pending(p, l)) /\ Like(Generated(p))
         /\ Like(Counting(p, u))
<1>1. Like(p)
  BY DEF Parsers, Like
<1>2. ASSUME NEW v
      PROVE  /\ Like([p EXCEPT !.stack = v]) /\ Like([p EXCEPT !.scripts = v])
             /\ Like([p EXCEPT !.labels = v]) /\ Like([p EXCEPT !.counters = v])
  BY <1>1 DEF Like
<1>3. Like(PopStack(p, n)) /\ Like(PushStack(p, x)) /\ Like(Generated(p))
      /\ Like(Counting(p, u))
  BY <1>2, Zenon DEF PopStack, PushStack, Generated, Counting
<1>4. Like(push_instruction(p, x)) /\ Like(Pending(p, l))
  BY <1>2, Zenon DEF push_instruction, WithBytecode, Pending
<1> QED BY <1>1, <1>3, <1>4

(* Code and the parse stack.                                               *)
LEMMA CodeAside ==
  ASSUME NEW p, Like(p), NEW n, NEW y, NEW x, NEW l, NEW i
  PROVE  /\ push_instruction(PopStack(p, n), x) = PopStack(push_instruction(p, x), n)
         /\ push_instruction(PushStack(p, y), x) = PushStack(push_instruction(p, x), y)
         /\ Pending(PopStack(p, n), l) = PopStack(Pending(p, l), n)
         /\ Pending(PushStack(p, y), l) = PushStack(Pending(p, l), y)
         /\ Peek(push_instruction(p, x), i) = Peek(p, i) /\ Peek(Pending(p, l), i) = Peek(p, i)
<1> DEFINE b == bytecode_push_instruction(Bytecode(p), x)
           d == AddPending(Bytecode(p), l)
           s == SubSeq(p.stack, n + 1, Len(p.stack))
           r == <<y>> \o p.stack
           u == <<b>> \o Tail(p.scripts)
           v == <<d>> \o Tail(p.scripts)
<1>1. push_instruction(p, x) = [p EXCEPT !.scripts = u]
      /\ Pending(p, l) = [p EXCEPT !.scripts = v]
  BY DEF push_instruction, Pending, WithBytecode
<1>2. PopStack(p, n) = [p EXCEPT !.stack = s] /\ PushStack(p, y) = [p EXCEPT !.stack = r]
  BY DEF PopStack, PushStack
<1>3. ASSUME NEW w PROVE /\ push_instruction([p EXCEPT !.stack = w], x)
                             = [[p EXCEPT !.scripts = u] EXCEPT !.stack = w]
                         /\ Pending([p EXCEPT !.stack = w], l)
                             = [[p EXCEPT !.scripts = v] EXCEPT !.stack = w]
  <2> DEFINE q == [p EXCEPT !.stack = w]
  <2>1. q.scripts = p.scripts
    BY DEF Like
  <2>2. Bytecode(q) = Bytecode(p)
    BY <2>1 DEF Bytecode
  <2> HIDE DEF q
  <2>3. /\ push_instruction(q, x) = [q EXCEPT !.scripts = u]
        /\ Pending(q, l) = [q EXCEPT !.scripts = v]
    BY <2>1, <2>2 DEF push_instruction, Pending, WithBytecode
  <2> HIDE DEF u, v
  <2>4. /\ [q EXCEPT !.scripts = u] = [[p EXCEPT !.scripts = u] EXCEPT !.stack = w]
        /\ [q EXCEPT !.scripts = v] = [[p EXCEPT !.scripts = v] EXCEPT !.stack = w]
    BY DEF q, Like
  <2> QED BY <2>3, <2>4 DEF q
<1> HIDE DEF u, v
<1>4. /\ PopStack([p EXCEPT !.scripts = u], n) = [[p EXCEPT !.scripts = u] EXCEPT !.stack = s]
      /\ PopStack([p EXCEPT !.scripts = v], n) = [[p EXCEPT !.scripts = v] EXCEPT !.stack = s]
      /\ PushStack([p EXCEPT !.scripts = u], y) = [[p EXCEPT !.scripts = u] EXCEPT !.stack = r]
      /\ PushStack([p EXCEPT !.scripts = v], y) = [[p EXCEPT !.scripts = v] EXCEPT !.stack = r]
  <2>1. [p EXCEPT !.scripts = u].stack = p.stack /\ [p EXCEPT !.scripts = v].stack = p.stack
    BY DEF Like
  <2> QED BY <2>1 DEF PopStack, PushStack
<1>5. Peek(push_instruction(p, x), i) = Peek(p, i) /\ Peek(Pending(p, l), i) = Peek(p, i)
  BY <1>1 DEF Peek, Like
<1> HIDE DEF s, r
<1> QED BY <1>1, <1>2, <1>3, <1>4, <1>5

(* Labels and the rest.                                                    *)
LEMMA LabelsAside ==
  ASSUME NEW p, Like(p), NEW n, NEW y, NEW x, NEW l
  PROVE  /\ Generated(PopStack(p, n)) = PopStack(Generated(p), n)
         /\ Generated(PushStack(p, y)) = PushStack(Generated(p), y)
         /\ Generated(push_instruction(p, x)) = push_instruction(Generated(p), x)
         /\ Generated(Pending(p, l)) = Pending(Generated(p), l)
         /\ PopStack(p, n).labels = p.labels /\ PushStack(p, y).labels = p.labels
         /\ push_instruction(p, x).labels = p.labels /\ Pending(p, l).labels = p.labels
<1> DEFINE m == p.labels \cup {_script_parse_gen_label(p)}
           g == [p EXCEPT !.labels = m]
<1>1. Generated(p) = g /\ \A q : q.labels = p.labels => Generated(q) = [q EXCEPT !.labels = m]
  BY DEF Generated, _script_parse_gen_label
<1> HIDE DEF m
<1>2. /\ PopStack(p, n).labels = p.labels /\ PushStack(p, y).labels = p.labels
      /\ push_instruction(p, x).labels = p.labels /\ Pending(p, l).labels = p.labels
  BY DEF Like, PopStack, PushStack, push_instruction, WithBytecode, Pending
<1>3. g.stack = p.stack /\ g.scripts = p.scripts
  BY DEF Like
<1>4. [PopStack(p, n) EXCEPT !.labels = m] = PopStack(g, n)
  BY DEF Like, PopStack
<1>5. [PushStack(p, y) EXCEPT !.labels = m] = PushStack(g, y)
  BY DEF Like, PushStack
<1>6. [push_instruction(p, x) EXCEPT !.labels = m] = push_instruction(g, x)
  <2> DEFINE u == <<bytecode_push_instruction(Bytecode(p), x)>> \o Tail(p.scripts)
  <2>1. push_instruction(p, x) = [p EXCEPT !.scripts = u]
    BY DEF push_instruction, WithBytecode
  <2> HIDE DEF g
  <2>2. push_instruction(g, x) = [g EXCEPT !.scripts = u]
    BY <1>3 DEF push_instruction, WithBytecode, Bytecode
  <2> HIDE DEF u
  <2> QED BY <2>1, <2>2 DEF Like, g
<1>7. [Pending(p, l) EXCEPT !.labels = m] = Pending(g, l)
  <2> DEFINE u == <<AddPending(Bytecode(p), l)>> \o Tail(p.scripts)
  <2>1. Pending(p, l) = [p EXCEPT !.scripts = u]
    BY DEF Pending, WithBytecode
  <2> HIDE DEF g
  <2>2. Pending(g, l) = [g EXCEPT !.scripts = u]
    BY <1>3 DEF Pending, WithBytecode, Bytecode
  <2> HIDE DEF u
  <2> QED BY <2>1, <2>2 DEF Like, g
<1> HIDE DEF g
<1> QED BY <1>1, <1>2, <1>4, <1>5, <1>6, <1>7

(* Counters and the rest.                                                  *)
LEMMA CountsAside ==
  ASSUME NEW p, Like(p), NEW u, NEW n, NEW x, NEW l, NEW i
  PROVE  /\ PopStack(Counting(p, u), n) = Counting(PopStack(p, n), u)
         /\ push_instruction(Counting(p, u), x) = Counting(push_instruction(p, x), u)
         /\ Pending(Counting(p, u), l) = Counting(Pending(p, l), u)
         /\ Peek(Counting(p, u), i) = Peek(p, i)
<1> DEFINE g == Counting(p, u)
<1>1. g.stack = p.stack /\ g.scripts = p.scripts
  BY DEF Like, Counting
<1>2. PopStack(g, n) = Counting(PopStack(p, n), u)
  BY DEF Like, PopStack, Counting
<1>3. push_instruction(g, x) = Counting(push_instruction(p, x), u)
  <2> DEFINE v == <<bytecode_push_instruction(Bytecode(p), x)>> \o Tail(p.scripts)
  <2>1. push_instruction(p, x) = [p EXCEPT !.scripts = v]
    BY DEF push_instruction, WithBytecode
  <2> HIDE DEF g
  <2>2. push_instruction(g, x) = [g EXCEPT !.scripts = v]
    BY <1>1 DEF push_instruction, WithBytecode, Bytecode
  <2> HIDE DEF v
  <2> QED BY <2>1, <2>2 DEF Like, g, Counting
<1>4. Pending(g, l) = Counting(Pending(p, l), u)
  <2> DEFINE v == <<AddPending(Bytecode(p), l)>> \o Tail(p.scripts)
  <2>1. Pending(p, l) = [p EXCEPT !.scripts = v]
    BY DEF Pending, WithBytecode
  <2> HIDE DEF g
  <2>2. Pending(g, l) = [g EXCEPT !.scripts = v]
    BY <1>1 DEF Pending, WithBytecode, Bytecode
  <2> HIDE DEF v
  <2> QED BY <2>1, <2>2 DEF Like, g, Counting
<1>5. Peek(g, i) = Peek(p, i)
  <2> HIDE DEF g
  <2> QED BY <1>1 DEF Peek
<1> QED BY <1>2, <1>3, <1>4, <1>5

(* What was pushed last is on top.                                         *)
LEMMA PeekPushed ==
  ASSUME NEW p \in Parsers, NEW y \in Items
  PROVE  Peek(PushStack(p, y), 0) = y
<1> DEFINE s == p.stack
           r == <<y>> \o s
<1>1. s \in Seq(Items)
  BY DEF Parsers
<1> HIDE DEF s
<1>2. r[1] = y /\ Len(r) = Len(s) + 1 /\ Len(s) \in Nat
  BY <1>1, ConsIs
<1> HIDE DEF r
<1>3. PushStack(p, y).stack = r
  <2>1. PushStack(p, y) = [p EXCEPT !.stack = r]
    BY DEF PushStack, r, s
  <2> QED BY <2>1 DEF Parsers
<1> QED BY <1>2, <1>3 DEF Peek

\* A shape has n items on the parse stack at least.
Deep(s, n) == \A c : Holds(s, c) => Len(c.stack) >= n
Stacked == {"free", "call", "lab", "loop", "ctx"}

(* Each item of these kinds is one.                                        *)
LEMMA DeepIs ==
  ASSUME NEW s, NEW k \in Stacked, NEW n \in Nat, Deep(s, n) \/ n = 0
  PROVE  Deep(<<k, s>>, n + 1)
<1> SUFFICES ASSUME NEW c, Holds(<<k, s>>, c) PROVE Len(c.stack) >= n + 1
  BY DEF Deep
<1>1. PICK d : Adds(k, d, c) /\ Holds(s, d) /\ d \in Layouts /\ d.funs # <<>>
  BY HoldsTop
<1>2. d.stack \in Seq(Items) /\ Len(d.stack) >= n
  BY <1>1 DEF Deep, Layouts
<1>3. \E x \in Items : c.stack = <<x>> \o d.stack
  <2>1. CASE k \in Labels
    <3>1. PICK l \in LabelNames, g \in Open : Labelled(d, l, g, c)
      BY <1>1, <2>1, Zenon DEF Adds, Counters, Labels
    <3>2. c.stack = <<l>> \o d.stack /\ l \in Items
      BY <1>1, <3>1, LabelledIs
    <3> QED BY <3>2
  <2>2. CASE k \in {"free", "call"}
    <3>1. PICK x \in Items : c = Push(d, x)
      <4>1. Call(1) \in Items
        BY DEF Items
      <4> QED BY <1>1, <2>2, <4>1, Zenon DEF Adds, Counters, Labels
    <3> QED BY <1>1, <3>1, PushIs
  <2> QED BY <2>1, <2>2 DEF Stacked, Labels
<1>4. PICK x \in Items : c.stack = <<x>> \o d.stack
  BY <1>3
<1> DEFINE r == d.stack
<1>5. r \in Seq(Items) /\ c.stack = <<x>> \o r /\ Len(r) >= n
  BY <1>2, <1>4
<1> HIDE DEF r
<1>6. Len(c.stack) = Len(r) + 1 /\ Len(r) \in Nat
  BY <1>5, ConsIs
<1> QED BY <1>5, <1>6

(* Two or three items may be popped at once.                               *)
LEMMA PopsAre ==
  ASSUME NEW p, NEW t, NEW j \in Stacked, NEW k \in Stacked
  PROVE  /\ Stands(p, <<k, <<j, t>>>>) =>
                PopStack(p, 2) = PopStack(PopStack(p, 1), 1)
                /\ Peek(p, 1) = Peek(PopStack(p, 1), 0)
         /\ \A i \in Stacked : Stands(p, <<i, <<k, <<j, t>>>>>>) =>
                PopStack(p, 3) = PopStack(PopStack(PopStack(p, 1), 1), 1)
<1>1. ASSUME NEW s, NEW n, Stands(p, s), Deep(s, n) PROVE p \in Parsers /\ Len(p.stack) >= n
  <2>1. PICK c : Shows(p, c) /\ Holds(s, c)
    BY <1>1 DEF Stands
  <2> QED BY <1>1, <2>1, ShownIs DEF Deep
<1>2. Deep(<<j, t>>, 1)
  <2>1. Deep(<<j, t>>, 0 + 1)
    BY DeepIs
  <2> QED BY <2>1
<1>3. Deep(<<k, <<j, t>>>>, 2)
  <2>1. Deep(<<k, <<j, t>>>>, 1 + 1)
    BY <1>2, DeepIs
  <2> QED BY <2>1
<1>4. ASSUME NEW i \in Stacked PROVE Deep(<<i, <<k, <<j, t>>>>>>, 3)
  <2>1. Deep(<<i, <<k, <<j, t>>>>>>, 2 + 1)
    BY <1>3, DeepIs
  <2> QED BY <2>1
<1>5. ASSUME Stands(p, <<k, <<j, t>>>>) PROVE p \in Parsers /\ Len(p.stack) >= 2
  BY <1>1, <1>3, <1>5
<1>6. ASSUME NEW i \in Stacked, Stands(p, <<i, <<k, <<j, t>>>>>>)
      PROVE  p \in Parsers /\ Len(p.stack) >= 3
  BY <1>1, <1>4, <1>6
<1>7. ASSUME p \in Parsers PROVE Len(p.stack) \in Nat
  BY <1>7 DEF Parsers
<1>8. ASSUME Stands(p, <<k, <<j, t>>>>)
      PROVE  /\ PopStack(p, 2) = PopStack(PopStack(p, 1), 1)
             /\ Peek(p, 1) = Peek(PopStack(p, 1), 0)
  <2>1. p \in Parsers /\ Len(p.stack) > 1
    BY <1>5, <1>7, <1>8
  <2> QED BY <2>1, PopMore
<1>9. ASSUME NEW i \in Stacked, Stands(p, <<i, <<k, <<j, t>>>>>>)
      PROVE  PopStack(p, 3) = PopStack(PopStack(PopStack(p, 1), 1), 1)
  <2>1. p \in Parsers /\ Len(p.stack) > 1 /\ Len(p.stack) > 2
    BY <1>6, <1>7, <1>9
  <2> QED BY <2>1, PopMore
<1> QED BY <1>8, <1>9

-----------------------------------------------------------------------------
(* The parse actions.                                                      *)

\* The operations that change neither the open blocks nor the labels.
Plainly == {"Deref", "PushScope", "PushCtx", "Pop", "Nop", "Incr", "Assign", "Iter",
            "Throw", "Return", "Yield", "Subscript"}

(* They and the calls are instructions that leave every shape as it is.    *)
LEMMA StraightAre ==
  /\ \A op \in Plainly : Plain(op) \in Instructions /\ Straight(Plain(op).op)
  /\ \A v \in Value : PushValue(v) \in Instructions /\ Straight(PushValue(v).op)
  /\ \A flags \in Names : \A n \in Int :
        /\ Instr("FunctionCall", flags, Num(n)) \in Instructions
        /\ Straight(Instr("FunctionCall", flags, Num(n)).op)
  /\ \A n \in Int : Call(n) \in Instructions /\ Straight(Call(n).op)
  /\ \A op \in {"Stash", "Unstash"} : \A n \in Int :
        Slot(op, n) \in Instructions /\ Straight(Slot(op, n).op)
  /\ \A flag \in Names : Status(flag) \in Instructions /\ Straight(Status(flag).op)
<1>1. ASSUME NEW op \in Plainly \cup {"PushVal", "FunctionCall", "Stash", "Unstash", "VMStatus"}
      PROVE  op \in Ops /\ Straight(op)
  BY <1>1 DEF Plainly, Ops, Straight, Branches
<1>2. "" \in Names
  BY DEF Names
<1>3. ASSUME NEW op \in Plainly PROVE Plain(op) \in Instructions /\ Straight(Plain(op).op)
  BY <1>1, PlainsAre
<1>4. ASSUME NEW v \in Value PROVE PushValue(v) \in Instructions /\ Straight(PushValue(v).op)
  BY <1>1, <1>2 DEF PushValue, Instr, Instructions
<1>5. ASSUME NEW flags \in Names, NEW n \in Int
      PROVE  /\ Instr("FunctionCall", flags, Num(n)) \in Instructions
             /\ Straight(Instr("FunctionCall", flags, Num(n)).op)
  <2>1. Num(n) \in Value
    BY ValuesAre
  <2> QED BY <1>1, <2>1 DEF Instr, Instructions
<1>6. ASSUME NEW n \in Int PROVE Call(n) \in Instructions /\ Straight(Call(n).op)
  BY <1>2, <1>5 DEF Call
<1>7. ASSUME NEW op \in {"Stash", "Unstash"}, NEW n \in Int
      PROVE  Slot(op, n) \in Instructions /\ Straight(Slot(op, n).op)
  <2>1. Num(n) \in Value
    BY ValuesAre
  <2> QED BY <1>1, <1>2, <2>1 DEF Slot, Instr, Instructions
<1>8. ASSUME NEW flag \in Names
      PROVE  Status(flag) \in Instructions /\ Straight(Status(flag).op)
  BY <1>1, ValuesAre DEF Status, Instr, Instructions
<1> QED BY <1>3, <1>4, <1>5, <1>6, <1>7, <1>8

(* The parser's shape stays what it is.                                    *)
LEMMA CodesStand ==
  ASSUME NEW p, NEW s, Stands(p, s)
  PROVE  /\ \A op \in Plainly : Stands(push_instruction(p, Plain(op)), s)
         /\ \A v \in Value : Stands(push_instruction(p, PushValue(v)), s)
         /\ \A flags \in Names : \A n \in Int :
               Stands(push_instruction(p, Instr("FunctionCall", flags, Num(n))), s)
         /\ \A n \in Int : Stands(push_instruction(p, Call(n)), s)
         /\ \A op \in {"Stash", "Unstash"} : \A n \in Int :
               Stands(push_instruction(p, Slot(op, n)), s)
         /\ \A flag \in Names : Stands(push_instruction(p, Status(flag)), s)
<1>1. ASSUME NEW op \in Plainly PROVE Stands(push_instruction(p, Plain(op)), s)
  BY StraightAre, CodeStands
<1>2. ASSUME NEW v \in Value PROVE Stands(push_instruction(p, PushValue(v)), s)
  BY StraightAre, CodeStands
<1>3. ASSUME NEW flags \in Names, NEW n \in Int
      PROVE  Stands(push_instruction(p, Instr("FunctionCall", flags, Num(n))), s)
  BY StraightAre, CodeStands
<1>4. ASSUME NEW n \in Int PROVE Stands(push_instruction(p, Call(n)), s)
  BY StraightAre, CodeStands
<1>5. ASSUME NEW op \in {"Stash", "Unstash"}, NEW n \in Int
      PROVE  Stands(push_instruction(p, Slot(op, n)), s)
  BY StraightAre, CodeStands
<1>6. ASSUME NEW flag \in Names PROVE Stands(push_instruction(p, Status(flag)), s)
  BY StraightAre, CodeStands
<1> QED BY <1>1, <1>2, <1>3, <1>4, <1>5, <1>6

args(t) == mark(any(t))

\* Action x takes every parser of shape s to one of shape t.
Does(x, s, t) ==
    x.kind = "action" /\ \A p : Stands(p, s) /\ LabelsLeft(p) => Stands(Effect(x, p), t)

(* scriptparse.c -- expressions that leave the parse stack alone.          *)
LEMMA PlainActions ==
  ASSUME NEW p, NEW s, Stands(p, s)
  PROVE  /\ Stands(script_parse_push_token(p), s) /\ Stands(script_parse_stash(p, 0), s)
         /\ Stands(script_parse_pop(p), s) /\ Stands(script_parse_nop(p), s)
         /\ Stands(script_parse_break(p), s) /\ Stands(script_parse_continue(p), s)
         /\ Stands(script_parse_case(p), s) /\ Stands(script_parse_leave(p), s)
         /\ Stands(script_parse_throw_exception(p), s)
         /\ \A op \in Plainly : Stands(script_parse_instruction(p, op), s)
<1>1. "Deref" \in Plainly /\ "Pop" \in Plainly /\ "Nop" \in Plainly /\ "Throw" \in Plainly
  BY DEF Plainly
<1>2. "Break" \in Names /\ "Continue" \in Names
  BY DEF Names
<1>3. Data \in Value /\ Err("Leave") \in Value
  <2>1. "Leave" \in Errors
    BY DEF Errors
  <2> QED BY <2>1, ValuesAre
<1>4. Stands(script_parse_push_token(p), s)
  BY <1>3, CodesStand DEF script_parse_push_token
<1>5. Stands(script_parse_stash(p, 0), s)
  BY CodesStand DEF script_parse_stash
<1>6. Stands(script_parse_pop(p), s) /\ Stands(script_parse_nop(p), s)
      /\ Stands(script_parse_throw_exception(p), s)
  BY <1>1, CodesStand DEF script_parse_pop, script_parse_nop, script_parse_throw_exception
<1>7. Stands(script_parse_break(p), s) /\ Stands(script_parse_continue(p), s)
  BY <1>2, CodesStand DEF script_parse_break, script_parse_continue
<1>8. Stands(script_parse_case(p), s)
  <2>1. Stands(push_instruction(p, Plain("Deref")), s)
    BY <1>1, CodesStand
  <2>2. Stands(push_instruction(push_instruction(p, Plain("Deref")), Slot("Unstash", 0)), s)
    BY <2>1, CodesStand
  <2> QED BY <2>2, CodesStand DEF script_parse_case, ++
<1>9. Stands(script_parse_leave(p), s)
  <2>1. Stands(push_instruction(p, PushValue(Err("Leave"))), s)
    BY <1>3, CodesStand
  <2> QED BY <1>1, <2>1, CodesStand DEF script_parse_leave, ++
<1>10. \A op \in Plainly : Stands(script_parse_instruction(p, op), s)
  BY CodesStand DEF script_parse_instruction
<1> QED BY <1>4, <1>5, <1>6, <1>7, <1>8, <1>9, <1>10

(* Those that take a token, or leave a call there for later.               *)
LEMMA TokenActions ==
  ASSUME NEW p, NEW t
  PROVE  /\ Stands(p, free(t)) => /\ Stands(script_parse_pushval_from_stack(p), t)
                                  /\ Stands(script_parse_push_signed_val(p), t)
                                  /\ Stands(script_parse_assign(p), t)
                                  /\ Stands(script_parse_deref(p), t)
                                  /\ Stands(parser_dup(p), free(free(t)))
         /\ Stands(p, t) => Stands(script_parse_infix_op(p), call(t))
         /\ Stands(p, call(t)) => Stands(script_parse_call_op(p), t)
<1>1. "Deref" \in Plainly /\ "Assign" \in Plainly /\ Data \in Value
  BY ValuesAre DEF Plainly
<1>2. ASSUME Stands(p, free(t))
      PROVE  /\ Stands(script_parse_pushval_from_stack(p), t)
             /\ Stands(script_parse_push_signed_val(p), t)
             /\ Stands(script_parse_assign(p), t)
             /\ Stands(script_parse_deref(p), t)
             /\ Stands(parser_dup(p), free(free(t)))
  <2>1. Stands(PopStack(p, 1), t) /\ Peek(p, 0) \in Items
    BY <1>2, FreeTaken
  <2>2. Stands(PushStack(p, Peek(p, 0)), free(free(t)))
    BY <1>2, <2>1, FreeStands
  <2> QED BY <1>1, <2>1, <2>2, CodesStand
          DEF script_parse_pushval_from_stack, script_parse_push_signed_val,
              script_parse_assign, script_parse_deref, parser_dup
<1>3. ASSUME Stands(p, t) PROVE Stands(script_parse_infix_op(p), call(t))
  <2>1. Stands(push_instruction(p, Plain("Deref")), t)
    BY <1>1, <1>3, CodesStand
  <2>2. Call(1) \in Items
    BY DEF Items
  <2> QED BY <2>1, <2>2, FreeStands DEF script_parse_infix_op
<1>4. ASSUME Stands(p, call(t)) PROVE Stands(script_parse_call_op(p), t)
  <2>1. Stands(PopStack(p, 1), t) /\ Peek(p, 0) = Call(1)
    BY <1>4, FreeTaken
  <2> QED BY <2>1, CodesStand DEF script_parse_call_op
<1> QED BY <1>2, <1>3, <1>4

(* datastack.c -- counters, alone and below other items.                   *)
LEMMA CountActions ==
  ASSUME NEW p, NEW t
  PROVE  /\ Stands(p, t) => Stands(datastack_new_counter(p), any(t))
         /\ Stands(p, lab(t)) => Stands(datastack_new_counter(p), lab(zero(t)))
         /\ Stands(p, any(t)) => Stands(datastack_increment(p), any(t))
         /\ Stands(p, args(t)) => Stands(datastack_increment(p), args(t))
         /\ Stands(p, cut(args(t))) => Stands(datastack_increment(p), cut(args(t)))
         /\ Stands(p, lab(zero(t))) => Stands(datastack_increment(p), lab(pos(t)))
         /\ Stands(p, lab(pos(t))) => Stands(datastack_increment(p), lab(pos(t)))
         /\ Stands(p, any(t)) => Stands(DropCounter(p), t) /\ CurrentCount(p) \in Nat
         /\ Stands(p, lab(lab(pos(t)))) => Stands(DropCounter(p), lab(lab(t)))
<1>1. Started \in Counts /\ Incremented \in Counts /\ Dropped \in Counts
  BY CountsAre
<1>2. {"zero", "pos", "any"} \subseteq Counters /\ {"lab", "mark", "cut"} \subseteq Still
  BY DEF Counters, Still
<1>3. Recounts(t, zero(t), Started) /\ Recounts(lab(t), lab(zero(t)), Started)
  BY <1>1, <1>2, ZeroHolds, RecountsBelow DEF lab
<1>4. /\ \A n \in CountOf("any") : n \in Nat /\ n + 1 \in CountOf("any")
      /\ \A n \in CountOf("zero") : n \in Nat /\ n + 1 \in CountOf("pos")
      /\ \A n \in CountOf("pos") : n \in Nat /\ n + 1 \in CountOf("pos")
  BY DEF CountOf
<1>5. Recounts(any(t), any(t), Incremented)
  BY <1>2, <1>4, IncrHolds DEF any
<1>6. Recounts(args(t), args(t), Incremented)
  BY <1>1, <1>2, <1>5, RecountsBelow DEF args, mark
<1>7. Recounts(cut(args(t)), cut(args(t)), Incremented)
  BY <1>1, <1>2, <1>6, RecountsBelow DEF cut
<1>8. Recounts(zero(t), pos(t), Incremented) /\ Recounts(pos(t), pos(t), Incremented)
  BY <1>2, <1>4, IncrHolds DEF zero, pos
<1>9. Recounts(lab(zero(t)), lab(pos(t)), Incremented)
      /\ Recounts(lab(pos(t)), lab(pos(t)), Incremented)
  BY <1>1, <1>2, <1>8, RecountsBelow DEF lab
<1>10. Recounts(any(t), t, Dropped) /\ Recounts(pos(t), t, Dropped)
  BY <1>2, DropHolds DEF any, pos
<1>11. Recounts(lab(lab(pos(t))), lab(lab(t)), Dropped)
  <2>1. Recounts(lab(pos(t)), lab(t), Dropped)
    BY <1>1, <1>2, <1>10, RecountsBelow DEF lab
  <2> QED BY <1>1, <1>2, <2>1, RecountsBelow DEF lab
<1>12. ASSUME NEW s, NEW r, Stands(p, s)
       PROVE  /\ Recounts(s, r, Started) => Stands(datastack_new_counter(p), r)
              /\ Recounts(s, r, Incremented) => Stands(datastack_increment(p), r)
              /\ Recounts(s, r, Dropped) => Stands(DropCounter(p), r)
  <2>1. p \in Parsers
    BY <1>12, StandingIs
  <2> QED BY <1>1, <1>12, <2>1, CountersAre, RecountStands
<1>13. Stands(p, t) => Stands(datastack_new_counter(p), any(t))
  <2>1. Stands(datastack_new_counter(p), zero(t)) => Stands(datastack_new_counter(p), any(t))
    BY <1>2, AnyHolds DEF zero
  <2> QED BY <1>3, <1>12, <2>1
<1>14. Stands(p, any(t)) => CurrentCount(p) \in Nat
  <2>1. Has(any(t), CountOf("any")) /\ CountOf("any") \in SUBSET Nat /\ CountOf("any") = Nat
    BY <1>2, HasBelow DEF any, CountOf
  <2> QED BY <2>1, CountIs
<1> QED BY <1>3, <1>5, <1>6, <1>7, <1>9, <1>10, <1>11, <1>12, <1>13, <1>14

(* A zero is read as such, below a label too, and a counter that has       *)
(* counted is not 0.                                                       *)
LEMMA CountsRead ==
  ASSUME NEW p, NEW t
  PROVE  /\ Stands(p, lab(zero(t))) => CurrentCount(p) = 0
         /\ Stands(p, lab(lab(pos(t)))) => CurrentCount(p) # 0
<1>1. "zero" \in Counters /\ "pos" \in Counters /\ "lab" \in Still
  BY DEF Counters, Still
<1>2. CountOf("zero") = {0} /\ CountOf("pos") = Nat \ {0}
  BY DEF CountOf
<1>3. Has(zero(t), {0}) /\ Has(pos(t), Nat \ {0})
  BY <1>1, <1>2, HasBelow DEF zero, pos
<1>4. Has(lab(zero(t)), {0}) /\ Has(lab(pos(t)), Nat \ {0})
  BY <1>1, <1>3, HasBelow DEF lab
<1>5. Has(lab(lab(pos(t))), Nat \ {0})
  BY <1>1, <1>4, HasBelow DEF lab
<1>6. {0} \in SUBSET Nat /\ Nat \ {0} \in SUBSET Nat
  OBVIOUS
<1>7. Stands(p, lab(zero(t))) => CurrentCount(p) \in {0}
  BY <1>4, <1>6, CountIs
<1>8. Stands(p, lab(lab(pos(t)))) => CurrentCount(p) \in Nat \ {0}
  BY <1>5, <1>6, CountIs
<1> QED BY <1>7, <1>8

-----------------------------------------------------------------------------
(* grammarparser.c, parserlib.c -- tokens and bookmarks.                   *)
LEMMA StackActions ==
  ASSUME NEW p, NEW t, NEW x \in {"token", "list", "name"}
  PROVE  /\ Stands(p, t) => Stands(PushStack(p, x), free(t))
         /\ Stands(p, mark(t)) => Stands(PushStack(p, x), mark(t))
         /\ Stands(p, mark(t)) => Stands(parser_rollup(p, x), free(t))
<1>1. x \in Items
  BY DEF Items
<1>2. Stands(p, mark(t)) => Stands(parser_rollup(p, x), free(t))
  BY <1>1, MarkRolled, FreeStands DEF parser_rollup
<1> QED BY <1>1, <1>2, FreeStands, MarkTakes

(* scriptparse.c:228 -- a call is prepared: a counter, and a bookmark.     *)
LEMMA CallBegins ==
  ASSUME NEW p, NEW t
  PROVE  /\ Stands(p, t) => /\ Stands(script_parse_init_function(p), args(t))
                            /\ Stands(script_parse_deref_function(p), args(t))
                            /\ Stands(script_parse_setup_function(p), args(t))
         /\ Stands(p, free(t)) => Stands(script_parse_setup_constructor(p), args(t))
<1>1. ASSUME NEW q, NEW b \in BOOLEAN, Stands(q, t)
      PROVE  Stands([datastack_bookmark(datastack_new_counter(q)) EXCEPT !.constructor = b],
                    args(t))
  <2>1. Stands(datastack_new_counter(q), any(t))
    BY <1>1, CountActions
  <2>2. Stands(datastack_bookmark(datastack_new_counter(q)), args(t))
    BY <2>1, MarkStands DEF args
  <2> QED BY <2>2, FlagStands
<1>2. ASSUME NEW q, Stands(q, t)
      PROVE  /\ Stands(push_instruction(q, Plain("Deref")), t)
             /\ Stands(push_instruction(push_instruction(q, Plain("PushScope")), Plain("Deref")), t)
  <2>1. "Deref" \in Plainly /\ "PushScope" \in Plainly
    BY DEF Plainly
  <2>2. Stands(push_instruction(q, Plain("PushScope")), t)
    BY <1>2, <2>1, CodesStand
  <2> QED BY <1>2, <2>1, <2>2, CodesStand
<1>3. ASSUME NEW q, Stands(q, t) PROVE Stands(script_parse_init_function(q), args(t))
  BY <1>1, <1>3 DEF script_parse_init_function
<1>4. ASSUME Stands(p, t) PROVE /\ Stands(script_parse_deref_function(p), args(t))
                                /\ Stands(script_parse_setup_function(p), args(t))
  BY <1>2, <1>3, <1>4 DEF script_parse_deref_function, script_parse_setup_function, ++
<1>5. ASSUME Stands(p, free(t)) PROVE Stands(script_parse_setup_constructor(p), args(t))
  <2> DEFINE q == push_instruction(push_instruction(PopStack(p, 1), Plain("PushScope")),
                                   Plain("Deref"))
  <2>1. Stands(PopStack(p, 1), t)
    BY <1>5, FreeTaken
  <2>2. Stands(q, t)
    BY <1>2, <2>1
  <2> HIDE DEF q
  <2>3. script_parse_setup_constructor(p)
          = [datastack_bookmark(datastack_new_counter(q)) EXCEPT !.constructor = TRUE]
    BY DEF script_parse_setup_constructor, ++, q
  <2> QED BY <1>1, <2>2, <2>3
<1> QED BY <1>3, <1>4, <1>5

(* scriptparse.c:271 -- the call, with the counter and the bookmark gone.  *)
LEMMA CallEnds ==
  ASSUME NEW p, NEW t, Stands(p, args(t))
  PROVE  Stands(script_parse_func_call(p), t)
<1> DEFINE r == Rollup(p)
           kwargs == Len(p.stack) - Head(p.bookmarks)
           argc == CurrentCount(r) + kwargs
           flags == IF p.constructor THEN "constructor" ELSE ""
           q == push_instruction(DropCounter(r), Instr("FunctionCall", flags, Num(argc)))
<1>1. p.varargs = FALSE
  BY StandingIs
<1>2. Stands(r, any(t)) /\ kwargs \in Int
  BY MarkRolled DEF args
<1> HIDE DEF r, kwargs
<1>3. Stands(DropCounter(r), t) /\ CurrentCount(r) \in Nat
  BY <1>2, CountActions
<1>4. argc \in Int /\ flags \in Names
  BY <1>2, <1>3 DEF Names
<1> HIDE DEF argc, flags
<1>5. Stands(q, t)
  BY <1>3, <1>4, CodesStand
<1>6. script_parse_func_call(p) = [q EXCEPT !.varargs = FALSE, !.constructor = FALSE]
  BY <1>1 DEF script_parse_func_call, argc, flags, r, kwargs
<1> HIDE DEF q
<1>7. q \in Parsers /\ q.varargs = FALSE
  BY <1>5, StandingIs
<1>8. script_parse_func_call(p) = [q EXCEPT !.constructor = FALSE]
  BY <1>6, <1>7 DEF Parsers
<1> QED BY <1>5, <1>8, FlagStands

(* scriptparse.c -- queries.                                               *)
LEMMA QueryActions ==
  ASSUME NEW p, NEW t
  PROVE  /\ Stands(p, t) => Stands(script_parse_init_query(p), any(t))
         /\ Stands(p, any(t)) => Stands(script_parse_query(p), t)
<1>1. "PushCtx" \in Plainly /\ "Deref" \in Plainly /\ Data \in Value
  BY ValuesAre DEF Plainly
<1>2. ASSUME Stands(p, t) PROVE Stands(script_parse_init_query(p), any(t))
  <2> DEFINE a == datastack_new_counter(p)
             b == push_instruction(a, Plain("PushCtx"))
             c == push_instruction(b, Plain("Deref"))
  <2>1. Stands(a, any(t))
    BY <1>2, CountActions
  <2>2. Stands(b, any(t))
    BY <1>1, <2>1, CodesStand
  <2>3. Stands(c, any(t))
    BY <1>1, <2>2, CodesStand
  <2>4. Stands(push_instruction(c, PushValue(Data)), any(t))
    BY <1>1, <2>3, CodesStand
  <2> QED BY <2>4 DEF script_parse_init_query, ++
<1>3. ASSUME Stands(p, any(t)) PROVE Stands(script_parse_query(p), t)
  <2>1. Stands(DropCounter(p), t) /\ CurrentCount(p) + 1 \in Int
    BY <1>3, CountActions
  <2> QED BY <2>1, CodesStand DEF script_parse_query
<1> QED BY <1>2, <1>3

(* Wrap-up of a list of cases: the counter goes.                           *)
LEMMA CasesEnd ==
  ASSUME NEW p, NEW t, Stands(p, any(t))
  PROVE  Stands(script_parse_rollup_cases(p), t)
<1>1. Stands(DropCounter(p), t)
  BY CountActions
<1>2. Stands(push_instruction(DropCounter(p), Plain("Deref")), t)
  BY <1>1, CodesStand DEF Plainly
<1> QED BY <1>1, <1>2 DEF script_parse_rollup_cases

(* scriptparse.c -- functions begin and end.                               *)
LEMMA FunctionActions ==
  ASSUME NEW p, NEW t
  PROVE  /\ Stands(p, free(free(free(t)))) => /\ Stands(script_parse_start_function(p), fn(t))
                                              /\ Stands(script_parse_native_function(p), t)
         /\ Stands(p, free(t)) => Stands(script_parse_start_lambda(p), fn(t))
         /\ Stands(p, fn(t)) => /\ Stands(script_parse_end_function(p), t)
                                /\ Stands(script_parse_end_lambda(p), t)
<1>1. ASSUME Stands(p, free(free(free(t)))) PROVE Stands(PopStack(p, 3), t)
  <2>1. PopStack(p, 3) = PopStack(PopStack(PopStack(p, 1), 1), 1)
    BY <1>1, PopsAre DEF free, Stacked
  <2>2. Stands(PopStack(p, 1), free(free(t)))
    BY <1>1, FreeTaken
  <2>3. Stands(PopStack(PopStack(p, 1), 1), free(t))
    BY <2>2, FreeTaken
  <2> QED BY <2>1, <2>3, FreeTaken
<1>2. ASSUME Stands(p, fn(t)) PROVE Stands(Complete(p), t)
  BY <1>2, FnTaken
<1>3. Data \in Value
  BY ValuesAre
<1> QED BY <1>1, <1>2, <1>3, FnStands, FreeTaken, CodesStand
        DEF script_parse_start_function, script_parse_native_function,
            script_parse_start_lambda, script_parse_end_function, script_parse_end_lambda

-----------------------------------------------------------------------------
(* scriptparse.c:777 -- a test branches to a new label.                    *)
LEMMA TestStands ==
  ASSUME NEW p, NEW t, Stands(p, t), Unseen(p)
  PROVE  Stands(script_parse_test(p), lab(t)) /\ Stands(script_parse_if(p), lab(t))
<1> DEFINE l == _script_parse_gen_label(p)
           q == PushStack(Generated(p), l)
<1>1. Stands(q, lab(t))
  BY LabStands
<1>2. p \in Parsers /\ l \in Items /\ Generated(p) \in Parsers
  <2>1. p \in Parsers /\ l \in LabelNames
    BY StandingIs DEF Unseen, _script_parse_gen_label
  <2> HIDE DEF l
  <2>2. Generated(p) = [p EXCEPT !.labels = @ \cup {l}]
    BY DEF Generated, l
  <2> QED BY <2>1, <2>2 DEF Parsers, Items
<1>3. Peek(q, 0) = l
  BY <1>2, PeekPushed
<1>4. Stands(push_instruction(q, To("Test", l)), lab(t))
  BY <1>1, <1>3, BranchToFirst DEF Branches
<1> QED BY <1>1, <1>4 DEF script_parse_test, script_parse_if

(* scriptparse.c:1024 -- the constructors of base classes are behind one.  *)
LEMMA ConstructorActions ==
  ASSUME NEW p, NEW t
  PROVE  /\ Stands(p, t) /\ Unseen(p) =>
                Stands(script_parse_baseclass_constructors(p), lab(t))
         /\ Stands(p, lab(t)) => Stands(script_parse_end_constructors(p), t)
<1>1. "PushScope" \in Plainly /\ "Deref" \in Plainly /\ Data \in Value
  BY ValuesAre DEF Plainly
<1>2. ASSUME NEW q, Stands(q, t), Unseen(q)
      PROVE  /\ \A op \in Plainly : Stands(q ++ Plain(op), t) /\ Unseen(q ++ Plain(op))
             /\ Stands(q ++ PushValue(Data), t) /\ Unseen(q ++ PushValue(Data))
             /\ Stands(q ++ Call(1), t) /\ Unseen(q ++ Call(1))
  <2>1. Like(q)
    BY <1>2, StandingIs, LikeIs
  <2>2. ASSUME NEW x PROVE Unseen(push_instruction(q, x))
    BY <1>2, <2>1, <2>2, LabelsAside DEF Unseen, _script_parse_gen_label
  <2> QED BY <1>1, <1>2, <2>2, CodesStand DEF ++
<1>3. ASSUME Stands(p, t), Unseen(p)
      PROVE  Stands(script_parse_baseclass_constructors(p), lab(t))
  <2> DEFINE a == p ++ Plain("PushScope")
             b == a ++ Plain("Deref")
             c == b ++ PushValue(Data)
             d == c ++ Call(1)
  <2>1. Stands(a, t) /\ Unseen(a)
    BY <1>1, <1>2, <1>3
  <2> HIDE DEF a
  <2>2. Stands(b, t) /\ Unseen(b)
    BY <1>1, <1>2, <2>1
  <2> HIDE DEF b
  <2>3. Stands(c, t) /\ Unseen(c)
    BY <1>2, <2>2
  <2> HIDE DEF c
  <2>4. Stands(d, t) /\ Unseen(d)
    BY <1>2, <2>3
  <2> HIDE DEF d
  <2>5. Stands(script_parse_test(d), lab(t))
    BY <2>4, TestStands
  <2> QED BY <2>5 DEF script_parse_baseclass_constructors, a, b, c, d
<1>4. ASSUME Stands(p, lab(t)) PROVE Stands(script_parse_end_constructors(p), t)
  <2>1. Like(p)
    BY <1>4, StandingIs, LikeIs
  <2>2. script_parse_end_constructors(p) = PopStack(Pending(p, Peek(p, 0)), 1)
    BY <2>1, CodeAside DEF script_parse_end_constructors
  <2> QED BY <1>4, <2>2, LabPlaced
<1> QED BY <1>3, <1>4

(* scriptparse.c:788 -- an arm ends: a jump to the end, and the label of   *)
(* the arm that comes next is placed.                                      *)
LEMMA ArmEnds ==
  ASSUME NEW p, NEW t, Stands(p, lab(lab(t)))
  PROVE  Stands(script_parse_elif(p), lab(t)) /\ Stands(script_parse_else(p), lab(lab(t)))
<1> DEFINE q == push_instruction(p, To("Jump", Peek(p, 1)))
<1>1. Like(p)
  BY StandingIs, LikeIs
<1>2. Stands(q, lab(lab(t))) /\ Peek(q, 0) = Peek(p, 0) /\ Peek(q, 1) = Peek(p, 1)
  <2>1. "Jump" \in Branches
    BY DEF Branches
  <2> QED BY <1>1, <2>1, BranchToSecond, CodeAside DEF lab
<1> DEFINE r == Pending(q, Peek(q, 0))
<1>3. Stands(PopStack(r, 1), lab(t))
  BY <1>2, LabPlaced
<1>4. script_parse_elif(p) = PopStack(r, 1)
  <2>1. push_instruction(PopStack(p, 1), To("Jump", Peek(p, 1))) = PopStack(q, 1)
    BY <1>1, CodeAside
  <2>2. Like(q)
    BY <1>1, LikeIs
  <2> HIDE DEF q
  <2>3. Pending(PopStack(q, 1), Peek(q, 0)) = PopStack(r, 1)
    BY <2>2, CodeAside
  <2> QED BY <1>2, <2>1, <2>3 DEF script_parse_elif
<1>5. Peek(p, 1) = Peek(PopStack(r, 1), 0)
  <2>1. Like(q)
    BY <1>1, LikeIs
  <2>2. Peek(q, 1) = Peek(PopStack(q, 1), 0)
    BY <1>2, PopsAre DEF lab, Stacked
  <2> HIDE DEF q
  <2>3. Like(PopStack(q, 1)) /\ Pending(PopStack(q, 1), Peek(q, 0)) = PopStack(r, 1)
    BY <2>1, CodeAside, LikeIs
  <2>4. Peek(Pending(PopStack(q, 1), Peek(q, 0)), 0) = Peek(PopStack(q, 1), 0)
    BY <2>3, CodeAside
  <2> QED BY <1>2, <2>2, <2>3, <2>4
<1> HIDE DEF q, r
<1>6. Stands(PushStack(PopStack(r, 1), Peek(p, 1)), lab(lab(t)))
  BY <1>3, <1>5, LabAgain
<1> QED BY <1>3, <1>4, <1>6 DEF script_parse_else

(* scriptparse.c:805 -- both labels of a conditional are placed.           *)
LEMMA ConditionalEnds ==
  ASSUME NEW p, NEW t, Stands(p, lab(lab(t)))
  PROVE  Stands(script_parse_end_conditional(p), t)
<1> DEFINE k == Peek(p, 0)
           l == Peek(p, 1)
           q == PopStack(Pending(p, k), 1)
<1>1. Like(p)
  BY StandingIs, LikeIs
<1>2. Stands(q, lab(t))
  BY LabPlaced
<1>3. PopStack(p, 2) = PopStack(PopStack(p, 1), 1) /\ l = Peek(PopStack(p, 1), 0)
  BY PopsAre DEF lab, Stacked
<1> HIDE DEF k, l
<1>4. Like(PopStack(p, 1)) /\ Like(q) /\ Like(Pending(p, k))
  BY <1>1, LikeIs
<1>5. q = Pending(PopStack(p, 1), k) /\ l = Peek(q, 0)
  BY <1>1, <1>3, <1>4, CodeAside
<1>6. Pending(PopStack(p, 2), k) = PopStack(q, 1)
  BY <1>3, <1>4, <1>5, CodeAside
<1> HIDE DEF q
<1>7. Pending(PopStack(q, 1), l) = PopStack(Pending(q, l), 1)
  BY <1>4, CodeAside
<1>8. Stands(PopStack(Pending(q, l), 1), t)
  BY <1>2, <1>5, LabPlaced
<1> QED BY <1>6, <1>7, <1>8 DEF script_parse_end_conditional, k, l

(* scriptparse.c:709 -- a loop begins: its label is placed.                *)
LEMMA LoopBegins ==
  ASSUME NEW p, NEW t, Stands(p, t), Unseen(p)
  PROVE  Stands(script_parse_start_loop(p), loop(t))
<1> DEFINE l == _script_parse_gen_label(p)
           q == PushStack(Generated(p), l)
<1>1. Stands(q, lab(t)) /\ Peek(q, 0) = l
  <2>1. p \in Parsers /\ l \in LabelNames
    BY StandingIs DEF Unseen, _script_parse_gen_label
  <2>2. Generated(p) \in Parsers /\ l \in Items
    <3> HIDE DEF l
    <3>1. Generated(p) = [p EXCEPT !.labels = @ \cup {l}]
      BY DEF Generated, l
    <3> QED BY <2>1, <3>1 DEF Parsers, Items
  <2> QED BY <2>2, LabStands, PeekPushed
<1>2. Stands(Pending(q, l), loop(t))
  BY <1>1, LoopStands
<1>3. Pending(q, l) = PushStack(Pending(Generated(p), l), l)
  <2>1. Like(Generated(p))
    BY StandingIs, LikeIs
  <2> QED BY <2>1, CodeAside
<1> QED BY <1>2, <1>3 DEF script_parse_start_loop

(* scriptparse.c:722 -- it ends: a jump back, and the way out.             *)
LEMMA LoopEnds ==
  ASSUME NEW p, NEW t, Stands(p, lab(loop(t)))
  PROVE  Stands(script_parse_end_loop(p), t)
<1> DEFINE k == Peek(p, 0)
           q == push_instruction(p, To("EndLoop", Peek(p, 1)))
           r == Pending(q, k)
<1>1. Like(p)
  BY StandingIs, LikeIs
<1>2. Stands(q, lab(loop(t))) /\ Peek(q, 0) = k
  <2>1. "EndLoop" \in Branches
    BY DEF Branches
  <2> QED BY <1>1, <2>1, BranchToSecond, CodeAside DEF lab, loop
<1>3. Like(q) /\ PopStack(q, 2) = PopStack(PopStack(q, 1), 1)
      /\ push_instruction(PopStack(p, 2), To("EndLoop", Peek(p, 1))) = PopStack(q, 2)
  <2>1. Like(q) /\ push_instruction(PopStack(p, 2), To("EndLoop", Peek(p, 1))) = PopStack(q, 2)
    BY <1>1, LikeIs, CodeAside
  <2> HIDE DEF q
  <2>2. PopStack(q, 2) = PopStack(PopStack(q, 1), 1)
    BY <1>2, PopsAre DEF lab, loop, Stacked
  <2> QED BY <2>1, <2>2
<1> HIDE DEF q
<1>4. Pending(PopStack(PopStack(q, 1), 1), k) = PopStack(PopStack(r, 1), 1)
  <2>1. Like(PopStack(q, 1))
    BY <1>3, LikeIs
  <2> QED BY <1>3, <2>1, CodeAside
<1>5. Stands(PopStack(PopStack(r, 1), 1), t)
  BY <1>2, LabPlaced, LoopTaken
<1>6. script_parse_end_loop(p) = Pending(PopStack(PopStack(q, 1), 1), k)
  BY <1>3 DEF script_parse_end_loop, q
<1> QED BY <1>4, <1>5, <1>6

(* scriptparse.c:691 -- a loop over the values of an iterator.             *)
LEMMA ForStands ==
  ASSUME NEW p, NEW t, Stands(p, free(t)), LabelsLeft(p)
  PROVE  Stands(script_parse_for(p), lab(loop(t)))
<1> DEFINE k == _script_parse_gen_label(p)
           l == _script_parse_gen_label(Generated(p))
           a == PopStack(p, 1)
           b == push_instruction(a, Plain("Iter"))
           c == PushStack(Generated(b), k)
           d == Pending(c, k)
           e == PushStack(Generated(d), l)
           f == push_instruction(e, To("Next", l))
<1>1. p \in Parsers /\ Unseen(p) /\ Unseen(Generated(p))
  BY StandingIs, RoomForTwo
<1>2. Like(p) /\ Like(a) /\ Like(b) /\ Like(Generated(b)) /\ Like(Generated(p))
  <2>1. Like(p) /\ Like(a) /\ Like(Generated(p))
    BY <1>1, LikeIs
  <2>2. Like(b)
    BY <2>1, LikeIs
  <2> QED BY <2>1, <2>2, LikeIs
<1>3. k \in Items /\ l \in Items
  BY <1>1 DEF Unseen, _script_parse_gen_label, Items
<1>4. b.labels = p.labels
  BY <1>2, LabelsAside
<1>5. k = _script_parse_gen_label(b) /\ Unseen(b) /\ Generated(b).labels = Generated(p).labels
  <2> HIDE DEF a, b
  <2>1. k = _script_parse_gen_label(b) /\ Unseen(b)
    BY <1>1, <1>4 DEF _script_parse_gen_label, Unseen
  <2> HIDE DEF k
  <2>2. Generated(p).labels = p.labels \cup {k} /\ Generated(b).labels = b.labels \cup {k}
    BY <1>2, <2>1 DEF Generated, Like, k
  <2> QED BY <1>4, <2>1, <2>2
<1>6. Stands(b, t)
  BY FreeTaken, CodesStand DEF Plainly
<1> HIDE DEF a, b
<1>7. Stands(c, lab(t)) /\ Peek(c, 0) = k
  <2>1. Generated(b) \in Parsers
    <3>1. b \in Parsers /\ Generated(b).labels \in SUBSET LabelNames
      BY <1>1, <1>5, <1>6, StandingIs, RoomForTwo
    <3> QED BY <3>1 DEF Generated, Parsers
  <2> QED BY <1>3, <1>5, <1>6, <2>1, LabStands, PeekPushed
<1>8. Stands(d, loop(t)) /\ Like(c)
  <2>1. Like(c)
    BY <1>2, LikeIs
  <2> QED BY <1>7, <2>1, LoopStands
<1>9. d.labels = Generated(p).labels /\ Like(d)
  BY <1>2, <1>5, <1>8, LabelsAside, LikeIs
<1>10. d = PushStack(Pending(Generated(b), k), k)
  BY <1>2, CodeAside
<1> HIDE DEF c, d
<1>11. Unseen(d) /\ l = _script_parse_gen_label(d)
  BY <1>1, <1>9 DEF Unseen, _script_parse_gen_label
<1>12. Stands(e, lab(loop(t))) /\ Peek(e, 0) = l
  <2>1. d \in Parsers
    BY <1>8, StandingIs
  <2>2. Generated(d) \in Parsers
    <3>1. l \in LabelNames
      BY <1>1 DEF Unseen, _script_parse_gen_label
    <3> HIDE DEF l
    <3> QED BY <1>11, <2>1, <3>1 DEF Generated, Parsers
  <2> QED BY <1>3, <1>8, <1>11, <2>2, LabStands, PeekPushed
<1> HIDE DEF e
<1>13. Stands(f, lab(loop(t)))
  BY <1>12, BranchToFirst DEF Branches
<1> HIDE DEF f
<1>14. Stands(push_instruction(f, Plain("Assign")), lab(loop(t)))
  BY <1>13, CodesStand DEF Plainly
<1>15. e = Pending(push_instruction(PushStack(PushStack(PopStack(Generated(Generated(p)), 1), k),
                                              l), Plain("Iter")), k)
  <2> DEFINE g == PopStack(Generated(Generated(p)), 1)
             h == push_instruction(g, Plain("Iter"))
             m == PushStack(g, k)
  <2>1. Generated(Generated(b)) = h
    <3>1. Generated(b) = push_instruction(PopStack(Generated(p), 1), Plain("Iter"))
      BY <1>2, LabelsAside DEF a, b
    <3>2. Like(PopStack(Generated(p), 1))
      BY <1>2, LikeIs
    <3> QED BY <1>2, <3>1, <3>2, LabelsAside
  <2>2. Generated(d) = PushStack(Pending(h, k), k)
    <3>1. Like(Pending(Generated(b), k))
      BY <1>2, LikeIs
    <3>2. Generated(d) = PushStack(Generated(Pending(Generated(b), k)), k)
      BY <1>10, <3>1, LabelsAside
    <3> QED BY <1>2, <2>1, <3>2, LabelsAside
  <2>3. Like(g)
    <3>1. Like(Generated(Generated(p)))
      BY <1>2, LikeIs
    <3> QED BY <3>1, LikeIs
  <2> HIDE DEF g
  <2>4. Like(m) /\ Like(PushStack(m, l)) /\ Like(h)
    BY <2>3, LikeIs
  <2>5. push_instruction(PushStack(m, l), Plain("Iter")) = PushStack(PushStack(h, k), l)
    BY <2>3, <2>4, CodeAside
  <2>6. Like(PushStack(h, k))
    BY <2>4, LikeIs
  <2> HIDE DEF h
  <2>7. Pending(PushStack(PushStack(h, k), l), k) = PushStack(PushStack(Pending(h, k), k), l)
    BY <2>4, <2>6, CodeAside
  <2> QED BY <2>2, <2>5, <2>7 DEF e, g, m
<1> QED BY <1>14, <1>15 DEF script_parse_for, ++, f

(* scriptparse.c:826 -- a list of cases begins, behind others or not.      *)
LEMMA CasesBegin ==
  ASSUME NEW p, NEW t, Stands(p, lab(zero(t))) \/ Stands(p, lab(lab(pos(t))))
  PROVE  Stands(script_parse_case_prolog(p), any(lab(pos(t))))
<1>1. ASSUME NEW q, Stands(q, lab(zero(t))) \/ Stands(q, lab(pos(t)))
      PROVE  Stands(datastack_new_counter(datastack_increment(q)), any(lab(pos(t))))
  BY <1>1, CountActions
<1>2. CASE Stands(p, lab(zero(t)))
  BY <1>1, <1>2, CountsRead DEF script_parse_case_prolog
<1>3. CASE Stands(p, lab(lab(pos(t))))
  <2> DEFINE e == script_parse_elif(p)
             i == datastack_increment(p)
             j == datastack_increment(e)
             u == Started[i.counters]
             v == Incremented[p.counters]
  <2>1. p \in Parsers /\ Like(p) /\ CurrentCount(p) # 0
    BY <1>3, StandingIs, LikeIs, CountsRead
  <2>2. Stands(e, lab(pos(t)))
    BY <1>3, ArmEnds
  <2>3. \A w : script_parse_elif(Counting(p, w)) = Counting(e, w)
    <3> SUFFICES ASSUME NEW w PROVE script_parse_elif(Counting(p, w)) = Counting(e, w)
      OBVIOUS
    <3> DEFINE a == PopStack(p, 1)
               b == push_instruction(a, To("Jump", Peek(p, 1)))
    <3>1. Like(a)
      BY <2>1, LikeIs
    <3>2. Like(b)
      BY <3>1, LikeIs
    <3>3. /\ PopStack(Counting(p, w), 1) = Counting(a, w)
          /\ push_instruction(Counting(a, w), To("Jump", Peek(p, 1))) = Counting(b, w)
          /\ Pending(Counting(b, w), Peek(p, 0)) = Counting(Pending(b, Peek(p, 0)), w)
          /\ Peek(Counting(p, w), 0) = Peek(p, 0) /\ Peek(Counting(p, w), 1) = Peek(p, 1)
      BY <2>1, <3>1, <3>2, CountsAside
    <3> QED BY <3>3 DEF script_parse_elif
  <2>4. e \in Parsers /\ e.counters = p.counters
    <3>1. e \in Parsers
      BY <2>2, StandingIs
    <3>2. Counting(p, p.counters) = p
      BY <2>1 DEF Counting, Parsers
    <3>3. e = Counting(e, p.counters)
      BY <2>3, <3>2
    <3>4. Counting(e, p.counters).counters = p.counters
      BY <3>1 DEF Counting, Parsers
    <3> QED BY <3>1, <3>3, <3>4
  <2>5. i = Counting(p, v) /\ j = Counting(e, v) /\ i \in Parsers /\ j \in Parsers
    <3>1. i = Counting(p, v) /\ j = Counting(e, v)
      BY <2>1, <2>4, CountersAre
    <3>2. v \in Seq(Nat)
      BY <2>1, CountsAre DEF Counts, Parsers
    <3> HIDE DEF v, i, j, e
    <3> QED BY <2>1, <2>4, <3>1, <3>2 DEF Counting, Parsers
  <2>6. i.counters = v /\ j.counters = v
    <3> HIDE DEF v, i, j, e
    <3> QED BY <2>1, <2>4, <2>5 DEF Counting, Parsers
  <2>7. datastack_new_counter(i) = Counting(i, u) /\ datastack_new_counter(j) = Counting(j, u)
    BY <2>5, <2>6, CountersAre
  <2>8. Counting(i, u) = Counting(p, u) /\ Counting(j, u) = Counting(e, u)
    <3> HIDE DEF v, i, j, e, u
    <3> QED BY <2>1, <2>4, <2>5 DEF Counting, Parsers
  <2>9. script_parse_case_prolog(p) = script_parse_elif(datastack_new_counter(i))
    BY <2>1 DEF script_parse_case_prolog
  <2>10. script_parse_elif(datastack_new_counter(i)) = datastack_new_counter(j)
    <3> HIDE DEF e, i, j, u, v
    <3> QED BY <2>3, <2>7, <2>8
  <2>11. Stands(datastack_new_counter(j), any(lab(pos(t))))
    BY <1>1, <2>2
  <2> QED BY <2>9, <2>10, <2>11
<1> QED BY <1>2, <1>3

(* scriptparse.c:905 -- a block ends; its label and its name are taken.    *)
LEMMA BlockEnds ==
  ASSUME NEW p, NEW t, Stands(p, ctx(free(t)))
  PROVE  Stands(script_parse_end_context_block(p), t)
<1> DEFINE l == Peek(p, 0)
           q == push_instruction(p, PushValue(Num(0)))
           r == push_instruction(Pending(q, l), Plain("LeaveContext"))
<1>1. Like(p)
  BY StandingIs, LikeIs
<1>2. Stands(q, ctx(free(t))) /\ Peek(q, 0) = l /\ Like(q)
  <2>1. Num(0) \in Value
    BY ValuesAre
  <2>2. Stands(q, ctx(free(t)))
    BY <2>1, CodesStand
  <2> QED BY <1>1, <2>2, CodeAside, LikeIs
<1>3. push_instruction(PopStack(p, 2), PushValue(Num(0))) = PopStack(PopStack(q, 1), 1)
  <2>1. push_instruction(PopStack(p, 2), PushValue(Num(0))) = PopStack(q, 2)
    BY <1>1, CodeAside
  <2> HIDE DEF q
  <2>2. PopStack(q, 2) = PopStack(PopStack(q, 1), 1)
    BY <1>2, PopsAre DEF ctx, free, Stacked
  <2> QED BY <2>1, <2>2
<1> HIDE DEF q, l
<1>4. Stands(PopStack(r, 1), free(t))
  BY <1>2, CtxTaken
<1>5. Stands(PopStack(PopStack(r, 1), 1), t)
  BY <1>4, FreeTaken
<1>6. push_instruction(Pending(PopStack(PopStack(q, 1), 1), l), Plain("LeaveContext"))
        = PopStack(PopStack(r, 1), 1)
  <2> DEFINE a == PopStack(q, 1)
             b == Pending(q, l)
  <2>1. Like(a) /\ Like(b) /\ Like(PopStack(b, 1))
    BY <1>2, LikeIs
  <2>2. Pending(PopStack(a, 1), l) = PopStack(PopStack(b, 1), 1)
    BY <1>2, <2>1, CodeAside
  <2> HIDE DEF a, b
  <2>3. push_instruction(PopStack(PopStack(b, 1), 1), Plain("LeaveContext"))
          = PopStack(PopStack(push_instruction(b, Plain("LeaveContext")), 1), 1)
    BY <2>1, CodeAside
  <2> QED BY <2>2, <2>3 DEF a, b
<1> HIDE DEF r
<1> QED BY <1>3, <1>5, <1>6 DEF script_parse_end_context_block, l

-----------------------------------------------------------------------------
(* The nonterminals.  Most leave a shape as it is; those below go on where *)
(* another symbol began.                                                   *)
Whatever == {"statements", "statement", "expr", "baseclasses", "baseclass",
             "baseclass_tail"}
Grows(name, s, t) ==
    \/ name \in Whatever /\ t = s
    \/ name = "identifier" /\ t = free(s)
    \/ \E r : \/ name \in {"elif_seq", "else"} /\ s = lab(lab(r)) /\ t = s
              \/ name = "cases" /\ s = lab(zero(r)) /\ t = lab(lab(pos(r)))
              \/ name = "case_block" /\ s = lab(zero(r)) /\ t = lab(lab(pos(r)))
              \/ name \in {"case_block", "cases_seq"} /\ s = lab(lab(pos(r))) /\ t = s
              \/ name \in {"case_stmt", "case_stmts", "arglist"} /\ s = any(r) /\ t = s
              \/ name \in {"arglist", "attrlist"} /\ s = args(r) /\ t = s
              \/ name = "func_block" /\ s = free(free(free(r))) /\ t = r
              \/ name = "assignment_or_empty" /\ s = free(r) /\ t = s

\* A symbol of either kind, and symbols one behind the other.
Leads(x, s, t) == Does(x, s, t) \/ (x.kind = "nonterminal" /\ Grows(x.name, s, t))
Along(form, way) == \A i \in 1..Len(form) : Leads(form[i], way[i], way[i + 1])
Spells(form, s, t) ==
    \E S, way : form \in Seq(S) /\ Along(form, way) /\ way[1] = s /\ way[Len(form) + 1] = t

(* Actions lead where they take a shape to.                                *)
LEMMA DoesLeads == \A x, s, t : Does(x, s, t) => Leads(x, s, t)
BY Zenon DEF Leads

-----------------------------------------------------------------------------
(* The grammar.  Each action does what the operators above do ...          *)
LEMMA Effects ==
  ASSUME NEW p
  PROVE  /\ Effect(A("push"), p) = PushStack(p, "token")
         /\ Effect(A("pushval"), p) = PushStack(p, "token")
         /\ Effect(A("bookmark"), p) = datastack_bookmark(p)
         /\ Effect(A("rollup_list"), p) = parser_rollup(p, "list")
         /\ Effect(A("rollup_name"), p) = parser_rollup(p, "name")
         /\ Effect(A("dup"), p) = parser_dup(p)
         /\ Effect(A("new_counter"), p) = datastack_new_counter(p)
         /\ Effect(A("incr"), p) = datastack_increment(p)
         /\ Effect(A("discard_counter"), p) = DropCounter(p)
         /\ Effect(A("done"), p) = Complete(p)
         /\ Effect(A("push_token"), p) = script_parse_push_token(p)
         /\ Effect(A("pushval_from_stack"), p) = script_parse_pushval_from_stack(p)
         /\ Effect(A("push_signed_val"), p) = script_parse_push_signed_val(p)
         /\ \A op : Effect(AV("instruction", op), p) = script_parse_instruction(p, op)
         /\ Effect(A("assign"), p) = script_parse_assign(p)
         /\ Effect(A("deref"), p) = script_parse_deref(p)
         /\ Effect(AV("stash", "0"), p) = script_parse_stash(p, 0)
         /\ Effect(A("pop"), p) = script_parse_pop(p)
         /\ Effect(A("nop"), p) = script_parse_nop(p)
         /\ Effect(A("infix_op"), p) = script_parse_infix_op(p)
         /\ Effect(A("call_op"), p) = script_parse_call_op(p)
         /\ Effect(A("init_function"), p) = script_parse_init_function(p)
         /\ Effect(A("deref_function"), p) = script_parse_deref_function(p)
         /\ Effect(A("setup_function"), p) = script_parse_setup_function(p)
         /\ Effect(A("setup_constructor"), p) = script_parse_setup_constructor(p)
         /\ Effect(A("func_call"), p) = script_parse_func_call(p)
         /\ Effect(A("init_query"), p) = script_parse_init_query(p)
         /\ Effect(A("query"), p) = script_parse_query(p)
         /\ Effect(A("instruction_bookmark"), p)
              = WithBytecode(p, bytecode_bookmark(Bytecode(p)))
         /\ Effect(A("discard_instruction_bookmark"), p)
              = WithBytecode(p, bytecode_discard_bookmark(Bytecode(p)))
BY DEF Effect, A, AV, script_parse_done

(* ... and so do those of statements.                                      *)
LEMMA StatementEffects ==
  ASSUME NEW p
  PROVE  /\ Effect(A("for"), p) = script_parse_for(p)
         /\ Effect(A("start_loop"), p) = script_parse_start_loop(p)
         /\ Effect(A("end_loop"), p) = script_parse_end_loop(p)
         /\ Effect(A("break"), p) = script_parse_break(p)
         /\ Effect(A("continue"), p) = script_parse_continue(p)
         /\ Effect(A("if"), p) = script_parse_if(p)
         /\ Effect(A("test"), p) = script_parse_test(p)
         /\ Effect(A("elif"), p) = script_parse_elif(p)
         /\ Effect(A("else"), p) = script_parse_else(p)
         /\ Effect(A("end_conditional"), p) = script_parse_end_conditional(p)
         /\ Effect(A("case_prolog"), p) = script_parse_case_prolog(p)
         /\ Effect(A("case"), p) = script_parse_case(p)
         /\ Effect(A("rollup_cases"), p) = script_parse_rollup_cases(p)
         /\ Effect(A("start_function"), p) = script_parse_start_function(p)
         /\ Effect(A("end_function"), p) = script_parse_end_function(p)
         /\ Effect(A("native_function"), p) = script_parse_native_function(p)
         /\ Effect(A("start_lambda"), p) = script_parse_start_lambda(p)
         /\ Effect(A("end_lambda"), p) = script_parse_end_lambda(p)
         /\ Effect(A("baseclass_constructors"), p) = script_parse_baseclass_constructors(p)
         /\ Effect(A("end_constructors"), p) = script_parse_end_constructors(p)
         /\ Effect(A("begin_context_block"), p) = script_parse_begin_context_block(p)
         /\ Effect(A("end_context_block"), p) = script_parse_end_context_block(p)
         /\ Effect(A("throw_exception"), p) = script_parse_throw_exception(p)
         /\ Effect(A("leave"), p) = script_parse_leave(p)
BY DEF Effect, A

(* What the actions do to shapes: those of expressions ...                 *)
LEMMA ExpressionRules ==
  ASSUME NEW t
  PROVE  /\ Leads(A("push"), t, free(t)) /\ Leads(A("push"), args(t), args(t))
         /\ Leads(A("pushval"), t, free(t))
         /\ Leads(A("bookmark"), t, mark(t))
         /\ Leads(A("rollup_list"), mark(t), free(t)) /\ Leads(A("rollup_name"), mark(t), free(t))
         /\ Leads(A("push"), mark(t), mark(t))
         /\ Leads(A("dup"), free(t), free(free(t)))
         /\ Leads(A("push_token"), t, t)
         /\ Leads(A("pushval_from_stack"), free(t), t) /\ Leads(A("push_signed_val"), free(t), t)
         /\ Leads(AV("instruction", "PushScope"), t, t)
         /\ Leads(AV("instruction", "Subscript"), t, t)
         /\ Leads(AV("instruction", "Return"), t, t) /\ Leads(AV("instruction", "Yield"), t, t)
         /\ Leads(A("assign"), free(t), t) /\ Leads(A("deref"), free(t), t)
         /\ Leads(AV("stash", "0"), t, t) /\ Leads(A("pop"), t, t) /\ Leads(A("nop"), t, t)
         /\ Leads(A("infix_op"), t, call(t)) /\ Leads(A("call_op"), call(t), t)
         /\ Leads(A("init_function"), t, args(t)) /\ Leads(A("deref_function"), t, args(t))
         /\ Leads(A("setup_function"), t, args(t))
         /\ Leads(A("setup_constructor"), free(t), args(t))
         /\ Leads(A("func_call"), args(t), t)
         /\ Leads(A("init_query"), t, any(t)) /\ Leads(A("query"), any(t), t)
         /\ Leads(A("instruction_bookmark"), t, cut(t))
         /\ Leads(A("discard_instruction_bookmark"), cut(t), t)
         /\ Leads(A("incr"), any(t), any(t)) /\ Leads(A("incr"), args(t), args(t))
         /\ Leads(A("incr"), cut(args(t)), cut(args(t)))
<1>1. /\ \A name : A(name).kind = "action"
      /\ \A name, arg : AV(name, arg).kind = "action"
  BY DEF A, AV
<1> USE <1>1, Effects DEF Does
<1>2. /\ Does(A("push"), t, free(t)) /\ Does(A("pushval"), t, free(t))
      /\ Does(A("push"), mark(t), mark(t))
      /\ Does(A("rollup_list"), mark(t), free(t)) /\ Does(A("rollup_name"), mark(t), free(t))
  BY StackActions
<1>3. Does(A("push"), args(t), args(t))
  BY StackActions DEF args
<1>4. Does(A("bookmark"), t, mark(t))
  BY MarkStands
<1>5. /\ Does(A("dup"), free(t), free(free(t)))
      /\ Does(A("pushval_from_stack"), free(t), t) /\ Does(A("push_signed_val"), free(t), t)
      /\ Does(A("assign"), free(t), t) /\ Does(A("deref"), free(t), t)
      /\ Does(A("infix_op"), t, call(t)) /\ Does(A("call_op"), call(t), t)
  BY TokenActions
<1>6. /\ Does(A("push_token"), t, t) /\ \A op \in Plainly : Does(AV("instruction", op), t, t)
      /\ Does(AV("stash", "0"), t, t) /\ Does(A("pop"), t, t) /\ Does(A("nop"), t, t)
  BY PlainActions
<1>7. /\ Does(A("init_function"), t, args(t)) /\ Does(A("deref_function"), t, args(t))
      /\ Does(A("setup_function"), t, args(t))
      /\ Does(A("setup_constructor"), free(t), args(t))
  BY CallBegins
<1>8. Does(A("func_call"), args(t), t)
  BY CallEnds
<1>9. Does(A("init_query"), t, any(t)) /\ Does(A("query"), any(t), t)
  BY QueryActions
<1>10. Does(A("instruction_bookmark"), t, cut(t))
       /\ Does(A("discard_instruction_bookmark"), cut(t), t)
  BY CutStands, CutTaken
<1>11. /\ Does(A("incr"), any(t), any(t)) /\ Does(A("incr"), args(t), args(t))
       /\ Does(A("incr"), cut(args(t)), cut(args(t)))
  BY CountActions
<1>12. {"PushScope", "Subscript", "Return", "Yield"} \subseteq Plainly
  BY DEF Plainly
<1> HIDE DEF Does
<1> QED BY <1>2, <1>3, <1>4, <1>5, <1>6, <1>7, <1>8, <1>9, <1>10, <1>11, <1>12, DoesLeads

(* ... and those of statements.                                            *)
LEMMA StatementRules ==
  ASSUME NEW t
  PROVE  /\ Leads(A("for"), free(t), lab(loop(t)))
         /\ Leads(A("start_loop"), t, loop(t)) /\ Leads(A("end_loop"), lab(loop(t)), t)
         /\ Leads(A("break"), t, t) /\ Leads(A("continue"), t, t)
         /\ Leads(A("if"), t, lab(t)) /\ Leads(A("test"), t, lab(t))
         /\ Leads(A("elif"), lab(lab(t)), lab(t)) /\ Leads(A("else"), lab(lab(t)), lab(lab(t)))
         /\ Leads(A("end_conditional"), lab(lab(t)), t)
         /\ Leads(A("new_counter"), lab(t), lab(zero(t)))
         /\ Leads(A("discard_counter"), lab(lab(pos(t))), lab(lab(t)))
         /\ Leads(A("case_prolog"), lab(zero(t)), any(lab(pos(t))))
         /\ Leads(A("case_prolog"), lab(lab(pos(t))), any(lab(pos(t))))
         /\ Leads(A("case"), t, t) /\ Leads(A("rollup_cases"), any(t), t)
         /\ Leads(A("start_function"), free(free(free(t))), fn(t))
         /\ Leads(A("native_function"), free(free(free(t))), t)
         /\ Leads(A("end_function"), fn(t), t)
         /\ Leads(A("start_lambda"), free(t), fn(t)) /\ Leads(A("end_lambda"), fn(t), t)
         /\ Leads(A("baseclass_constructors"), t, lab(t))
         /\ Leads(A("end_constructors"), lab(t), t)
         /\ Leads(A("begin_context_block"), t, ctx(t))
         /\ Leads(A("end_context_block"), ctx(free(t)), t)
         /\ Leads(A("throw_exception"), t, t) /\ Leads(A("leave"), t, t)
<1>1. \A name : A(name).kind = "action"
  BY DEF A
<1>2. \A p, s : Stands(p, s) /\ LabelsLeft(p) => Unseen(p)
  BY StandingIs, RoomForTwo
<1> USE <1>1, Effects, StatementEffects DEF Does
<1>3. Does(A("for"), free(t), lab(loop(t)))
  BY ForStands
<1>4. Does(A("start_loop"), t, loop(t)) /\ Does(A("end_loop"), lab(loop(t)), t)
  BY <1>2, LoopBegins, LoopEnds
<1>5. /\ Does(A("break"), t, t) /\ Does(A("continue"), t, t) /\ Does(A("case"), t, t)
      /\ Does(A("throw_exception"), t, t) /\ Does(A("leave"), t, t)
  BY PlainActions
<1>6. Does(A("if"), t, lab(t)) /\ Does(A("test"), t, lab(t))
  BY <1>2, TestStands
<1>7. /\ Does(A("elif"), lab(lab(t)), lab(t)) /\ Does(A("else"), lab(lab(t)), lab(lab(t)))
      /\ Does(A("end_conditional"), lab(lab(t)), t)
  BY ArmEnds, ConditionalEnds
<1>8. /\ Does(A("new_counter"), lab(t), lab(zero(t)))
      /\ Does(A("discard_counter"), lab(lab(pos(t))), lab(lab(t)))
  BY CountActions
<1>9. /\ Does(A("case_prolog"), lab(zero(t)), any(lab(pos(t))))
      /\ Does(A("case_prolog"), lab(lab(pos(t))), any(lab(pos(t))))
      /\ Does(A("rollup_cases"), any(t), t)
  BY CasesBegin, CasesEnd
<1>10. /\ Does(A("start_function"), free(free(free(t))), fn(t))
       /\ Does(A("native_function"), free(free(free(t))), t)
       /\ Does(A("end_function"), fn(t), t)
       /\ Does(A("start_lambda"), free(t), fn(t)) /\ Does(A("end_lambda"), fn(t), t)
  BY FunctionActions
<1>11. Does(A("baseclass_constructors"), t, lab(t)) /\ Does(A("end_constructors"), lab(t), t)
  BY <1>2, ConstructorActions
<1>12. Does(A("begin_context_block"), t, ctx(t)) /\ Does(A("end_context_block"), ctx(free(t)), t)
  BY <1>2, CtxStands, BlockEnds
<1> HIDE DEF Does
<1> QED BY <1>3, <1>4, <1>5, <1>6, <1>7, <1>8, <1>9, <1>10, <1>11, <1>12, DoesLeads

(* The nonterminals lead where they grow to.                               *)
LEMMA NonterminalRules ==
  ASSUME NEW t
  PROVE  /\ Leads(N("statements"), t, t) /\ Leads(N("statement"), t, t)
         /\ Leads(N("expr"), t, t) /\ Leads(N("baseclasses"), t, t)
         /\ Leads(N("baseclass"), t, t) /\ Leads(N("baseclass_tail"), t, t)
         /\ Leads(N("identifier"), t, free(t))
         /\ Leads(N("elif_seq"), lab(lab(t)), lab(lab(t)))
         /\ Leads(N("else"), lab(lab(t)), lab(lab(t)))
         /\ Leads(N("cases"), lab(zero(t)), lab(lab(pos(t))))
         /\ Leads(N("case_block"), lab(zero(t)), lab(lab(pos(t))))
         /\ Leads(N("case_block"), lab(lab(pos(t))), lab(lab(pos(t))))
         /\ Leads(N("cases_seq"), lab(lab(pos(t))), lab(lab(pos(t))))
         /\ Leads(N("case_stmt"), any(t), any(t)) /\ Leads(N("case_stmts"), any(t), any(t))
         /\ Leads(N("arglist"), any(t), any(t)) /\ Leads(N("arglist"), args(t), args(t))
         /\ Leads(N("attrlist"), args(t), args(t))
         /\ Leads(N("func_block"), free(free(free(t))), t)
         /\ Leads(N("assignment_or_empty"), free(t), free(t))
<1>1. \A name : N(name).kind = "nonterminal" /\ N(name).name = name
  BY DEF N
<1> QED BY <1>1, Zenon DEF Leads, Grows, Whatever

(* The empty form.                                                         *)
LEMMA NothingSpelt == \A s : Spells(<<>>, s, s)
<1> SUFFICES ASSUME NEW s PROVE Spells(<<>>, s, s)
  OBVIOUS
<1>1. <<>> \in Seq({}) /\ Len(<<>>) = 0 /\ <<s>>[1] = s /\ 0 + 1 = 1
  OBVIOUS
<1>2. Along(<<>>, <<s>>)
  BY <1>1 DEF Along
<1> QED BY <1>1, <1>2 DEF Spells

\* The shapes on the way through a form.
Reads(form, way, s, t) ==
    /\ form \in Seq({form[i] : i \in 1..Len(form)}) /\ Along(form, way)
    /\ way[1] = s /\ way[Len(form) + 1] = t

(* A form that is read this way leads to its end.                          *)
LEMMA ReadSpells == \A form, way, s, t : Reads(form, way, s, t) => Spells(form, s, t)
BY Zenon DEF Reads, Spells

(* A call of a variable is six symbols.                                    *)
LEMMA CallIs ==
  /\ Var \o Call_ = <<AV("instruction", "PushScope"), N("identifier"), A("deref"),
                      A("init_function"), N("arglist"), A("func_call")>>
  /\ Var \o Call_ \o <<A("pop")>>
       = <<AV("instruction", "PushScope"), N("identifier"), A("deref"),
           A("init_function"), N("arglist"), A("func_call"), A("pop")>>
<1>1. ASSUME NEW a, NEW b, NEW c, NEW d, NEW e, NEW f
      PROVE  <<a, b, c>> \o <<d, e, f>> = <<a, b, c, d, e, f>>
  <2> DEFINE S == {a, b, c, d, e, f}
             s == <<a, b, c>> \o <<d, e, f>>
             r == <<a, b, c, d, e, f>>
  <2>1. <<a, b, c>> \in Seq(S) /\ <<d, e, f>> \in Seq(S)
    OBVIOUS
  <2>2. s \in Seq(S) /\ Len(s) = 6
    BY <2>1
  <2>3. s[1] = a /\ s[2] = b /\ s[3] = c /\ s[4] = d /\ s[5] = e /\ s[6] = f
    OBVIOUS
  <2>4. r \in Seq(S) /\ Len(r) = 6
    OBVIOUS
  <2>5. \A i \in 1..6 : s[i] = r[i]
    BY <2>3
  <2> HIDE DEF S, s, r
  <2>6. s = r
    BY <2>2, <2>4, <2>5
  <2> QED BY <2>6 DEF s, r
<1>2. ASSUME NEW a, NEW b, NEW c, NEW d, NEW e, NEW f, NEW g
      PROVE  <<a, b, c, d, e, f>> \o <<g>> = <<a, b, c, d, e, f, g>>
  <2> DEFINE S == {a, b, c, d, e, f, g}
             s == <<a, b, c, d, e, f>> \o <<g>>
             r == <<a, b, c, d, e, f, g>>
  <2>1. <<a, b, c, d, e, f>> \in Seq(S) /\ <<g>> \in Seq(S)
    OBVIOUS
  <2>2. s \in Seq(S) /\ Len(s) = 7
    BY <2>1
  <2>3. s[1] = a /\ s[2] = b /\ s[3] = c /\ s[4] = d /\ s[5] = e /\ s[6] = f /\ s[7] = g
    OBVIOUS
  <2>4. r \in Seq(S) /\ Len(r) = 7
    OBVIOUS
  <2>5. \A i \in 1..7 : s[i] = r[i]
    BY <2>3
  <2> HIDE DEF S, s, r
  <2>6. s = r
    BY <2>2, <2>4, <2>5
  <2> QED BY <2>6 DEF s, r
<1>3. Var \o Call_ = <<AV("instruction", "PushScope"), N("identifier"), A("deref"),
                      A("init_function"), N("arglist"), A("func_call")>>
  BY <1>1 DEF Var, Call_
<1> QED BY <1>2, <1>3, Zenon

(* A switch: its end label, the counter of its cases, the label of the     *)
(* next arm.                                                               *)
LEMMA SwitchSpells ==
  ASSUME NEW t
  PROVE  Spells(StatementForms["switch"], t, t)
<1> DEFINE form == <<A("if"), N("expr"), AV("stash", "0"), A("new_counter"), N("cases"),
                     A("else"), N("statements"), A("discard_counter"), A("end_conditional")>>
           l == lab(t)
           m == lab(lab(pos(t)))
           way == <<t, l, l, l, lab(zero(t)), m, m, m, lab(l), t>>
<1>1. /\ Leads(A("if"), t, l) /\ Leads(N("expr"), l, l) /\ Leads(AV("stash", "0"), l, l)
      /\ Leads(A("new_counter"), l, lab(zero(t))) /\ Leads(N("cases"), lab(zero(t)), m)
      /\ Leads(A("else"), m, m) /\ Leads(N("statements"), m, m)
      /\ Leads(A("discard_counter"), m, lab(l)) /\ Leads(A("end_conditional"), lab(l), t)
  BY ExpressionRules, StatementRules, NonterminalRules
<1>2. Along(form, way)
  <2> HIDE DEF l, m
  <2> QED BY <1>1 DEF Along
<1>3. form \in Seq({form[i] : i \in 1..Len(form)})
  OBVIOUS
<1>4. way[1] = t /\ way[Len(form) + 1] = t
  OBVIOUS
<1>5. StatementForms["switch"] = form
  BY DEF StatementForms
<1> HIDE DEF form, way
<1>6. Reads(form, way, t, t)
  BY <1>2, <1>3, <1>4 DEF Reads
<1> QED BY <1>5, <1>6, ReadSpells

(* Statements leave everything as it was.                                  *)
LEMMA StatementsSpell ==
  ASSUME NEW t, NEW s \in DOMAIN StatementForms
  PROVE  Spells(StatementForms[s], t, t)
<1> USE ExpressionRules, StatementRules, NonterminalRules
<1>1. Reads(StatementForms["conditional"],
            <<t, lab(t), lab(t), lab(lab(t)), lab(lab(t)), lab(lab(t)), lab(lab(t)), t>>, t, t)
  BY DEF Reads, Along, StatementForms
<1>2. Reads(StatementForms["while_loop"],
            <<t, loop(t), loop(t), lab(loop(t)), lab(loop(t)), t>>, t, t)
  BY DEF Reads, Along, StatementForms
<1>3. Reads(StatementForms["for_loop"],
            <<t, free(t), free(t), lab(loop(t)), lab(loop(t)), t>>, t, t)
  BY DEF Reads, Along, StatementForms
<1>4. Reads(StatementForms["break"], <<t, t>>, t, t)
      /\ Reads(StatementForms["continue"], <<t, t>>, t, t)
  BY DEF Reads, Along, StatementForms
<1>5. Reads(StatementForms["func_def"],
            <<t, free(t), free(free(t)), mark(free(free(t))), free(free(free(t))), t>>, t, t)
  BY DEF Reads, Along, StatementForms
<1>6. Reads(StatementForms["return_stmt"], <<t, t, t>>, t, t)
      /\ Reads(StatementForms["yield_stmt"], <<t, t, t>>, t, t)
  BY DEF Reads, Along, StatementForms
<1>7. Reads(StatementForms["import_stmt"],
            <<t, args(t), args(t), free(args(t)), args(t), t, t>>, t, t)
  BY DEF Reads, Along, StatementForms
<1>8. Reads(New, <<t, args(t), args(t), free(args(t)), args(t), args(t), t>>, t, t)
  BY DEF Reads, Along, New
<1>9. Reads(StatementForms["context_block"],
            <<t, free(t), free(t), ctx(free(t)), ctx(free(t)), t>>, t, t)
  BY DEF Reads, Along, StatementForms
<1>10. Reads(StatementForms["throw"], <<t, t, t>>, t, t)
       /\ Reads(StatementForms["leave"], <<t, t>>, t, t)
       /\ Reads(StatementForms["pass"], <<t, t>>, t, t)
  BY DEF Reads, Along, StatementForms
<1>11. Reads(StatementForms["assignment"], <<t, free(t), free(t), t>>, t, t)
       /\ Reads(StatementForms["standalone_expr"], <<t, t>>, t, t)
  BY DEF Reads, Along, StatementForms
<1>12. Reads(StatementForms["call"], <<t, t, free(t), t, args(t), args(t), t, t>>, t, t)
  <2>1. StatementForms["call"] = <<AV("instruction", "PushScope"), N("identifier"), A("deref"),
                                   A("init_function"), N("arglist"), A("func_call"), A("pop")>>
    <3>1. StatementForms["call"] = Var \o Call_ \o <<A("pop")>>
      BY DEF StatementForms
    <3> QED BY <3>1, CallIs
  <2> QED BY <2>1 DEF Reads, Along
<1>13. StatementForms["new"] = New
  BY DEF StatementForms
<1>14. s \in {"conditional", "while_loop", "for_loop", "break", "continue", "switch",
              "func_def", "return_stmt", "yield_stmt", "import_stmt", "new",
              "context_block", "throw", "leave", "pass", "assignment", "call",
              "standalone_expr"}
  BY DEF StatementForms
<1> QED
  BY <1>1, <1>2, <1>3, <1>4, <1>5, <1>6, <1>7, <1>8, <1>9, <1>10, <1>11, <1>12, <1>13, <1>14,
     ReadSpells, SwitchSpells, Zenon

(* So do expressions, but for reductions and comprehensions.               *)
LEMMA ExpressionsSpell ==
  ASSUME NEW t, NEW e \in DOMAIN ExprForms \ {"reduction", "comprehension"}
  PROVE  Spells(ExprForms[e], t, t)
<1> USE ExpressionRules, StatementRules, NonterminalRules
<1>1. Reads(Var, <<t, t, free(t), t>>, t, t)
  BY DEF Reads, Along, Var
<1>2. Reads(ExprForms["call"], <<t, t, free(t), t, args(t), args(t), t>>, t, t)
  <2>1. ExprForms["call"] = Var \o Call_
    BY DEF ExprForms
  <2> QED BY <2>1, CallIs DEF Reads, Along
<1>3. Reads(ExprForms["operation"], <<t, t, call(t), call(t), t>>, t, t)
  BY DEF Reads, Along, ExprForms
<1>4. Reads(ExprForms["ternary"],
            <<t, t, lab(t), lab(lab(t)), lab(lab(t)), lab(lab(t)), lab(lab(t)), t>>, t, t)
  BY DEF Reads, Along, ExprForms
<1>5. Reads(ExprForms["subscript"], <<t, t, t, t>>, t, t)
      /\ Reads(ExprForms["signed_number"], <<t, free(t), t>>, t, t)
      /\ Reads(ExprForms["empty_list"], <<t, args(t), t>>, t, t)
  BY DEF Reads, Along, ExprForms
<1>6. Reads(ExprForms["list"],
            <<t, args(t), cut(args(t)), cut(args(t)), cut(args(t)), args(t), args(t), t>>, t, t)
  BY DEF Reads, Along, ExprForms
<1>7. Reads(ExprForms["dict"], <<t, args(t), args(t), t>>, t, t)
      /\ Reads(ExprForms["query"], <<t, any(t), any(t), t>>, t, t)
  BY DEF Reads, Along, ExprForms
<1>8. Reads(ExprForms["lambda"], <<t, mark(t), free(t), fn(t), fn(t), t>>, t, t)
  BY DEF Reads, Along, ExprForms
<1>9. Reads(New, <<t, args(t), args(t), free(args(t)), args(t), args(t), t>>, t, t)
  BY DEF Reads, Along, New
<1>10. ExprForms["new"] = New /\ ExprForms["variable"] = Var
  BY DEF ExprForms
<1>11. e \in {"variable", "call", "operation", "ternary", "subscript", "signed_number",
              "empty_list", "list", "dict", "query", "lambda", "new"}
  BY DEF ExprForms
<1> QED
  BY <1>1, <1>2, <1>3, <1>4, <1>5, <1>6, <1>7, <1>8, <1>9, <1>10, <1>11, ReadSpells, Zenon

(* The rules of the other nonterminals: lists and optional parts ...       *)
LEMMA ListsSpell ==
  ASSUME NEW t
  PROVE  /\ Spells(<<N("statement"), N("statements")>>, t, t)
         /\ Spells(<<A("push_token")>>, t, t)
         /\ Spells(<<A("bookmark"), A("push"), A("rollup_name")>>, t, free(t))
         /\ Spells(<<A("dup"), N("expr"), A("assign")>>, free(t), free(t))
         /\ Spells(<<N("expr"), A("incr"), N("arglist")>>, any(t), any(t))
         /\ Spells(<<N("expr"), A("incr"), N("arglist")>>, args(t), args(t))
         /\ Spells(<<A("push"), N("expr"), N("attrlist")>>, args(t), args(t))
<1> USE ExpressionRules, StatementRules, NonterminalRules DEF Reads, Along
<1>1. Reads(<<N("statement"), N("statements")>>, <<t, t, t>>, t, t)
      /\ Reads(<<A("push_token")>>, <<t, t>>, t, t)
  OBVIOUS
<1>2. Reads(<<A("bookmark"), A("push"), A("rollup_name")>>,
            <<t, mark(t), mark(t), free(t)>>, t, free(t))
  OBVIOUS
<1>3. Reads(<<A("dup"), N("expr"), A("assign")>>,
            <<free(t), free(free(t)), free(free(t)), free(t)>>, free(t), free(t))
  OBVIOUS
<1>4. Reads(<<N("expr"), A("incr"), N("arglist")>>,
            <<any(t), any(t), any(t), any(t)>>, any(t), any(t))
  OBVIOUS
<1>5. Reads(<<N("expr"), A("incr"), N("arglist")>>,
            <<args(t), args(t), args(t), args(t)>>, args(t), args(t))
  OBVIOUS
<1>6. Reads(<<A("push"), N("expr"), N("attrlist")>>,
            <<args(t), args(t), args(t), args(t)>>, args(t), args(t))
  OBVIOUS
<1> HIDE DEF Reads
<1> QED BY <1>1, <1>2, <1>3, <1>4, <1>5, <1>6, ReadSpells, Zenon

(* ... conditionals, switches and functions.                               *)
LEMMA PartsSpell ==
  ASSUME NEW t
  PROVE  /\ Spells(<<A("elif"), N("expr"), A("test"), N("statements"), N("elif_seq")>>,
                   lab(lab(t)), lab(lab(t)))
         /\ Spells(<<A("else"), N("statements")>>, lab(lab(t)), lab(lab(t)))
         /\ Spells(<<N("case_block"), N("cases_seq")>>, lab(zero(t)), lab(lab(pos(t))))
         /\ Spells(<<N("case_block"), N("cases_seq")>>, lab(lab(pos(t))), lab(lab(pos(t))))
         /\ Spells(<<N("case_stmt"), N("case_stmts")>>, any(t), any(t))
         /\ Spells(<<A("incr"), N("expr"), A("case")>>, any(t), any(t))
         /\ Spells(<<A("start_function"), N("baseclasses"), N("statements"),
                     A("end_function")>>, free(free(free(t))), t)
         /\ Spells(<<A("native_function")>>, free(free(free(t))), t)
         /\ Spells(<<A("baseclass_constructors"), N("baseclass"), N("baseclass_tail"),
                     A("end_constructors")>>, t, t)
         /\ Spells(<<N("identifier"), A("setup_constructor"), N("arglist"),
                     A("func_call")>>, t, t)
         /\ Spells(<<N("baseclass"), N("baseclass_tail")>>, t, t)
<1> USE ExpressionRules, StatementRules, NonterminalRules DEF Reads, Along
<1>1. Reads(<<A("elif"), N("expr"), A("test"), N("statements"), N("elif_seq")>>,
            <<lab(lab(t)), lab(t), lab(t), lab(lab(t)), lab(lab(t)), lab(lab(t))>>,
            lab(lab(t)), lab(lab(t)))
  OBVIOUS
<1>2. Reads(<<A("else"), N("statements")>>, <<lab(lab(t)), lab(lab(t)), lab(lab(t))>>,
            lab(lab(t)), lab(lab(t)))
  OBVIOUS
<1>3. Reads(<<N("case_block"), N("cases_seq")>>,
            <<lab(zero(t)), lab(lab(pos(t))), lab(lab(pos(t)))>>, lab(zero(t)), lab(lab(pos(t))))
  OBVIOUS
<1>4. Reads(<<N("case_block"), N("cases_seq")>>,
            <<lab(lab(pos(t))), lab(lab(pos(t))), lab(lab(pos(t)))>>,
            lab(lab(pos(t))), lab(lab(pos(t))))
  OBVIOUS
<1>5. Reads(<<N("case_stmt"), N("case_stmts")>>, <<any(t), any(t), any(t)>>, any(t), any(t))
      /\ Reads(<<A("incr"), N("expr"), A("case")>>, <<any(t), any(t), any(t), any(t)>>,
               any(t), any(t))
  OBVIOUS
<1>6. Reads(<<A("start_function"), N("baseclasses"), N("statements"), A("end_function")>>,
            <<free(free(free(t))), fn(t), fn(t), fn(t), t>>, free(free(free(t))), t)
      /\ Reads(<<A("native_function")>>, <<free(free(free(t))), t>>, free(free(free(t))), t)
  OBVIOUS
<1>7. Reads(<<A("baseclass_constructors"), N("baseclass"), N("baseclass_tail"),
              A("end_constructors")>>, <<t, lab(t), lab(t), lab(t), t>>, t, t)
  OBVIOUS
<1>8. Reads(<<N("identifier"), A("setup_constructor"), N("arglist"), A("func_call")>>,
            <<t, free(t), args(t), args(t), t>>, t, t)
      /\ Reads(<<N("baseclass"), N("baseclass_tail")>>, <<t, t, t>>, t, t)
  OBVIOUS
<1> HIDE DEF Reads
<1> QED BY <1>1, <1>2, <1>3, <1>4, <1>5, <1>6, <1>7, <1>8, ReadSpells, Zenon

(* A list of cases with the statements it leads to.                        *)
LEMMA CasesSpell ==
  ASSUME NEW t, NEW s \in {lab(zero(t)), lab(lab(pos(t)))}
  PROVE  Spells(<<A("case_prolog"), N("case_stmt"), N("case_stmts"), A("rollup_cases"),
                  A("test"), N("statements")>>, s, lab(lab(pos(t))))
<1>1. Reads(<<A("case_prolog"), N("case_stmt"), N("case_stmts"), A("rollup_cases"),
              A("test"), N("statements")>>,
            <<s, any(lab(pos(t))), any(lab(pos(t))), any(lab(pos(t))), lab(pos(t)),
              lab(lab(pos(t))), lab(lab(pos(t)))>>, s, lab(lab(pos(t))))
  BY ExpressionRules, StatementRules, NonterminalRules DEF Reads, Along
<1> QED BY <1>1, ReadSpells

(* The forms of each nonterminal.                                          *)
LEMMA ProductionsAre ==
  /\ Productions["statements"] = {<<>>, <<N("statement"), N("statements")>>}
  /\ Productions["statement"] = {StatementForms[s] : s \in Statements}
  /\ Productions["expr"] = {<<A("push_token")>>} \cup {ExprForms[e] : e \in Exprs}
  /\ Productions["identifier"] = {<<A("bookmark"), A("push"), A("rollup_name")>>}
  /\ Productions["elif_seq"] = {<<>>, <<A("elif"), N("expr"), A("test"), N("statements"),
                                        N("elif_seq")>>}
  /\ Productions["else"] = {<<>>, <<A("else"), N("statements")>>}
  /\ Productions["cases"] = {<<N("case_block"), N("cases_seq")>>} \cup Option("no_case", <<>>)
  /\ Productions["cases_seq"] = {<<>>, <<N("case_block"), N("cases_seq")>>}
  /\ Productions["case_block"] = {<<A("case_prolog"), N("case_stmt"), N("case_stmts"),
                                    A("rollup_cases"), A("test"), N("statements")>>}
  /\ Productions["case_stmts"]
       = {<<>>} \cup Option("case_list", <<N("case_stmt"), N("case_stmts")>>)
  /\ Productions["case_stmt"] = {<<A("incr"), N("expr"), A("case")>>}
  /\ Productions["func_block"] = {<<A("start_function"), N("baseclasses"), N("statements"),
                                    A("end_function")>>, <<A("native_function")>>}
  /\ Productions["baseclasses"]
       = {<<>>} \cup Option("baseclasses", <<A("baseclass_constructors"), N("baseclass"),
                                             N("baseclass_tail"), A("end_constructors")>>)
  /\ Productions["baseclass"] = {<<N("identifier"), A("setup_constructor"), N("arglist"),
                                   A("func_call")>>}
  /\ Productions["baseclass_tail"] = {<<>>, <<N("baseclass"), N("baseclass_tail")>>}
  /\ Productions["assignment_or_empty"] = {<<>>, <<A("dup"), N("expr"), A("assign")>>}
  /\ Productions["arglist"] = {<<>>, <<N("expr"), A("incr"), N("arglist")>>}
  /\ Productions["attrlist"] = {<<>>, <<A("push"), N("expr"), N("attrlist")>>}
BY DEF Productions

\* Neither reductions nor comprehensions.
Neat(name, form) ==
    name = "expr" => \/ form = <<A("push_token")>>
                     \/ \E e \in DOMAIN ExprForms \ {"reduction", "comprehension"} :
                           form = ExprForms[e]

(* Every form leads where its nonterminal grows to.                        *)
LEMMA ProductionsSpell ==
  ASSUME NEW name, NEW s, NEW t, Grows(name, s, t), NEW form \in Productions[name],
         Neat(name, form), "no_case" \notin Options
  PROVE  Spells(form, s, t)
<1>1. ASSUME name \in Whatever, t = s PROVE Spells(form, s, t)
  <2>1. CASE name = "statements"
    BY <1>1, <2>1, ListsSpell, ProductionsAre, NothingSpelt DEF Option
  <2>2. CASE name = "statement"
    BY <1>1, <2>2, StatementsSpell, FormsAssumption, ProductionsAre, NothingSpelt DEF Option
  <2>3. CASE name = "expr"
    BY <1>1, <2>3, ListsSpell, ExpressionsSpell, ProductionsAre, NothingSpelt DEF Neat, Option
  <2>4. CASE name \in {"baseclasses", "baseclass", "baseclass_tail"}
    BY <1>1, <2>4, PartsSpell, ProductionsAre, NothingSpelt DEF Option
  <2> QED BY <1>1, <2>1, <2>2, <2>3, <2>4 DEF Whatever
<1>2. ASSUME name = "identifier", t = free(s) PROVE Spells(form, s, t)
  BY <1>2, ListsSpell, ProductionsAre, NothingSpelt DEF Option
<1>3. ASSUME NEW r, name \in {"elif_seq", "else"}, s = lab(lab(r)), t = s
      PROVE  Spells(form, s, t)
  BY <1>3, PartsSpell, ProductionsAre, NothingSpelt DEF Option
<1>4. ASSUME NEW r, name = "cases", s = lab(zero(r)), t = lab(lab(pos(r)))
      PROVE  Spells(form, s, t)
  BY <1>4, PartsSpell, ProductionsAre, NothingSpelt DEF Option
<1>5. ASSUME NEW r, name = "case_block", s \in {lab(zero(r)), lab(lab(pos(r)))},
             t = lab(lab(pos(r)))
      PROVE  Spells(form, s, t)
  BY <1>5, CasesSpell, ProductionsAre, NothingSpelt DEF Option
<1>6. ASSUME NEW r, name = "cases_seq", s = lab(lab(pos(r))), t = s PROVE Spells(form, s, t)
  BY <1>6, PartsSpell, ProductionsAre, NothingSpelt DEF Option
<1>7. ASSUME NEW r, name \in {"case_stmt", "case_stmts"}, s = any(r), t = s
      PROVE  Spells(form, s, t)
  BY <1>7, PartsSpell, ProductionsAre, NothingSpelt DEF Option
<1>8. ASSUME NEW r, name = "arglist", s \in {any(r), args(r)}, t = s PROVE Spells(form, s, t)
  BY <1>8, ListsSpell, ProductionsAre, NothingSpelt DEF Option
<1>9. ASSUME NEW r, name = "attrlist", s = args(r), t = s PROVE Spells(form, s, t)
  BY <1>9, ListsSpell, ProductionsAre, NothingSpelt DEF Option
<1>10. ASSUME NEW r, name = "func_block", s = free(free(free(r))), t = r
       PROVE  Spells(form, s, t)
  BY <1>10, PartsSpell, ProductionsAre, NothingSpelt DEF Option
<1>11. ASSUME NEW r, name = "assignment_or_empty", s = free(r), t = s PROVE Spells(form, s, t)
  BY <1>11, ListsSpell, ProductionsAre, NothingSpelt DEF Option
<1>12. ASSUME NEW r,
              \/ name \in {"elif_seq", "else"} /\ s = lab(lab(r)) /\ t = s
              \/ name = "cases" /\ s = lab(zero(r)) /\ t = lab(lab(pos(r)))
              \/ name = "case_block" /\ s = lab(zero(r)) /\ t = lab(lab(pos(r)))
              \/ name \in {"case_block", "cases_seq"} /\ s = lab(lab(pos(r))) /\ t = s
              \/ name \in {"case_stmt", "case_stmts", "arglist"} /\ s = any(r) /\ t = s
              \/ name \in {"arglist", "attrlist"} /\ s = args(r) /\ t = s
              \/ name = "func_block" /\ s = free(free(free(r))) /\ t = r
              \/ name = "assignment_or_empty" /\ s = free(r) /\ t = s
       PROVE  Spells(form, s, t)
  BY <1>3, <1>4, <1>5, <1>6, <1>7, <1>8, <1>9, <1>10, <1>11, <1>12
<1> QED BY <1>1, <1>2, <1>12, Zenon DEF Grows

-----------------------------------------------------------------------------
(* The production stack: its symbols take the shape s to the end.          *)
Finishes(symbols, s) ==
    \E S, way : /\ symbols \in Seq(S) /\ symbols # <<>>
                /\ symbols[Len(symbols)] = A("done")
                /\ way[1] = s /\ way[Len(symbols)] = <<>>
                /\ \A i \in 1..(Len(symbols) - 1) : Leads(symbols[i], way[i], way[i + 1])

(* The first symbol takes the shape to one that the others finish.         *)
LEMMA FirstFinishes ==
  ASSUME NEW symbols, NEW s, Finishes(symbols, s)
  PROVE  \/ symbols = <<A("done")>> /\ s = <<>>
         \/ \E t : Leads(Head(symbols), s, t) /\ Finishes(Tail(symbols), t)
<1>1. PICK S, way : /\ symbols \in Seq(S) /\ symbols # <<>>
                    /\ symbols[Len(symbols)] = A("done")
                    /\ way[1] = s /\ way[Len(symbols)] = <<>>
                    /\ \A i \in 1..(Len(symbols) - 1) : Leads(symbols[i], way[i], way[i + 1])
  BY DEF Finishes
<1> DEFINE n == Len(symbols)
           rest == Tail(symbols)
           w == [i \in 1..n |-> way[i + 1]]
<1>2. /\ rest \in Seq(S) /\ Len(rest) = n - 1 /\ Head(symbols) = symbols[1] /\ n \in Nat \ {0}
      /\ \A i \in 1..(n - 1) : rest[i] = symbols[i + 1]
  BY <1>1, HeadAndTail
<1>3. CASE n = 1
  <2>1. symbols = <<A("done")>>
    BY <1>1, <1>2, <1>3
  <2> QED BY <1>1, <1>3, <2>1
<1>4. CASE n # 1
  <2>1. \A i \in 1..n : w[i] = way[i + 1]
    OBVIOUS
  <2>2. 1 \in 1..(n - 1) /\ 1 \in 1..n /\ n - 1 \in 1..(n - 1) /\ n - 1 \in 1..n
        /\ (n - 1) + 1 = n /\ 1 + 1 = 2
    BY <1>2, <1>4
  <2> HIDE DEF w, rest
  <2>3. Leads(Head(symbols), s, w[1])
    <3>1. Leads(symbols[1], way[1], way[1 + 1]) /\ w[1] = way[1 + 1]
      BY <1>1, <2>1, <2>2 DEF n
    <3> QED BY <1>1, <1>2, <3>1
  <2>4. rest[Len(rest)] = A("done") /\ w[Len(rest)] = <<>> /\ rest # <<>>
    <3>1. rest[n - 1] = symbols[(n - 1) + 1] /\ w[n - 1] = way[(n - 1) + 1]
      BY <1>2, <2>1, <2>2
    <3> QED BY <1>1, <1>2, <1>4, <2>2, <3>1 DEF n
  <2>5. ASSUME NEW i \in 1..(Len(rest) - 1) PROVE Leads(rest[i], w[i], w[i + 1])
    <3>1. i \in 1..(n - 1) /\ i + 1 \in 1..(n - 1) /\ i \in 1..n /\ i + 1 \in 1..n
      BY <1>2
    <3>2. Leads(symbols[i + 1], way[i + 1], way[(i + 1) + 1])
      BY <1>1, <3>1 DEF n
    <3>3. rest[i] = symbols[i + 1] /\ w[i] = way[i + 1] /\ w[i + 1] = way[(i + 1) + 1]
      BY <1>2, <2>1, <3>1
    <3> QED BY <3>2, <3>3
  <2>6. Finishes(rest, w[1])
    BY <1>2, <2>4, <2>5 DEF Finishes
  <2> QED BY <2>3, <2>6 DEF rest
<1> QED BY <1>3, <1>4

(* A form may stand for a nonterminal that it spells.                      *)
LEMMA FormFinishes ==
  ASSUME NEW form, NEW s, NEW t, Spells(form, s, t), NEW rest, Finishes(rest, t)
  PROVE  Finishes(form \o rest, s)
<1>1. PICK S, way : /\ form \in Seq(S) /\ Along(form, way)
                    /\ way[1] = s /\ way[Len(form) + 1] = t
  BY DEF Spells
<1>2. PICK R, path : /\ rest \in Seq(R) /\ rest # <<>> /\ rest[Len(rest)] = A("done")
                     /\ path[1] = t /\ path[Len(rest)] = <<>>
                     /\ \A i \in 1..(Len(rest) - 1) : Leads(rest[i], path[i], path[i + 1])
  BY DEF Finishes
<1> DEFINE Q == S \cup R
           m == Len(form)
           n == Len(rest)
           all == form \o rest
           w == [i \in 1..(m + n) |-> IF i <= m THEN way[i] ELSE path[i - m]]
<1>3. m \in Nat /\ n \in Nat \ {0} /\ form \in Seq(Q) /\ rest \in Seq(Q)
  BY <1>1, <1>2
<1> HIDE DEF Q
<1>4. /\ all \in Seq(Q) /\ Len(all) = m + n
      /\ \A i \in 1..m : all[i] = form[i]
      /\ \A i \in (m + 1)..(m + n) : all[i] = rest[i - m]
  BY <1>3
<1>5. /\ \A i \in 1..m : w[i] = way[i]
      /\ \A i \in (m + 1)..(m + n) : w[i] = path[i - m]
  BY <1>3
<1>6. w[m + 1] = t /\ w[1] = s /\ w[m + n] = <<>> /\ all[m + n] = A("done") /\ all # <<>>
  <2>1. m + 1 \in (m + 1)..(m + n) /\ m + n \in (m + 1)..(m + n)
        /\ (m + 1) - m = 1 /\ (m + n) - m = n
    BY <1>3
  <2> HIDE DEF w, all
  <2>2. w[m + 1] = t /\ w[m + n] = <<>> /\ all[m + n] = A("done")
    <3>1. w[m + 1] = path[1] /\ w[m + n] = path[n] /\ all[m + n] = rest[n]
      BY <1>4, <1>5, <2>1
    <3> QED BY <1>2, <3>1 DEF n
  <2>3. w[1] = s
    <3>1. CASE m = 0
      BY <1>1, <2>2, <3>1 DEF m
    <3>2. CASE m # 0
      BY <1>1, <1>3, <1>5, <3>2 DEF m
    <3> QED BY <3>1, <3>2
  <2> QED BY <1>3, <1>4, <2>2, <2>3
<1> HIDE DEF w, all
<1>7. ASSUME NEW i \in 1..(m + n - 1) PROVE Leads(all[i], w[i], w[i + 1])
  <2>1. CASE i \in 1..m
    <3>1. Leads(form[i], way[i], way[i + 1])
      BY <1>1, <2>1 DEF Along, m
    <3>2. w[i + 1] = way[i + 1]
      <4>1. CASE i = m
        BY <1>1, <1>6, <4>1 DEF m
      <4>2. CASE i # m
        <5>1. i + 1 \in 1..m
          BY <1>3, <2>1, <4>2
        <5> QED BY <1>5, <5>1
      <4> QED BY <4>1, <4>2
    <3> QED BY <1>4, <1>5, <2>1, <3>1, <3>2
  <2>2. CASE i \notin 1..m
    <3> DEFINE j == i - m
    <3>1. j \in 1..(n - 1) /\ i \in (m + 1)..(m + n) /\ i + 1 \in (m + 1)..(m + n)
          /\ i - m = j /\ (i + 1) - m = j + 1
      BY <1>3, <2>2
    <3> HIDE DEF j
    <3>2. Leads(rest[j], path[j], path[j + 1])
      BY <1>2, <3>1 DEF n
    <3>3. all[i] = rest[j] /\ w[i] = path[j] /\ w[i + 1] = path[j + 1]
      BY <1>4, <1>5, <3>1
    <3> QED BY <3>2, <3>3
  <2> QED BY <2>1, <2>2
<1>8. Finishes(all, s)
  <2>1. \A i \in 1..(Len(all) - 1) : Leads(all[i], w[i], w[i + 1])
    BY <1>4, <1>7
  <2>2. all[Len(all)] = A("done") /\ w[Len(all)] = <<>>
    BY <1>4, <1>6
  <2> QED BY <1>4, <1>6, <2>1, <2>2 DEF Finishes
<1> QED BY <1>8 DEF all

-----------------------------------------------------------------------------
(* The specification.  No form was used that spoils the shape.             *)
Spoilers == {"reduction", "comprehension"}
Sober == used \cap Spoilers = {} \/ Spoilers \cap Exprs = {}

\* Nothing is left on the parser, and what it has finished is whole.
Settles(p) ==
    /\ p.stack = <<>> /\ p.bookmarks = <<>> /\ p.counters = <<>> /\ p.aborted = FALSE
    /\ \A i \in DOMAIN p.finished : Whole(p.finished[i])

\* The symbols that are left take the parser to its end, or it is there.
OnCourse ==
    /\ todo # <<>> => \E s : Stands(parser, s) /\ Finishes(todo, s)
    /\ todo = <<>> => Settles(parser)

Course == Sober => OnCourse

(* script_parse_init (scriptparse.c:147) -- the parser of a new script.    *)
LEMMA InitStands == Stands(script_parse_init, <<>>)
<1> DEFINE b == bytecode_push_instruction(bytecode_create, Enter("ERROR", FALSE))
           r == [stack |-> <<>>, bookmarks |-> <<>>, counters |-> <<>>,
                 constructor |-> FALSE, varargs |-> FALSE, aborted |-> FALSE,
                 scripts |-> <<bytecode_create>>, finished |-> <<>>, labels |-> {}]
           q == [r EXCEPT !.scripts = <<b>>]
<1>1. Written(b, Fresh, {"ERROR"}) /\ b \in Bytecodes
  <2>1. Written(b, Fresh, {"ERROR"})
    BY FreshIsWritten
  <2> QED BY <2>1 DEF Written, Fits
<1>2. script_parse_init = q
  <2>1. Bytecode(r) = bytecode_create /\ <<b>> \o Tail(r.scripts) = <<b>>
    <3>1. r.scripts = <<bytecode_create>> /\ Head(r.scripts) = bytecode_create
      OBVIOUS
    <3> HIDE DEF r, b
    <3>2. \A x : Tail(<<x>>) = <<>> /\ <<b>> \o <<>> = <<b>>
      OBVIOUS
    <3> QED BY <3>1, <3>2 DEF Bytecode
  <2> HIDE DEF b
  <2>2. push_instruction(r, Enter("ERROR", FALSE)) = [r EXCEPT !.scripts = <<b>> \o Tail(@)]
    BY <2>1 DEF push_instruction, WithBytecode, b
  <2>3. [r EXCEPT !.scripts = <<b>> \o Tail(@)] = q
    BY <2>1
  <2> QED BY <2>2, <2>3 DEF script_parse_init, _script_parse_prolog
<1> HIDE DEF b
<1>3. /\ q.stack = <<>> /\ q.bookmarks = <<>> /\ q.counters = <<>> /\ q.constructor = FALSE
      /\ q.varargs = FALSE /\ q.aborted = FALSE /\ q.scripts = <<b>> /\ q.finished = <<>>
      /\ q.labels = {} /\ q \in Parsers
  <2>1. <<b>> \in Seq(Bytecodes) /\ <<>> \in Seq(Bytecodes) /\ <<>> \in Seq(Items)
        /\ <<>> \in Seq(Nat) /\ {} \in SUBSET LabelNames
    BY <1>1
  <2> QED BY <2>1 DEF Parsers
<1> HIDE DEF q
<1>4. Shows(q, Bottom)
  <2>1. Given(q) = {"ERROR"}
    BY <1>3 DEF Given
  <2>2. /\ Bottom.stack = <<>> /\ Bottom.bookmarks = <<>> /\ Bottom.counters = <<>>
        /\ Bottom.funs = <<Fresh>> /\ Bottom \in Layouts
    BY BottomHolds DEF Bottom
  <2>3. Len(<<b>>) = 1 /\ Len(<<Fresh>>) = 1 /\ Len(<<>>) = 0
        /\ \A i \in 1..1 : <<b>>[i] = b /\ <<Fresh>>[i] = Fresh
    OBVIOUS
  <2> QED BY <1>1, <1>3, <2>1, <2>2, <2>3 DEF Shows
<1> QED BY <1>2, <1>4, BottomHolds DEF Stands

(* In the beginning a whole script is to come.                             *)
LEMMA InitOnCourse == Init => Course
<1> SUFFICES ASSUME Init PROVE OnCourse
  BY DEF Course
<1>1. parser = script_parse_init /\ todo = <<N("statements"), A("done")>>
  BY DEF Init, CompilerInit
<1> DEFINE symbols == <<N("statements"), A("done")>>
           way == <<<<>>, <<>>>>
<1>2. Leads(N("statements"), <<>>, <<>>)
  BY NonterminalRules
<1>3. /\ symbols \in Seq({N("statements"), A("done")}) /\ Len(symbols) = 2
      /\ symbols # <<>> /\ symbols[1] = N("statements") /\ symbols[2] = A("done")
      /\ way[1] = <<>> /\ way[2] = <<>>
  OBVIOUS
<1> HIDE DEF symbols, way
<1>4. ASSUME NEW i \in 1..(Len(symbols) - 1) PROVE Leads(symbols[i], way[i], way[i + 1])
  <2>1. i = 1 /\ i + 1 = 2
    BY <1>3
  <2> QED BY <1>2, <1>3, <2>1
<1>5. Finishes(symbols, <<>>)
  BY <1>3, <1>4 DEF Finishes
<1> QED BY <1>1, <1>3, <1>5, InitStands DEF OnCourse, symbols

(* parser.c -- a rule takes the place of a nonterminal.                    *)
LEMMA ExpandOnCourse ==
  ASSUME "no_case" \notin Options, OnCourse,
         todo # <<>>, Head(todo).kind = "nonterminal",
         NEW form \in Productions[Head(todo).name], Neat(Head(todo).name, form),
         todo' = form \o Tail(todo), parser' = parser
  PROVE  OnCourse'
<1>1. PICK s : Stands(parser, s) /\ Finishes(todo, s)
  BY DEF OnCourse
<1>2. A("done").kind = "action" /\ Head(<<A("done")>>) = A("done")
  BY DEF A
<1>3. PICK t : Leads(Head(todo), s, t) /\ Finishes(Tail(todo), t)
  BY <1>1, <1>2, FirstFinishes
<1>4. Grows(Head(todo).name, s, t)
  BY <1>3, Zenon DEF Leads, Does
<1>5. Spells(form, s, t)
  BY <1>4, ProductionsSpell
<1>6. Finishes(form \o Tail(todo), s)
  BY <1>3, <1>5, FormFinishes
<1>7. form \o Tail(todo) # <<>>
  BY <1>6 DEF Finishes
<1> QED BY <1>1, <1>6, <1>7 DEF OnCourse

(* scriptparse.c -- an action runs.                                        *)
LEMMA RunOnCourse ==
  ASSUME OnCourse, Run
  PROVE  OnCourse'
<1>1. /\ todo # <<>> /\ Head(todo).kind = "action" /\ LabelsLeft(parser)
      /\ parser' = Effect(Head(todo), parser) /\ todo' = Tail(todo)
  BY DEF Run
<1>2. PICK s : Stands(parser, s) /\ Finishes(todo, s)
  BY <1>1 DEF OnCourse
<1>3. CASE todo = <<A("done")>> /\ s = <<>>
  <2>1. parser' = Complete(parser) /\ todo' = <<>>
    BY <1>1, <1>3, Effects
  <2>2. PICK c : Shows(parser, c) /\ Holds(<<>>, c)
    BY <1>2, <1>3 DEF Stands
  <2>3. c = Bottom /\ Bottom \in Layouts
    BY <2>2, HoldsBottom, BottomHolds
  <2> DEFINE d == [Bottom EXCEPT !.funs = <<>>]
  <2>4. Bottom.funs = <<Fresh>> \o <<>> /\ <<>> \in Seq(Open)
    BY DEF Bottom
  <2>5. Shows(Complete(parser), d)
    BY <2>2, <2>3, <2>4, CompleteKeeps
  <2>6. d.stack = <<>> /\ d.bookmarks = <<>> /\ d.counters = <<>>
    BY DEF Bottom
  <2> HIDE DEF d
  <2> DEFINE q == Complete(parser)
  <2> HIDE DEF q
  <2>7. Shows(q, d)
    BY <2>5 DEF q
  <2>8. DOMAIN q.finished = 1..Len(q.finished)
    BY <2>7, ShownIs
  <2>9. Settles(q)
    BY <2>6, <2>7, <2>8 DEF Shows, Settles
  <2> QED BY <2>1, <2>9 DEF OnCourse, q
<1>4. ASSUME NEW t, Leads(Head(todo), s, t), Finishes(Tail(todo), t) PROVE OnCourse'
  <2>1. Does(Head(todo), s, t)
    BY <1>1, <1>4, Zenon DEF Leads
  <2>2. Stands(Effect(Head(todo), parser), t)
    BY <1>1, <1>2, <2>1 DEF Does
  <2>3. Tail(todo) # <<>>
    BY <1>4 DEF Finishes
  <2> QED BY <1>1, <1>4, <2>2, <2>3 DEF OnCourse
<1> QED BY <1>2, <1>3, <1>4, FirstFinishes

(* Every step of the specification keeps on course.                        *)
LEMMA NextOnCourse ==
  ASSUME "no_case" \notin Options, Course, [Next]_vars
  PROVE  Course'
<1> SUFFICES ASSUME Sober' PROVE OnCourse'
  BY DEF Course
<1>1. CASE UNCHANGED vars
  <2>1. UNCHANGED <<parser, todo, used>>
    BY <1>1 DEF vars, compilerVars
  <2>2. OnCourse
    BY <2>1 DEF Course, Sober
  <2> QED BY <2>1, <2>2 DEF OnCourse
<1>2. CASE Next
  <2> DEFINE now == {w \in Watched(Head(todo).name) : todo' = w[2] \o Tail(todo)}
  <2>1. used' = used \cup {w[1] : w \in now}
    BY <1>2 DEF Next
  <2>2. OnCourse
    <3> HIDE DEF now
    <3> QED BY <2>1 DEF Course, Sober
  <2>3. CASE Run
    BY <2>2, <2>3, RunOnCourse
  <2>4. CASE Expand
    <3>1. PICK form \in Productions[Head(todo).name] : todo' = form \o Tail(todo)
      BY <2>4 DEF Expand
    <3>2. todo # <<>> /\ Head(todo).kind = "nonterminal" /\ parser' = parser
      BY <2>4 DEF Expand
    <3>3. Neat(Head(todo).name, form)
      <4> SUFFICES ASSUME Head(todo).name = "expr", form # <<A("push_token")>>
                   PROVE  \E e \in DOMAIN ExprForms \ {"reduction", "comprehension"} :
                             form = ExprForms[e]
        BY DEF Neat
      <4>1. PICK e \in Exprs : form = ExprForms[e]
        BY <3>1, ProductionsAre
      <4>2. e \in DOMAIN ExprForms
        BY FormsAssumption
      <4>3. CASE Spoilers \cap Exprs = {}
        BY <4>1, <4>2, <4>3 DEF Spoilers
      <4>4. CASE used' \cap Spoilers = {}
        <5>1. ASSUME e \in Spoilers PROVE FALSE
          <6> DEFINE w == <<e, ExprForms[e]>>
          <6>1. w \in Watched("expr") /\ w[1] = e /\ w[2] = form
            BY <4>1, <5>1 DEF Watched, Spoilers
          <6>2. w \in now
            BY <3>1, <6>1
          <6>3. e \in used'
            BY <2>1, <6>1, <6>2
          <6> QED BY <4>4, <5>1, <6>3
        <5> QED BY <4>1, <4>2, <5>1 DEF Spoilers
      <4> QED BY <4>3, <4>4 DEF Sober
    <3> QED BY <2>2, <3>1, <3>2, <3>3, ExpandOnCourse
  <2> QED BY <1>2, <2>3, <2>4 DEF Next, CompilerNext
<1> QED BY <1>1, <1>2

(* A parser on course has finished whole functions only.                   *)
LEMMA FinishedAreWhole ==
  ASSUME OnCourse
  PROVE  /\ \A i \in DOMAIN parser.finished : Whole(parser.finished[i])
         /\ parser.aborted = FALSE
<1>1. CASE todo = <<>>
  BY <1>1 DEF OnCourse, Settles
<1>2. CASE todo # <<>>
  <2>1. PICK s : Stands(parser, s)
    BY <1>2 DEF OnCourse
  <2>2. PICK c : Shows(parser, c)
    BY <2>1 DEF Stands
  <2>3. parser.finished \in Seq(Bytecodes)
    BY <2>2, ShownIs
  <2>4. DOMAIN parser.finished = 1..Len(parser.finished)
    BY <2>3
  <2> QED BY <2>2, <2>4 DEF Shows
<1> QED BY <1>1, <1>2

\* The code of these functions is nested, its labels are found, and the
\* assertion of datastack_rollup (datastack.c:233) has not failed.
CodeIsSound == /\ \A p \in Finished : WellNested(p, NestOf(p)) /\ AllLabelsFound(p)
               /\ RollupAssertion

(* What the runs ask of it.                                                *)
LEMMA SoundIsNested ==
  ASSUME CodeIsSound
  PROVE  FinishedNested /\ LabelsResolved
<1>1. FinishedNested
  BY DEF FinishedNested, CodeIsSound
<1>2. LabelsResolved
  BY DEF LabelsResolved, CodeIsSound, AllLabelsFound
<1> QED BY <1>1, <1>2

(* The course is kept from the beginning.                                  *)
LEMMA CourseKept ==
  ASSUME "no_case" \notin Options
  PROVE  Spec => []Course
<1>1. Course /\ [Next]_vars => Course'
  BY NextOnCourse
<1> QED BY <1>1, InitOnCourse, PTL DEF Spec

(* For scripts of any length and depth in which every switch has a case:   *)
(* as long as no reduction and comprehension is used, the context blocks   *)
(* of every finished function are nested and no branch leaves or enters    *)
(* one, which is what the machine relies on (vm.c), every label that is    *)
(* named is found, and datastack_rollup's assertion holds.  Reductions and *)
(* comprehensions spoil what the parser keeps for the constructs around    *)
(* them.                                                                   *)
THEOREM SoberCodeIsSound ==
  ASSUME "no_case" \notin Options
  PROVE  Spec => [](Sober => CodeIsSound)
<1>1. Course => (Sober => CodeIsSound)
  BY FinishedAreWhole DEF Course, Finished, Whole, CodeIsSound, RollupAssertion
<1> QED BY <1>1, CourseKept, PTL

(* Where the language is without them, the code of every script has its    *)
(* context blocks nested.                                                  *)
THEOREM CodeIsNested ==
  ASSUME "no_case" \notin Options, Spoilers \cap Exprs = {}
  PROVE  Spec => []FinishedNested
<1>1. (Sober => CodeIsSound) => FinishedNested
  BY SoundIsNested DEF Sober
<1> QED BY <1>1, SoberCodeIsSound, PTL

(* The machine finds every label that its functions name.                  *)
THEOREM LabelsAreFound ==
  ASSUME "no_case" \notin Options, Spoilers \cap Exprs = {}
  PROVE  Spec => []LabelsResolved
<1>1. (Sober => CodeIsSound) => LabelsResolved
  BY SoundIsNested DEF Sober
<1> QED BY <1>1, SoberCodeIsSound, PTL

(* And the parser never rolls up more than there is.                       *)
THEOREM RollupHolds ==
  ASSUME "no_case" \notin Options, Spoilers \cap Exprs = {}
  PROVE  Spec => []RollupAssertion
<1>1. (Sober => CodeIsSound) => RollupAssertion
  BY DEF Sober, CodeIsSound
<1> QED BY <1>1, SoberCodeIsSound, PTL

(* All that a script pushes, marks and counts on the parser is taken back  *)
(* by the time the script is done, when it has none of the forms that are  *)
(* known to leave something behind; so are the places to cut.              *)
THEOREM ParserIsBalanced ==
  ASSUME "no_case" \notin Options
  PROVE  Spec => []ParserBalanced
<1>1. Course => ParserBalanced
  <2> SUFFICES ASSUME Course, Compiled, tidy
               PROVE  /\ parser.stack = <<>> /\ parser.bookmarks = <<>>
                      /\ parser.counters = <<>>
                      /\ \A i \in DOMAIN parser.finished :
                            /\ parser.finished[i].deferred_blocks = <<>>
                            /\ parser.finished[i].bookmarks = <<>>
    BY DEF ParserBalanced
  <2>1. OnCourse /\ todo = <<>>
    BY DEF Course, Sober, Spoilers, Compiled, tidy
  <2> QED BY <2>1 DEF OnCourse, Settles, Whole
<1> QED BY <1>1, CourseKept, PTL
===============================================================================
