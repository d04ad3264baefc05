------------------------------- MODULE Bytecode -------------------------------
(***************************************************************************)
(* The bytecode of one function while it is being compiled (bytecode.c): a *)
(* list of instructions, the labels waiting for the next instruction, the  *)
(* blocks cut out to be pasted in later, and the places to cut.  The       *)
(* stacks have their top first.  A label belongs to a list node, so it     *)
(* moves with the node; only finished code has a table of positions.       *)
(***************************************************************************)
EXTENDS Instruction, FiniteSets, SequencesExt

bytecode_create == [instructions |-> <<>>, pending_labels |-> <<>>,
                    deferred_blocks |-> <<>>, bookmarks |-> <<>>]

Elements(s) == {s[i] : i \in DOMAIN s}

bytecode_push_instruction(b, instr) ==
    [b EXCEPT !.instructions =
                  Append(@, [instr |-> instr, labels |-> Elements(b.pending_labels)]),
              !.pending_labels = <<>>]

bytecode_bookmark(b) == [b EXCEPT !.bookmarks = <<Len(b.instructions)>> \o @]

bytecode_discard_bookmark(b) == [b EXCEPT !.bookmarks = Tail(@)]

\* Cuts everything after the bookmark out; pending labels stay pending.
bytecode_defer_bookmarked_block(b) ==
    LET at == Head(b.bookmarks) IN
    [b EXCEPT !.instructions = SubSeq(@, 1, at),
              !.bookmarks = Tail(@),
              !.deferred_blocks =
                  <<SubSeq(b.instructions, at + 1, Len(b.instructions))>> \o @]

bytecode_pop_deferred_block(b) ==
    [b EXCEPT !.instructions = @ \o Head(b.deferred_blocks),
              !.deferred_blocks = Tail(@)]

AddPending(b, label) == [b EXCEPT !.pending_labels = <<label>> \o @]

\* A finished function: what the VM runs.
Code(b) == [i \in DOMAIN b.instructions |-> b.instructions[i].instr]
LabelsOf(b) == UNION {b.instructions[i].labels : i \in DOMAIN b.instructions}
LabelTable(b) ==
    [l \in LabelsOf(b) |->
        CHOOSE i \in DOMAIN b.instructions : l \in b.instructions[i].labels]
Program(b) == [code |-> Code(b), labels |-> LabelTable(b)]
-------------------------------------------------------------------------------
(* Static readings of finished code.                                       *)

(* Where context blocks are open: an EnterContext opens the block of its   *)
(* label, a LeaveContext closes the innermost.                             *)

After(instr, open) ==
    CASE instr.op = "EnterContext" -> <<instr.name>> \o open
      [] instr.op = "LeaveContext" /\ open # <<>> -> Tail(open)
      [] OTHER -> open

NestOf(p) ==
    LET blocks[i \in 1..(Len(p.code) + 1)] ==
            IF i = 1 THEN <<>> ELSE After(p.code[i - 1], blocks[i - 1])
    IN  blocks

-------------------------------------------------------------------------------
(* How many operands are on the stack.  Calls are taken to leave a value;  *)
(* calls with a computed number of arguments are not covered.              *)

Takes(instr) ==
    CASE instr.op \in {"Assign", "Deref", "Pop", "Incr", "Decr", "Stash", "Test",
                       "Iter", "Next", "Throw", "Return", "Yield", "Dup"} -> 1
      [] instr.op \in {"Subscript", "Swap"} -> 2
      [] instr.op = "FunctionCall" -> 1 + instr.value.n
      [] OTHER -> 0

Leaves(instr) ==
    CASE instr.op \in {"Deref", "Subscript", "PushScope", "PushVal", "PushCtx", "Incr",
                       "Decr", "Unstash", "Iter", "FunctionCall", "LeaveContext"} -> 1
      [] instr.op \in {"Swap", "Dup", "Next"} -> 2
      [] OTHER -> 0

\* The branches of a program: from where to where.
Edges(p) == {<<i, p.labels[p.code[i].name]>> :
                i \in {j \in 1..Len(p.code) : /\ p.code[j].op \in Branches
                                              /\ p.code[j].name \in DOMAIN p.labels}}

\* A branching Next has dropped its iterator; the other branches leave nothing.
AfterBranch(p, depth, i) == depth[i] - Takes(p.code[i])

\* Along the text; behind a jump, what the first branch from above brings.
DepthOf(p) ==
    LET edges == Edges(p)
        Depth[i \in 1..(Len(p.code) + 1)] ==
            LET from == {j \in 1..(i - 1) : <<j, i>> \in edges} IN
            IF i = 1 THEN 0
            ELSE IF p.code[i - 1].op \in {"Jump", "EndLoop"} /\ from # {}
                 THEN AfterBranch(p, Depth, Min(from))
                 ELSE Depth[i - 1] - Takes(p.code[i - 1]) + Leaves(p.code[i - 1])
    IN  Depth

\* No instruction lacks an operand, and all ways to get somewhere bring the
\* same number of operands there.
OperandsBalanced(p) ==
    LET depth == DepthOf(p) IN
    /\ \A i \in DOMAIN p.code : depth[i] >= Takes(p.code[i])
    /\ \A e \in Edges(p) : depth[e[2]] = AfterBranch(p, depth, e[1])
===============================================================================
