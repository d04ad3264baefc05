----------------------------- MODULE Instruction ------------------------------
(***************************************************************************)
(* The instructions of an Obelix function, as scriptparse.c emits them and *)
(* the virtual machine executes them (instruction.c), and the values they  *)
(* work on.  Script data is abstracted to what the control flow tells      *)
(* apart: a plain value (with its number, where generated code counts), an *)
(* exception object, the iterator of a particular loop, and C's NULL.      *)
(***************************************************************************)
EXTENDS Integers, Sequences

Errors == {"Throwable", "Leave", "Return", "Yield", "Exit"}

\* n: a number, or the items an iterator has left; at: the Iter that made it.
Value == [kind : {"val", "nil", "exc", "iter"}, n : Int, at : Nat,
          code : Errors \cup {"none"}]

Num(n) == [kind |-> "val", n |-> n, at |-> 0, code |-> "none"]
Data == Num(0)
Nil == [kind |-> "nil", n |-> 0, at |-> 0, code |-> "none"]
Err(e) == IF e = "none" THEN Nil
          ELSE [kind |-> "exc", n |-> 0, at |-> 0, code |-> e]
Iterator(i, n) == [kind |-> "iter", n |-> n, at |-> i, code |-> "none"]

\* name and value of an instruction_t; a FunctionCall's name holds its flags.
Instr(op, name, value) == [op |-> op, name |-> name, value |-> value]
Plain(op) == Instr(op, "", Nil)
To(op, label) == Instr(op, label, Nil)
PushValue(v) == Instr("PushVal", "", v)
Call(argc) == Instr("FunctionCall", "", Num(argc))
VarargsCall == Instr("FunctionCall", "varargs", Nil)
Status(flag) == Instr("VMStatus", flag, Nil)
Slot(op, i) == Instr(op, "", Num(i))
Enter(label, hasVariable) ==
    Instr("EnterContext", label, IF hasVariable THEN Data ELSE Nil)

Branches == {"Jump", "EndLoop", "Test", "Next"}
Ops == Branches \cup
       {"Assign", "Deref", "Subscript", "PushScope", "PushVal", "PushCtx", "Pop",
        "Dup", "Swap", "Nop", "Incr", "Decr", "Stash", "Unstash", "FunctionCall",
        "VMStatus", "Iter", "EnterContext", "LeaveContext", "Throw", "Return",
        "Yield"}
-------------------------------------------------------------------------------
(* What the virtual machine relies on in the code it is given: context     *)
(* blocks are nested, and every label belongs to the block that jumps to   *)
(* it.  The machine does not check this; the compiler has to provide it.   *)

\* nest[i]: the labels of the blocks open before instruction i, innermost first.
\* The first instruction opens the function's own block; once that is closed no
\* block is opened any more.
WellNested(p, nest) ==
    LET n == Len(p.code) IN
    /\ n > 0
    /\ nest \in [1..(n + 1) -> Seq({p.code[i].name : i \in 1..n})]
    /\ nest[1] = <<>> /\ nest[n + 1] = <<>>
    /\ p.code[1].op = "EnterContext" /\ p.code[1].value = Nil
    /\ \A i \in 1..n :
        LET instr == p.code[i] IN
        /\ instr.op = "EnterContext" =>
              /\ nest[i + 1] = <<instr.name>> \o nest[i]
              /\ instr.name \in DOMAIN p.labels
              /\ p.code[p.labels[instr.name]].op = "LeaveContext"
              /\ nest[p.labels[instr.name]] = nest[i + 1]
              /\ i > 1 => nest[i] # <<>>
        /\ instr.op = "LeaveContext" =>
              nest[i] # <<>> /\ nest[i + 1] = Tail(nest[i])
        /\ instr.op \notin {"EnterContext", "LeaveContext"} => nest[i + 1] = nest[i]
        /\ instr.op \in Branches =>
              instr.name \in DOMAIN p.labels /\ nest[p.labels[instr.name]] = nest[i]

\* No block is opened from instruction i on before a loop ends.
Protected(p, i) ==
    \A j \in i..Len(p.code) :
        p.code[j].op = "EnterContext" => \E k \in i..(j - 1) : p.code[k].op = "EndLoop"

\* After a break or continue the machine skips to the next EndLoop, executing
\* only the LeaveContexts on the way: no block may be opened before it, neither
\* behind the break nor behind a handler that an exception leads to meanwhile.
SkipSafe(p, nest) ==
    \A i \in 1..Len(p.code) :
        p.code[i].op = "VMStatus" =>
            /\ Protected(p, i + 1)
            /\ \A k \in 1..Len(nest[i]) : Protected(p, p.labels[nest[i][k]])
===============================================================================
