------------------------------- MODULE VMSafety -------------------------------
(***************************************************************************)
(* What the virtual machine guarantees for code whose context blocks are   *)
(* nested.  When another thread may set the exit code (AmbientExit), only  *)
(* TypeOK and FinishUnwound are left: the frame then skips to its end      *)
(* whatever block it stands in.                                            *)
(***************************************************************************)
EXTENDS VM

CONSTANT Nest   \* for every program, the blocks open at each instruction

InstructionSet == [op : Ops, name : STRING, value : Value]

WellFormed(b) ==
    /\ b.code \in Seq(InstructionSet)
    /\ \A l \in DOMAIN b.labels : b.labels[l] \in 1..Len(b.code)
    /\ \A i \in 1..Len(b.code) :
          /\ b.code[i].op \in {"Stash", "Unstash"} => b.code[i].value.n \in StashIds
          /\ b.code[i].op = "VMStatus" => b.code[i].name \in {"Break", "Continue"}

ASSUME ProgramsAssumption ==
    /\ DOMAIN Nest = Programs
    /\ \A p \in Programs : /\ WellFormed(BytecodeOf(p))
                          /\ WellNested(BytecodeOf(p), Nest[p])
                          /\ SkipSafe(BytecodeOf(p), Nest[p])

\* Every variable has its type; pc is a node of the program or just behind it.
TypeOK == /\ program \in Programs
          /\ phase \in {"idle", "running", "aborted"}
          /\ pc \in 1..End
          /\ stack \in Seq(Value)
          /\ contexts \in Seq([label : STRING, kind : ContextKinds])
          /\ status \in SUBSET Flags
          /\ exception \in Errors \cup {"none"}
          /\ exitCode \in BOOLEAN /\ leaving \in BOOLEAN
          /\ stashes \in [StashIds -> Value]
          /\ result \in Errors \cup {"none", "value", "returned", "yielded"}

-------------------------------------------------------------------------------

OpenLabels == [k \in 1..Len(contexts) |-> contexts[k].label]

\* As long as the thread is not exiting, the blocks on the context stack are
\* the ones the instruction at hand lies in: whatever was thrown, returned,
\* jumped over or skipped on the way there (vm.c:119, instruction.c:498-579).
ContextsMatchNesting ==
    phase = "running" /\ exception # "Yield" /\ (leaving \/ status # {"Exit"})
        => OpenLabels = Nest[program][pc]

\* LeaveContext dereferences what vm_pop_context gives it (instruction.c:537):
\* there is an open block whenever it is executed, also while exiting, when the
\* code between the blocks is skipped without a look at its nesting.
LeaveContextHasContext ==
    At("LeaveContext") => contexts # <<>>

\* Unless a generator yields, no frame ends with an open block: every block
\* entered had its leave handler called, also when the script exits.
FinishUnwound ==
    [][phase = "running" /\ phase' = "idle" /\ exception # "Yield"
        => contexts = <<>>]_vars

\* A return is never lost: it leaves all blocks and becomes the frame's result,
\* whatever the leave handlers on the way raise (instruction.c:563-569).
ReturnReturns ==
    phase = "running" /\ exception = "Return" ~> phase = "idle" /\ result = "returned"

\* An exit ends the frame: no loop goes on, no handler stops it.
ExitEnds == phase = "running" /\ exitCode /\ ~leaving ~> phase = "idle"

\* An exception nobody in the function handles becomes its result
\* (LeaveContext pushes it, vm_execute pops it).
UncaughtIsReported ==
    phase = "running" /\ exception = "Throwable" /\ Len(contexts) = 1 /\ ~exitCode
        ~> phase = "idle" /\ result = "Throwable"
===============================================================================
