------------------------------- MODULE ScriptRun -------------------------------
(***************************************************************************)
(* A script is compiled and its functions are run: the compiler composed   *)
(* with the virtual machine (loader.c parses the whole script before it    *)
(* runs any of it).                                                        *)
(***************************************************************************)
EXTENDS Compiler

CONSTANTS CallReturns, CallThrows, MaxItems, MaxStack, AmbientExit

VARIABLES program, phase, pc, stack, contexts, status, exception, exitCode,
          leaving, stashes, result

Itself(p) == p
M == INSTANCE VM WITH Programs <- {}, BytecodeOf <- Itself

machineVars == <<program, phase, pc, stack, contexts, status, exception, exitCode,
                 leaving, stashes, result>>
vars == <<parser, todo, budget, program, phase, pc, stack, contexts, status,
          exception, exitCode, leaving, stashes, result>>

\* Nothing has been compiled, nothing runs.
Init == CompilerInit /\ M!Fresh /\ program = Program(bytecode_create)

CompileStep == CompilerNext /\ UNCHANGED machineVars

RunStep == Compiled /\ M!Step /\ UNCHANGED compilerVars

\* The script itself, or one of its functions, from whatever calls it.
Execute == /\ Compiled
           /\ \E i \in DOMAIN parser.finished : M!Execute(Program(parser.finished[i]))
           /\ UNCHANGED compilerVars

Around == /\ Compiled
          /\ M!Resume \/ M!RunEnds \/ M!ExitBehindTheFrame
          /\ UNCHANGED compilerVars

Next == CompileStep \/ RunStep \/ Execute \/ Around

Spec == Init /\ [][Next]_vars

\* Once started, a script is compiled, and vm_execute runs its loop to the end.
FairSpec == Spec /\ WF_vars(CompileStep) /\ WF_vars(RunStep)

-------------------------------------------------------------------------------
(* What any script can rely on *)

\* Unless a generator yields, no frame ends with an open context block: every
\* block entered had its leave handler called, wherever break, continue, return,
\* throw or an exit leave it (vm.c:119-209, instruction.c:520-579).
NoBlockLeftOpen ==
    [][phase = "running" /\ phase' = "idle" /\ exception # "Yield"
        => contexts = <<>>]_vars

\* A return leaves all open blocks and becomes the frame's result, unless the
\* thread is told to exit meanwhile or the process dies (instruction.c:565).
ReturnReturns ==
    phase = "running" /\ exception = "Return"
        ~> exitCode \/ phase = "aborted" \/ (phase = "idle" /\ result = "returned")

-------------------------------------------------------------------------------
(* What the code asserts, and some scripts violate *)

\* assert(iter) in the Next instruction (instruction.c:774).
IterAssertion == M!At("Next") => M!Popped(1) # Nil

\* data_call asserts that it was given something callable (data.c:403); a
\* callable missing on the operand stack is not.
CallableAssertion == M!At("FunctionCall") => M!Popped(M!Arguments + 1) # Nil
===============================================================================
