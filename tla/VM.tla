---------------------------------- MODULE VM ----------------------------------
(***************************************************************************)
(* The virtual machine that runs the bytecode of one Obelix function:      *)
(* vm.c (the frame and its fetch loop) and instruction.c (the              *)
(* instructions).  One frame is modelled; the code it calls (functions,    *)
(* iterators, attribute lookups, __enter__ and __exit__ methods) answers   *)
(* in every way its callers provide for.  Operators marked "Wrong" are     *)
(* mistakes the properties must notice; nothing uses them.                 *)
(***************************************************************************)
EXTENDS Instruction, Sequences

CONSTANTS Programs,     \* the functions that may be run
          BytecodeOf(_),\* their bytecode: [code, labels]
          CallReturns,  \* what a call may leave for its caller, of "val", "nil"
          CallThrows,   \* the exceptions called code may raise
          MaxItems,     \* the longest iteration
          MaxStack,     \* with more operands than these no loop goes on
          AmbientExit   \* can the thread's exit code be set behind this frame?

ASSUME CallAssumption ==
    /\ CallReturns \subseteq {"val", "nil"}
    /\ CallThrows \subseteq {"Throwable", "Leave", "Exit"}
    /\ MaxItems \in Nat /\ MaxStack \in Nat
    /\ AmbientExit \in BOOLEAN

VARIABLES program,    \* the function the frame runs
          phase,      \* "idle", "running", or "aborted" by a failed assertion
          pc,         \* the node the list processor stands at
          stack,      \* operands, the top one first
          contexts,   \* the open context blocks, the innermost first
          status,     \* the flags of vm->status
          exception,  \* vm->exception, by its code; "none" for NULL
          exitCode,   \* is the thread's exit code set?
          leaving,    \* is the thread inside a leave handler (TSFLeave)?
          stashes,    \* vm->stashes
          result      \* what the last vm_execute returned

vars == <<program, phase, pc, stack, contexts, status, exception, exitCode,
          leaving, stashes, result>>
machine == <<program, leaving, result>>

-------------------------------------------------------------------------------
(* The frame *)

StashIds == 0..2
ContextKinds == {"none", "plain", "handler", "exc"}
Flags == {"Break", "Continue", "Exit"}

Code  == BytecodeOf(program).code
Label(name) == BytecodeOf(program).labels[name]   \* dict_get(bytecode -> labels)
Here  == Code[pc]
End   == Len(Code) + 1    \* ProcessEnd, or the node after the last one

-------------------------------------------------------------------------------
(* The operand stack: vm_pop answers NULL when it is empty *)

Popped(n) == IF n <= Len(stack) THEN stack[n] ELSE Nil
Below(n)  == SubSeq(stack, n + 1, Len(stack))
Push(v, s) == <<v>> \o s

-------------------------------------------------------------------------------
(* _vm_execute_instruction: the exit code, the status, what is called *)

\* The first step after the exit code is set notices it: that step is still
\* executed, but what its instruction returns is thrown away.
ExitSeen == status # {"Exit"} /\ exitCode
StatusNow   == IF ExitSeen THEN {"Exit"} ELSE status

SkippingTo == {"EndLoop", "LeaveContext"}   \* what a break or continue looks for

\* Wrong: the exit would be noticed inside leave handlers, too.
CallMeWithoutHandlers(op) ==
    /\ StatusNow = {"Exit"} => op = "LeaveContext"
    /\ StatusNow \in {{"Break"}, {"Continue"}} => op \in SkippingTo

\* Wrong: a frame would not notice that the thread is exiting.
CallMeWhileExiting(op) ==
    StatusNow \in {{"Break"}, {"Continue"}} => op \in SkippingTo

\* Wrong: an exit would leave no block.
CallMeNoLeave(op) ==
    /\ StatusNow = {"Exit"} => leaving
    /\ StatusNow \in {{"Break"}, {"Continue"}} => op \in SkippingTo

CallMe(op) ==
    /\ StatusNow = {"Exit"} => leaving \/ op = "LeaveContext"
    /\ StatusNow \in {{"Break"}, {"Continue"}} => op \in SkippingTo

Stepping == phase = "running" /\ pc < End /\ exception # "Yield"

At(op) == Stepping /\ Here.op = op /\ CallMe(op)

\* The instruction returned NULL: on to the next node.
Proceed == pc' = pc + 1 /\ UNCHANGED <<phase, exception, exitCode>>

\* Wrong: past the node behind the last one.
UnwindPastEnd(e, open) ==
    pc' = IF ExitSeen \/ e = "Yield" THEN pc + 1
          ELSE IF open # <<>> THEN Label(open[1].label)
          ELSE End + 1

\* Wrong: to the outermost open block.
UnwindOutermost(e, open) ==
    pc' = IF ExitSeen \/ e = "Yield" THEN pc + 1
          ELSE IF open # <<>> THEN Label(open[Len(open)].label)
          ELSE End

\* Wrong: straight out of the function.
UnwindToEnd(e, open) == pc' = IF ExitSeen \/ e = "Yield" THEN pc + 1 ELSE End

\* It returned an exception: on to the handler of the innermost open context.
Unwind(e, open) ==
    pc' = IF ExitSeen \/ e = "Yield" THEN pc + 1
          ELSE IF open # <<>> THEN Label(open[1].label)
          ELSE End

Raise(e, open) == /\ exception' = IF ExitSeen THEN exception ELSE e
                  /\ exitCode' = (exitCode \/ e = "Exit")
                  /\ Unwind(e, open)
                  /\ UNCHANGED phase

Throws == \E e \in CallThrows : Raise(e, contexts)
Fails  == Raise("Throwable", contexts)

\* A failed assert(), a fatal() or a NULL dereference ends the process.
Abort == phase' = "aborted" /\ UNCHANGED <<pc, exception, exitCode>>

\* It returned a String: on to the node with that label, which must exist.
Branch == IF ExitSeen THEN Proceed
          ELSE IF Here.name \in DOMAIN BytecodeOf(program).labels
          THEN pc' = Label(Here.name) /\ UNCHANGED <<phase, exception, exitCode>>
          ELSE Abort

\* What every instruction but a few leaves alone.
Operands(s) == stack' = s /\ status' = StatusNow
               /\ UNCHANGED <<machine, contexts, stashes>>

Skip == /\ Stepping
        /\ ~CallMe(Here.op)
        /\ Operands(stack)
        /\ Proceed

-------------------------------------------------------------------------------
(* Values and variables *)

Assign == /\ At("Assign")
          /\ Operands(Below(1))
          /\ IF Popped(1) = Nil THEN Abort ELSE Proceed \/ Fails

Deref == /\ At("Deref")
         /\ \/ Operands(Push(Data, Below(1))) /\ Proceed
            \/ Operands(Below(1)) /\ Throws

Subscript == /\ At("Subscript")
             /\ \/ Operands(Push(Data, Below(2))) /\ Proceed
                \/ Operands(Below(2)) /\ Throws

PushScope == At("PushScope") /\ Operands(Push(Data, stack)) /\ Proceed

PushVal == At("PushVal") /\ Operands(Push(Here.value, stack)) /\ Proceed

PushCtx == /\ At("PushCtx")
           /\ IF contexts = <<>>
              THEN Operands(stack) /\ Fails
              ELSE /\ LET kind == contexts[1].kind IN
                      Operands(Push(CASE kind = "none" -> Nil
                                      [] kind = "exc"  -> Err("Throwable")
                                      [] OTHER         -> Data, stack))
                   /\ Proceed

Pop  == At("Pop") /\ Operands(Below(1)) /\ Proceed
Dup  == At("Dup") /\ Operands(Push(Popped(1), stack)) /\ Proceed
Swap == At("Swap")
        /\ Operands(Push(Popped(2), Push(Popped(1), Below(2)))) /\ Proceed
Nop  == At("Nop") /\ Operands(stack) /\ Proceed

Incr == At("Incr") /\ Operands(Push(Num(Popped(1).n + 1), Below(1))) /\ Proceed
Decr == At("Decr") /\ Operands(Push(Num(Popped(1).n - 1), Below(1))) /\ Proceed

\* Wrong: the stashed value would stay on the stack.
StashPeeking == /\ At("Stash")
                /\ stashes' = [stashes EXCEPT ![Here.value.n] = Popped(1)]
                /\ status' = StatusNow
                /\ UNCHANGED <<machine, stack, contexts>>
                /\ Proceed

Stash == /\ At("Stash")
         /\ stashes' = [stashes EXCEPT ![Here.value.n] = Popped(1)]
         /\ stack' = Below(1) /\ status' = StatusNow
         /\ UNCHANGED <<machine, contexts>>
         /\ Proceed

Unstash == /\ At("Unstash")
           /\ Operands(Push(stashes[Here.value.n], stack))
           /\ Proceed

-------------------------------------------------------------------------------
(* Calls: keyword values, arguments (and, for varargs, their number), callable *)

AsCount(n) == IF n > 0 THEN n ELSE 0

\* Wrong: the callable would count as an argument.
ArgumentsAndCallable == IF Here.name = "varargs" THEN 2 + AsCount(Popped(1).n)
                        ELSE 1 + AsCount(Here.value.n)

Arguments == IF Here.name = "varargs" THEN 1 + AsCount(Popped(1).n)
             ELSE AsCount(Here.value.n)

FunctionCall ==
    /\ At("FunctionCall")
    /\ LET below == Below(Arguments + 1) IN
       IF \E i \in 1..(Arguments + 1) : Popped(i) = Nil
       THEN Operands(stack) /\ Abort
       ELSE \/ "val" \in CallReturns /\ Operands(Push(Data, below)) /\ Proceed
            \/ "nil" \in CallReturns /\ Operands(below) /\ Proceed
            \/ Operands(below) /\ Throws
            \/ Operands(stack) /\ Abort     \* what is called is not callable

-------------------------------------------------------------------------------
(* Flow control *)

\* The operand of VMStatus is a single flag, kept in the instruction's name.
VMStatus == /\ At("VMStatus")
            /\ status' = StatusNow \cup {Here.name}
            /\ UNCHANGED <<machine, stack, contexts, stashes>>
            /\ Proceed

Jump == At("Jump") /\ Operands(stack) /\ Branch

EndLoop == /\ At("EndLoop")
           /\ status' = StatusNow \ {"Break", "Continue"}
           /\ UNCHANGED <<machine, stack, contexts, stashes>>
           /\ IF StatusNow = {"Break"} THEN Proceed ELSE Branch

\* Rounds of a loop may leave operands behind: MaxStack bounds their number.
Test == /\ At("Test")
        /\ Operands(Below(1))
        /\ IF Popped(1) = Nil THEN Abort
           ELSE \/ Len(stack) <= MaxStack /\ Proceed
                \/ Branch
                \/ Fails

Iter == /\ At("Iter")
        /\ \/ /\ \E n \in 0..MaxItems : Operands(Push(Iterator(pc, n), Below(1)))
              /\ Proceed
           \/ Operands(Below(1)) /\ Throws

NextItem ==
    /\ At("Next")
    /\ LET it == Popped(1) IN
            \/ it = Nil /\ Operands(Below(1)) /\ Abort
            \/ it.kind = "iter" /\ it.n = 0 /\ Operands(Below(1)) /\ Branch
            \/ /\ it.kind = "iter" /\ it.n > 0
               /\ \E item \in {Data, Err("Throwable")} :   \* an error is an item, too
                     Operands(Push(item, Push([it EXCEPT !.n = @ - 1], Below(1))))
               /\ Proceed
            \/ /\ it.kind \in {"val", "exc"}    \* not an iterator: this loop has no end
               /\ Operands(Push(Err("Throwable"), stack))
               /\ IF Len(stack) <= MaxStack THEN Proceed ELSE Abort

-------------------------------------------------------------------------------
(* Context blocks and exceptions *)

\* The variable's lookup may fail, and then the exception is what is entered;
\* a failing __enter__ raises before the block is open.
EnterContext ==
    /\ At("EnterContext")
    /\ stack' = stack /\ status' = StatusNow /\ UNCHANGED <<machine, stashes>>
    /\ \/ /\ \E kind \in IF Here.value = Nil THEN {"none"}
                         ELSE ContextKinds \ {"none"} :
                contexts' = <<[label |-> Here.name, kind |-> kind]>> \o contexts
          /\ Proceed
       \/ Here.value # Nil /\ UNCHANGED contexts /\ Throws

\* Wrong: a handler's exception would replace a return.
LeaveWithReturn(answer) ==
    IF exception = "Exit" \/ (exception = "Return" /\ answer = "none")
    THEN /\ exitCode' = (exitCode \/ "Exit" \in {exception, answer})
         /\ Unwind(exception, Tail(contexts))
         /\ UNCHANGED <<exception, phase>>
    ELSE IF answer # "none"
    THEN Raise(answer, Tail(contexts))
    ELSE exception' = "none" /\ pc' = pc + 1 /\ UNCHANGED <<phase, exitCode>>

\* How a block is left, given what its leave handler answered.  A pending Exit
\* or Return bubbles up whatever that is (a handler that exits has set the exit
\* code all the same); any other exception has now been dealt with.
LeaveWith(answer) ==
    IF exception \in {"Exit", "Return"}
    THEN /\ exitCode' = (exitCode \/ "Exit" \in {exception, answer})
         /\ Unwind(exception, Tail(contexts))
         /\ UNCHANGED <<exception, phase>>
    ELSE IF answer # "none"
    THEN Raise(answer, Tail(contexts))
    ELSE exception' = "none" /\ pc' = pc + 1 /\ UNCHANGED <<phase, exitCode>>

LeaveContext ==
    /\ At("LeaveContext")
    /\ status' = StatusNow /\ UNCHANGED <<machine, stashes>>
    /\ IF contexts = <<>>
       THEN UNCHANGED <<stack, contexts>> /\ Abort
       ELSE /\ contexts' = Tail(contexts)
            /\ \/ /\ contexts[1].kind = "exc"
                  /\ stack' = stack /\ LeaveWith("Throwable")
               \/ /\ contexts[1].kind = "handler"
                  /\ stack' = stack
                  /\ \E answer \in CallThrows \cup {"none"} : LeaveWith(answer)
               \/ /\ contexts[1].kind \in {"none", "plain"}
                  /\ stack' = Push(Err(exception), stack) /\ LeaveWith("none")

Throw == /\ At("Throw")
         /\ Operands(Below(1))
         /\ Raise(IF Popped(1).kind = "exc" THEN Popped(1).code ELSE "Throwable",
                  contexts)

Return == At("Return") /\ Operands(Below(1)) /\ Raise("Return", contexts)

Yield == At("Yield") /\ Operands(Below(1)) /\ Raise("Yield", contexts)

-------------------------------------------------------------------------------
(* vm_execute *)

Started(p) == /\ phase = "idle" /\ phase' = "running"
              /\ program' = p /\ pc' = 1
              /\ stack' = <<>> /\ contexts' = <<>>
              /\ exception' = "none" /\ result' = "none"
              /\ UNCHANGED exitCode

\* A function is called, in a VM of its own.  While the thread is exiting only
\* leave handlers are called.
Execute(p) == /\ Started(p)
              /\ status' = {} /\ stashes' = [s \in StashIds |-> Nil]
              /\ leaving' \in BOOLEAN
              /\ exitCode => leaving' \/ AmbientExit

\* A generator's VM is executed again after it has yielded.
Resume == /\ result = "yielded"
          /\ Started(program)
          /\ UNCHANGED <<status, stashes>>
          /\ leaving' \in BOOLEAN
          /\ exitCode => leaving' \/ AmbientExit

\* The call stack is full: the frame is not run at all.
Refuse == /\ phase = "idle"
          /\ result' = "Throwable"
          /\ UNCHANGED <<program, phase, pc, stack, contexts, status, exception,
                         exitCode, leaving, stashes>>

\* Wrong: the operand stack would not be looked at.
ReturnedFromFrame ==
    IF exception = "none" THEN "value"
    ELSE IF exception = "Return" THEN "returned"
    ELSE IF exception = "Yield" THEN "yielded"
    ELSE exception

\* An exception left on the stack by LeaveContext is the result, too.
Returned ==
    IF exception = "none"
    THEN IF stack # <<>> /\ stack[1].kind = "exc" THEN stack[1].code ELSE "value"
    ELSE IF exception = "Return" THEN "returned"
    ELSE IF exception = "Yield" THEN "yielded"
    ELSE exception

Finish == /\ phase = "running"
          /\ pc = End \/ exception = "Yield"
          /\ phase' = "idle" /\ result' = Returned
          /\ stack' = <<>> /\ contexts' = <<>>     \* _vm_cleanup
          /\ UNCHANGED <<program, pc, status, exception, exitCode, leaving, stashes>>

\* scriptloader_run is done: it clears the exit code, no frame is left.
RunEnds == /\ phase = "idle" /\ exitCode
           /\ exitCode' = FALSE /\ result' = "none"
           /\ UNCHANGED <<program, phase, pc, stack, contexts, status, exception,
                          leaving, stashes>>

\* A child thread exits, or a call made by this frame returns normally from a
\* function one of whose leave handlers exited.
ExitBehindTheFrame == /\ AmbientExit /\ phase = "running" /\ exitCode' = TRUE
                      /\ UNCHANGED <<program, phase, pc, stack, contexts, status,
                                     exception, leaving, stashes, result>>

\* The process has died: the interpreter is started again.
Restart == /\ phase = "aborted"
           /\ phase' = "idle" /\ pc' = 1
           /\ program' \in Programs
           /\ stack' = <<>> /\ contexts' = <<>>
           /\ status' = {} /\ exception' = "none" /\ exitCode' = FALSE
           /\ leaving' = FALSE
           /\ stashes' = [s \in StashIds |-> Nil]
           /\ result' = "none"

Instructions ==
    \/ Assign \/ Deref \/ Subscript \/ PushScope \/ PushVal \/ PushCtx \/ Pop \/ Dup
    \/ Swap \/ Nop \/ Incr \/ Decr \/ Stash \/ Unstash \/ FunctionCall \/ VMStatus
    \/ Jump \/ EndLoop \/ Test \/ Iter \/ NextItem \/ EnterContext \/ LeaveContext
    \/ Throw \/ Return \/ Yield

Step == Skip \/ Instructions \/ Finish

Fresh == /\ phase = "idle" /\ pc = 1
         /\ stack = <<>> /\ contexts = <<>>
         /\ status = {} /\ exception = "none" /\ exitCode = FALSE
         /\ leaving = FALSE
         /\ stashes = [s \in StashIds |-> Nil]
         /\ result = "none"

Init == program \in Programs /\ Fresh

Next == \/ Step \/ Resume \/ Refuse \/ RunEnds \/ ExitBehindTheFrame \/ Restart
        \/ \E p \in Programs : Execute(p)

Spec == Init /\ [][Next]_vars

\* vm_execute runs its loop to the end: nothing else happens in this thread.
FairSpec == Spec /\ WF_vars(Step)
===============================================================================
