------------------------------- MODULE VMProofs --------------------------------
(***************************************************************************)
(* Proofs about the virtual machine (VMSafety), for all programs whose     *)
(* context blocks are nested.                                              *)
(***************************************************************************)
EXTENDS VMSafety, TLAPS

-------------------------------------------------------------------------------
(* Types *)

\* The values instructions make are values.
LEMMA ValueTypes ==
    /\ Nil \in Value /\ Data \in Value
    /\ \A n \in Int : Num(n) \in Value
    /\ \A e \in Errors \cup {"none"} : Err(e) \in Value
    /\ \A i \in Nat, n \in Int : Iterator(i, n) \in Value
  BY DEF Nil, Data, Num, Err, Iterator, Value, Errors

\* Popping and pushing values.
LEMMA OperandTypes ==
    ASSUME stack \in Seq(Value)
    PROVE  /\ \A n \in Nat \ {0} : Popped(n) \in Value
           /\ \A n \in Nat : Below(n) \in Seq(Value)
           /\ \A v \in Value, s \in Seq(Value) : Push(v, s) \in Seq(Value)
  <1>1. \A n \in Nat \ {0} : Popped(n) \in Value
    BY ValueTypes DEF Popped
  <1>2. ASSUME NEW n \in Nat PROVE Below(n) \in Seq(Value)
    BY DEF Below
  <1>3. ASSUME NEW v \in Value, NEW s \in Seq(Value) PROVE Push(v, s) \in Seq(Value)
    BY DEF Push
  <1> QED BY <1>1, <1>2, <1>3

\* What TypeOK needs to be inductive: the label of an open block is one the
\* program has.
LabelsKnown ==
    \A k \in 1..Len(contexts) : contexts[k].label \in DOMAIN BytecodeOf(program).labels
TypeInv == TypeOK /\ LabelsKnown

ControlOK == /\ pc \in 1..End
             /\ phase \in {"idle", "running", "aborted"}
             /\ exception \in Errors \cup {"none"}
             /\ exitCode \in BOOLEAN
DataOK == /\ program \in Programs
          /\ stack \in Seq(Value)
          /\ contexts \in Seq([label : STRING, kind : ContextKinds])
          /\ LabelsKnown
          /\ status \in SUBSET Flags
          /\ leaving \in BOOLEAN
          /\ stashes \in [StashIds -> Value]
          /\ result \in Errors \cup {"none", "value", "returned", "yielded"}

(* The invariant in two parts, control and data.                           *)
LEMMA TypeInvSplit == TypeInv <=> ControlOK /\ DataOK
  BY DEF TypeInv, TypeOK, ControlOK, DataOK

\* The instruction at hand, and where the program goes from it.
LEMMA HereTypes ==
    ASSUME TypeInv
    PROVE  /\ Code \in Seq(InstructionSet)
           /\ Len(Code) \in Nat /\ Len(Code) > 0
           /\ End \in 1..End
           /\ \A l \in DOMAIN BytecodeOf(program).labels : Label(l) \in 1..Len(Code)
           /\ Stepping => /\ pc \in 1..Len(Code) /\ pc + 1 \in 1..End
                          /\ Here \in InstructionSet
                          /\ Here.op \in Ops /\ Here.name \in STRING
                          /\ Here.value \in Value
  <1>1. program \in Programs /\ pc \in 1..End
    BY DEF TypeInv, TypeOK
  <1>2. WellFormed(BytecodeOf(program)) /\ WellNested(BytecodeOf(program), Nest[program])
    BY <1>1, ProgramsAssumption
  <1>3. Code \in Seq(InstructionSet) /\ Len(Code) \in Nat /\ Len(Code) > 0
    BY <1>2 DEF WellFormed, WellNested, Code
  <1>4. End \in 1..End
    BY <1>3 DEF End
  <1>5. \A l \in DOMAIN BytecodeOf(program).labels : Label(l) \in 1..Len(Code)
    BY <1>2 DEF WellFormed, Label, Code
  <1>6. ASSUME Stepping
        PROVE  /\ pc \in 1..Len(Code) /\ pc + 1 \in 1..End
               /\ Here \in InstructionSet
    <2>1. pc \in 1..Len(Code)
      BY <1>1, <1>3, <1>6 DEF Stepping, End
    <2>2. pc + 1 \in 1..End
      BY <1>3, <2>1 DEF End
    <2>3. Here \in InstructionSet
      BY <1>3, <2>1 DEF Here
    <2> QED BY <2>1, <2>2, <2>3
  <1> QED BY <1>3, <1>4, <1>5, <1>6 DEF InstructionSet

\* What the compiler has to provide about single instructions.
LEMMA StashTypes ==
    ASSUME TypeInv, Stepping
    PROVE  /\ Here.op \in {"Stash", "Unstash"} => Here.value.n \in StashIds
           /\ Here.op = "VMStatus" => Here.name \in {"Break", "Continue"}
  <1>1. program \in Programs /\ pc \in 1..Len(Code)
    BY HereTypes DEF TypeInv, TypeOK
  <1>2. WellFormed(BytecodeOf(program))
    BY <1>1, ProgramsAssumption
  <1> QED BY <1>1, <1>2 DEF WellFormed, Here, Code

\* Unwinding to the innermost block that is still open, or past the end.
LEMMA UnwindTypes ==
    ASSUME TypeInv, Stepping, program' = program, NEW e
    PROVE  /\ Unwind(e, contexts) => pc' \in 1..End
           /\ contexts # <<>> /\ Unwind(e, Tail(contexts)) => pc' \in 1..End
  <1>1. pc + 1 \in 1..End /\ End \in 1..End /\ Len(Code) \in Nat
        /\ \A l \in DOMAIN BytecodeOf(program).labels : Label(l) \in 1..End
    BY HereTypes DEF End
  <1>2. contexts # <<>> => contexts[1].label \in DOMAIN BytecodeOf(program).labels
    BY TypeInvSplit DEF DataOK, LabelsKnown
  <1>3. contexts # <<>> /\ Tail(contexts) # <<>>
           => Tail(contexts)[1].label \in DOMAIN BytecodeOf(program).labels
    BY TypeInvSplit DEF DataOK, LabelsKnown
  <1> QED BY <1>1, <1>2, <1>3 DEF Unwind

\* Whatever an instruction returns, the machine stays within the program.
LEMMA ControlTypes ==
    ASSUME TypeInv, Stepping, program' = program
    PROVE  /\ Proceed => ControlOK'
           /\ Branch => ControlOK'
           /\ Abort => ControlOK'
           /\ \A e \in Errors \cup {"none"} : Raise(e, contexts) => ControlOK'
           /\ \A e \in Errors \cup {"none"} :
                 contexts # <<>> /\ Raise(e, Tail(contexts)) => ControlOK'
  <1>1. ControlOK /\ DataOK
    BY TypeInvSplit
  <1>2. End' = End
    BY DEF End, Code
  <1>3. pc + 1 \in 1..End /\ End \in 1..End /\ Len(Code) \in Nat
        /\ \A l \in DOMAIN BytecodeOf(program).labels : Label(l) \in 1..End
    BY HereTypes DEF End
  <1>4. Proceed => ControlOK'
    BY <1>1, <1>2, <1>3 DEF Proceed, ControlOK
  <1>5. Abort => ControlOK'
    BY <1>1, <1>2, <1>3 DEF Abort, ControlOK
  <1>6. Branch => ControlOK'
    <2> SUFFICES ASSUME Branch PROVE ControlOK'
      OBVIOUS
    <2>1. \/ Proceed \/ Abort
          \/ /\ Here.name \in DOMAIN BytecodeOf(program).labels
             /\ pc' = Label(Here.name) /\ UNCHANGED <<phase, exception, exitCode>>
      BY DEF Branch
    <2> QED BY <2>1, <1>1, <1>2, <1>3, <1>4, <1>5 DEF ControlOK
  <1>7. ASSUME NEW e \in Errors \cup {"none"},
               pc' \in 1..End, exception' = (IF ExitSeen THEN exception ELSE e),
               exitCode' = (exitCode \/ e = "Exit"), UNCHANGED phase
        PROVE  ControlOK'
    BY <1>1, <1>2, <1>7 DEF ControlOK
  <1>8. ASSUME NEW e \in Errors \cup {"none"}, Raise(e, contexts)
        PROVE  ControlOK'
    <2>1. Unwind(e, contexts)
      BY <1>8 DEF Raise
    <2>2. pc' \in 1..End
      BY <2>1, <1>2, UnwindTypes
    <2> QED BY <2>2, <1>8, <1>7 DEF Raise
  <1>9. ASSUME NEW e \in Errors \cup {"none"}, contexts # <<>>, Raise(e, Tail(contexts))
        PROVE  ControlOK'
    <2>1. Unwind(e, Tail(contexts))
      BY <1>9 DEF Raise
    <2>2. pc' \in 1..End
      BY <2>1, <1>9, <1>2, UnwindTypes
    <2> QED BY <2>2, <1>9, <1>7 DEF Raise
  <1> QED BY <1>4, <1>5, <1>6, <1>8, <1>9

\* Instructions that only touch the operand stack.
LEMMA OperandsKeepTypes ==
    ASSUME TypeInv, NEW s \in Seq(Value), Operands(s)
    PROVE  DataOK' /\ program' = program
  <1>1. DataOK
    BY TypeInvSplit
  <1>2. StatusNow \in SUBSET Flags
    BY <1>1 DEF DataOK, StatusNow, Flags
  <1> QED BY <1>1, <1>2 DEF Operands, DataOK, LabelsKnown, machine

\* The instructions that leave the contexts and stashes alone and take and leave
\* operands in a fixed way.
LEMMA SimpleTypes ==
    ASSUME TypeInv,
           Assign \/ Deref \/ Subscript \/ PushScope \/ PushVal \/ Pop \/ Dup \/ Swap
           \/ Nop \/ Incr \/ Decr \/ Unstash \/ Jump \/ Test \/ Throw \/ Return \/ Yield
           \/ Skip
    PROVE  TypeInv'
  <1>1. stack \in Seq(Value) /\ stashes \in [StashIds -> Value]
    BY TypeInvSplit DEF DataOK
  <1>2. \A n \in Nat \ {0} : Popped(n) \in Value
    BY <1>1, OperandTypes
  <1>3. \A n \in Nat : Below(n) \in Seq(Value)
    BY <1>1, OperandTypes
  <1>4. \A v \in Value, s \in Seq(Value) : Push(v, s) \in Seq(Value)
    BY <1>1, OperandTypes
  <1>5. ASSUME NEW s \in Seq(Value), Stepping, Operands(s),
               Proceed \/ Branch \/ Abort \/ \E e \in Errors \cup {"none"} : Raise(e, contexts)
        PROVE  TypeInv'
    <2>1. DataOK' /\ program' = program
      BY <1>5, OperandsKeepTypes
    <2>2. ControlOK'
      BY <1>5, <2>1, ControlTypes
    <2> QED BY <2>1, <2>2, TypeInvSplit, PTL
  <1>6. \A e \in CallThrows : e \in Errors \cup {"none"}
    BY CallAssumption DEF Errors
  <1>7. Throws => \E e \in Errors \cup {"none"} : Raise(e, contexts)
    BY <1>6 DEF Throws
  <1>8. Fails => \E e \in Errors \cup {"none"} : Raise(e, contexts)
    BY DEF Fails, Errors
  <1>9. CASE Assign
    BY <1>9, <1>3, <1>5, <1>8 DEF Assign, At
  <1>10. CASE Deref
    BY <1>10, <1>3, <1>4, <1>5, <1>7, ValueTypes DEF Deref, At
  <1>11. CASE Subscript
    BY <1>11, <1>3, <1>4, <1>5, <1>7, ValueTypes DEF Subscript, At
  <1>12. CASE PushScope
    BY <1>12, <1>1, <1>4, <1>5, ValueTypes DEF PushScope, At
  <1>13. CASE PushVal
    BY <1>13, <1>1, <1>4, <1>5, HereTypes DEF PushVal, At
  <1>14. CASE Pop
    BY <1>14, <1>3, <1>5 DEF Pop, At
  <1>15. CASE Dup
    BY <1>15, <1>1, <1>2, <1>4, <1>5 DEF Dup, At
  <1>16. CASE Swap
    BY <1>16, <1>2, <1>3, <1>4, <1>5 DEF Swap, At
  <1>17. CASE Nop
    BY <1>17, <1>1, <1>5 DEF Nop, At
  <1>18. Num(Popped(1).n + 1) \in Value /\ Num(Popped(1).n - 1) \in Value
    <2>1. Popped(1).n \in Int
      BY <1>2 DEF Value
    <2> QED BY <2>1, ValueTypes
  <1>19. CASE Incr
    BY <1>19, <1>18, <1>3, <1>4, <1>5 DEF Incr, At
  <1>20. CASE Decr
    BY <1>20, <1>18, <1>3, <1>4, <1>5 DEF Decr, At
  <1>21. CASE Unstash
    <2>1. stashes[Here.value.n] \in Value
      BY <1>21, <1>1, StashTypes DEF Unstash, At
    <2> QED BY <1>21, <2>1, <1>1, <1>4, <1>5 DEF Unstash, At
  <1>22. CASE Jump
    BY <1>22, <1>1, <1>5 DEF Jump, At
  <1>23. CASE Test
    BY <1>23, <1>3, <1>5, <1>8 DEF Test, At
  <1>24. CASE Throw
    <2>1. IF Popped(1).kind = "exc" THEN Popped(1).code \in Errors \cup {"none"} ELSE TRUE
      BY <1>2 DEF Value
    <2> QED BY <1>24, <2>1, <1>3, <1>5 DEF Throw, At, Errors
  <1>25. CASE Return
    BY <1>25, <1>3, <1>5 DEF Return, At, Errors
  <1>26. CASE Yield
    BY <1>26, <1>3, <1>5 DEF Yield, At, Errors
  <1>27. CASE Skip
    BY <1>27, <1>1, <1>5 DEF Skip
  <1> QED BY <1>9, <1>10, <1>11, <1>12, <1>13, <1>14, <1>15, <1>16, <1>17, <1>19,
             <1>20, <1>21, <1>22, <1>23, <1>24, <1>25, <1>26, <1>27

(* Stashing, setting a flag and ending a loop keep the types.              *)
LEMMA StashStatusTypes ==
    ASSUME TypeInv, Stash \/ VMStatus \/ EndLoop
    PROVE  TypeInv'
  <1>1. ControlOK /\ DataOK /\ Stepping
    BY TypeInvSplit DEF Stash, VMStatus, EndLoop, At
  <1>2. StatusNow \in SUBSET Flags
    BY <1>1 DEF DataOK, StatusNow, Flags
  <1>3. DataOK' /\ program' = program
    <2>1. CASE Stash
      <3>1. Popped(1) \in Value /\ Below(1) \in Seq(Value)
        BY <1>1, OperandTypes DEF DataOK
      <3>2. stashes' \in [StashIds -> Value]
        BY <2>1, <3>1, <1>1, StashTypes DEF Stash, At, DataOK
      <3> QED BY <2>1, <1>1, <1>2, <3>1, <3>2 DEF Stash, DataOK, LabelsKnown, machine
    <2>2. CASE VMStatus
      <3>1. status' \in SUBSET Flags
        BY <2>2, <1>1, <1>2, StashTypes DEF VMStatus, At, Flags
      <3> QED BY <2>2, <1>1, <3>1 DEF VMStatus, DataOK, LabelsKnown, machine
    <2>3. CASE EndLoop
      BY <2>3, <1>1, <1>2 DEF EndLoop, DataOK, LabelsKnown, machine
    <2> QED BY <2>1, <2>2, <2>3
  <1>4. ControlOK'
    <2>1. Proceed \/ Branch
      BY DEF Stash, VMStatus, EndLoop
    <2> QED BY <2>1, <1>1, <1>3, ControlTypes
  <1> QED BY <1>3, <1>4, TypeInvSplit, PTL

(* Instructions that call out push what the call answers.                  *)
LEMMA CallTypes ==
    ASSUME TypeInv, FunctionCall \/ Iter \/ NextItem \/ PushCtx
    PROVE  TypeInv'
  <1>1. /\ Stepping /\ pc \in Nat
        /\ stack \in Seq(Value)
        /\ \A n \in Nat \ {0} : Popped(n) \in Value
        /\ \A n \in Nat : Below(n) \in Seq(Value)
        /\ \A v \in Value, s \in Seq(Value) : Push(v, s) \in Seq(Value)
    BY TypeInvSplit, HereTypes, OperandTypes
    DEF DataOK, ControlOK, FunctionCall, Iter, NextItem, PushCtx, At, End
  <1>2. ASSUME NEW s \in Seq(Value), Operands(s),
               Proceed \/ Branch \/ Abort \/ \E e \in Errors \cup {"none"} : Raise(e, contexts)
        PROVE  TypeInv'
    <2>1. DataOK' /\ program' = program
      BY <1>2, OperandsKeepTypes
    <2>2. ControlOK'
      BY <1>1, <1>2, <2>1, ControlTypes
    <2> QED BY <2>1, <2>2, TypeInvSplit, PTL
  <1>3. Throws \/ Fails => \E e \in Errors \cup {"none"} : Raise(e, contexts)
    BY CallAssumption DEF Throws, Fails, Errors
  <1>4. CASE FunctionCall
    <2>1. Arguments + 1 \in Nat
      <3>1. Popped(1) \in Value /\ Here.value \in Value
        BY <1>1, HereTypes
      <3>2. Popped(1).n \in Int /\ Here.value.n \in Int
        BY <3>1 DEF Value
      <3> QED BY <3>2 DEF Arguments, AsCount
    <2>2. Below(Arguments + 1) \in Seq(Value)
      BY <2>1, <1>1
    <2> QED BY <1>4, <2>2, <1>1, <1>2, <1>3, ValueTypes DEF FunctionCall
  <1>5. CASE Iter
    <2>1. ASSUME NEW n \in 0..MaxItems PROVE Iterator(pc, n) \in Value
      BY <1>1, ValueTypes, CallAssumption
    <2> QED BY <1>5, <2>1, <1>1, <1>2, <1>3 DEF Iter
  <1>6. CASE NextItem
    <2>1. [Popped(1) EXCEPT !.n = @ - 1] \in Value
      <3>1. Popped(1) \in Value
        BY <1>1
      <3> QED BY <3>1 DEF Value
    <2>2. Data \in Value /\ Err("Throwable") \in Value
      BY ValueTypes DEF Errors
    <2> QED BY <1>6, <2>1, <2>2, <1>1, <1>2 DEF NextItem
  <1>7. CASE PushCtx
    <2>1. Nil \in Value /\ Data \in Value /\ Err("Throwable") \in Value
      BY ValueTypes DEF Errors
    <2>2. CASE contexts = <<>>
      BY <1>7, <2>2, <1>1, <1>2, <1>3 DEF PushCtx
    <2>3. CASE contexts # <<>>
      BY <1>7, <2>1, <2>3, <1>1, <1>2 DEF PushCtx
    <2> QED BY <2>2, <2>3
  <1> QED BY <1>4, <1>5, <1>6, <1>7

(* Only EnterContext pushes a label, its own, and that one exists.         *)
LEMMA ContextTypes ==
    ASSUME TypeInv, EnterContext \/ LeaveContext
    PROVE  TypeInv'
  <1>1. ControlOK /\ DataOK /\ Stepping
    BY TypeInvSplit DEF EnterContext, LeaveContext, At
  <1>2. StatusNow \in SUBSET Flags
    BY <1>1 DEF DataOK, StatusNow, Flags
  <1>3. program' = program
    BY DEF EnterContext, LeaveContext, machine
  <1>4. CallThrows \subseteq Errors \cup {"none"}
    BY CallAssumption DEF Errors
  <1>5. CASE EnterContext
    <2>1. Here.name \in STRING /\ Here.name \in DOMAIN BytecodeOf(program).labels
      <3>1. program \in Programs /\ pc \in 1..Len(Code) /\ Here.name \in STRING
        BY <1>1, HereTypes DEF DataOK
      <3>2. WellNested(BytecodeOf(program), Nest[program])
        BY <3>1, ProgramsAssumption
      <3> QED BY <1>5, <3>1, <3>2 DEF WellNested, EnterContext, At, Here, Code
    <2>2. ASSUME NEW kind \in ContextKinds,
                 contexts' = <<[label |-> Here.name, kind |-> kind]>> \o contexts
          PROVE  contexts' \in Seq([label : STRING, kind : ContextKinds]) /\ LabelsKnown'
      <3>1. [label |-> Here.name, kind |-> kind] \in [label : STRING, kind : ContextKinds]
        BY <2>1
      <3> QED BY <3>1, <2>1, <2>2, <1>1, <1>3 DEF DataOK, LabelsKnown
    <2>3. contexts' \in Seq([label : STRING, kind : ContextKinds]) /\ LabelsKnown'
      <3>1. \/ contexts' = contexts
            \/ \E kind \in ContextKinds :
                  contexts' = <<[label |-> Here.name, kind |-> kind]>> \o contexts
        BY <1>5 DEF EnterContext, ContextKinds
      <3> QED BY <3>1, <2>2, <1>1, <1>3 DEF DataOK, LabelsKnown
    <2>4. ControlOK'
      <3>1. Proceed \/ \E e \in Errors \cup {"none"} : Raise(e, contexts)
        BY <1>5, <1>4 DEF EnterContext, Throws
      <3> QED BY <3>1, <1>1, <1>3, ControlTypes
    <2>5. DataOK'
      BY <1>5, <1>1, <1>2, <2>3 DEF EnterContext, DataOK, machine
    <2> QED BY <2>4, <2>5, TypeInvSplit, PTL
  <1>6. CASE LeaveContext
    <2>1. contexts' \in Seq([label : STRING, kind : ContextKinds]) /\ LabelsKnown'
      <3>1. contexts' = contexts \/ (contexts # <<>> /\ contexts' = Tail(contexts))
        BY <1>6 DEF LeaveContext
      <3>2. CASE contexts' = contexts
        BY <3>2, <1>1, <1>3 DEF DataOK, LabelsKnown
      <3>3. CASE contexts # <<>> /\ contexts' = Tail(contexts)
        <4>1. contexts \in Seq([label : STRING, kind : ContextKinds])
          BY <1>1 DEF DataOK
        <4>2. /\ contexts' \in Seq([label : STRING, kind : ContextKinds])
              /\ Len(contexts') = Len(contexts) - 1
              /\ \A k \in 1..Len(contexts') : contexts'[k] = contexts[k + 1]
          BY <3>3, <4>1
        <4>3. ASSUME NEW k \in 1..Len(contexts')
              PROVE  contexts'[k].label \in DOMAIN BytecodeOf(program').labels
          BY <4>1, <4>2, <4>3, <1>1, <1>3 DEF DataOK, LabelsKnown
        <4> QED BY <4>2, <4>3 DEF LabelsKnown
      <3> QED BY <3>1, <3>2, <3>3
    <2>2. stack' \in Seq(Value)
      <3>1. Err(exception) \in Value
        BY <1>1, ValueTypes DEF ControlOK
      <3> QED BY <1>6, <1>1, <3>1, OperandTypes DEF LeaveContext, DataOK
    <2>3. ControlOK'
      <3>1. CASE contexts = <<>>
        BY <1>6, <3>1, <1>1, <1>3, ControlTypes DEF LeaveContext
      <3>2. CASE contexts # <<>>
        <4>1. PICK answer \in Errors \cup {"none"} : LeaveWith(answer)
          BY <1>6, <3>2, <1>4 DEF LeaveContext, Errors
        <4>2. CASE exception \in {"Exit", "Return"}
          <5>1. Unwind(exception, Tail(contexts))
                /\ exception' = exception /\ phase' = phase /\ exitCode' \in BOOLEAN
            BY <4>1, <4>2, <1>1 DEF LeaveWith, ControlOK
          <5>2. pc' \in 1..End /\ End' = End
            BY <5>1, <3>2, <1>1, <1>3, UnwindTypes DEF End, Code
          <5> QED BY <5>1, <5>2, <1>1 DEF ControlOK
        <4>3. CASE exception \notin {"Exit", "Return"} /\ answer # "none"
          BY <4>1, <4>3, <3>2, <1>1, <1>3, ControlTypes DEF LeaveWith
        <4>4. CASE exception \notin {"Exit", "Return"} /\ answer = "none"
          BY <4>1, <4>4, <1>1, <1>3, HereTypes DEF LeaveWith, ControlOK, End, Code
        <4> QED BY <4>2, <4>3, <4>4
      <3> QED BY <3>1, <3>2
    <2>4. DataOK'
      BY <1>6, <1>1, <1>2, <2>1, <2>2 DEF LeaveContext, DataOK, machine
    <2> QED BY <2>3, <2>4, TypeInvSplit, PTL
  <1> QED BY <1>5, <1>6

\* What happens around a frame: it is started, finished, or not run.
LEMMA FrameTypes ==
    ASSUME TypeInv,
           \/ \E p \in Programs : Execute(p)
           \/ Resume \/ Refuse \/ Finish \/ RunEnds \/ ExitBehindTheFrame \/ Restart
    PROVE  TypeInv'
  <1>1. ControlOK /\ DataOK
    BY TypeInvSplit
  <1>2. ASSUME NEW p \in Programs PROVE 1 \in 1..(Len(BytecodeOf(p).code) + 1)
    <2>1. Len(BytecodeOf(p).code) \in Nat
      BY ProgramsAssumption DEF WellFormed
    <2> QED BY <2>1
  <1>3. <<>> \in Seq(Value) /\ <<>> \in Seq([label : STRING, kind : ContextKinds])
    OBVIOUS
  <1>4. [s \in StashIds |-> Nil] \in [StashIds -> Value]
    BY ValueTypes
  <1>5. ASSUME NEW p \in Programs, Started(p)
        PROVE  /\ ControlOK' /\ program' \in Programs /\ LabelsKnown'
               /\ stack' \in Seq(Value)
               /\ contexts' \in Seq([label : STRING, kind : ContextKinds])
               /\ result' = "none"
    BY <1>1, <1>2, <1>3, <1>5 DEF Started, ControlOK, End, Code, LabelsKnown
  <1>6. CASE \E p \in Programs : Execute(p)
    <2>1. ControlOK' /\ DataOK'
      BY <1>4, <1>5, <1>6 DEF Execute, DataOK
    <2> QED BY <2>1, TypeInvSplit, PTL
  <1>7. CASE Resume
    <2>1. ControlOK' /\ DataOK'
      BY <1>1, <1>5, <1>7 DEF Resume, DataOK
    <2> QED BY <2>1, TypeInvSplit, PTL
  <1>8. CASE Refuse \/ RunEnds \/ ExitBehindTheFrame
    <2>1. ControlOK' /\ DataOK'
      BY <1>1, <1>8 DEF Refuse, RunEnds, ExitBehindTheFrame, ControlOK, DataOK,
                        End, Code, LabelsKnown, Errors
    <2> QED BY <2>1, TypeInvSplit, PTL
  <1>9. CASE Finish
    <2>1. Returned \in Errors \cup {"none", "value", "returned", "yielded"}
      <3>1. stack # <<>> => stack[1] \in Value
        BY <1>1 DEF DataOK
      <3>2. stack # <<>> => stack[1].code \in Errors \cup {"none"}
        BY <3>1 DEF Value
      <3> QED BY <1>1, <3>2 DEF Returned, ControlOK
    <2>2. ControlOK'
      BY <1>1, <1>9 DEF Finish, ControlOK, End, Code
    <2>3. DataOK'
      BY <1>1, <1>3, <1>9, <2>1 DEF Finish, DataOK, LabelsKnown
    <2> QED BY <2>2, <2>3, TypeInvSplit, PTL
  <1>10. CASE Restart
    <2>1. ControlOK'
      BY <1>2, <1>10 DEF Restart, ControlOK, End, Code
    <2>2. LabelsKnown'
      BY <1>10 DEF Restart, LabelsKnown
    <2>3. /\ stashes' \in [StashIds -> Value] /\ status' \in SUBSET Flags
          /\ stack' \in Seq(Value)
          /\ contexts' \in Seq([label : STRING, kind : ContextKinds])
      BY <1>3, <1>4, <1>10 DEF Restart
    <2>4. DataOK'
      BY <2>2, <2>3, <1>10 DEF Restart, DataOK
    <2> QED BY <2>1, <2>4, TypeInvSplit, PTL
  <1> QED BY <1>6, <1>7, <1>8, <1>9, <1>10

(* Where nothing changes the types stay.                                   *)
LEMMA StutterTypes == TypeInv /\ UNCHANGED vars => TypeInv'
  BY DEF TypeInv, TypeOK, LabelsKnown, vars, End, Code

(* A fresh machine has the types.                                          *)
LEMMA InitTypes == Init => TypeInv
  <1> SUFFICES ASSUME Init PROVE TypeInv
    OBVIOUS
  <1>1. Len(BytecodeOf(program).code) \in Nat
    BY ProgramsAssumption DEF Init, WellFormed
  <1>2. [s \in StashIds |-> Nil] \in [StashIds -> Value]
    BY ValueTypes
  <1>3. LabelsKnown
    BY DEF Init, Fresh, LabelsKnown
  <1>4. ControlOK
    <2>1. pc = 1 /\ phase = "idle" /\ exception = "none" /\ exitCode = FALSE
      BY DEF Init, Fresh
    <2>2. pc \in 1..End
      BY <2>1, <1>1 DEF End, Code
    <2> QED BY <2>1, <2>2 DEF ControlOK
  <1>5. /\ stashes \in [StashIds -> Value]
        /\ stack \in Seq(Value)
        /\ contexts \in Seq([label : STRING, kind : ContextKinds])
    <2>1. stashes = [s \in StashIds |-> Nil] /\ stack = <<>> /\ contexts = <<>>
      BY DEF Init, Fresh
    <2> QED BY <2>1, <1>2
  <1>6. DataOK
    <2>1. /\ program \in Programs /\ status = {} /\ leaving = FALSE
          /\ result = "none"
      BY DEF Init, Fresh
    <2> QED BY <2>1, <1>3, <1>5 DEF DataOK
  <1> QED BY <1>4, <1>6, TypeInvSplit

(* Every step keeps the types.                                             *)
LEMMA NextTypes == TypeInv /\ [Next]_vars => TypeInv'
  <1> SUFFICES ASSUME TypeInv, [Next]_vars PROVE TypeInv'
    OBVIOUS
  <1>1. CASE UNCHANGED vars
    BY <1>1, StutterTypes
  <1>2. CASE Next
    BY <1>2, SimpleTypes, StashStatusTypes, CallTypes, ContextTypes, FrameTypes
    DEF Next, Step, Instructions
  <1> QED BY <1>1, <1>2

\* Every variable keeps its type: in particular pc never leaves the program, and
\* the labels exceptions unwind to exist.
THEOREM TypeCorrect == Spec => []TypeOK
  <1>1. TypeInv => TypeOK
    BY DEF TypeInv
  <1> QED BY <1>1, InitTypes, NextTypes, PTL DEF Spec
--------------------------------------------------------------------------------
(* Blocks: whatever is thrown, returned, skipped or exited, no frame ends *)
(* with an open block.                                                    *)

\* The handlers of the open blocks cs: the text has as many blocks open around
\* each as there are left to close when it is reached.
HandlersDeep(p, cs) ==
    \A k \in 1..Len(cs) :
        Len(cs) - k + 1 <= Len(Nest[p][BytecodeOf(p).labels[cs[k].label]])

\* No more blocks are open than the text has around the instruction at hand.
\* There may be fewer: skipping passes by an EnterContext.
NoMoreThanText == Len(contexts) <= Len(Nest[program][pc])

Looping == phase = "running" /\ exception # "Yield"

DepthInv == TypeInv /\ (Looping => HandlersDeep(program, contexts) /\ NoMoreThanText)

-------------------------------------------------------------------------------

\* The labels of the open blocks are names of instructions.
LEMMA NestTypes ==
    ASSUME NEW p \in Programs
    PROVE  Nest[p] \in [1..(Len(BytecodeOf(p).code) + 1) -> Seq(STRING)]
  <1> DEFINE n == Len(BytecodeOf(p).code)
             names == {BytecodeOf(p).code[i].name : i \in 1..n}
  <1>1. WellFormed(BytecodeOf(p)) /\ WellNested(BytecodeOf(p), Nest[p])
    BY ProgramsAssumption
  <1>2. BytecodeOf(p).code \in Seq(InstructionSet)
    BY <1>1 DEF WellFormed
  <1>3. names \subseteq STRING
    <2> SUFFICES ASSUME NEW i \in 1..n PROVE BytecodeOf(p).code[i].name \in STRING
      OBVIOUS
    <2>1. BytecodeOf(p).code[i] \in InstructionSet
      BY <1>2
    <2> QED BY <2>1 DEF InstructionSet
  <1>4. Nest[p] \in [1..(n + 1) -> Seq(names)]
    BY <1>1 DEF WellNested
  <1>5. ASSUME NEW S, S \subseteq STRING PROVE Seq(S) \subseteq Seq(STRING)
    <2> SUFFICES ASSUME NEW s \in Seq(S) PROVE s \in Seq(STRING)
      OBVIOUS
    <2>1. Len(s) \in Nat /\ s = [i \in 1..Len(s) |-> s[i]]
      OBVIOUS
    <2>2. \A i \in 1..Len(s) : s[i] \in STRING
      <3> SUFFICES ASSUME NEW i \in 1..Len(s) PROVE s[i] \in STRING
        OBVIOUS
      <3>1. s[i] \in S
        OBVIOUS
      <3> QED BY <1>5, <3>1
    <2>3. [i \in 1..Len(s) |-> s[i]] \in Seq(STRING)
      BY <2>1, <2>2
    <2> QED BY <2>1, <2>3
  <1> HIDE DEF names
  <1>6. Seq(names) \subseteq Seq(STRING)
    BY <1>3, <1>5
  <1> HIDE DEF n
  <1>7. Nest[p] \in [1..(n + 1) -> Seq(STRING)]
    BY <1>4, <1>6
  <1> QED BY <1>7 DEF n

\* The blocks around the instruction at hand and around the ones it leads to.
LEMMA NestHere ==
    ASSUME TypeInv, Stepping
    PROVE  /\ program \in Programs /\ pc \in 1..Len(Code)
           /\ Nest[program] \in [1..End -> Seq(STRING)]
           /\ Nest[program][1] = <<>> /\ Nest[program][End] = <<>>
           /\ Here.op = "EnterContext" =>
                 /\ Nest[program][pc + 1] = <<Here.name>> \o Nest[program][pc]
                 /\ Here.name \in DOMAIN BytecodeOf(program).labels
                 /\ Code[Label(Here.name)].op = "LeaveContext"
                 /\ Nest[program][Label(Here.name)] = Nest[program][pc + 1]
                 /\ pc > 1 => Nest[program][pc] # <<>>
           /\ Here.op = "LeaveContext" =>
                 /\ Nest[program][pc] # <<>>
                 /\ Nest[program][pc + 1] = Tail(Nest[program][pc])
           /\ Here.op \notin {"EnterContext", "LeaveContext"} =>
                 Nest[program][pc + 1] = Nest[program][pc]
           /\ Here.op \in Branches =>
                 /\ Here.name \in DOMAIN BytecodeOf(program).labels
                 /\ Nest[program][Label(Here.name)] = Nest[program][pc]
  <1>1. program \in Programs /\ pc \in 1..Len(Code)
    BY HereTypes DEF TypeInv, TypeOK
  <1>2. WellNested(BytecodeOf(program), Nest[program])
    BY <1>1, ProgramsAssumption
  <1>3. Nest[program] \in [1..End -> Seq(STRING)]
    BY <1>1, NestTypes DEF End, Code
  <1> QED BY <1>1, <1>2, <1>3 DEF WellNested, Code, Here, End, Label

\* The program's first instruction, and what lies behind its last.
LEMMA NestEnds ==
    ASSUME NEW p \in Programs
    PROVE  /\ Nest[p][1] = <<>> /\ Nest[p][Len(BytecodeOf(p).code) + 1] = <<>>
           /\ BytecodeOf(p).code[1].value = Nil
  BY ProgramsAssumption DEF WellNested

\* How a step of the fetch loop moves in the text, and what it does to the blocks.
Stays == /\ contexts' = contexts
         /\ \/ pc' = pc + 1 /\ Here.op # "LeaveContext"
            \/ Here.op \in Branches /\ pc' = Label(Here.name)
            \/ contexts # <<>> /\ pc' = Label(contexts[1].label)
            \/ contexts = <<>> /\ pc' = End
Enters == /\ Here.op = "EnterContext" /\ pc' = pc + 1
          /\ \E kind \in ContextKinds :
                contexts' = <<[label |-> Here.name, kind |-> kind]>> \o contexts
Leaves == /\ Here.op = "LeaveContext"
          /\ contexts # <<>> /\ contexts' = Tail(contexts)
          /\ \/ pc' = pc + 1
             \/ Tail(contexts) # <<>> /\ pc' = Label(Tail(contexts)[1].label)
             \/ Tail(contexts) = <<>> /\ pc' = End
Moves == phase' = "aborted" \/ exception' = "Yield" \/ Stays \/ Enters \/ Leaves

\* What an instruction that opens and closes no block answers.
LEMMA AnswersStay ==
    ASSUME TypeInv, Stepping, contexts' = contexts, Here.op # "LeaveContext"
    PROVE  /\ Proceed => Moves
           /\ Abort => Moves
           /\ Here.op \in Branches /\ Branch => Moves
           /\ \A e : Raise(e, contexts) => Moves
  <1>1. Proceed => Moves
    BY DEF Proceed, Moves, Stays
  <1>2. Abort => Moves
    BY DEF Abort, Moves
  <1>3. Here.op \in Branches /\ Branch => Moves
    BY <1>1, <1>2 DEF Branch, Moves, Stays
  <1>4. ASSUME NEW e, Raise(e, contexts) PROVE Moves
    <2>1. CASE e = "Yield" /\ ~ExitSeen
      BY <1>4, <2>1 DEF Raise, Moves
    <2>2. CASE ~(e = "Yield" /\ ~ExitSeen)
      BY <1>4, <2>2 DEF Raise, Unwind, Moves, Stays
    <2> QED BY <2>1, <2>2
  <1> QED BY <1>1, <1>2, <1>3, <1>4

\* LeaveContext closes the innermost block, whatever its handler answers.
LEMMA LeaveMoves ==
    ASSUME TypeInv, LeaveContext
    PROVE  Moves
  <1>1. Here.op = "LeaveContext"
    BY DEF LeaveContext, At
  <1>2. CASE contexts = <<>>
    BY <1>2 DEF LeaveContext, Abort, Moves
  <1>3. CASE contexts # <<>>
    <2>1. PICK answer : LeaveWith(answer)
      BY <1>3 DEF LeaveContext
    <2>2. contexts' = Tail(contexts)
      BY <1>3 DEF LeaveContext
    <2>3. ASSUME NEW e, Unwind(e, Tail(contexts)) PROVE Leaves
      BY <1>1, <1>3, <2>2, <2>3 DEF Unwind, Leaves
    <2>4. pc' = pc + 1 => Leaves
      BY <1>1, <1>3, <2>2 DEF Leaves
    <2> QED BY <2>1, <2>3, <2>4 DEF LeaveWith, Raise, Moves
  <1> QED BY <1>2, <1>3

\* Every step of the fetch loop is one of these.
LEMMA StepMoves ==
    ASSUME TypeInv, Skip \/ Instructions
    PROVE  Moves /\ program' = program /\ Stepping
           /\ phase' \in {"running", "aborted"}
  <1>1. program' = program
    BY DEF Skip, Instructions, Operands, machine, Assign, Deref, Subscript, PushScope,
           PushVal, PushCtx, Pop, Dup, Swap, Nop, Incr, Decr, Stash, Unstash,
           FunctionCall, VMStatus, Jump, EndLoop, Test, Iter, NextItem, EnterContext,
           LeaveContext, Throw, Return, Yield
  <1>2. Stepping
    BY DEF Skip, Instructions, At, Assign, Deref, Subscript, PushScope,
           PushVal, PushCtx, Pop, Dup, Swap, Nop, Incr, Decr, Stash, Unstash,
           FunctionCall, VMStatus, Jump, EndLoop, Test, Iter, NextItem, EnterContext,
           LeaveContext, Throw, Return, Yield
  <1>3. phase' \in {"running", "aborted"}
    <2>1. phase = "running"
      BY <1>2 DEF Stepping
    <2>2. Proceed \/ Branch \/ Abort \/ (\E e, open : Raise(e, open))
             \/ (\E answer : LeaveWith(answer))
      BY DEF Skip, Instructions, Throws, Fails, Assign, Deref, Subscript, PushScope,
           PushVal, PushCtx, Pop, Dup, Swap, Nop, Incr, Decr, Stash, Unstash,
           FunctionCall, VMStatus, Jump, EndLoop, Test, Iter, NextItem, EnterContext,
           LeaveContext, Throw, Return, Yield
    <2> QED BY <2>1, <2>2 DEF Proceed, Branch, Abort, Raise, LeaveWith
  <1>4. Moves
    <2>1. CASE LeaveContext
      BY <2>1, LeaveMoves
    <2>2. CASE EnterContext
      <3>1. Here.op = "EnterContext"
        BY <2>2 DEF EnterContext, At
      <3>2. CASE contexts' = contexts
        BY <2>2, <3>1, <3>2, <1>2, AnswersStay DEF EnterContext, Throws
      <3>3. CASE contexts' # contexts
        BY <2>2, <3>1, <3>3 DEF EnterContext, Moves, Enters, Proceed, ContextKinds
      <3> QED BY <3>2, <3>3
    <2>3. CASE Skip
      BY <2>3, <1>2, AnswersStay DEF Skip, Operands, CallMe, SkippingTo
    <2>4. CASE Assign \/ Deref \/ Subscript \/ PushScope \/ PushVal \/ PushCtx \/ Pop
               \/ Dup \/ Swap \/ Nop \/ Incr \/ Decr \/ Stash \/ Unstash
      <3>1. contexts' = contexts /\ Here.op # "LeaveContext"
        BY <2>4 DEF Operands, At, Assign, Deref, Subscript, PushScope, PushVal, PushCtx,
                    Pop, Dup, Swap, Nop, Incr, Decr, Stash, Unstash
      <3>2. Proceed \/ Abort \/ \E e : Raise(e, contexts)
        BY <2>4 DEF Throws, Fails, Assign, Deref, Subscript, PushScope, PushVal, PushCtx,
                    Pop, Dup, Swap, Nop, Incr, Decr, Stash, Unstash
      <3> QED BY <3>1, <3>2, <1>2, AnswersStay
    <2>5. CASE FunctionCall \/ VMStatus \/ Jump \/ EndLoop \/ Test \/ Iter \/ NextItem
               \/ Throw \/ Return \/ Yield
      <3>1. contexts' = contexts /\ Here.op # "LeaveContext"
        BY <2>5 DEF Operands, At, FunctionCall, VMStatus, Jump, EndLoop, Test, Iter,
                    NextItem, Throw, Return, Yield
      <3>2. Proceed \/ Abort \/ (\E e : Raise(e, contexts))
               \/ (Here.op \in Branches /\ Branch)
        BY <2>5 DEF Throws, Fails, At, Branches, FunctionCall, VMStatus, Jump, EndLoop,
                    Test, Iter, NextItem, Throw, Return, Yield
      <3> QED BY <3>1, <3>2, <1>2, AnswersStay
    <2> QED BY <2>1, <2>2, <2>3, <2>4, <2>5 DEF Instructions
  <1> QED BY <1>1, <1>2, <1>3, <1>4
-------------------------------------------------------------------------------

\* Closing the innermost block leaves the handlers of the others.
LEMMA DeepTail ==
    ASSUME NEW p, NEW cs \in Seq([label : STRING, kind : ContextKinds]),
           HandlersDeep(p, cs), cs # <<>>
    PROVE  HandlersDeep(p, Tail(cs))
  <1>1. /\ Len(Tail(cs)) = Len(cs) - 1 /\ Len(cs) \in Nat
        /\ \A k \in 1..Len(Tail(cs)) : k + 1 \in 1..Len(cs) /\ Tail(cs)[k] = cs[k + 1]
    OBVIOUS
  <1>2. ASSUME NEW k \in 1..Len(Tail(cs))
        PROVE  Len(Tail(cs)) - k + 1
                  <= Len(Nest[p][BytecodeOf(p).labels[Tail(cs)[k].label]])
    <2>1. Len(cs) - (k + 1) + 1 <= Len(Nest[p][BytecodeOf(p).labels[cs[k + 1].label]])
      BY <1>1 DEF HandlersDeep
    <2>2. Len(Tail(cs)) - k + 1 = Len(cs) - (k + 1) + 1
      BY <1>1
    <2> QED BY <2>1, <2>2, <1>1
  <1> QED BY <1>2 DEF HandlersDeep

\* Opening one adds its handler, which lies as deep as what it guards.
LEMMA DeepPush ==
    ASSUME NEW p, NEW cs \in Seq([label : STRING, kind : ContextKinds]),
           NEW c \in [label : STRING, kind : ContextKinds],
           HandlersDeep(p, cs),
           Len(cs) + 1 <= Len(Nest[p][BytecodeOf(p).labels[c.label]])
    PROVE  HandlersDeep(p, <<c>> \o cs)
  <1> DEFINE new == <<c>> \o cs
  <1>1. /\ Len(new) = Len(cs) + 1 /\ Len(cs) \in Nat /\ new[1] = c
        /\ \A k \in 1..Len(cs) : new[k + 1] = cs[k]
    OBVIOUS
  <1> HIDE DEF new
  <1>2. ASSUME NEW k \in 1..Len(new)
        PROVE  Len(new) - k + 1 <= Len(Nest[p][BytecodeOf(p).labels[new[k].label]])
    <2>1. CASE k = 1
      BY <2>1, <1>1
    <2>2. CASE k # 1
      <3>1. k - 1 \in 1..Len(cs) /\ (k - 1) + 1 = k
        BY <2>2, <1>1
      <3>2. new[k] = cs[k - 1]
        BY <3>1, <1>1
      <3>3. Len(cs) - (k - 1) + 1 <= Len(Nest[p][BytecodeOf(p).labels[cs[k - 1].label]])
        BY <3>1 DEF HandlersDeep
      <3>4. Len(new) - k + 1 = Len(cs) - (k - 1) + 1
        BY <3>1, <1>1
      <3> QED BY <3>2, <3>3, <3>4
    <2> QED BY <2>1, <2>2
  <1>3. HandlersDeep(p, new)
    BY <1>2 DEF HandlersDeep
  <1> QED BY <1>3 DEF new

\* A step of the fetch loop opens no more blocks than it moves into.
LEMMA MovesKeepDepth ==
    ASSUME DepthInv, TypeInv', Looping, Moves, program' = program, Stepping
    PROVE  DepthInv'
  <1>1. /\ contexts \in Seq([label : STRING, kind : ContextKinds])
        /\ HandlersDeep(program, contexts)
        /\ Len(contexts) <= Len(Nest[program][pc])
        /\ TypeInv
    BY TypeInvSplit DEF DepthInv, DataOK, NoMoreThanText
  <1>2. program \in Programs /\ pc \in 1..Len(Code) /\ Len(Code) \in Nat
        /\ Nest[program] \in [1..End -> Seq(STRING)] /\ Nest[program][End] = <<>>
    BY <1>1, NestHere, HereTypes
  <1>3. Nest[program][pc] \in Seq(STRING) /\ Nest[program][pc + 1] \in Seq(STRING)
    BY <1>2 DEF End
  <1> SUFFICES Looping' => /\ HandlersDeep(program, contexts')
                           /\ Len(contexts') <= Len(Nest[program][pc'])
    BY DEF DepthInv, NoMoreThanText
  <1>4. CASE phase' = "aborted" \/ exception' = "Yield"
    BY <1>4 DEF Looping
  <1>5. CASE Stays
    <2>1. HandlersDeep(program, contexts')
      BY <1>1, <1>5 DEF Stays
    <2>2. Len(contexts) <= Len(Nest[program][pc'])
      <3>1. CASE pc' = pc + 1 /\ Here.op # "LeaveContext"
        <4>1. CASE Here.op = "EnterContext"
          BY <3>1, <4>1, <1>1, <1>3, NestHere
        <4>2. CASE Here.op # "EnterContext"
          BY <3>1, <4>2, <1>1, <1>3, NestHere
        <4> QED BY <4>1, <4>2
      <3>2. CASE Here.op \in Branches /\ pc' = Label(Here.name)
        BY <3>2, <1>1, NestHere
      <3>3. CASE contexts # <<>> /\ pc' = Label(contexts[1].label)
        <4>1. 1 \in 1..Len(contexts) /\ Len(contexts) - 1 + 1 = Len(contexts)
          BY <3>3, <1>1
        <4> QED BY <3>3, <4>1, <1>1 DEF HandlersDeep, Label
      <3>4. CASE contexts = <<>> /\ pc' = End
        BY <3>4, <1>2
      <3> QED BY <3>1, <3>2, <3>3, <3>4, <1>5 DEF Stays
    <2> QED BY <2>1, <2>2, <1>5 DEF Stays
  <1>6. CASE Enters
    <2>1. /\ Nest[program][pc + 1] = <<Here.name>> \o Nest[program][pc]
          /\ Nest[program][Label(Here.name)] = Nest[program][pc + 1]
      BY <1>1, <1>6, NestHere DEF Enters
    <2>2. Here.name \in STRING
      BY <1>1, HereTypes
    <2>3. Len(Nest[program][pc + 1]) = Len(Nest[program][pc]) + 1
      BY <2>1, <2>2, <1>3
    <2>4. PICK kind \in ContextKinds :
             contexts' = <<[label |-> Here.name, kind |-> kind]>> \o contexts
      BY <1>6 DEF Enters
    <2> DEFINE c == [label |-> Here.name, kind |-> kind]
    <2>5. c \in [label : STRING, kind : ContextKinds] /\ c.label = Here.name
      BY <2>2
    <2>6. Len(contexts) + 1 <= Len(Nest[program][BytecodeOf(program).labels[c.label]])
      <3>1. Len(contexts) \in Nat /\ Len(Nest[program][pc]) \in Nat
        BY <1>1, <1>3
      <3> QED BY <3>1, <2>1, <2>3, <2>5, <1>1 DEF Label
    <2>7. HandlersDeep(program, contexts')
      <3> HIDE DEF c
      <3>1. HandlersDeep(program, <<c>> \o contexts)
        BY <1>1, <2>5, <2>6, DeepPush
      <3> QED BY <3>1, <2>4 DEF c
    <2>8. Len(contexts') = Len(contexts) + 1
      BY <2>4, <2>5, <1>1
    <2>9. pc' = pc + 1 /\ Len(contexts) \in Nat /\ Len(Nest[program][pc]) \in Nat
      BY <1>1, <1>3, <1>6 DEF Enters
    <2> QED BY <2>3, <2>7, <2>8, <2>9, <1>1
  <1>7. CASE Leaves
    <2>1. contexts # <<>> /\ contexts' = Tail(contexts)
      BY <1>7 DEF Leaves
    <2>2. /\ HandlersDeep(program, contexts')
          /\ contexts' \in Seq([label : STRING, kind : ContextKinds])
      <3>1. HandlersDeep(program, Tail(contexts))
        BY <2>1, <1>1, DeepTail
      <3>2. Tail(contexts) \in Seq([label : STRING, kind : ContextKinds])
        BY <2>1, <1>1
      <3> QED BY <3>1, <3>2, <2>1
    <2>3. Len(contexts') <= Len(Nest[program][pc'])
      <3>1. CASE pc' = pc + 1
        <4>1. Nest[program][pc] # <<>> /\ Nest[program][pc + 1] = Tail(Nest[program][pc])
          BY <1>1, <1>7, NestHere DEF Leaves
        <4>2. /\ Len(Nest[program][pc + 1]) = Len(Nest[program][pc]) - 1
              /\ Len(Nest[program][pc]) \in Nat
          BY <4>1, <1>3
        <4>3. Len(contexts') = Len(contexts) - 1 /\ Len(contexts) \in Nat
          BY <2>1, <1>1
        <4> QED BY <3>1, <4>2, <4>3, <1>1
      <3>2. CASE Tail(contexts) # <<>> /\ pc' = Label(Tail(contexts)[1].label)
        <4>1. 1 \in 1..Len(contexts') /\ Len(contexts') - 1 + 1 = Len(contexts')
          BY <3>2, <2>1, <2>2
        <4> QED BY <3>2, <4>1, <2>1, <2>2 DEF HandlersDeep, Label
      <3>3. CASE Tail(contexts) = <<>> /\ pc' = End
        <4>1. contexts' = <<>> /\ Nest[program][pc'] = <<>>
          BY <3>3, <2>1, <1>2
        <4> QED BY <4>1
      <3> QED BY <3>1, <3>2, <3>3, <1>7 DEF Leaves
    <2> QED BY <2>2, <2>3
  <1> QED BY <1>4, <1>5, <1>6, <1>7 DEF Moves

\* A frame starts with no block open, and nothing around it touches its blocks.
LEMMA FrameKeepsDepth ==
    ASSUME DepthInv, TypeInv',
           \/ \E p \in Programs : Execute(p)
           \/ Resume \/ Refuse \/ Finish \/ RunEnds \/ ExitBehindTheFrame \/ Restart
           \/ UNCHANGED vars
    PROVE  DepthInv'
  <1>1. CASE (\E p \in Programs : Execute(p)) \/ Resume
    <2>1. contexts' = <<>> /\ pc' = 1 /\ program' \in Programs
      BY <1>1, TypeInvSplit DEF Execute, Resume, Started, DepthInv, DataOK
    <2>2. Nest[program'][1] = <<>>
      BY <2>1, NestEnds
    <2>3. HandlersDeep(program', contexts') /\ Len(contexts') <= Len(Nest[program'][pc'])
      BY <2>1, <2>2 DEF HandlersDeep
    <2> QED BY <2>3 DEF DepthInv, NoMoreThanText
  <1>2. CASE Refuse \/ Finish \/ RunEnds \/ Restart
    <2>1. phase' = "idle"
      BY <1>2 DEF Refuse, Finish, RunEnds, Restart
    <2> QED BY <2>1 DEF DepthInv, Looping
  <1>3. CASE ExitBehindTheFrame \/ UNCHANGED vars
    <2>1. UNCHANGED <<program, phase, pc, contexts, exception>>
      BY <1>3 DEF ExitBehindTheFrame, vars
    <2> QED BY <2>1 DEF DepthInv, Looping, HandlersDeep, NoMoreThanText
  <1> QED BY <1>1, <1>2, <1>3

(* The invariant holds at the start and is kept by every step.             *)
LEMMA DepthInductive ==
    /\ Init => DepthInv
    /\ DepthInv /\ [Next]_vars => DepthInv'
  <1>1. ASSUME Init PROVE DepthInv
    <2>1. phase = "idle"
      BY <1>1 DEF Init, Fresh
    <2> QED BY <1>1, <2>1, InitTypes DEF DepthInv, Looping
  <1>2. ASSUME DepthInv, [Next]_vars PROVE DepthInv'
    <2>1. TypeInv /\ TypeInv'
      BY <1>2, NextTypes DEF DepthInv
    <2>2. CASE Skip \/ Instructions
      <3>1. Moves /\ program' = program /\ Stepping
        BY <2>1, <2>2, StepMoves
      <3>2. Looping
        BY <3>1 DEF Looping, Stepping
      <3> QED BY <1>2, <2>1, <3>1, <3>2, MovesKeepDepth
    <2>3. CASE ~(Skip \/ Instructions)
      BY <1>2, <2>1, <2>3, FrameKeepsDepth DEF Next, Step
    <2> QED BY <2>2, <2>3
  <1> QED BY <1>1, <1>2

\* Unless a generator yields, no frame ends with an open block, in any program
\* and whatever is thrown, returned, skipped or exited in it, also by another
\* thread: every block that was entered has been left.
THEOREM AllBlocksLeft == Spec => FinishUnwound
  <1>1. ASSUME DepthInv, [Next]_vars, phase = "running", phase' = "idle",
               exception # "Yield"
        PROVE  contexts = <<>>
    <2>1. TypeInv /\ program \in Programs
          /\ contexts \in Seq([label : STRING, kind : ContextKinds])
      BY <1>1, TypeInvSplit DEF DepthInv, DataOK
    <2>2. Finish
      <3>1. ~(Skip \/ Instructions)
        BY <1>1, <2>1, StepMoves
      <3> QED BY <1>1, <3>1 DEF Next, Step, Execute, Resume, Started, Refuse, RunEnds,
                                ExitBehindTheFrame, Restart, vars
    <2>3. pc = End
      BY <1>1, <2>2 DEF Finish
    <2>4. Nest[program][pc] = <<>>
      BY <2>1, <2>3, NestEnds DEF End, Code
    <2>5. Len(contexts) <= Len(Nest[program][pc])
      BY <1>1 DEF DepthInv, Looping, NoMoreThanText
    <2>6. Len(contexts) <= 0
      BY <2>4, <2>5
    <2> QED BY <2>1, <2>6
  <1>2. DepthInv /\ [Next]_vars
           => [phase = "running" /\ phase' = "idle" /\ exception # "Yield"
                 => contexts = <<>>]_vars
    BY <1>1
  <1> QED BY <1>2, DepthInductive, PTL DEF Spec, FinishUnwound
--------------------------------------------------------------------------------
(* The blocks of a frame whose thread's exit code is not set by others: the  *)
(* context stack follows the text of the program, and every LeaveContext     *)
(* that is executed has a block to leave.                                    *)

ContextSeq == Seq([label : STRING, kind : ContextKinds])

\* The open blocks cs are those around instruction i.
Around(p, cs, i) ==
    /\ Len(Nest[p][i]) = Len(cs)
    /\ \A j \in 1..Len(cs) : Nest[p][i][j] = cs[j].label

\* The handlers of the open blocks cs: each is the LeaveContext that closes its
\* own block, and lies in the blocks that are open around it.
Handlers(p, cs) ==
    \A k \in 1..Len(cs) :
        LET target == BytecodeOf(p).labels[cs[k].label] IN
        /\ BytecodeOf(p).code[target].op = "LeaveContext"
        /\ Around(p, SubSeq(cs, k, Len(cs)), target)

\* While the thread is exiting, a frame that is no leave handler closes its
\* blocks and does nothing else.
Exiting == exitCode /\ ~leaving
ExitPath ==
    Exiting => /\ exception \in {"Exit", "Return"}
               /\ status # {"Exit"} => pc = End \/ Here.op = "LeaveContext"
               /\ status = {"Exit"} /\ contexts = <<>>
                     => pc > 1 /\ Nest[program][pc] = <<>>

\* The instruction whose answer will be thrown away enters no block.
AnswerIsDropped ==
    exitCode /\ status # {"Exit"}
        => pc = End \/ Here.op # "EnterContext" \/ Here.value = Nil

\* Wherever a break or continue may lead, no block is opened before a loop ends.
BreakIsSafe ==
    status \cap {"Break", "Continue"} # {}
        => /\ Protected(BytecodeOf(program), pc)
           /\ \A k \in 1..Len(contexts) :
                 Protected(BytecodeOf(program), Label(contexts[k].label))

\* The flags of the status word that occur together.
StatusOK ==
    phase = "running" \/ (phase = "idle" /\ result = "yielded")
        => /\ "Exit" \in status => exitCode
           /\ \/ status \in {{}, {"Exit"}}
              \/ /\ status \in {{"Break"}, {"Continue"}, {"Exit", "Break"},
                                {"Exit", "Continue"}}
                 /\ Looping

ContextInv ==
    /\ TypeInv /\ StatusOK
    /\ Looping => /\ Handlers(program, contexts)
                  /\ ~Exiting \/ status # {"Exit"} => Around(program, contexts, pc)
                  /\ ExitPath /\ AnswerIsDropped /\ BreakIsSafe

-------------------------------------------------------------------------------
(* Blocks and their handlers *)

\* The blocks that are left when the innermost one is closed.
LEMMA AroundTail ==
    ASSUME NEW p, NEW cs \in ContextSeq, NEW i, NEW i1,
           Nest[p][i] \in Seq(STRING), cs # <<>>,
           Around(p, cs, i), Nest[p][i1] = Tail(Nest[p][i])
    PROVE  Around(p, Tail(cs), i1)
  <1> DEFINE n == Nest[p][i]
  <1>1. /\ Len(n) = Len(cs) /\ Len(cs) \in Nat /\ Len(cs) > 0
        /\ \A j \in 1..Len(cs) : n[j] = cs[j].label
    BY DEF Around, ContextSeq
  <1> HIDE DEF n
  <1>2. n \in Seq(STRING) /\ cs \in Seq([label : STRING, kind : ContextKinds])
    BY DEF n, ContextSeq
  <1>3. /\ Len(Tail(n)) = Len(cs) - 1 /\ Len(Tail(cs)) = Len(cs) - 1
        /\ \A j \in 1..(Len(cs) - 1) :
              j + 1 \in 1..Len(cs) /\ Tail(n)[j] = n[j + 1] /\ Tail(cs)[j] = cs[j + 1]
    BY <1>1, <1>2
  <1>4. ASSUME NEW j \in 1..(Len(cs) - 1) PROVE Tail(n)[j] = Tail(cs)[j].label
    <2>1. n[j + 1] = cs[j + 1].label
      BY <1>1, <1>3
    <2> QED BY <2>1, <1>3
  <1>5. Nest[p][i1] = Tail(n)
    BY DEF n
  <1> QED BY <1>3, <1>4, <1>5 DEF Around

\* The blocks that are open when one more is.
LEMMA AroundPush ==
    ASSUME NEW p, NEW cs \in ContextSeq, NEW i, NEW i1,
           NEW c \in [label : STRING, kind : ContextKinds],
           Nest[p][i] \in Seq(STRING),
           Around(p, cs, i), Nest[p][i1] = <<c.label>> \o Nest[p][i]
    PROVE  Around(p, <<c>> \o cs, i1)
  <1> DEFINE n == Nest[p][i]
             n1 == <<c.label>> \o n
             cs1 == <<c>> \o cs
  <1> HIDE DEF n1, cs1
  <1>0. Len(n) = Len(cs) /\ \A j \in 1..Len(cs) : n[j] = cs[j].label
    BY DEF Around
  <1> HIDE DEF n
  <1>1. Len(n) = Len(cs) /\ Len(cs) \in Nat /\ \A j \in 1..Len(cs) : n[j] = cs[j].label
    BY <1>0 DEF ContextSeq
  <1>2. n \in Seq(STRING) /\ cs \in Seq([label : STRING, kind : ContextKinds])
    BY DEF n, ContextSeq
  <1>3. /\ Len(n1) = Len(cs) + 1 /\ Len(cs1) = Len(cs) + 1
        /\ n1[1] = c.label /\ cs1[1] = c
        /\ \A j \in 1..Len(cs) : n1[j + 1] = n[j] /\ cs1[j + 1] = cs[j]
    BY <1>1, <1>2 DEF n1, cs1
  <1>4. Nest[p][i1] = n1
    BY DEF n, n1
  <1>5. ASSUME NEW j \in 1..Len(cs1) PROVE n1[j] = cs1[j].label
    <2>1. CASE j = 1
      BY <2>1, <1>3
    <2>2. CASE j # 1
      <3>1. j - 1 \in 1..Len(cs) /\ (j - 1) + 1 = j
        BY <2>2, <1>1, <1>3
      <3>2. n1[j] = n[j - 1] /\ cs1[j] = cs[j - 1]
        BY <3>1, <1>3
      <3> QED BY <3>1, <3>2, <1>1
    <2> QED BY <2>1, <2>2
  <1>6. Around(p, cs1, i1)
    BY <1>3, <1>4, <1>5 DEF Around
  <1> QED BY <1>6 DEF cs1


(* The handlers of fewer blocks are handlers still.                        *)
LEMMA HandlersTail ==
    ASSUME NEW p, NEW cs \in ContextSeq, Handlers(p, cs), cs # <<>>
    PROVE  Handlers(p, Tail(cs))
  <1>1. /\ Len(Tail(cs)) = Len(cs) - 1 /\ Len(cs) \in Nat
        /\ \A k \in 1..Len(Tail(cs)) : k + 1 \in 1..Len(cs) /\ Tail(cs)[k] = cs[k + 1]
    BY DEF ContextSeq
  <1>2. ASSUME NEW k \in 1..Len(Tail(cs))
        PROVE  LET target == BytecodeOf(p).labels[Tail(cs)[k].label] IN
               /\ BytecodeOf(p).code[target].op = "LeaveContext"
               /\ Around(p, SubSeq(Tail(cs), k, Len(Tail(cs))), target)
    <2>1. Tail(cs)[k] = cs[k + 1] /\ k + 1 \in 1..Len(cs)
      BY <1>1
    <2>2. SubSeq(Tail(cs), k, Len(Tail(cs))) = SubSeq(cs, k + 1, Len(cs))
      BY <1>1 DEF ContextSeq
    <2> QED BY <2>1, <2>2 DEF Handlers
  <1> QED BY <1>2 DEF Handlers

(* A block whose label leads out of it adds a good handler.                *)
LEMMA HandlersPush ==
    ASSUME NEW p, NEW cs \in ContextSeq,
           NEW c \in [label : STRING, kind : ContextKinds],
           Handlers(p, cs),
           BytecodeOf(p).code[BytecodeOf(p).labels[c.label]].op = "LeaveContext",
           Around(p, <<c>> \o cs, BytecodeOf(p).labels[c.label])
    PROVE  Handlers(p, <<c>> \o cs)
  <1> DEFINE new == <<c>> \o cs
  <1>1. /\ Len(new) = Len(cs) + 1 /\ Len(cs) \in Nat /\ new[1] = c
        /\ \A k \in 1..Len(cs) : new[k + 1] = cs[k]
        /\ SubSeq(new, 1, Len(new)) = new
        /\ \A k \in 1..Len(cs) : SubSeq(new, k + 1, Len(new)) = SubSeq(cs, k, Len(cs))
    BY DEF ContextSeq
  <1>2. Around(p, new, BytecodeOf(p).labels[c.label])
    OBVIOUS
  <1> HIDE DEF new
  <1>3. ASSUME NEW k \in 1..Len(new)
        PROVE  LET target == BytecodeOf(p).labels[new[k].label] IN
               /\ BytecodeOf(p).code[target].op = "LeaveContext"
               /\ Around(p, SubSeq(new, k, Len(new)), target)
    <2>1. CASE k = 1
      BY <2>1, <1>1, <1>2
    <2>2. CASE k # 1
      <3>1. k - 1 \in 1..Len(cs) /\ (k - 1) + 1 = k
        BY <2>2, <1>1
      <3>2. new[k] = cs[k - 1] /\ SubSeq(new, k, Len(new)) = SubSeq(cs, k - 1, Len(cs))
        BY <3>1, <1>1
      <3> QED BY <3>1, <3>2 DEF Handlers
    <2> QED BY <2>1, <2>2
  <1>4. Handlers(p, new)
    BY <1>3 DEF Handlers
  <1> QED BY <1>4 DEF new
-------------------------------------------------------------------------------
(* The kinds of steps *)

Skips == /\ ~CallMe(Here.op)
         /\ contexts' = contexts /\ status' = StatusNow /\ Proceed
\* An instruction that has nothing to do with blocks or with the status.
Computes == /\ Here.op \notin {"EnterContext", "LeaveContext", "VMStatus", "EndLoop"}
            /\ CallMe(Here.op)
            /\ contexts' = contexts /\ status' = StatusNow
            /\ \/ Proceed \/ Abort
               \/ Here.op \in Branches /\ Branch
               \/ \E e : Raise(e, contexts)
Breaks == /\ Here.op = "VMStatus" /\ CallMe(Here.op)
          /\ contexts' = contexts /\ status' = StatusNow \cup {Here.name} /\ Proceed
EndsLoop == /\ Here.op = "EndLoop" /\ CallMe(Here.op)
            /\ contexts' = contexts /\ status' = StatusNow \ {"Break", "Continue"}
            /\ Proceed \/ Branch
FailsToEnter == /\ Here.op = "EnterContext" /\ CallMe(Here.op) /\ Here.value # Nil
                /\ contexts' = contexts /\ status' = StatusNow
                /\ \E e \in CallThrows : Raise(e, contexts)
EntersBlock == /\ Here.op = "EnterContext" /\ CallMe(Here.op)
               /\ status' = StatusNow /\ Proceed
               /\ \E kind \in ContextKinds :
                     contexts' = <<[label |-> Here.name, kind |-> kind]>> \o contexts
LeavesBlock == /\ Here.op = "LeaveContext"
               /\ status' = StatusNow
               /\ IF contexts = <<>> THEN Abort
                  ELSE /\ contexts' = Tail(contexts)
                       /\ \E answer \in CallThrows \cup {"none", "Throwable"} :
                             LeaveWith(answer)

(* Every step of the machine is of one of the seven kinds.                 *)
LEMMA StepKinds ==
    ASSUME TypeInv, Skip \/ Instructions
    PROVE  /\ Skips \/ Computes \/ Breaks \/ EndsLoop \/ FailsToEnter \/ EntersBlock
              \/ LeavesBlock
           /\ program' = program /\ leaving' = leaving /\ result' = result
  <1>1. program' = program /\ leaving' = leaving /\ result' = result
    BY DEF Skip, Instructions, Operands, machine, Assign, Deref, Subscript, PushScope,
           PushVal, PushCtx, Pop, Dup, Swap, Nop, Incr, Decr, Stash, Unstash,
           FunctionCall, VMStatus, Jump, EndLoop, Test, Iter, NextItem, EnterContext,
           LeaveContext, Throw, Return, Yield
  <1>2. CASE Skip
    BY <1>1, <1>2 DEF Skip, Operands, Skips
  <1>3. CASE Assign \/ Deref \/ Subscript \/ PushScope \/ PushVal \/ PushCtx \/ Pop
             \/ Dup \/ Swap \/ Nop \/ Incr \/ Decr \/ Stash \/ Unstash
    <2>1. /\ contexts' = contexts /\ status' = StatusNow /\ CallMe(Here.op)
          /\ Here.op \notin {"EnterContext", "LeaveContext", "VMStatus", "EndLoop"}
      BY <1>3 DEF Operands, At, Assign, Deref, Subscript, PushScope, PushVal, PushCtx,
                  Pop, Dup, Swap, Nop, Incr, Decr, Stash, Unstash
    <2>2. Proceed \/ Abort \/ \E e : Raise(e, contexts)
      BY <1>3 DEF Throws, Fails, Assign, Deref, Subscript, PushScope, PushVal, PushCtx,
                  Pop, Dup, Swap, Nop, Incr, Decr, Stash, Unstash
    <2> QED BY <2>1, <2>2, <1>1 DEF Computes
  <1>4. CASE FunctionCall \/ Jump \/ Test \/ Iter \/ NextItem \/ Throw \/ Return \/ Yield
    <2>1. /\ contexts' = contexts /\ status' = StatusNow /\ CallMe(Here.op)
          /\ Here.op \notin {"EnterContext", "LeaveContext", "VMStatus", "EndLoop"}
      BY <1>4 DEF Operands, At, FunctionCall, Jump, Test, Iter, NextItem, Throw,
                  Return, Yield
    <2>2. Proceed \/ Abort \/ (\E e : Raise(e, contexts))
             \/ (Here.op \in Branches /\ Branch)
      BY <1>4 DEF Throws, Fails, At, Branches, FunctionCall, Jump, Test, Iter, NextItem,
                  Throw, Return, Yield
    <2> QED BY <2>1, <2>2, <1>1 DEF Computes
  <1>5. CASE VMStatus
    BY <1>5, <1>1 DEF VMStatus, At, Breaks
  <1>6. CASE EndLoop
    BY <1>6, <1>1 DEF EndLoop, At, EndsLoop
  <1>7. CASE EnterContext
    <2>1. Here.op = "EnterContext" /\ CallMe(Here.op) /\ status' = StatusNow
      BY <1>7 DEF EnterContext, At
    <2>2. CASE Proceed /\ contexts' # contexts
      BY <1>7, <2>1, <2>2, <1>1 DEF EnterContext, EntersBlock, ContextKinds
    <2>3. CASE ~(Proceed /\ contexts' # contexts)
      <3>1. \/ (Here.value # Nil /\ contexts' = contexts /\ Throws)
            \/ EntersBlock
        BY <1>7, <2>1 DEF EnterContext, EntersBlock, ContextKinds
      <3> QED BY <3>1, <2>1, <1>1 DEF FailsToEnter, Throws
    <2> QED BY <2>2, <2>3
  <1>8. CASE LeaveContext
    BY <1>8, <1>1 DEF LeaveContext, At, LeavesBlock
  <1> QED BY <1>1, <1>2, <1>3, <1>4, <1>5, <1>6, <1>7, <1>8 DEF Instructions
-------------------------------------------------------------------------------
(* Where a step leads *)

\* What the status becomes when the exit code has been polled.
LEMMA Polled ==
    ASSUME TypeInv, StatusOK, Looping
    PROVE  /\ StatusNow \in {{}, {"Exit"}, {"Break"}, {"Continue"}}
           /\ exitCode <=> StatusNow = {"Exit"}
           /\ ~exitCode => StatusNow = status /\ ~ExitSeen
  <1>1. /\ "Exit" \in status => exitCode
        /\ status \in {{}, {"Exit"}, {"Break"}, {"Continue"}, {"Exit", "Break"},
                       {"Exit", "Continue"}}
    BY DEF StatusOK, Looping
  <1>2. exitCode \in BOOLEAN
    BY DEF TypeInv, TypeOK
  <1>3. CASE exitCode
    BY <1>3, <1>1 DEF StatusNow, ExitSeen
  <1>4. CASE ~exitCode
    BY <1>4, <1>1 DEF StatusNow, ExitSeen
  <1> QED BY <1>3, <1>4

\* An exception that is not dropped leads to the innermost handler.
LEMMA UnwindGoes ==
    ASSUME TypeInv, Stepping, NEW cs \in ContextSeq, Handlers(program, cs),
           NEW e, e # "Yield", ~ExitSeen, Unwind(e, cs)
    PROVE  /\ pc' = End \/ Code[pc'].op = "LeaveContext"
           /\ pc' = End \/ \E k \in 1..Len(cs) : pc' = Label(cs[k].label)
           /\ Around(program, cs, pc')
  <1>1. CASE cs = <<>>
    <2>1. pc' = End /\ Nest[program][End] = <<>>
      BY <1>1, NestHere DEF Unwind
    <2>2. Around(program, cs, pc')
      BY <1>1, <2>1 DEF Around
    <2> QED BY <2>1, <2>2
  <1>2. CASE cs # <<>>
    <2>1. pc' = Label(cs[1].label)
      BY <1>2 DEF Unwind
    <2>2. 1 \in 1..Len(cs) /\ SubSeq(cs, 1, Len(cs)) = cs
      BY <1>2 DEF ContextSeq
    <2>3. Code[pc'].op = "LeaveContext" /\ Around(program, cs, pc')
      BY <2>1, <2>2 DEF Handlers, Label, Code
    <2> QED BY <2>1, <2>2, <2>3
  <1> QED BY <1>1, <1>2

\* From an instruction that opens or closes no block to the next one.
LEMMA NextInText ==
    ASSUME TypeInv, Stepping, Around(program, contexts, pc)
    PROVE  /\ Here.op \notin {"EnterContext", "LeaveContext"}
                 => Around(program, contexts, pc + 1)
           /\ Here.op \in Branches => Around(program, contexts, Label(Here.name))
           /\ Here.op = "LeaveContext"
                 => contexts # <<>> /\ Around(program, Tail(contexts), pc + 1)
           /\ \A kind \in ContextKinds :
                 Here.op = "EnterContext"
                 => /\ Around(program, <<[label |-> Here.name, kind |-> kind]>> \o contexts,
                              pc + 1)
                    /\ Handlers(program, contexts)
                       => Handlers(program, <<[label |-> Here.name, kind |-> kind]>>
                                               \o contexts)
  <1>1. contexts \in ContextSeq /\ Here.name \in STRING
    BY TypeInvSplit, HereTypes DEF DataOK, ContextSeq
  <1>2. Nest[program][pc] \in Seq(STRING)
    BY NestHere, HereTypes DEF End
  <1>3. CASE Here.op \notin {"EnterContext", "LeaveContext"}
    <2>1. Around(program, contexts, pc + 1)
      BY <1>3, NestHere DEF Around
    <2>2. Here.op \in Branches => Around(program, contexts, Label(Here.name))
      BY NestHere DEF Around
    <2> QED BY <1>3, <2>1, <2>2
  <1>4. CASE Here.op = "LeaveContext"
    <2>1. Nest[program][pc] # <<>> /\ Nest[program][pc + 1] = Tail(Nest[program][pc])
      BY <1>4, NestHere
    <2>2. contexts # <<>>
      BY <2>1, <1>1, <1>2 DEF Around, ContextSeq
    <2>3. Around(program, Tail(contexts), pc + 1)
      BY <1>1, <1>2, <2>1, <2>2, AroundTail
    <2> QED BY <1>4, <2>2, <2>3 DEF Branches
  <1>5. CASE Here.op = "EnterContext"
    <2> SUFFICES ASSUME NEW kind \in ContextKinds
                 PROVE  LET cs == <<[label |-> Here.name, kind |-> kind]>> \o contexts IN
                        /\ Around(program, cs, pc + 1)
                        /\ Handlers(program, contexts) => Handlers(program, cs)
      BY <1>5 DEF Branches
    <2> DEFINE c == [label |-> Here.name, kind |-> kind]
    <2>1. c \in [label : STRING, kind : ContextKinds] /\ c.label = Here.name
      BY <1>1
    <2>2. /\ Nest[program][pc + 1] = <<Here.name>> \o Nest[program][pc]
          /\ Nest[program][Label(Here.name)] = Nest[program][pc + 1]
          /\ Code[Label(Here.name)].op = "LeaveContext"
      BY <1>5, NestHere
    <2> HIDE DEF c
    <2>3. /\ Around(program, <<c>> \o contexts, pc + 1)
          /\ Around(program, <<c>> \o contexts, Label(Here.name))
      BY <1>1, <1>2, <2>1, <2>2, AroundPush
    <2>4. Handlers(program, contexts) => Handlers(program, <<c>> \o contexts)
      BY <1>1, <2>1, <2>2, <2>3, HandlersPush DEF Label, Code
    <2> QED BY <2>3, <2>4 DEF c
  <1> QED BY <1>3, <1>4, <1>5

\* An answer that is not dropped leads to a handler, a dropped one on in the text.
LEMMA RaiseGoes ==
    ASSUME TypeInv, Looping, Stepping, NEW cs \in ContextSeq,
           Handlers(program, cs), ExitSeen => Around(program, cs, pc + 1),
           NEW e, Raise(e, cs)
    PROVE  /\ phase' = phase /\ (exitCode => exitCode')
           /\ exception' = "Yield" \/ Around(program, cs, pc')
           /\ e # "Yield" => exception' # "Yield"
           /\ ~exitCode /\ exitCode' => /\ exception' = "Exit"
                                        /\ pc' = End \/ Code[pc'].op = "LeaveContext"
           /\ e = "Yield" \/ pc' = pc + 1 \/ pc' = End
              \/ \E k \in 1..Len(cs) : pc' = Label(cs[k].label)
  <1>1. phase' = phase /\ exitCode' = (exitCode \/ e = "Exit")
        /\ exception' = (IF ExitSeen THEN exception ELSE e) /\ Unwind(e, cs)
    BY DEF Raise
  <1>2. exception # "Yield" /\ exitCode \in BOOLEAN
    BY DEF Looping, TypeInv, TypeOK
  <1>3. CASE ExitSeen
    BY <1>1, <1>2, <1>3 DEF Unwind, ExitSeen
  <1>4. CASE ~ExitSeen /\ e = "Yield"
    BY <1>1, <1>2, <1>4
  <1>5. CASE ~ExitSeen /\ e # "Yield"
    <2>1. /\ pc' = End \/ Code[pc'].op = "LeaveContext"
          /\ pc' = End \/ \E k \in 1..Len(cs) : pc' = Label(cs[k].label)
          /\ Around(program, cs, pc')
      BY <1>1, <1>5, UnwindGoes
    <2> QED BY <1>1, <1>2, <1>5, <2>1
  <1> QED BY <1>3, <1>4, <1>5

\* Where LeaveContext leads, whatever the handler answered.
LEMMA LeaveGoes ==
    ASSUME TypeInv, Looping, Stepping, Tail(contexts) \in ContextSeq,
           Handlers(program, Tail(contexts)), Around(program, Tail(contexts), pc + 1),
           NEW answer, answer # "Yield", LeaveWith(answer)
    PROVE  /\ phase' = phase /\ exception' # "Yield" /\ (exitCode => exitCode')
           /\ Around(program, Tail(contexts), pc')
           /\ ~exitCode /\ exitCode' => /\ exception' \in {"Exit", "Return"}
                                        /\ pc' = End \/ Code[pc'].op = "LeaveContext"
           /\ pc' = pc + 1 \/ pc' = End
              \/ \E k \in 1..Len(Tail(contexts)) : pc' = Label(Tail(contexts)[k].label)
  <1> DEFINE cs == Tail(contexts)
  <1> HIDE DEF cs
  <1>1. cs \in ContextSeq /\ Handlers(program, cs) /\ Around(program, cs, pc + 1)
    BY DEF cs
  <1>2. exception # "Yield" /\ exitCode \in BOOLEAN
    BY DEF Looping, TypeInv, TypeOK
  <1>3. CASE exception \in {"Exit", "Return"}
    <2>1. Unwind(exception, cs) /\ UNCHANGED <<exception, phase>>
          /\ exitCode' = (exitCode \/ "Exit" \in {exception, answer})
      BY <1>3 DEF LeaveWith, cs
    <2>2. CASE ExitSeen
      BY <1>1, <1>2, <1>3, <2>1, <2>2 DEF Unwind, ExitSeen, cs
    <2>3. CASE ~ExitSeen
      <3>1. /\ pc' = End \/ Code[pc'].op = "LeaveContext"
            /\ pc' = End \/ \E k \in 1..Len(cs) : pc' = Label(cs[k].label)
            /\ Around(program, cs, pc')
        BY <1>1, <1>2, <2>1, <2>3, UnwindGoes
      <3> QED BY <1>2, <1>3, <2>1, <3>1 DEF cs
    <2> QED BY <2>2, <2>3
  <1>4. CASE exception \notin {"Exit", "Return"} /\ answer # "none"
    <2>1. Raise(answer, cs)
      BY <1>4 DEF LeaveWith, cs
    <2>2. /\ phase' = phase /\ (exitCode => exitCode')
          /\ exception' = "Yield" \/ Around(program, cs, pc')
          /\ exception' # "Yield"
          /\ ~exitCode /\ exitCode' => /\ exception' = "Exit"
                                       /\ pc' = End \/ Code[pc'].op = "LeaveContext"
          /\ pc' = pc + 1 \/ pc' = End
             \/ \E k \in 1..Len(cs) : pc' = Label(cs[k].label)
      BY <1>1, <2>1, RaiseGoes
    <2> QED BY <2>2 DEF cs
  <1>5. CASE exception \notin {"Exit", "Return"} /\ answer = "none"
    BY <1>1, <1>2, <1>5 DEF LeaveWith, cs
  <1> QED BY <1>3, <1>4, <1>5

-------------------------------------------------------------------------------
(* A step of a frame that is not leaving because of an exit *)

AnyKind == \/ Skips \/ Computes \/ Breaks \/ EndsLoop \/ FailsToEnter \/ EntersBlock
           \/ LeavesBlock

\* A place from which no block is opened before a loop ends.
LEMMA ProtectedNext ==
    ASSUME NEW b, Len(b.code) \in Nat, NEW i \in 1..Len(b.code), Protected(b, i)
    PROVE  /\ b.code[i].op # "EnterContext"
           /\ b.code[i].op # "EndLoop" => Protected(b, i + 1)
  <1>1. b.code[i].op # "EnterContext"
    BY DEF Protected
  <1>2. ASSUME b.code[i].op # "EndLoop", NEW j \in (i + 1)..Len(b.code),
               b.code[j].op = "EnterContext"
        PROVE  \E k \in (i + 1)..(j - 1) : b.code[k].op = "EndLoop"
    <2>1. j \in i..Len(b.code)
      OBVIOUS
    <2>2. PICK k \in i..(j - 1) : b.code[k].op = "EndLoop"
      BY <1>2, <2>1 DEF Protected
    <2>3. k \in (i + 1)..(j - 1)
      BY <1>2, <2>2
    <2> QED BY <2>2, <2>3
  <1> QED BY <1>1, <1>2 DEF Protected

\* What may be executed while a break or continue is on its way.
LEMMA LivePolled ==
    ASSUME TypeInv, Looping, Stepping, StatusOK, BreakIsSafe, ~Exiting
    PROVE  /\ Skips => /\ StatusNow \in {{"Break"}, {"Continue"}}
                       /\ Here.op \notin {"EnterContext", "LeaveContext", "EndLoop"}
           /\ Computes \/ FailsToEnter \/ EntersBlock \/ Breaks
                  => StatusNow \in {{}, {"Exit"}}
           /\ StatusNow \in {{"Break"}, {"Continue"}} => status = StatusNow /\ ~exitCode
  <1>1. /\ StatusNow \in {{}, {"Exit"}, {"Break"}, {"Continue"}}
        /\ exitCode <=> StatusNow = {"Exit"}
        /\ ~exitCode => StatusNow = status
    BY Polled
  <1>2. StatusNow \in {{"Break"}, {"Continue"}} => status = StatusNow /\ ~exitCode
    BY <1>1
  <1>3. ASSUME Skips
        PROVE  /\ StatusNow \in {{"Break"}, {"Continue"}}
               /\ Here.op \notin {"EnterContext", "LeaveContext", "EndLoop"}
    <2>1. StatusNow # {"Exit"}
      BY <1>1, <1>3 DEF Exiting, Skips, CallMe
    <2>2. /\ StatusNow \in {{"Break"}, {"Continue"}}
          /\ Here.op \notin {"LeaveContext", "EndLoop"}
      BY <1>1, <1>3, <2>1 DEF Skips, CallMe, SkippingTo
    <2>3. Protected(BytecodeOf(program), pc)
      BY <1>2, <2>2 DEF BreakIsSafe
    <2>4. Here.op # "EnterContext"
      BY <2>3, ProtectedNext, HereTypes DEF Here, Code
    <2> QED BY <2>2, <2>4
  <1>4. ASSUME Computes \/ FailsToEnter \/ EntersBlock \/ Breaks
        PROVE  StatusNow \in {{}, {"Exit"}}
    BY <1>1, <1>4 DEF Computes, FailsToEnter, EntersBlock, Breaks, CallMe, SkippingTo
  <1> QED BY <1>2, <1>3, <1>4

\* Wherever the step leads, the text there has the open blocks around it.
Arrives ==
    /\ exitCode => exitCode'
    /\ phase' \in {"running", "aborted"}
    /\ phase' = "running" /\ exception' # "Yield"
          => /\ Handlers(program, contexts') /\ Around(program, contexts', pc')
             /\ ~exitCode /\ exitCode'
                   => /\ exception' \in {"Exit", "Return"}
                      /\ pc' = End \/ Code[pc'].op = "LeaveContext"

(* A frame that runs arrives where the text has its open blocks.           *)
LEMMA LiveArrives ==
    ASSUME TypeInv, Looping, Stepping, StatusOK, AnswerIsDropped, BreakIsSafe, ~Exiting,
           Handlers(program, contexts), Around(program, contexts, pc), AnyKind
    PROVE  Arrives
  <1>1. contexts \in ContextSeq /\ exitCode \in BOOLEAN
        /\ phase = "running" /\ exception # "Yield" /\ pc # End
        /\ Handlers(program, contexts)
    BY TypeInvSplit, HereTypes DEF DataOK, ControlOK, ContextSeq, Looping, Stepping, End
  <1>2. ASSUME Proceed, Around(program, contexts', pc + 1), Handlers(program, contexts')
        PROVE  Arrives
    BY <1>1, <1>2 DEF Proceed, Arrives
  <1>3. Abort => Arrives
    BY DEF Abort, Arrives
  <1>4. ASSUME Here.op \in Branches, Branch, contexts' = contexts
        PROVE  Arrives
    <2>1. Around(program, contexts, pc + 1) /\ Around(program, contexts, Label(Here.name))
      BY <1>4, NextInText DEF Branches
    <2>2. CASE Proceed
      BY <1>1, <1>2, <1>4, <2>1, <2>2
    <2>3. CASE pc' = Label(Here.name) /\ UNCHANGED <<phase, exception, exitCode>>
      BY <1>1, <1>4, <2>1, <2>3 DEF Arrives
    <2> QED BY <1>3, <1>4, <2>2, <2>3 DEF Branch
  <1>5. ASSUME NEW e, Raise(e, contexts), contexts' = contexts,
               ExitSeen => Around(program, contexts, pc + 1)
        PROVE  Arrives
    <2>1. /\ phase' = phase /\ (exitCode => exitCode')
          /\ exception' = "Yield" \/ Around(program, contexts, pc')
          /\ ~exitCode /\ exitCode' => /\ exception' = "Exit"
                                       /\ pc' = End \/ Code[pc'].op = "LeaveContext"
      BY <1>1, <1>5, RaiseGoes
    <2> QED BY <1>1, <1>5, <2>1 DEF Arrives
  <1>6. CASE Skips
    BY <1>1, <1>2, <1>6, LivePolled, NextInText DEF Skips
  <1>7. CASE Computes
    <2>1. Around(program, contexts, pc + 1)
      BY <1>7, NextInText DEF Computes
    <2>2. contexts' = contexts /\ (\/ Proceed \/ Abort
                                   \/ Here.op \in Branches /\ Branch
                                   \/ \E e : Raise(e, contexts))
      BY <1>7 DEF Computes
    <2> QED BY <1>1, <1>2, <1>3, <1>4, <1>5, <2>1, <2>2
  <1>8. CASE Breaks
    BY <1>1, <1>2, <1>8, NextInText DEF Breaks
  <1>9. CASE EndsLoop
    BY <1>1, <1>2, <1>4, <1>9, NextInText DEF EndsLoop, Branches
  <1>10. CASE FailsToEnter
    <2>1. ~ExitSeen
      BY <1>1, <1>10 DEF FailsToEnter, AnswerIsDropped, ExitSeen
    <2> QED BY <1>5, <1>10, <2>1 DEF FailsToEnter
  <1>11. CASE EntersBlock
    BY <1>1, <1>2, <1>11, NextInText DEF EntersBlock
  <1>12. CASE LeavesBlock
    <2>1. contexts # <<>> /\ Around(program, Tail(contexts), pc + 1)
      BY <1>12, NextInText DEF LeavesBlock
    <2>2. contexts' = Tail(contexts) /\ \E answer \in CallThrows \cup {"none", "Throwable"} :
                                           LeaveWith(answer)
      BY <1>12, <2>1 DEF LeavesBlock
    <2>3. Tail(contexts) \in ContextSeq
      BY <1>1, <2>1 DEF ContextSeq
    <2>4. Handlers(program, Tail(contexts))
      BY <1>1, <2>1, HandlersTail
    <2>5. PICK answer : answer # "Yield" /\ LeaveWith(answer)
      BY <2>2, CallAssumption
    <2>6. /\ phase' = phase /\ exception' # "Yield" /\ (exitCode => exitCode')
          /\ Around(program, Tail(contexts), pc')
          /\ ~exitCode /\ exitCode' => /\ exception' \in {"Exit", "Return"}
                                       /\ pc' = End \/ Code[pc'].op = "LeaveContext"
      BY <2>1, <2>3, <2>4, <2>5, LeaveGoes
    <2> QED BY <1>1, <2>2, <2>4, <2>6 DEF Arrives
  <1> QED BY <1>6, <1>7, <1>8, <1>9, <1>10, <1>11, <1>12 DEF AnyKind

\* What the step makes of the status, and that a break or continue stays safe.
SafeFrom(i, cs) == /\ Protected(BytecodeOf(program), i)
                   /\ \A k \in 1..Len(cs) :
                         Protected(BytecodeOf(program), Label(cs[k].label))
StatusGoes ==
    /\ "Exit" \in status' => exitCode
    /\ exitCode => status' = {"Exit"} \/ (pc' = pc + 1 /\ SafeFrom(pc + 1, <<>>))
    /\ phase' = "running" =>
          \/ status' \in {{}, {"Exit"}}
          \/ /\ status' \in {{"Break"}, {"Continue"}, {"Exit", "Break"},
                             {"Exit", "Continue"}}
             /\ exception' # "Yield"
             /\ SafeFrom(pc', contexts')

(* Its flags are those the place it arrives at allows.                     *)
LEMMA LiveStatus ==
    ASSUME TypeInv, Looping, Stepping, StatusOK, BreakIsSafe, ~Exiting,
           Handlers(program, contexts), Around(program, contexts, pc), AnyKind
    PROVE  StatusGoes
  <1>1. contexts \in ContextSeq /\ exception # "Yield"
        /\ Len(Code) \in Nat /\ pc \in 1..Len(Code) /\ Code = BytecodeOf(program).code
    BY TypeInvSplit, HereTypes DEF DataOK, ContextSeq, Looping, Code
  <1>2. /\ StatusNow \in {{}, {"Exit"}, {"Break"}, {"Continue"}}
        /\ exitCode <=> StatusNow = {"Exit"}
    BY Polled
  <1>3. StatusNow \in {{"Break"}, {"Continue"}} => SafeFrom(pc, contexts) /\ ~exitCode
    BY LivePolled DEF BreakIsSafe, SafeFrom
  <1>4. CASE Skips
    <2>1. /\ StatusNow \in {{"Break"}, {"Continue"}} /\ Here.op # "EndLoop"
          /\ contexts' = contexts /\ status' = StatusNow
          /\ pc' = pc + 1 /\ exception' = exception
      BY <1>4, LivePolled DEF Skips, Proceed
    <2>2. SafeFrom(pc + 1, contexts)
      BY <1>1, <1>3, <2>1, ProtectedNext DEF SafeFrom, Here
    <2> QED BY <1>1, <1>2, <1>3, <2>1, <2>2 DEF StatusGoes
  <1>5. CASE Computes \/ FailsToEnter \/ EntersBlock
    <2>1. StatusNow \in {{}, {"Exit"}} /\ status' = StatusNow
      BY <1>5, LivePolled DEF Computes, FailsToEnter, EntersBlock
    <2> QED BY <1>2, <2>1 DEF StatusGoes
  <1>6. CASE Breaks
    <2>1. StatusNow \in {{}, {"Exit"}} /\ Here.name \in {"Break", "Continue"}
          /\ status' = StatusNow \cup {Here.name}
          /\ contexts' = contexts /\ pc' = pc + 1 /\ exception' = exception
      BY <1>6, LivePolled, StashTypes DEF Breaks, Proceed
    <2>2. /\ Protected(BytecodeOf(program), pc + 1)
          /\ \A k \in 1..Len(Nest[program][pc]) :
                Protected(BytecodeOf(program), Label(Nest[program][pc][k]))
      <3>1. program \in Programs /\ Here.op = "VMStatus"
        BY <1>6, NestHere DEF Breaks
      <3>2. SkipSafe(BytecodeOf(program), Nest[program])
        BY <3>1, ProgramsAssumption
      <3> QED BY <1>1, <3>1, <3>2 DEF SkipSafe, Here, Label
    <2>3. SafeFrom(pc + 1, contexts) /\ SafeFrom(pc + 1, <<>>)
      BY <2>2 DEF SafeFrom, Around
    <2> QED BY <1>1, <1>2, <2>1, <2>3 DEF StatusGoes
  <1>7. CASE EndsLoop
    <2>1. status' = StatusNow \ {"Break", "Continue"}
      BY <1>7 DEF EndsLoop
    <2> QED BY <1>2, <2>1 DEF StatusGoes
  <1>8. CASE LeavesBlock
    <2>1. status' = StatusNow /\ Here.op = "LeaveContext"
      BY <1>8 DEF LeavesBlock
    <2>2. contexts # <<>> /\ Around(program, Tail(contexts), pc + 1)
      BY <2>1, NextInText
    <2>3. PICK answer : answer # "Yield" /\ LeaveWith(answer)
      BY <1>8, <2>2, CallAssumption DEF LeavesBlock
    <2>4. contexts' = Tail(contexts)
      BY <1>8, <2>2 DEF LeavesBlock
    <2>5. /\ exception' # "Yield"
          /\ pc' = pc + 1 \/ pc' = End
             \/ \E k \in 1..Len(Tail(contexts)) : pc' = Label(Tail(contexts)[k].label)
      <3>1. Tail(contexts) \in ContextSeq
        BY <1>1, <2>2 DEF ContextSeq
      <3>2. Handlers(program, Tail(contexts))
        BY <1>1, <2>2, HandlersTail
      <3> QED BY <2>2, <2>3, <3>1, <3>2, LeaveGoes
    <2>6. ASSUME StatusNow \in {{"Break"}, {"Continue"}}
          PROVE  SafeFrom(pc', contexts')
      <3>1. Protected(BytecodeOf(program), pc + 1)
        BY <1>1, <1>3, <2>1, <2>6, ProtectedNext DEF SafeFrom, Here
      <3>2. ASSUME NEW k \in 1..Len(Tail(contexts))
            PROVE  Protected(BytecodeOf(program), Label(Tail(contexts)[k].label))
        <4>1. Tail(contexts)[k] = contexts[k + 1] /\ k + 1 \in 1..Len(contexts)
          BY <1>1, <2>2 DEF ContextSeq
        <4> QED BY <1>3, <2>6, <4>1 DEF SafeFrom
      <3>3. Protected(BytecodeOf(program), End)
        BY <1>1 DEF Protected, End
      <3> QED BY <2>4, <2>5, <3>1, <3>2, <3>3 DEF SafeFrom
    <2> QED BY <1>2, <1>3, <2>1, <2>5, <2>6 DEF StatusGoes
  <1> QED BY <1>4, <1>5, <1>6, <1>7, <1>8 DEF AnyKind

\* So a step of such a frame keeps the invariant.
LEMMA LiveStep ==
    ASSUME ContextInv, TypeInv', ~Exiting, Skip \/ Instructions
    PROVE  ContextInv'
  <1>1. TypeInv /\ StatusOK /\ Looping /\ Stepping
        /\ program' = program /\ leaving' = leaving /\ AnyKind
    BY StepMoves, StepKinds DEF ContextInv, AnyKind, Looping, Stepping
  <1>2. /\ Handlers(program, contexts) /\ Around(program, contexts, pc)
        /\ AnswerIsDropped /\ BreakIsSafe
    BY <1>1 DEF ContextInv
  <1>3. Arrives /\ StatusGoes
    BY <1>1, <1>2, LiveArrives, LiveStatus
  <1>4. exitCode \in BOOLEAN /\ exitCode' \in BOOLEAN /\ leaving \in BOOLEAN
        /\ Code' = Code /\ End' = End
        /\ Len(Code) \in Nat /\ Code = BytecodeOf(program).code
        /\ pc' \in 1..End
    <2>1. Code' = Code /\ End' = End
      BY <1>1 DEF Code, End
    <2>2. pc' \in 1..End' /\ exitCode' \in BOOLEAN
      BY DEF TypeInv, TypeOK
    <2> QED BY <1>1, <2>1, <2>2, HereTypes DEF Code, TypeInv, TypeOK
  <1>5. StatusOK'
    BY <1>3, <1>4 DEF Arrives, StatusGoes, StatusOK, Looping
  <1>6. ASSUME Looping'
        PROVE  /\ Handlers(program', contexts')
               /\ Around(program', contexts', pc')
               /\ ExitPath' /\ AnswerIsDropped' /\ BreakIsSafe'
    <2>1. /\ Handlers(program, contexts') /\ Around(program, contexts', pc')
          /\ ~exitCode /\ exitCode'
                 => /\ exception' \in {"Exit", "Return"}
                    /\ pc' = End \/ Code[pc'].op = "LeaveContext"
      BY <1>3, <1>6 DEF Arrives, Looping
    <2>2. ExitPath'
      <3>1. CASE exitCode \/ ~exitCode'
        BY <1>1, <1>4, <3>1 DEF Exiting, ExitPath
      <3>2. CASE ~exitCode /\ exitCode'
        BY <1>3, <1>4, <2>1, <3>2 DEF StatusGoes, ExitPath, Here
      <3> QED BY <1>4, <3>1, <3>2
    <2>3. AnswerIsDropped'
      <3>1. CASE exitCode /\ status' # {"Exit"}
        <4>1. pc' = pc + 1 /\ Protected(BytecodeOf(program), pc')
          BY <1>3, <3>1 DEF StatusGoes, SafeFrom
        <4>2. pc' = End \/ Code[pc'].op # "EnterContext"
          BY <4>1, <1>4, ProtectedNext DEF End
        <4> QED BY <4>2, <1>4 DEF AnswerIsDropped, Here
      <3>2. CASE ~exitCode /\ exitCode'
        BY <1>4, <2>1, <3>2 DEF AnswerIsDropped, Here
      <3> QED BY <1>4, <3>1, <3>2 DEF AnswerIsDropped
    <2>4. BreakIsSafe'
      <3>1. status' \cap {"Break", "Continue"} # {} => SafeFrom(pc', contexts')
        BY <1>3, <1>6 DEF StatusGoes, Looping
      <3> QED BY <1>1, <3>1 DEF SafeFrom, BreakIsSafe, Label
    <2> QED BY <1>1, <2>1, <2>2, <2>3, <2>4
  <1> QED BY <1>5, <1>6 DEF ContextInv

-------------------------------------------------------------------------------
(* A step of a frame that leaves because of an exit, and what is around frames *)
LEMMA ExitingStep ==
    ASSUME ContextInv, TypeInv', Exiting, Skip \/ Instructions
    PROVE  ContextInv'
  <1>1. TypeInv /\ StatusOK /\ Looping /\ Stepping
        /\ program' = program /\ leaving' = leaving /\ AnyKind
    BY StepMoves, StepKinds DEF ContextInv, AnyKind, Looping, Stepping
  <1>2. /\ Handlers(program, contexts) /\ ExitPath
        /\ status # {"Exit"} => Around(program, contexts, pc)
    BY <1>1 DEF ContextInv
  <1>3. /\ StatusNow = {"Exit"} /\ exitCode /\ ~leaving
        /\ exception \in {"Exit", "Return"} /\ phase = "running"
        /\ contexts \in ContextSeq /\ pc # End /\ pc \in Nat /\ pc > 0
        /\ Code' = Code /\ End' = End
        /\ Nest[program][End] = <<>> /\ End > 1
    <2>1. Len(Code) \in Nat /\ Len(Code) > 0 /\ pc \in 1..Len(Code)
      BY <1>1, HereTypes
    <2>2. contexts \in ContextSeq
      BY <1>1, TypeInvSplit DEF DataOK, ContextSeq
    <2>3. StatusNow = {"Exit"}
      BY <1>1, Polled DEF Exiting
    <2> QED BY <1>1, <1>2, <2>1, <2>2, <2>3, NestHere
            DEF Exiting, ExitPath, Looping, End, Code
  <1>4. ASSUME status' = {"Exit"}, exitCode', exception' \in {"Exit", "Return"},
               Handlers(program, contexts'),
               contexts' = <<>> => pc' > 1 /\ Nest[program][pc'] = <<>>
        PROVE  ContextInv'
    BY <1>1, <1>3, <1>4
    DEF ContextInv, StatusOK, Exiting, ExitPath, AnswerIsDropped, BreakIsSafe
  <1>5. ASSUME status' = {"Exit"}, exitCode', phase' = "aborted"
        PROVE  ContextInv'
    BY <1>5 DEF ContextInv, StatusOK, Looping
  <1>6. CASE Skips
    <2>1. /\ status' = {"Exit"} /\ contexts' = contexts /\ pc' = pc + 1
          /\ exception' = exception /\ exitCode' = exitCode /\ Here.op # "LeaveContext"
      BY <1>3, <1>6 DEF Skips, Proceed, CallMe
    <2>2. status = {"Exit"}
      BY <1>2, <1>3, <2>1 DEF ExitPath, Exiting
    <2>3. ASSUME contexts = <<>> PROVE Nest[program][pc + 1] = <<>>
      <3>1. pc > 1 /\ Nest[program][pc] = <<>>
        BY <1>2, <1>3, <2>2, <2>3 DEF ExitPath, Exiting
      <3> QED BY <1>1, <2>1, <3>1, NestHere
    <2> QED BY <1>2, <1>3, <1>4, <2>1, <2>3
  <1>7. CASE LeavesBlock /\ contexts = <<>>
    <2>1. status' = {"Exit"} /\ Abort
      BY <1>3, <1>7 DEF LeavesBlock
    <2> QED BY <1>3, <1>5, <2>1 DEF Abort
  <1>8. CASE LeavesBlock /\ contexts # <<>>
    <2>1. /\ status' = {"Exit"} /\ contexts' = Tail(contexts) /\ Here.op = "LeaveContext"
          /\ \E answer : LeaveWith(answer)
      BY <1>3, <1>8 DEF LeavesBlock
    <2>2. Unwind(exception, Tail(contexts)) /\ exception' = exception /\ exitCode'
      BY <1>3, <2>1 DEF LeaveWith
    <2>3. Handlers(program, contexts')
      BY <1>2, <1>3, <1>8, <2>1, HandlersTail
    <2>4. ASSUME Tail(contexts) = <<>> PROVE pc' > 1 /\ Nest[program][pc'] = <<>>
      <3>1. CASE ExitSeen
        <4>1. Around(program, Tail(contexts), pc + 1)
          BY <1>1, <1>2, <2>1, <3>1, NextInText DEF ExitSeen
        <4>2. Len(Nest[program][pc + 1]) = 0
          BY <4>1, <2>4 DEF Around
        <4>3. Nest[program][pc + 1] \in Seq(STRING)
          BY <1>1, NestHere, HereTypes DEF End
        <4> QED BY <1>3, <2>2, <3>1, <4>2, <4>3 DEF Unwind
      <3>2. CASE ~ExitSeen
        BY <1>3, <2>2, <2>4, <3>2 DEF Unwind
      <3> QED BY <3>1, <3>2
    <2> QED BY <1>3, <1>4, <2>1, <2>2, <2>3, <2>4
  <1>9. CASE Computes \/ Breaks \/ EndsLoop \/ FailsToEnter \/ EntersBlock
    <2>1. CallMe(Here.op) /\ Here.op # "LeaveContext"
      BY <1>9 DEF Computes, Breaks, EndsLoop, FailsToEnter, EntersBlock
    <2> QED BY <1>3, <2>1 DEF CallMe
  <1> QED BY <1>1, <1>6, <1>7, <1>8, <1>9 DEF AnyKind

(* What is done to a frame from outside keeps the invariant.               *)
LEMMA FrameKeepsContexts ==
    ASSUME ~AmbientExit, ContextInv, TypeInv',
           \/ \E p \in Programs : Execute(p)
           \/ Resume \/ Refuse \/ Finish \/ RunEnds \/ ExitBehindTheFrame \/ Restart
           \/ UNCHANGED vars
    PROVE  ContextInv'
  <1>1. TypeInv /\ StatusOK
    BY DEF ContextInv
  <1>2. CASE (\E p \in Programs : Execute(p)) \/ Resume
    <2>1. /\ phase = "idle" /\ contexts' = <<>> /\ pc' = 1 /\ program' \in Programs
          /\ exitCode' = exitCode /\ (exitCode => leaving')
      BY <1>1, <1>2, TypeInvSplit DEF Execute, Resume, Started, DataOK
    <2>2. status' \in {{}, {"Exit"}} /\ ("Exit" \in status' => exitCode')
      <3>1. CASE \E p \in Programs : Execute(p)
        BY <3>1 DEF Execute
      <3>2. CASE Resume
        BY <1>1, <2>1, <3>2 DEF Resume, StatusOK, Looping
      <3> QED BY <1>2, <3>1, <3>2
    <2>3. Nest[program'][1] = <<>> /\ Here'.value = Nil
      <3>1. /\ Nest[program'][1] = <<>>
            /\ BytecodeOf(program').code[1].value = Nil
        BY <2>1, NestEnds
      <3> QED BY <2>1, <3>1 DEF Here, Code
    <2>4. StatusOK'
      BY <2>2 DEF StatusOK
    <2>5. Handlers(program', contexts') /\ Around(program', contexts', pc')
      BY <2>1, <2>3 DEF Handlers, Around
    <2>6. ExitPath' /\ AnswerIsDropped' /\ BreakIsSafe'
      BY <2>1, <2>2, <2>3 DEF ExitPath, Exiting, AnswerIsDropped, BreakIsSafe
    <2> QED BY <2>4, <2>5, <2>6 DEF ContextInv
  <1>3. CASE Finish
    <2>1. phase = "running" /\ phase' = "idle" /\ result' = Returned
          /\ UNCHANGED <<status, exitCode>>
      BY <1>3 DEF Finish
    <2>2. Returned = "yielded" => exception = "Yield"
      <3>1. exception \in Errors \cup {"none"} /\ (stack # <<>> => stack[1] \in Value)
        BY <1>1 DEF TypeInv, TypeOK
      <3>2. stack # <<>> => stack[1].code \in Errors \cup {"none"}
        BY <3>1 DEF Value
      <3> QED BY <3>1, <3>2 DEF Returned, Errors
    <2>3. StatusOK'
      BY <1>1, <2>1, <2>2 DEF StatusOK, Looping
    <2> QED BY <2>1, <2>3 DEF ContextInv, Looping
  <1>4. CASE Refuse \/ RunEnds \/ Restart
    <2>1. phase' = "idle" /\ result' \in {"none", "Throwable"}
      BY <1>4 DEF Refuse, RunEnds, Restart
    <2> QED BY <2>1 DEF ContextInv, StatusOK, Looping
  <1>5. CASE ExitBehindTheFrame
    BY <1>5 DEF ExitBehindTheFrame
  <1>6. CASE UNCHANGED vars
    <2>1. UNCHANGED <<program, phase, pc, contexts, status, exception, exitCode,
                      leaving, result>>
      BY <1>6 DEF vars
    <2>2. Here' = Here /\ End' = End
      BY <2>1 DEF Here, End, Code
    <2> QED BY <2>1, <2>2
            DEF ContextInv, StatusOK, Looping, Exiting, ExitPath, AnswerIsDropped,
                BreakIsSafe, Label
  <1> QED BY <1>2, <1>3, <1>4, <1>5, <1>6

(* The invariant holds at the start and is kept by every step.             *)
LEMMA ContextInductive ==
    ASSUME ~AmbientExit
    PROVE  /\ Init => ContextInv
           /\ ContextInv /\ [Next]_vars => ContextInv'
  <1>1. ASSUME Init PROVE ContextInv
    <2>1. phase = "idle" /\ result = "none"
      BY <1>1 DEF Init, Fresh
    <2> QED BY <1>1, <2>1, InitTypes DEF ContextInv, StatusOK, Looping
  <1>2. ASSUME ContextInv, [Next]_vars PROVE ContextInv'
    <2>1. TypeInv'
      BY <1>2, NextTypes DEF ContextInv
    <2>2. CASE Skip \/ Instructions
      BY <1>2, <2>1, <2>2, LiveStep, ExitingStep
    <2>3. CASE ~(Skip \/ Instructions)
      BY <1>2, <2>1, <2>3, FrameKeepsContexts DEF Next, Step
    <2> QED BY <2>2, <2>3
  <1> QED BY <1>1, <1>2

\* If nobody else makes the thread exit, the blocks on the context stack are
\* those around the instruction at hand, in any program and whatever is thrown,
\* returned, jumped over or skipped on the way there.
THEOREM ContextsFollowText ==
    ASSUME ~AmbientExit
    PROVE  Spec => []ContextsMatchNesting
  <1>1. ContextInv => ContextsMatchNesting
    <2> SUFFICES ASSUME ContextInv, Looping, leaving \/ status # {"Exit"}
                 PROVE  OpenLabels = Nest[program][pc]
      BY DEF ContextsMatchNesting, Looping
    <2>1. Around(program, contexts, pc) /\ TypeInv
      BY DEF ContextInv, Exiting
    <2>2. Nest[program][pc] \in Seq(STRING) /\ Len(contexts) \in Nat
      <3>1. program \in Programs /\ pc \in 1..(Len(BytecodeOf(program).code) + 1)
            /\ contexts \in Seq([label : STRING, kind : ContextKinds])
        BY <2>1 DEF TypeInv, TypeOK, End, Code
      <3> QED BY <3>1, NestTypes
    <2>3. /\ Len(Nest[program][pc]) = Len(contexts)
          /\ \A j \in 1..Len(contexts) : Nest[program][pc][j] = contexts[j].label
      BY <2>1 DEF Around
    <2> QED BY <2>2, <2>3 DEF OpenLabels
  <1> QED BY <1>1, ContextInductive, PTL DEF Spec

\* Nor is a LeaveContext ever executed without a block to leave, not even by a
\* frame that exits and skips everything between its blocks.
THEOREM LeaveHasContext ==
    ASSUME ~AmbientExit
    PROVE  Spec => []LeaveContextHasContext
  <1>1. ContextInv => LeaveContextHasContext
    <2> SUFFICES ASSUME ContextInv, At("LeaveContext"), contexts = <<>>
                 PROVE  FALSE
      BY DEF LeaveContextHasContext
    <2>1. TypeInv /\ Stepping /\ Looping /\ Here.op = "LeaveContext"
      BY DEF ContextInv, At, Stepping, Looping
    <2>2. Nest[program][pc] # <<>> /\ Nest[program][pc] \in Seq(STRING)
      BY <2>1, NestHere, HereTypes DEF End
    <2>3. CASE ~Exiting \/ status # {"Exit"}
      <3>1. Len(Nest[program][pc]) = 0
        BY <2>1, <2>3 DEF ContextInv, Around
      <3> QED BY <2>2, <3>1
    <2>4. CASE Exiting /\ status = {"Exit"}
      BY <2>1, <2>2, <2>4 DEF ContextInv, ExitPath
    <2> QED BY <2>3, <2>4
  <1> QED BY <1>1, ContextInductive, PTL DEF Spec
================================================================================
