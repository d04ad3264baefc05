------------------------------- MODULE Threads -------------------------------
(***************************************************************************)
(* The threads of a program (src/lib/thread.c): how thread_new hands the   *)
(* new thread object over to its creator, and how exit(), called in one    *)
(* thread, reaches the others through the exit codes of the thread tree.   *)
(*                                                                         *)
(* Every thread_new makes a context with a condition of its own; both are  *)
(* named here by the thread that is made.                                  *)
(***************************************************************************)
EXTENDS Monitor, FiniteSets

CONSTANTS
  Main,          \* the thread the program starts with
  NoCode,        \* an exit code that is NULL
  MaxRuns        \* bound: how many scripts the main thread runs

ASSUME ConditionAssumption == Condition = Thread
ASSUME MainAssumption == Main \in Thread
ASSUME NoCodeAssumption == NoCode \notin Thread
ASSUME BoundAssumption == MaxRuns \in Nat \ {0}

VARIABLES
  pc,            \* pc[t]: where thread t is
  making,        \* making[t]: the thread that t is creating
  ctx,           \* ctx[k]: the context k was created with: none, live, freed
  child,         \* child[k]: ctx->child in that context
  parent,        \* parent[t]: thread->parent
  made,          \* made[t]: the answer of the last thread_new of t
  exit_code,     \* exit_code[t]: the thread whose exit t has been told of
  at,            \* at[t]: how far the loop of t over its ancestors has got
  spurious,      \* whether waits may end without a signal, in this run
  runs           \* how many scripts the main thread has run to their end

handshake == <<monitor, making, ctx, child, parent, made>>
codes == <<exit_code, at, spurious, runs>>
vars == <<handshake, pc, codes>>

Undefined == "undefined"

Goto(t, from, to) == pc[t] = from /\ pc' = [pc EXCEPT ![t] = to]

(* A thread and its ancestors, along thread->parent.                       *)
Chain(t) ==
  LET up[i \in 0 .. Cardinality(Thread)] ==
        IF i = 0 THEN t
        ELSE IF up[i - 1] = NoThread THEN NoThread ELSE parent[up[i - 1]]
  IN  {up[i] : i \in 0 .. Cardinality(Thread)} \ {NoThread}
-----------------------------------------------------------------------------
Init ==
  /\ MonitorInit
  /\ pc = [t \in Thread |-> IF t = Main THEN "run" ELSE "unborn"]
  /\ making = [t \in Thread |-> NoThread]
  /\ ctx = [t \in Thread |-> "none"]
  /\ child = [t \in Thread |-> NoThread]
  /\ parent = [t \in Thread |-> NoThread]
  /\ made = [t \in Thread |-> NoThread]
  /\ exit_code = [t \in Thread |-> NoCode]
  /\ at = [t \in Thread |-> NoThread]
  /\ spurious \in BOOLEAN
  /\ runs = 0

(* thread_new up to pthread_create: the creator holds the condition of the *)
(* new context from before the new thread can exist.                       *)
New(t, k) ==
  /\ pc[t] = "run" /\ pc[k] = "unborn"
  /\ condition_acquire(t, k)
  /\ pc' = [pc EXCEPT ![t] = "created", ![k] = "starting"]
  /\ making' = [making EXCEPT ![t] = k]
  /\ ctx' = [ctx EXCEPT ![k] = "live"]
  /\ UNCHANGED <<child, parent, made, codes>>

(* pthread_create fails: the answer is NULL.                               *)
NewFails(t) ==
  /\ pc[t] = "run"
  /\ made' = [made EXCEPT ![t] = NoThread]
  /\ UNCHANGED <<monitor, pc, making, ctx, child, parent, codes>>

Sleep(t) ==
  /\ Goto(t, "created", "asleep")
  /\ condition_sleep(t, making[t])
  /\ UNCHANGED <<making, ctx, child, parent, made, codes>>

Awake(t) ==
  /\ Goto(t, "asleep", "awake")
  /\ condition_awake(t, making[t])
  /\ UNCHANGED <<making, ctx, child, parent, made, codes>>

SleepEnds(t) ==
  /\ spurious
  /\ pc[t] = "asleep"
  /\ SpuriousWakeup(t, making[t])
  /\ UNCHANGED <<pc, making, ctx, child, parent, made, codes>>

(* The creator reads ctx->child.  The new thread may have freed the        *)
(* context already, and what is read then is anything; a NULL is followed. *)
(* The condition is not released.                                          *)
Created(t) ==
  LET k == making[t] IN
  /\ pc[t] = "awake"
  /\ made' \in {[made EXCEPT ![t] = a] :
                 a \in {child[k]} \cup IF ctx[k] = "freed" THEN {Undefined} ELSE {}}
  /\ pc' = [pc EXCEPT ![t] = IF made'[t] = NoThread THEN "crashed" ELSE "run"]
  /\ making' = [making EXCEPT ![t] = NoThread]
  /\ UNCHANGED <<monitor, ctx, child, parent, codes>>

\* Wrong: the child would be in the context only after the signal.
StartWithoutChild(t, k) ==
  /\ making[t] = k
  /\ Goto(k, "starting", "started")
  /\ parent' = [parent EXCEPT ![k] = t]
  /\ UNCHANGED <<monitor, making, ctx, child, made, codes>>

\* Wrong: the new thread would start outside the tree.
StartWithoutParent(t, k) ==
  /\ making[t] = k
  /\ Goto(k, "starting", "started")
  /\ child' = [child EXCEPT ![k] = k]
  /\ UNCHANGED <<monitor, making, ctx, parent, made, codes>>

(* _thread_start_routine_wrapper, in the new thread, up to the lock ...    *)
Start(t, k) ==
  /\ making[t] = k
  /\ Goto(k, "starting", "started")
  /\ child' = [child EXCEPT ![k] = k]
  /\ parent' = [parent EXCEPT ![k] = t]
  /\ UNCHANGED <<monitor, making, ctx, made, codes>>

Announce(k) ==
  /\ Goto(k, "started", "announced")
  /\ condition_acquire(k, k)
  /\ UNCHANGED <<making, ctx, child, parent, made, codes>>

\* Wrong: the creator would not be signalled.
SignalOnlyReleases(k) ==
  /\ Goto(k, "announced", "run")
  /\ condition_release(k, k)
  /\ UNCHANGED <<making, ctx, child, parent, made, codes>>

(* ... the signal to the creator, and the call of the start routine.       *)
Signal(k) ==
  /\ Goto(k, "announced", "run")
  /\ condition_wakeup(k, k)
  /\ UNCHANGED <<making, ctx, child, parent, made, codes>>

(* The start routine returns.  The cleanup handler drops the exit code of  *)
(* the thread but leaves the pointer to it.                                *)
End(k) ==
  /\ k # Main
  /\ pc[k] \in {"run", "leaving"}
  /\ pc' = [pc EXCEPT ![k] = "ended"]
  /\ ctx' = [ctx EXCEPT ![k] = "freed"]
  /\ UNCHANGED <<monitor, making, child, parent, made, codes>>
-----------------------------------------------------------------------------
(* The script of t calls exit(): data_thread_set_exit_code begins.         *)
Exit(t) ==
  /\ Goto(t, "run", "exiting")
  /\ at' = [at EXCEPT ![t] = t]
  /\ UNCHANGED <<handshake, exit_code, spurious, runs>>

\* Wrong: the parent would be passed on in place of the code.
ClimbWithParent(t) ==
  /\ pc[t] = "exiting"
  /\ exit_code' = [exit_code EXCEPT ![at[t]] = parent[at[t]]]
  /\ at' = [at EXCEPT ![t] = parent[at[t]]]
  /\ pc' = [pc EXCEPT ![t] = IF at'[t] = NoThread THEN "leaving" ELSE @]
  /\ UNCHANGED <<handshake, spurious, runs>>

\* Wrong: the exit code would be set for the thread itself only.
ClimbNowhere(t) ==
  /\ pc[t] = "exiting"
  /\ exit_code' = [exit_code EXCEPT ![t] = t]
  /\ pc' = [pc EXCEPT ![t] = "leaving"]
  /\ UNCHANGED <<handshake, at, spurious, runs>>

(* One round of its loop over the thread and its ancestors.                *)
Climb(t) ==
  /\ pc[t] = "exiting"
  /\ exit_code' = [exit_code EXCEPT ![at[t]] = t]
  /\ at' = [at EXCEPT ![t] = parent[at[t]]]
  /\ pc' = [pc EXCEPT ![t] = IF at'[t] = NoThread THEN "leaving" ELSE @]
  /\ UNCHANGED <<handshake, spurious, runs>>

(* Before an instruction the VM asks for the exit code: its own thread's,  *)
(* or that of the nearest ancestor that has one.                           *)
Poll(t) ==
  /\ \E a \in Chain(t) : exit_code[a] # NoCode
  /\ Goto(t, "run", "leaving")
  /\ UNCHANGED <<handshake, codes>>

(* scriptloader_run in the main thread ends, because the script did or     *)
(* because it was left, and clears the exit code of the thread and its     *)
(* ancestors; another script may follow.                                   *)
EndRun(how) ==
  /\ pc[Main] = how
  /\ exit_code' = [t \in Thread |-> IF t \in Chain(Main) THEN NoCode ELSE exit_code[t]]
  /\ runs' = runs + 1
  /\ pc' = [pc EXCEPT ![Main] = IF runs' < MaxRuns THEN "run" ELSE "done"]
  /\ UNCHANGED <<handshake, at, spurious>>

Handshake(t) ==
  \/ Sleep(t) \/ Awake(t) \/ Created(t)
  \/ \E k \in Thread : Start(k, t)
  \/ Announce(t) \/ Signal(t)

Next ==
  \/ \E t \in Thread :
       \/ \E k \in Thread : New(t, k)
       \/ NewFails(t) \/ SleepEnds(t) \/ Handshake(t)
       \/ End(t) \/ Exit(t) \/ Climb(t) \/ Poll(t)
  \/ \E how \in {"run", "leaving"} : EndRun(how)

Spec == Init /\ [][Next]_vars

(* A thread that is in the handshake, in the loop over its ancestors or on *)
(* its way out goes on; a script polls before every instruction.  No       *)
(* script has to end of itself, and none has to call exit().               *)
FairSpec ==
  /\ Spec
  /\ \A t \in Thread : WF_vars(Handshake(t)) /\ WF_vars(Climb(t)) /\ WF_vars(Poll(t))
  /\ WF_vars(EndRun("leaving"))
-----------------------------------------------------------------------------
TypeOK ==
  /\ MonitorTypeOK
  /\ pc \in [Thread -> {"unborn", "starting", "started", "announced", "run",
                        "created", "asleep", "awake", "crashed", "exiting",
                        "leaving", "ended", "done"}]
  /\ making \in [Thread -> Thread \cup {NoThread}]
  /\ ctx \in [Thread -> {"none", "live", "freed"}]
  /\ child \in [Thread -> Thread \cup {NoThread}]
  /\ parent \in [Thread -> Thread \cup {NoThread}]
  /\ made \in [Thread -> Thread \cup {NoThread, Undefined}]
  /\ exit_code \in [Thread -> Thread \cup {NoCode}]
  /\ at \in [Thread -> Thread \cup {NoThread}]
  /\ spurious \in BOOLEAN
  /\ runs \in 0 .. MaxRuns

(* thread.c:232 -- although the wait tests no predicate, a creator whose    *)
(* wait only a signal ends finds the new thread in the context and in the  *)
(* tree.                                                                   *)
HandedOver ==
  \A t \in Thread :
    ~spurious /\ pc[t] = "awake" => child[making[t]] = making[t] /\ parent[making[t]] = t

(* thread.c:210, :108 -- no creator waits for ever: the signal of the new  *)
(* thread cannot come before the wait for it.  Only a wait that ends early *)
(* makes it follow the NULL that is in the context until then.             *)
CreatorReturns ==
  \A t \in Thread :
    pc[t] = "created" ~> pc[t] = "run" \/ (spurious /\ pc[t] = "crashed")

(* thread.c:475, vm.c:133, loader.c:558 -- an exit() in any thread ends    *)
(* the script that the main thread was running at the time, whatever the   *)
(* other threads do.                                                       *)
ExitStopsMain ==
  \A t \in Thread, n \in 0 .. MaxRuns - 1 :
    pc[t] = "exiting" /\ runs = n ~> runs > n \/ pc[Main] = "crashed"
=============================================================================
