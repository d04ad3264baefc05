----------------------------- MODULE ThreadProofs -----------------------------
(***************************************************************************)
(* A new thread is handed over to its creator, for any set of threads that *)
(* create each other in any order.                                         *)
(*                                                                         *)
(* The argument: a thread that is being made has one creator, and it has   *)
(* put itself into the context and the tree before it can take the mutex   *)
(* it signals under.  A creator that is no longer among the sleepers,      *)
(* though no wait ends by itself, was signalled, and by the thread it      *)
(* waits for: by nobody else does anyone signal on that condition.         *)
(***************************************************************************)
EXTENDS Threads, TLAPS

Waiting == {"created", "asleep", "awake"}

(* A creator makes one thread, which exists; nobody else makes a thread.   *)
MakersMake ==
  \A t \in Thread :
    /\ pc[t] \in Waiting <=> making[t] \in Thread
    /\ making[t] \in Thread => pc[making[t]] # "unborn"

OneMaker ==
  \A t, u \in Thread : making[t] = making[u] /\ making[t] \in Thread => t = u

(* A thread that has gone on from its first step is where it belongs.      *)
Placed ==
  \A t \in Thread :
    making[t] \in Thread /\ pc[making[t]] # "starting" =>
      child[making[t]] = making[t] /\ parent[making[t]] = t

(* A creator that does not sleep any more has been signalled.              *)
Signalled ==
  \A t \in Thread :
    /\ ~spurious
    /\ pc[t] = "awake" \/ (pc[t] = "asleep" /\ t \notin sleepers[making[t]])
    => pc[making[t]] \notin {"starting", "started"}

(* The owner of a mutex has locked it.                                     *)
Locks == \A c \in Condition : depth[c] = 0 <=> owner[c] = NoThread

(* The loop over the ancestors is at one; only an unfinished script runs.  *)
LoopsGoOn ==
  /\ \A t \in Thread : pc[t] = "exiting" => at[t] # NoThread
  /\ pc[Main] # "done" => runs < MaxRuns

ThreadInv == TypeOK /\ Locks /\ LoopsGoOn /\ MakersMake /\ OneMaker /\ Placed /\ Signalled
-----------------------------------------------------------------------------
(* What the operations on a condition do to its mutex.                     *)
LEMMA TakeKeeps ==
  ASSUME MonitorTypeOK, Locks, NEW t \in Thread, NEW c \in Condition, condition_acquire(t, c)
  PROVE  MonitorTypeOK' /\ Locks' /\ sleepers' = sleepers
<1>1. owner' \in [Condition -> Thread \cup {NoThread}]
  BY DEF condition_acquire, Take, MonitorTypeOK
<1>2. depth' \in [Condition -> Nat] /\ depth'[c] = depth[c] + 1 /\ depth[c] \in Nat
  BY DEF condition_acquire, Take, MonitorTypeOK
<1>3. \A d \in Condition \ {c} : owner'[d] = owner[d] /\ depth'[d] = depth[d]
  BY DEF condition_acquire, Take, MonitorTypeOK
<1>4. owner'[c] = t /\ depth'[c] # 0
  BY <1>2, SMT DEF condition_acquire, Take, MonitorTypeOK
<1>5. Locks'
  BY <1>3, <1>4, NoThreadAssumption DEF Locks
<1> QED BY <1>1, <1>2, <1>5 DEF condition_acquire, MonitorTypeOK

(* mutex.c:208 -- an unlock undoes one level of its owner.                 *)
LEMMA GiveBackKeeps ==
  ASSUME MonitorTypeOK, Locks, NEW c \in Condition, owner[c] # NoThread, GiveBack(c)
  PROVE  /\ owner' \in [Condition -> Thread \cup {NoThread}]
         /\ depth' \in [Condition -> Nat]
         /\ Locks'
<1>1. depth[c] \in Nat \ {0} /\ depth[c] - 1 \in Nat
  BY DEF MonitorTypeOK, Locks
<1>2. depth' = [depth EXCEPT ![c] = depth[c] - 1] /\ depth \in [Condition -> Nat]
  BY DEF GiveBack, MonitorTypeOK
<1>3. depth' \in [Condition -> Nat] /\ depth'[c] = depth[c] - 1
  BY <1>1, <1>2
<1>4. owner' \in [Condition -> Thread \cup {NoThread}]
  BY DEF GiveBack, MonitorTypeOK
<1>5. \A d \in Condition \ {c} : owner'[d] = owner[d] /\ depth'[d] = depth[d]
  BY DEF GiveBack, MonitorTypeOK
<1>6. owner'[c] = IF depth[c] = 1 THEN NoThread ELSE owner[c]
  BY DEF GiveBack, MonitorTypeOK
<1>7. depth'[c] = 0 <=> owner'[c] = NoThread
  BY <1>1, <1>3, <1>6
<1>8. Locks'
  BY <1>5, <1>7 DEF Locks
<1> QED BY <1>3, <1>4, <1>8

(* Waiting gives the mutex up and joins the sleepers.                      *)
LEMMA SleepKeeps ==
  ASSUME MonitorTypeOK, Locks, NEW t \in Thread, NEW c \in Condition, condition_sleep(t, c)
  PROVE  MonitorTypeOK' /\ Locks' /\ sleepers' = [sleepers EXCEPT ![c] = @ \cup {t}]
<1>1. owner[c] # NoThread
  BY NoThreadAssumption DEF condition_sleep
<1>2. sleepers' \in [Condition -> SUBSET Thread]
  BY DEF condition_sleep, MonitorTypeOK
<1> QED BY <1>1, <1>2, GiveBackKeeps DEF condition_sleep, MonitorTypeOK

(* A signal disturbs the sleepers of its own condition only.               *)
LEMMA WakeupKeeps ==
  ASSUME MonitorTypeOK, Locks, NEW t \in Thread, NEW c \in Condition, condition_wakeup(t, c)
  PROVE  /\ MonitorTypeOK' /\ Locks'
         /\ \A d \in Condition \ {c} : sleepers'[d] = sleepers[d]
<1>1. sleepers' \in [Condition -> SUBSET Thread]
  BY DEF condition_wakeup, MonitorTypeOK
<1>2. \A d \in Condition \ {c} : sleepers'[d] = sleepers[d]
  BY DEF condition_wakeup, MonitorTypeOK
<1>3. CASE owner[c] = t
  <2>1. owner[c] # NoThread /\ GiveBack(c)
    BY <1>3, NoThreadAssumption DEF condition_wakeup
  <2> QED BY <2>1, <1>1, <1>2, GiveBackKeeps DEF MonitorTypeOK
<1>4. CASE owner[c] # t
  <2>1. owner' = owner /\ depth' = depth
    BY <1>4 DEF condition_wakeup
  <2> QED BY <2>1, <1>1, <1>2 DEF MonitorTypeOK, Locks
<1> QED BY <1>3, <1>4
-----------------------------------------------------------------------------
(* The steps of the handshake.                                             *)
LEMMA NewKeeps ==
  ASSUME ThreadInv, NEW t \in Thread, NEW k \in Thread, New(t, k)
  PROVE  ThreadInv'
<1> USE DEF ThreadInv
<1>1. /\ pc[t] = "run" /\ pc[k] = "unborn" /\ t # k
      /\ pc' = [pc EXCEPT ![t] = "created", ![k] = "starting"]
      /\ making' = [making EXCEPT ![t] = k] /\ ctx' = [ctx EXCEPT ![k] = "live"]
      /\ UNCHANGED <<child, parent, made, codes>>
  BY DEF New
<1>2. MonitorTypeOK' /\ Locks' /\ sleepers' = sleepers
  BY TakeKeeps, ConditionAssumption DEF New, TypeOK
<1>3. \A u \in Thread : making[u] # k
  BY <1>1 DEF MakersMake
<1>4. /\ pc'[t] = "created" /\ pc'[k] = "starting" /\ making'[t] = k
      /\ \A u \in Thread \ {t} : making'[u] = making[u]
      /\ \A u \in Thread \ {t, k} : pc'[u] = pc[u]
  BY <1>1 DEF TypeOK
<1>5. TypeOK'
  BY <1>1, <1>2 DEF TypeOK, codes
<1>6. LoopsGoOn'
  BY <1>1, <1>4, MainAssumption DEF LoopsGoOn, codes
<1>7. MakersMake'
  BY <1>1, <1>3, <1>4, NoThreadAssumption DEF MakersMake, Waiting
<1>8. OneMaker'
  BY <1>3, <1>4 DEF OneMaker
<1>9. Placed'
  <2> SUFFICES ASSUME NEW u \in Thread, making'[u] \in Thread, pc'[making'[u]] # "starting"
               PROVE  child'[making'[u]] = making'[u] /\ parent'[making'[u]] = u
    BY DEF Placed
  <2>1. u # t /\ making'[u] = making[u]
    BY <1>4
  <2>2. pc[making[u]] # "starting"
    BY <2>1, <1>1, <1>3, <1>4 DEF TypeOK
  <2> QED BY <2>1, <2>2, <1>1 DEF Placed
<1>10. Signalled'
  <2> SUFFICES ASSUME NEW u \in Thread, ~spurious',
                      pc'[u] = "awake" \/ (pc'[u] = "asleep" /\ u \notin sleepers'[making'[u]])
               PROVE  pc'[making'[u]] \notin {"starting", "started"}
    BY DEF Signalled
  <2>1. u # t /\ u # k /\ making'[u] = making[u] /\ pc'[u] = pc[u] /\ ~spurious
    BY <1>1, <1>4 DEF codes
  <2>2. pc[making[u]] \notin {"starting", "started"}
    BY <2>1, <1>2 DEF Signalled
  <2>3. making[u] \in Thread /\ making[u] # k
    BY <2>1, <1>3 DEF MakersMake, Waiting
  <2> QED BY <2>1, <2>2, <2>3, <1>4
<1> QED BY <1>2, <1>5, <1>6, <1>7, <1>8, <1>9, <1>10

(* The creator goes to sleep.                                              *)
LEMMA SleepThreadKeeps ==
  ASSUME ThreadInv, NEW t \in Thread, Sleep(t)
  PROVE  ThreadInv'
<1> USE DEF ThreadInv
<1>1. /\ pc[t] = "created" /\ pc' = [pc EXCEPT ![t] = "asleep"]
      /\ UNCHANGED <<making, ctx, child, parent, made, codes>>
  BY DEF Sleep, Goto
<1>2. making[t] \in Thread
  BY <1>1 DEF MakersMake, Waiting
<1>3. MonitorTypeOK' /\ Locks' /\ sleepers' = [sleepers EXCEPT ![making[t]] = @ \cup {t}]
  BY <1>2, SleepKeeps, ConditionAssumption DEF Sleep, TypeOK
<1>4. pc'[t] = "asleep" /\ \A u \in Thread \ {t} : pc'[u] = pc[u]
  BY <1>1 DEF TypeOK
<1>5. TypeOK'
  BY <1>1, <1>3 DEF TypeOK, codes
<1>6. LoopsGoOn'
  BY <1>1, <1>4, MainAssumption DEF LoopsGoOn, codes
<1>7. MakersMake' /\ OneMaker'
  BY <1>1, <1>4 DEF MakersMake, OneMaker, Waiting
<1>8. Placed'
  BY <1>1, <1>4 DEF Placed
<1>9. t \in sleepers'[making[t]] /\ \A u \in Thread : sleepers[making[u]] \subseteq sleepers'[making[u]]
  BY <1>2, <1>3, ConditionAssumption DEF TypeOK, MonitorTypeOK
<1>10. Signalled'
  <2> SUFFICES ASSUME NEW u \in Thread, ~spurious',
                      pc'[u] = "awake" \/ (pc'[u] = "asleep" /\ u \notin sleepers'[making'[u]])
               PROVE  pc'[making'[u]] \notin {"starting", "started"}
    BY DEF Signalled
  <2>1. u # t /\ pc'[u] = pc[u] /\ ~spurious /\ making'[u] = making[u]
    BY <1>1, <1>4, <1>9 DEF codes
  <2>2. pc[making[u]] \notin {"starting", "started"} /\ making[u] \in Thread
    BY <2>1, <1>9 DEF Signalled, MakersMake, Waiting
  <2> QED BY <2>1, <2>2, <1>4
<1> QED BY <1>3, <1>5, <1>6, <1>7, <1>8, <1>10

(* A creator that was woken takes the mutex of its context again.          *)
LEMMA AwakeKeeps ==
  ASSUME ThreadInv, NEW t \in Thread, Awake(t)
  PROVE  ThreadInv'
<1> USE DEF ThreadInv
<1>1. /\ pc[t] = "asleep" /\ pc' = [pc EXCEPT ![t] = "awake"]
      /\ t \notin sleepers[making[t]]
      /\ UNCHANGED <<making, ctx, child, parent, made, codes>>
  BY DEF Awake, Goto, condition_awake
<1>2. making[t] \in Thread
  BY <1>1 DEF MakersMake, Waiting
<1>3. MonitorTypeOK' /\ Locks' /\ sleepers' = sleepers
  BY <1>2, TakeKeeps, ConditionAssumption DEF Awake, condition_awake, TypeOK
<1>4. pc'[t] = "awake" /\ \A u \in Thread \ {t} : pc'[u] = pc[u]
  BY <1>1 DEF TypeOK
<1>5. TypeOK'
  BY <1>1, <1>3 DEF TypeOK, codes
<1>6. LoopsGoOn'
  BY <1>1, <1>4, MainAssumption DEF LoopsGoOn, codes
<1>7. MakersMake' /\ OneMaker' /\ Placed'
  BY <1>1, <1>4 DEF MakersMake, OneMaker, Placed, Waiting
<1>8. Signalled'
  <2> SUFFICES ASSUME NEW u \in Thread, ~spurious',
                      pc'[u] = "awake" \/ (pc'[u] = "asleep" /\ u \notin sleepers'[making'[u]])
               PROVE  pc'[making'[u]] \notin {"starting", "started"}
    BY DEF Signalled
  <2>1. pc[making[u]] \notin {"starting", "started"} /\ making[u] \in Thread
    BY <1>1, <1>3, <1>4 DEF Signalled, MakersMake, Waiting, codes
  <2> QED BY <2>1, <1>1, <1>4
<1> QED BY <1>3, <1>5, <1>6, <1>7, <1>8

(* A wait ends by itself: only where that may happen.                      *)
LEMMA SleepEndsKeeps ==
  ASSUME ThreadInv, NEW t \in Thread, SleepEnds(t)
  PROVE  ThreadInv'
<1> USE DEF ThreadInv
<1>1. /\ spurious /\ UNCHANGED <<owner, depth, pc, making, ctx, child, parent, made, codes>>
      /\ sleepers' = [sleepers EXCEPT ![making[t]] = @ \ {t}]
  BY DEF SleepEnds, SpuriousWakeup
<1>2. TypeOK' /\ Locks'
  BY <1>1 DEF TypeOK, MonitorTypeOK, Locks, codes
<1>3. LoopsGoOn' /\ MakersMake' /\ OneMaker' /\ Placed' /\ Signalled'
  BY <1>1 DEF LoopsGoOn, MakersMake, OneMaker, Placed, Signalled, codes
<1> QED BY <1>2, <1>3

(* The creator reads the context and goes on, or follows a NULL.           *)
LEMMA CreatedKeeps ==
  ASSUME ThreadInv, NEW t \in Thread, Created(t)
  PROVE  ThreadInv'
<1> USE DEF ThreadInv
<1>1. PICK s \in {"crashed", "run"} :
      /\ pc[t] = "awake" /\ pc' = [pc EXCEPT ![t] = s]
      /\ making' = [making EXCEPT ![t] = NoThread]
      /\ UNCHANGED <<monitor, ctx, child, parent, codes>>
  BY DEF Created
<1>2. /\ making[t] \in Thread /\ making'[t] = NoThread
      /\ \A u \in Thread \ {t} : making'[u] = making[u]
  BY <1>1 DEF MakersMake, Waiting, TypeOK
<1>3. pc'[t] = s /\ \A u \in Thread \ {t} : pc'[u] = pc[u]
  BY <1>1 DEF TypeOK
<1>4. made' \in [Thread -> Thread \cup {NoThread, Undefined}]
  <2>1. child[making[t]] \in Thread \cup {NoThread}
    BY <1>2 DEF TypeOK
  <2>2. PICK a \in {child[making[t]], Undefined} : made' = [made EXCEPT ![t] = a]
    BY DEF Created
  <2> QED BY <2>1, <2>2 DEF TypeOK
<1>5. TypeOK' /\ Locks'
  BY <1>1, <1>4 DEF TypeOK, MonitorTypeOK, Locks, monitor, codes
<1>6. LoopsGoOn'
  BY <1>1, <1>3, MainAssumption DEF LoopsGoOn, codes
<1>7. MakersMake'
  BY <1>1, <1>2, <1>3, NoThreadAssumption DEF MakersMake, Waiting
<1>8. OneMaker'
  BY <1>2, NoThreadAssumption DEF OneMaker
<1>9. \A u \in Thread : making'[u] \in Thread => u # t /\ making'[u] = making[u]
  BY <1>2, NoThreadAssumption
<1>10. \A k \in Thread : pc'[k] \in {"starting", "started"} <=> pc[k] \in {"starting", "started"}
  BY <1>1, <1>3
<1>11. Placed'
  BY <1>1, <1>3, <1>9 DEF Placed
<1>12. Signalled'
  <2> SUFFICES ASSUME NEW u \in Thread, ~spurious',
                      pc'[u] = "awake" \/ (pc'[u] = "asleep" /\ u \notin sleepers'[making'[u]])
               PROVE  pc'[making'[u]] \notin {"starting", "started"}
    BY DEF Signalled
  <2>1. u # t /\ pc'[u] = pc[u] /\ making'[u] = making[u] /\ making[u] \in Thread
    BY <1>2, <1>3 DEF MakersMake, Waiting
  <2>2. pc[making[u]] \notin {"starting", "started"}
    BY <1>1, <2>1 DEF Signalled, monitor, codes
  <2> QED BY <2>1, <2>2, <1>10
<1> QED BY <1>5, <1>6, <1>7, <1>8, <1>11, <1>12

(* The new thread enters the context and the tree.                         *)
LEMMA StartKeeps ==
  ASSUME ThreadInv, NEW t \in Thread, NEW k \in Thread, Start(t, k)
  PROVE  ThreadInv'
<1> USE DEF ThreadInv
<1>1. /\ making[t] = k /\ pc[k] = "starting" /\ pc' = [pc EXCEPT ![k] = "started"]
      /\ child' = [child EXCEPT ![k] = k] /\ parent' = [parent EXCEPT ![k] = t]
      /\ UNCHANGED <<monitor, making, ctx, made, codes>>
  BY DEF Start, Goto
<1>2. pc'[k] = "started" /\ \A u \in Thread \ {k} : pc'[u] = pc[u]
  BY <1>1 DEF TypeOK
<1>3. TypeOK' /\ Locks'
  BY <1>1 DEF TypeOK, MonitorTypeOK, Locks, monitor, codes
<1>4. LoopsGoOn'
  BY <1>1, <1>2, MainAssumption DEF LoopsGoOn, codes
<1>5. MakersMake' /\ OneMaker'
  BY <1>1, <1>2 DEF MakersMake, OneMaker, Waiting
<1>6. Placed'
  <2> SUFFICES ASSUME NEW u \in Thread, making[u] \in Thread, pc'[making[u]] # "starting"
               PROVE  child'[making[u]] = making[u] /\ parent'[making[u]] = u
    BY <1>1 DEF Placed
  <2>1. CASE making[u] = k
    BY <2>1, <1>1 DEF OneMaker, TypeOK
  <2>2. CASE making[u] # k
    BY <2>2, <1>1, <1>2 DEF Placed, TypeOK
  <2> QED BY <2>1, <2>2
<1>7. Signalled'
  <2> SUFFICES ASSUME NEW u \in Thread, ~spurious',
                      pc'[u] = "awake" \/ (pc'[u] = "asleep" /\ u \notin sleepers'[making'[u]])
               PROVE  pc'[making'[u]] \notin {"starting", "started"}
    BY DEF Signalled
  <2>1. pc[making[u]] \notin {"starting", "started"} /\ making[u] \in Thread
    BY <1>1, <1>2 DEF Signalled, MakersMake, Waiting, monitor, codes
  <2> QED BY <2>1, <1>1, <1>2
<1> QED BY <1>3, <1>4, <1>5, <1>6, <1>7

(* The new thread takes the mutex it will signal under.                    *)
LEMMA AnnounceKeeps ==
  ASSUME ThreadInv, NEW k \in Thread, Announce(k)
  PROVE  ThreadInv'
<1> USE DEF ThreadInv
<1>1. /\ pc[k] = "started" /\ pc' = [pc EXCEPT ![k] = "announced"]
      /\ UNCHANGED <<making, ctx, child, parent, made, codes>>
  BY DEF Announce, Goto
<1>2. MonitorTypeOK' /\ Locks' /\ sleepers' = sleepers
  BY TakeKeeps, ConditionAssumption DEF Announce, TypeOK
<1>3. pc'[k] = "announced" /\ \A u \in Thread \ {k} : pc'[u] = pc[u]
  BY <1>1 DEF TypeOK
<1>4. TypeOK'
  BY <1>1, <1>2 DEF TypeOK, codes
<1>5. LoopsGoOn'
  BY <1>1, <1>3, MainAssumption DEF LoopsGoOn, codes
<1>6. MakersMake' /\ OneMaker' /\ Placed'
  BY <1>1, <1>3 DEF MakersMake, OneMaker, Placed, Waiting
<1>7. Signalled'
  <2> SUFFICES ASSUME NEW u \in Thread, ~spurious',
                      pc'[u] = "awake" \/ (pc'[u] = "asleep" /\ u \notin sleepers'[making'[u]])
               PROVE  pc'[making'[u]] \notin {"starting", "started"}
    BY DEF Signalled
  <2>1. pc[making[u]] \notin {"starting", "started"} /\ making[u] \in Thread
    BY <1>1, <1>2, <1>3 DEF Signalled, MakersMake, Waiting, codes
  <2> QED BY <2>1, <1>1, <1>3
<1> QED BY <1>2, <1>4, <1>5, <1>6, <1>7

(* Its signal wakes nobody but the thread that waits for it.               *)
LEMMA SignalKeeps ==
  ASSUME ThreadInv, NEW k \in Thread, Signal(k)
  PROVE  ThreadInv'
<1> USE DEF ThreadInv
<1>1. /\ pc[k] = "announced" /\ pc' = [pc EXCEPT ![k] = "run"]
      /\ UNCHANGED <<making, ctx, child, parent, made, codes>>
  BY DEF Signal, Goto
<1>2. MonitorTypeOK' /\ Locks' /\ \A d \in Thread \ {k} : sleepers'[d] = sleepers[d]
  BY WakeupKeeps, ConditionAssumption DEF Signal, TypeOK
<1>3. pc'[k] = "run" /\ \A u \in Thread \ {k} : pc'[u] = pc[u]
  BY <1>1 DEF TypeOK
<1>4. TypeOK'
  BY <1>1, <1>2 DEF TypeOK, codes
<1>5. LoopsGoOn'
  BY <1>1, <1>3, MainAssumption DEF LoopsGoOn, codes, TypeOK
<1>6. MakersMake' /\ OneMaker' /\ Placed'
  BY <1>1, <1>3 DEF MakersMake, OneMaker, Placed, Waiting
<1>7. Signalled'
  <2> SUFFICES ASSUME NEW u \in Thread, ~spurious',
                      pc'[u] = "awake" \/ (pc'[u] = "asleep" /\ u \notin sleepers'[making'[u]])
               PROVE  pc'[making'[u]] \notin {"starting", "started"}
    BY DEF Signalled
  <2>1. u # k /\ pc'[u] = pc[u] /\ making'[u] = making[u] /\ making[u] \in Thread /\ ~spurious
    BY <1>1, <1>3 DEF MakersMake, Waiting, codes
  <2>2. CASE making[u] = k
    BY <2>1, <2>2, <1>3
  <2>3. CASE making[u] # k
    BY <2>1, <2>3, <1>2, <1>3 DEF Signalled
  <2> QED BY <2>2, <2>3
<1> QED BY <1>2, <1>4, <1>5, <1>6, <1>7
-----------------------------------------------------------------------------
(* What a thread does that neither makes another nor is being made leaves  *)
(* the handshakes of the others alone.                                     *)
LEMMA RunningKeeps ==
  ASSUME ThreadInv, NEW t \in Thread, NEW s \in {"run", "exiting", "leaving", "ended", "done"},
         pc[t] \in {"run", "exiting", "leaving"}, pc' = [pc EXCEPT ![t] = s],
         UNCHANGED <<monitor, making, child, parent, spurious>>
  PROVE  Locks' /\ MakersMake' /\ OneMaker' /\ Placed' /\ Signalled'
<1> USE DEF ThreadInv
<1>1. pc'[t] = s /\ \A u \in Thread \ {t} : pc'[u] = pc[u]
  BY DEF TypeOK
<1>2. MakersMake' /\ OneMaker' /\ Placed'
  BY <1>1 DEF MakersMake, OneMaker, Placed, Waiting
<1>3. Locks'
  BY DEF Locks, monitor
<1>4. Signalled'
  <2> SUFFICES ASSUME NEW u \in Thread, ~spurious',
                      pc'[u] = "awake" \/ (pc'[u] = "asleep" /\ u \notin sleepers'[making'[u]])
               PROVE  pc'[making'[u]] \notin {"starting", "started"}
    BY DEF Signalled
  <2>1. pc[making[u]] \notin {"starting", "started"} /\ making[u] \in Thread
    BY <1>1 DEF Signalled, MakersMake, Waiting, monitor
  <2> QED BY <2>1, <1>1
<1> QED BY <1>2, <1>3, <1>4

(* A thread that ends is made by nobody.                                   *)
LEMMA EndKeeps ==
  ASSUME ThreadInv, NEW k \in Thread, End(k)
  PROVE  ThreadInv'
<1> USE DEF ThreadInv
<1>1. /\ k # Main /\ pc[k] \in {"run", "exiting", "leaving"}
      /\ pc' = [pc EXCEPT ![k] = "ended"] /\ ctx' = [ctx EXCEPT ![k] = "freed"]
      /\ UNCHANGED <<monitor, making, child, parent, made, codes>>
  BY DEF End
<1>2. Locks' /\ MakersMake' /\ OneMaker' /\ Placed' /\ Signalled'
  BY <1>1, RunningKeeps DEF codes
<1>3. TypeOK'
  BY <1>1 DEF TypeOK, MonitorTypeOK, monitor, codes
<1>4. LoopsGoOn'
  BY <1>1, MainAssumption DEF LoopsGoOn, TypeOK, codes
<1> QED BY <1>2, <1>3, <1>4

(* A thread that could not be created was never handed to anyone.          *)
LEMMA NewFailsKeeps ==
  ASSUME ThreadInv, NEW t \in Thread, NewFails(t)
  PROVE  ThreadInv'
<1> USE DEF ThreadInv
<1>1. made' = [made EXCEPT ![t] = NoThread] /\ UNCHANGED <<monitor, pc, making, ctx, child, parent, codes>>
  BY DEF NewFails
<1>2. TypeOK'
  BY <1>1 DEF TypeOK, MonitorTypeOK, monitor, codes
<1>3. Locks' /\ LoopsGoOn' /\ MakersMake' /\ OneMaker' /\ Placed' /\ Signalled'
  BY <1>1 DEF Locks, LoopsGoOn, MakersMake, OneMaker, Placed, Signalled, monitor, codes
<1> QED BY <1>2, <1>3

(* The steps of exit() and of the threads it reaches.                      *)
LEMMA ExitKeeps ==
  ASSUME ThreadInv, NEW t \in Thread, Exit(t)
  PROVE  ThreadInv'
<1> USE DEF ThreadInv
<1>1. /\ pc[t] = "run" /\ pc' = [pc EXCEPT ![t] = "exiting"] /\ at' = [at EXCEPT ![t] = t]
      /\ UNCHANGED <<handshake, exit_code, spurious, runs>>
  BY DEF Exit, Goto
<1>2. Locks' /\ MakersMake' /\ OneMaker' /\ Placed' /\ Signalled'
  BY <1>1, RunningKeeps DEF handshake
<1>3. TypeOK'
  BY <1>1 DEF TypeOK, MonitorTypeOK, monitor, handshake
<1>4. LoopsGoOn'
  BY <1>1, MainAssumption, NoThreadAssumption DEF LoopsGoOn, TypeOK
<1> QED BY <1>2, <1>3, <1>4

(* The loop over the ancestors goes from a thread to its parent.           *)
LEMMA ClimbKeeps ==
  ASSUME ThreadInv, NEW t \in Thread, Climb(t)
  PROVE  ThreadInv'
<1> USE DEF ThreadInv
<1>1. /\ pc[t] = "exiting" /\ exit_code' = [exit_code EXCEPT ![at[t]] = t]
      /\ at' = [at EXCEPT ![t] = parent[at[t]]]
      /\ pc' = [pc EXCEPT ![t] = IF at'[t] = NoThread THEN "leaving" ELSE pc[t]]
      /\ UNCHANGED <<handshake, spurious, runs>>
  BY DEF Climb
<1>2. at[t] \in Thread /\ parent[at[t]] \in Thread \cup {NoThread}
  BY <1>1 DEF LoopsGoOn, TypeOK
<1>3. Locks' /\ MakersMake' /\ OneMaker' /\ Placed' /\ Signalled'
  <2>1. CASE at'[t] = NoThread
    BY <2>1, <1>1, RunningKeeps DEF handshake
  <2>2. CASE at'[t] # NoThread
    BY <2>2, <1>1, RunningKeeps DEF handshake
  <2> QED BY <2>1, <2>2
<1>4. TypeOK'
  BY <1>1, <1>2 DEF TypeOK, MonitorTypeOK, monitor, handshake
<1>5. at'[t] = parent[at[t]] /\ \A u \in Thread \ {t} : at'[u] = at[u] /\ pc'[u] = pc[u]
  BY <1>1 DEF TypeOK
<1>6. LoopsGoOn'
  BY <1>1, <1>5, MainAssumption DEF LoopsGoOn, TypeOK
<1> QED BY <1>3, <1>4, <1>6

(* Seeing the exit code moves the thread that polls, no other.             *)
LEMMA PollKeeps ==
  ASSUME ThreadInv, NEW t \in Thread, Poll(t)
  PROVE  ThreadInv'
<1> USE DEF ThreadInv
<1>1. pc[t] = "run" /\ pc' = [pc EXCEPT ![t] = "leaving"] /\ UNCHANGED <<handshake, codes>>
  BY DEF Poll, Goto
<1>2. Locks' /\ MakersMake' /\ OneMaker' /\ Placed' /\ Signalled'
  BY <1>1, RunningKeeps DEF handshake, codes
<1>3. TypeOK'
  BY <1>1 DEF TypeOK, MonitorTypeOK, monitor, handshake, codes
<1>4. LoopsGoOn'
  BY <1>1, MainAssumption DEF LoopsGoOn, TypeOK, codes
<1> QED BY <1>2, <1>3, <1>4

(* The end of a script of the main thread is one run more.                 *)
LEMMA EndRunKeeps ==
  ASSUME ThreadInv, NEW how \in {"run", "leaving"}, EndRun(how)
  PROVE  ThreadInv'
<1> USE DEF ThreadInv
<1>1. /\ pc[Main] = how /\ runs' = runs + 1
      /\ exit_code' = [u \in Thread |-> IF u \in Chain(Main) THEN NoCode ELSE exit_code[u]]
      /\ pc' = [pc EXCEPT ![Main] = IF runs' < MaxRuns THEN "run" ELSE "done"]
      /\ UNCHANGED <<handshake, at, spurious>>
  BY DEF EndRun
<1>2. Locks' /\ MakersMake' /\ OneMaker' /\ Placed' /\ Signalled'
  <2>1. CASE runs' < MaxRuns
    BY <2>1, <1>1, RunningKeeps, MainAssumption DEF handshake
  <2>2. CASE ~(runs' < MaxRuns)
    BY <2>2, <1>1, RunningKeeps, MainAssumption DEF handshake
  <2> QED BY <2>1, <2>2
<1>3. runs < MaxRuns /\ runs \in Nat /\ runs' \in 0 .. MaxRuns
  BY <1>1, MainAssumption, BoundAssumption DEF LoopsGoOn, TypeOK
<1>4. TypeOK'
  <2>1. exit_code' \in [Thread -> Thread \cup {NoCode}]
    BY <1>1 DEF TypeOK
  <2> QED BY <2>1, <1>1, <1>3 DEF TypeOK, MonitorTypeOK, monitor, handshake
<1>5. LoopsGoOn'
  BY <1>1, <1>3, MainAssumption DEF LoopsGoOn, TypeOK
<1> QED BY <1>2, <1>4, <1>5
-----------------------------------------------------------------------------
(* Before anything runs there is one thread and nobody waits.              *)
LEMMA InitHolds == Init => ThreadInv
<1> SUFFICES ASSUME Init PROVE ThreadInv
  OBVIOUS
<1> USE DEF Init
<1>1. TypeOK
  BY MainAssumption, BoundAssumption DEF TypeOK, MonitorTypeOK, MonitorInit
<1>2. Locks
  BY DEF Locks, MonitorInit
<1>3. LoopsGoOn
  BY BoundAssumption DEF LoopsGoOn
<1>4. MakersMake /\ OneMaker /\ Placed /\ Signalled
  BY NoThreadAssumption DEF MakersMake, OneMaker, Placed, Signalled, Waiting
<1> QED BY <1>1, <1>2, <1>3, <1>4 DEF ThreadInv

(* Every step of every thread keeps the invariant.                         *)
LEMMA StepKeeps == ThreadInv /\ [Next]_vars => ThreadInv'
<1> SUFFICES ASSUME ThreadInv, [Next]_vars PROVE ThreadInv'
  OBVIOUS
<1>1. ASSUME NEW t \in Thread, NEW k \in Thread, New(t, k) PROVE ThreadInv'
  BY <1>1, NewKeeps
<1>2. ASSUME NEW t \in Thread, NewFails(t) PROVE ThreadInv'
  BY <1>2, NewFailsKeeps
<1>3. ASSUME NEW t \in Thread, SleepEnds(t) PROVE ThreadInv'
  BY <1>3, SleepEndsKeeps
<1>4. ASSUME NEW t \in Thread, Handshake(t) PROVE ThreadInv'
  BY <1>4, SleepThreadKeeps, AwakeKeeps, CreatedKeeps, StartKeeps, AnnounceKeeps, SignalKeeps
     DEF Handshake
<1>5. ASSUME NEW t \in Thread, End(t) \/ Exit(t) \/ Climb(t) \/ Poll(t) PROVE ThreadInv'
  BY <1>5, EndKeeps, ExitKeeps, ClimbKeeps, PollKeeps
<1>6. ASSUME NEW how \in {"run", "leaving"}, EndRun(how) PROVE ThreadInv'
  BY <1>6, EndRunKeeps
<1>7. CASE UNCHANGED vars
  <2>1. UNCHANGED <<monitor, making, ctx, child, parent, made, pc, exit_code, at, spurious, runs>>
    BY <1>7 DEF vars, handshake, codes
  <2>2. TypeOK' /\ Locks'
    BY <2>1 DEF ThreadInv, TypeOK, MonitorTypeOK, Locks, monitor
  <2>3. LoopsGoOn' /\ MakersMake' /\ OneMaker' /\ Placed' /\ Signalled'
    BY <2>1 DEF ThreadInv, LoopsGoOn, MakersMake, OneMaker, Placed, Signalled, monitor
  <2> QED BY <2>2, <2>3 DEF ThreadInv
<1> QED BY <1>1, <1>2, <1>3, <1>4, <1>5, <1>6, <1>7 DEF Next

(* thread.c:191, mutex.c -- the invariant above holds in every state, so   *)
(* the owner of every mutex is known and every loop over the ancestors of  *)
(* a thread is at a thread.                                                *)
THEOREM HandshakeInvariant == Spec => []ThreadInv
<1> QED BY InitHolds, StepKeeps, PTL DEF Spec

(* thread.c:232 -- a creator whose wait only a signal ends finds the new   *)
(* thread in the context and in the tree, however many threads make each   *)
(* other at the same time.                                                 *)
THEOREM ChildHandedOver == Spec => []HandedOver
<1>1. ASSUME ThreadInv PROVE HandedOver
  <2> SUFFICES ASSUME NEW t \in Thread, ~spurious, pc[t] = "awake"
               PROVE  child[making[t]] = making[t] /\ parent[making[t]] = t
    BY DEF HandedOver
  <2>1. making[t] \in Thread
    BY <1>1 DEF ThreadInv, MakersMake, Waiting
  <2>2. pc[making[t]] # "starting"
    BY <1>1 DEF ThreadInv, Signalled
  <2> QED BY <2>1, <2>2, <1>1 DEF ThreadInv, Placed
<1> QED BY <1>1, HandshakeInvariant, PTL
=============================================================================
