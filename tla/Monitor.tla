------------------------------ MODULE Monitor ------------------------------
(***************************************************************************)
(* The conditions of src/lib/mutex.c: each is a recursive mutex and a      *)
(* condition variable.  The module holds their state and the operations a  *)
(* thread performs on them; the modules that use conditions extend it and  *)
(* conjoin the operations to their own steps.                              *)
(*                                                                         *)
(* The POSIX build is modelled.  A condition_sleep of a thread that holds  *)
(* the mutex more than once gives back one level only, as POSIX describes  *)
(* for a recursive mutex.                                                  *)
(***************************************************************************)
EXTENDS Naturals

CONSTANTS
  Thread,      \* the threads
  NoThread,    \* "nobody", the owner of a free mutex
  Condition    \* the conditions

ASSUME NoThreadAssumption == NoThread \notin Thread

VARIABLES
  owner,       \* owner[c]: the thread that holds the mutex of condition c
  depth,       \* depth[c]: how many times it holds it
  sleepers     \* sleepers[c]: the threads that wait for a signal on c

monitor == <<owner, depth, sleepers>>

MonitorInit ==
  /\ owner = [c \in Condition |-> NoThread]
  /\ depth = [c \in Condition |-> 0]
  /\ sleepers = [c \in Condition |-> {}]

MonitorTypeOK ==
  /\ owner \in [Condition -> Thread \cup {NoThread}]
  /\ depth \in [Condition -> Nat]
  /\ sleepers \in [Condition -> SUBSET Thread]

(* The mutex of c is free, or t has it already and may take it again.      *)
CanLock(t, c) == owner[c] \in {NoThread, t}

Take(t, c) ==
  /\ owner' = [owner EXCEPT ![c] = t]
  /\ depth' = [depth EXCEPT ![c] = @ + 1]

GiveBack(c) ==
  /\ owner' = [owner EXCEPT ![c] = IF depth[c] = 1 THEN NoThread ELSE @]
  /\ depth' = [depth EXCEPT ![c] = @ - 1]

(* mutex_lock: blocks until the mutex can be locked.                       *)
condition_acquire(t, c) ==
  /\ CanLock(t, c)
  /\ Take(t, c)
  /\ UNCHANGED sleepers

(* mutex_unlock: an error that changes nothing for any but the owner.      *)
condition_release(t, c) ==
  /\ IF owner[c] = t THEN GiveBack(c) ELSE UNCHANGED <<owner, depth>>
  /\ UNCHANGED sleepers

(* One thread that waits is signalled, if there is any; then the mutex is  *)
(* unlocked.                                                               *)
condition_wakeup(t, c) ==
  /\ \/ sleepers[c] = {} /\ UNCHANGED sleepers
     \/ \E s \in sleepers[c] : sleepers' = [sleepers EXCEPT ![c] = @ \ {s}]
  /\ IF owner[c] = t THEN GiveBack(c) ELSE UNCHANGED <<owner, depth>>

(* The first half of condition_sleep: the caller gives the mutex back and  *)
(* waits.                                                                  *)
condition_sleep(t, c) ==
  /\ owner[c] = t
  /\ GiveBack(c)
  /\ sleepers' = [sleepers EXCEPT ![c] = @ \cup {t}]

(* Its second half: no longer waiting, the caller takes the mutex again.   *)
condition_awake(t, c) ==
  /\ t \notin sleepers[c]
  /\ condition_acquire(t, c)

(* pthread_cond_wait may end without a signal.                             *)
SpuriousWakeup(t, c) ==
  /\ t \in sleepers[c]
  /\ sleepers' = [sleepers EXCEPT ![c] = @ \ {t}]
  /\ UNCHANGED <<owner, depth>>
=============================================================================
