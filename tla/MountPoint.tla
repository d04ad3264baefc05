----------------------------- MODULE MountPoint -----------------------------
(***************************************************************************)
(* Remote calls through a mountpoint (src/ipc/remote.c, mountpoint.c): the *)
(* threads of a program share a pool of at most maxclients connections,    *)
(* guarded by a condition.  A call checks a client out, talks to the       *)
(* server and gives the client back.                                       *)
(***************************************************************************)
EXTENDS Monitor, Sequences, FiniteSets, SequencesExt

CONSTANTS
  Client,      \* the client objects that can be made
  NoClient,    \* NULL
  Limits,      \* the numbers of connections the URI may ask for
  MaxCalls,    \* bound: how many remote calls each thread makes
  MaxDepth     \* bound: no wakeup without a signal at this depth of the mutex

ASSUME LimitsAssumption == Limits \subseteq Nat
ASSUME BoundAssumption == MaxCalls \in Nat /\ MaxDepth \in Nat
ASSUME NoClientAssumption == NoClient \notin Client
ASSUME ThreadAssumption == IsFiniteSet(Thread)
ASSUME ConditionAssumption == Condition # {}

VARIABLES
  clients,     \* mp->clients, the connections nobody uses
  current,     \* mp->current
  maxclients,  \* mp->maxclients, set once
  pc,          \* pc[t]: where thread t is
  client,      \* client[t]: the client thread t has checked out
  calls        \* calls[t]: how many calls thread t has begun

pool == <<clients, current, maxclients>>
vars == <<monitor, clients, current, maxclients, pc, client, calls>>

(* mp->wait, the condition of this mountpoint.                             *)
Wait == CHOOSE c \in Condition : TRUE

Goto(t, from, to) == pc[t] = from /\ pc' = [pc EXCEPT ![t] = to]

Held == {client[t] : t \in Thread} \ {NoClient}
Holders == {t \in Thread : client[t] # NoClient}
Opened == ToSet(clients) \cup Held
-----------------------------------------------------------------------------
Init ==
  /\ MonitorInit
  /\ clients = <<>>
  /\ current = 0
  /\ maxclients \in Limits
  /\ pc = [t \in Thread |-> "script"]
  /\ client = [t \in Thread |-> NoClient]
  /\ calls = [t \in Thread |-> 0]

(* A script calls a remote function.                                       *)
RemoteCall(t) ==
  /\ calls[t] < MaxCalls
  /\ Goto(t, "script", "acquire")
  /\ calls' = [calls EXCEPT ![t] = @ + 1]
  /\ UNCHANGED <<monitor, pool, client>>

(* The head of the checkout loop.                                          *)
Acquire(t) ==
  /\ Goto(t, "acquire", "choose")
  /\ condition_acquire(t, Wait)
  /\ UNCHANGED <<pool, client, calls>>

\* Wrong: the client would be read, not taken.
ShiftWithoutRemoval(t) ==
  /\ clients # <<>>
  /\ Goto(t, "choose", "release")
  /\ client' = [client EXCEPT ![t] = Head(clients)]
  /\ UNCHANGED <<monitor, pool, calls>>

(* There is an idle client.                                                *)
Shift(t) ==
  /\ clients # <<>>
  /\ Goto(t, "choose", "release")
  /\ client' = [client EXCEPT ![t] = Head(clients)]
  /\ clients' = Tail(clients)
  /\ UNCHANGED <<monitor, current, maxclients, calls>>

\* Wrong: one client too many.
OpenOneMore(t) ==
  /\ clients = <<>>
  /\ current <= maxclients
  /\ Goto(t, "choose", "release")
  /\ \E c \in Client \ Opened : client' = [client EXCEPT ![t] = c]
  /\ current' = current + 1
  /\ UNCHANGED <<monitor, clients, maxclients, calls>>

(* There is none, but there may be one more: client_create connects to the *)
(* server while the mutex is held.                                         *)
Open(t) ==
  /\ clients = <<>>
  /\ current < maxclients
  /\ Goto(t, "choose", "release")
  /\ \E c \in Client \ Opened : client' = [client EXCEPT ![t] = c]
  /\ current' = current + 1
  /\ UNCHANGED <<monitor, clients, maxclients, calls>>

\* Wrong: a connection that failed would keep its place.
OpenFailsCounted(t) ==
  /\ clients = <<>>
  /\ current < maxclients
  /\ Goto(t, "choose", "release")
  /\ current' = current + 1
  /\ UNCHANGED <<monitor, clients, maxclients, client, calls>>

(* The connection or its handshake fails: the caller gets the exception.   *)
OpenFails(t) ==
  /\ clients = <<>>
  /\ current < maxclients
  /\ Goto(t, "choose", "release")
  /\ UNCHANGED <<monitor, pool, client, calls>>

(* All are in use.                                                         *)
Sleep(t) ==
  /\ clients = <<>>
  /\ current >= maxclients
  /\ Goto(t, "choose", "asleep")
  /\ condition_sleep(t, Wait)
  /\ UNCHANGED <<pool, client, calls>>

(* The sleeper has the mutex again and goes round the loop.                *)
Awake(t) ==
  /\ Goto(t, "asleep", "acquire")
  /\ condition_awake(t, Wait)
  /\ UNCHANGED <<pool, client, calls>>

(* Every wakeup leaves the sleeper one level deeper in the mutex.          *)
Spurious(t) ==
  /\ depth[Wait] < MaxDepth
  /\ SpuriousWakeup(t, Wait)
  /\ UNCHANGED <<pool, pc, client, calls>>

(* mountpoint_checkout_client ends; with an exception so does the call.    *)
Release(t) ==
  /\ Goto(t, "release", IF client[t] = NoClient THEN "script" ELSE "run")
  /\ condition_release(t, Wait)
  /\ UNCHANGED <<pool, client, calls>>

(* client_run: the exchange with the server, which ends in an answer, a    *)
(* remote error or a failed connection.  The client is kept whichever.     *)
Run(t) ==
  /\ Goto(t, "run", "return")
  /\ UNCHANGED <<monitor, pool, client, calls>>

\* Wrong: the client would be given back without the mutex.
ReturnUnlocked(t) ==
  /\ Goto(t, "return", "append")
  /\ UNCHANGED <<monitor, pool, client, calls>>

(* mountpoint_return_client.                                               *)
Return(t) ==
  /\ Goto(t, "return", "append")
  /\ condition_acquire(t, Wait)
  /\ UNCHANGED <<pool, client, calls>>

\* Wrong: nothing would be left in the client when it is appended.
AppendNothing(t) ==
  /\ Goto(t, "append", "script")
  /\ client' = [client EXCEPT ![t] = NoClient]
  /\ clients' = Append(clients, client'[t])
  /\ condition_wakeup(t, Wait)
  /\ UNCHANGED <<current, maxclients, calls>>

\* Wrong: a signal alone would leave the mutex locked.
AppendWithoutRelease(t) ==
  /\ Goto(t, "append", "script")
  /\ clients' = Append(clients, client[t])
  /\ client' = [client EXCEPT ![t] = NoClient]
  /\ UNCHANGED <<monitor, current, maxclients, calls>>

AppendClient(t) ==
  /\ Goto(t, "append", "script")
  /\ clients' = Append(clients, client[t])
  /\ client' = [client EXCEPT ![t] = NoClient]
  /\ condition_wakeup(t, Wait)
  /\ UNCHANGED <<current, maxclients, calls>>

Step(t) ==
  \/ Acquire(t) \/ Shift(t) \/ Open(t) \/ OpenFails(t) \/ Sleep(t) \/ Awake(t)
  \/ Release(t) \/ Run(t) \/ Return(t) \/ AppendClient(t)

Next == \E t \in Thread : RemoteCall(t) \/ Spurious(t) \/ Step(t)

Spec == Init /\ [][Next]_vars

(* A thread that can take a step does; a server answers, or the connection *)
(* to it breaks.  Nothing is assumed of the order in which a mutex is      *)
(* handed to the threads that wait for it.                                 *)
FairSpec == Spec /\ \A t \in Thread : WF_vars(Step(t))
-----------------------------------------------------------------------------
TypeOK ==
  /\ MonitorTypeOK
  /\ clients \in Seq(Client)
  /\ maxclients \in Limits
  /\ current \in 0 .. maxclients
  /\ pc \in [Thread -> {"script", "acquire", "choose", "asleep", "release",
                        "run", "return", "append"}]
  /\ client \in [Thread -> Client \cup {NoClient}]
  /\ calls \in [Thread -> 0 .. MaxCalls]

(* mountpoint.c:127, :148 -- no client is lost and none is shared: every   *)
(* client that was counted is idle or checked out by exactly one thread.   *)
PoolAccount ==
  /\ current = Cardinality(Opened)
  /\ current = Len(clients) + Cardinality(Holders)

(* mountpoint.c:131, :149 -- only the thread that holds the mutex of the   *)
(* pool changes the list and the count, however the threads interleave.    *)
PoolGuarded ==
  [][pool' # pool => /\ owner[Wait] # NoThread
                     /\ pc'[owner[Wait]] # pc[owner[Wait]]]_vars

(* With a connection for every thread nobody has to wait for a client.     *)
Enough == maxclients >= Cardinality(Thread)

(* remote.c:90 -- if there are enough, every remote call comes to an end,  *)
(* however many connections fail.                                          *)
EveryCallReturns ==
  \A t \in Thread : Enough /\ pc[t] # "script" ~> pc[t] = "script"

(* What the mountpoint promises: a thread asks from the call on until it   *)
(* has a client or an exception, and uses the client until it is appended  *)
(* to the list.                                                            *)
Promise == INSTANCE Pool WITH
  opened <- Opened,
  asking <- {t \in Thread : pc[t] \in {"acquire", "choose", "asleep"}},
  using <- client,
  limit <- maxclients

(* mountpoint.c -- the shared list, the count and the condition together   *)
(* implement the pool.                                                     *)
KeepsPromise == Promise!Spec
=============================================================================
