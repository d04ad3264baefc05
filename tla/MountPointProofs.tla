-------------------------- MODULE MountPointProofs --------------------------
(***************************************************************************)
(* The pool of a mountpoint never loses and never shares a client, and     *)
(* implements its promise, for any number of threads and clients.          *)
(*                                                                         *)
(* The argument: whoever is between acquire and release owns the mutex, so *)
(* that the list, the count and the clients in hand change together; idle  *)
(* clients and clients in hand are apart, so that moving one between the   *)
(* two changes no set of clients.                                          *)
(***************************************************************************)
EXTENDS MountPoint, FiniteSetTheorems, SequenceTheorems, TLAPS

Guarded == {"choose", "release", "append"}
Outside == {"script", "acquire", "choose", "asleep"}
Using == {"run", "return", "append"}

(* The owner of the mutex is the one that is inside.                       *)
Locked ==
  /\ \A t \in Thread : pc[t] \in Guarded => owner[Wait] = t
  /\ depth[Wait] = 0 <=> owner[Wait] = NoThread

(* A thread has a client when, and only when, it should.                   *)
InHand ==
  \A t \in Thread :
    /\ pc[t] \in Using => client[t] # NoClient
    /\ pc[t] \in Outside => client[t] = NoClient

(* No client is in two places.                                             *)
Apart ==
  /\ \A i, j \in 1 .. Len(clients) : clients[i] = clients[j] => i = j
  /\ \A t, u \in Thread : client[t] = client[u] /\ client[t] # NoClient => t = u
  /\ \A t \in Thread, i \in 1 .. Len(clients) : clients[i] # client[t]

Counted == IsFiniteSet(Opened) /\ PoolAccount

PoolInv == TypeOK /\ Locked /\ InHand /\ Apart /\ Counted
-----------------------------------------------------------------------------
(* The elements of a sequence, before and after taking its head.           *)
LEMMA TailSet ==
  ASSUME NEW S, NEW s \in Seq(S), s # <<>>
  PROVE  ToSet(s) = {Head(s)} \cup ToSet(Tail(s))
<1>1. Len(s) \in Nat \ {0} /\ DOMAIN s = 1 .. Len(s) /\ Head(s) = s[1]
  BY EmptySeq, LenProperties
<1>2. /\ Tail(s) \in Seq(S) /\ Len(Tail(s)) = Len(s) - 1
      /\ \A i \in 1 .. Len(Tail(s)) : Tail(s)[i] = s[i + 1]
  BY HeadTailProperties
<1>3. DOMAIN Tail(s) = 1 .. Len(s) - 1
  BY <1>2, LenProperties
<1>4. \A i \in 1 .. Len(s) : i = 1 \/ (i - 1 \in 1 .. Len(s) - 1 /\ s[i] = Tail(s)[i - 1])
  BY <1>1, <1>2
<1>5. \A i \in 1 .. Len(s) - 1 : i + 1 \in 1 .. Len(s) /\ s[i + 1] = Tail(s)[i]
  BY <1>1, <1>2
<1>6. ASSUME NEW e \in ToSet(s) PROVE e \in {Head(s)} \cup ToSet(Tail(s))
  BY <1>1, <1>3, <1>4 DEF ToSet
<1>7. ASSUME NEW e \in {Head(s)} \cup ToSet(Tail(s)) PROVE e \in ToSet(s)
  BY <1>1, <1>3, <1>5 DEF ToSet
<1> QED BY <1>6, <1>7

(* The elements of a sequence after appending one.                         *)
LEMMA AppendSet ==
  ASSUME NEW S, NEW s \in Seq(S), NEW e \in S
  PROVE  ToSet(Append(s, e)) = ToSet(s) \cup {e}
<1>1. /\ Append(s, e) \in Seq(S) /\ Len(Append(s, e)) = Len(s) + 1
      /\ \A i \in 1 .. Len(s) : Append(s, e)[i] = s[i]
      /\ Append(s, e)[Len(s) + 1] = e
  BY AppendProperties
<1>2. /\ DOMAIN s = 1 .. Len(s) /\ Len(s) \in Nat
      /\ DOMAIN Append(s, e) = 1 .. Len(s) + 1
  BY <1>1, LenProperties
<1>3. \A i \in 1 .. Len(s) + 1 : i \in 1 .. Len(s) \/ i = Len(s) + 1
  BY <1>2
<1>4. 1 .. Len(s) \subseteq 1 .. Len(s) + 1 /\ Len(s) + 1 \in 1 .. Len(s) + 1
  BY <1>2
<1>5. ASSUME NEW x \in ToSet(Append(s, e)) PROVE x \in ToSet(s) \cup {e}
  BY <1>1, <1>2, <1>3 DEF ToSet
<1>6. ASSUME NEW x \in ToSet(s) \cup {e} PROVE x \in ToSet(Append(s, e))
  BY <1>1, <1>2, <1>4 DEF ToSet
<1> QED BY <1>5, <1>6

(* The condition of the pool is one of the conditions.                     *)
LEMMA WaitType == Wait \in Condition
  BY ConditionAssumption DEF Wait
-----------------------------------------------------------------------------
(* What the operations on the condition do to the mutex of the pool.       *)
LEMMA AcquireMonitor ==
  ASSUME MonitorTypeOK, NEW t \in Thread, condition_acquire(t, Wait)
  PROVE  /\ MonitorTypeOK'
         /\ owner[Wait] \in {NoThread, t}
         /\ owner'[Wait] = t
         /\ depth'[Wait] # 0
  BY WaitType DEF condition_acquire, CanLock, Take, MonitorTypeOK

(* Giving back one level of the mutex; it is free with the last of them.   *)
LEMMA GiveBackMonitor ==
  ASSUME MonitorTypeOK, NEW t \in Thread, owner[Wait] = t, Locked,
         GiveBack(Wait), sleepers' \in [Condition -> SUBSET Thread]
  PROVE  /\ MonitorTypeOK'
         /\ depth'[Wait] = 0 <=> owner'[Wait] = NoThread
<1>1. depth[Wait] \in Nat \ {0} /\ owner[Wait] # NoThread
  BY WaitType, NoThreadAssumption DEF MonitorTypeOK, Locked
<1>a. depth' = [depth EXCEPT ![Wait] = depth[Wait] - 1] /\ depth \in [Condition -> Nat]
  BY DEF GiveBack, MonitorTypeOK
<1>b. depth[Wait] - 1 \in Nat
  BY <1>1
<1>2. depth' \in [Condition -> Nat]
  BY <1>a, <1>b
<1>3. owner' \in [Condition -> Thread \cup {NoThread}]
  BY WaitType DEF GiveBack, MonitorTypeOK
<1>4. depth'[Wait] = depth[Wait] - 1
  BY <1>a, WaitType
<1>5. owner'[Wait] = IF depth[Wait] = 1 THEN NoThread ELSE owner[Wait]
  BY WaitType DEF GiveBack, MonitorTypeOK
<1>6. depth'[Wait] = 0 <=> owner'[Wait] = NoThread
  BY <1>1, <1>4, <1>5
<1> QED BY <1>2, <1>3, <1>6 DEF MonitorTypeOK

(* The same of the operations that do so: a signal, ...                    *)
LEMMA WakeupMonitor ==
  ASSUME MonitorTypeOK, NEW t \in Thread, owner[Wait] = t, Locked, condition_wakeup(t, Wait)
  PROVE  /\ MonitorTypeOK'
         /\ depth'[Wait] = 0 <=> owner'[Wait] = NoThread
<1>1. GiveBack(Wait)
  BY DEF condition_wakeup
<1>2. sleepers' \in [Condition -> SUBSET Thread]
  BY WaitType DEF condition_wakeup, MonitorTypeOK
<1> QED BY <1>1, <1>2, GiveBackMonitor

(* ... an unlock ...                                                       *)
LEMMA ReleaseMonitor ==
  ASSUME MonitorTypeOK, NEW t \in Thread, owner[Wait] = t, Locked, condition_release(t, Wait)
  PROVE  /\ MonitorTypeOK'
         /\ depth'[Wait] = 0 <=> owner'[Wait] = NoThread
<1>1. GiveBack(Wait) /\ sleepers' \in [Condition -> SUBSET Thread]
  BY DEF condition_release, MonitorTypeOK
<1> QED BY <1>1, GiveBackMonitor

(* ... and a wait.                                                         *)
LEMMA SleepMonitor ==
  ASSUME MonitorTypeOK, NEW t \in Thread, Locked, condition_sleep(t, Wait)
  PROVE  /\ MonitorTypeOK'
         /\ depth'[Wait] = 0 <=> owner'[Wait] = NoThread
<1>1. owner[Wait] = t /\ GiveBack(Wait)
  BY DEF condition_sleep
<1>2. sleepers' \in [Condition -> SUBSET Thread]
  BY WaitType DEF condition_sleep, MonitorTypeOK
<1> QED BY <1>1, <1>2, GiveBackMonitor

(* A wait that ends without a signal leaves the mutex alone.               *)
LEMMA SpuriousMonitor ==
  ASSUME MonitorTypeOK, NEW t \in Thread, SpuriousWakeup(t, Wait)
  PROVE  MonitorTypeOK' /\ UNCHANGED <<owner, depth>>
  BY WaitType DEF SpuriousWakeup, MonitorTypeOK

(* A thread inside works alone.                                            *)
LEMMA Alone ==
  ASSUME Locked, NEW t \in Thread, owner[Wait] \in {NoThread, t}
  PROVE  \A u \in Thread \ {t} : pc[u] \notin Guarded
  BY NoThreadAssumption DEF Locked

(* The mutex and the control of the threads, whatever the step.            *)
LEMMA LockedStep ==
  ASSUME TypeOK, Locked, NEW t \in Thread, Step(t)
  PROVE  MonitorTypeOK' /\ Locked'
<1> USE DEF Goto
<1>m. MonitorTypeOK
  BY DEF TypeOK
<1>p. pc \in [Thread -> {"script", "acquire", "choose", "asleep", "release",
                         "run", "return", "append"}]
  BY DEF TypeOK
<1>1. ASSUME condition_acquire(t, Wait),
             pc' = [pc EXCEPT ![t] = "choose"] \/ pc' = [pc EXCEPT ![t] = "append"]
                \/ pc' = [pc EXCEPT ![t] = "acquire"]
      PROVE  MonitorTypeOK' /\ Locked'
  <2>1. /\ MonitorTypeOK' /\ owner[Wait] \in {NoThread, t}
        /\ owner'[Wait] = t /\ depth'[Wait] # 0
    BY <1>m, <1>1, AcquireMonitor
  <2>2. \A u \in Thread \ {t} : pc'[u] \notin Guarded
    BY <1>1, <1>p, <2>1, Alone
  <2> QED BY <2>1, <2>2, NoThreadAssumption DEF Locked
<1>2. ASSUME owner[Wait] = t, MonitorTypeOK',
             depth'[Wait] = 0 <=> owner'[Wait] = NoThread,
             NEW to \in {"script", "run", "asleep"}, pc' = [pc EXCEPT ![t] = to]
      PROVE  MonitorTypeOK' /\ Locked'
  <2>1. \A u \in Thread \ {t} : pc[u] \notin Guarded
    BY <1>2, Alone
  <2>2. \A u \in Thread : pc'[u] \notin Guarded
    BY <1>2, <1>p, <2>1 DEF Guarded
  <2> QED BY <1>2, <2>2 DEF Locked
<1>3. ASSUME UNCHANGED monitor, pc[t] \in Guarded \/ pc'[t] \notin Guarded,
             NEW to, pc' = [pc EXCEPT ![t] = to]
      PROVE  MonitorTypeOK' /\ Locked'
  BY <1>3, <1>m, <1>p DEF monitor, MonitorTypeOK, Locked
<1>4. CASE Acquire(t) \/ Return(t) \/ Awake(t)
  BY <1>1, <1>4 DEF Acquire, Return, Awake, condition_awake
<1>5. CASE Shift(t) \/ Open(t) \/ OpenFails(t)
  <2>1. UNCHANGED monitor /\ pc[t] \in Guarded /\ pc' = [pc EXCEPT ![t] = "release"]
    BY <1>5 DEF Shift, Open, OpenFails, Guarded
  <2> QED BY <2>1, <1>3
<1>6. CASE Run(t)
  <2>1. UNCHANGED monitor /\ pc'[t] \notin Guarded /\ pc' = [pc EXCEPT ![t] = "return"]
    BY <1>6, <1>p DEF Run, Guarded
  <2> QED BY <2>1, <1>3
<1>7. CASE Sleep(t)
  BY <1>7, <1>2, <1>m, SleepMonitor DEF Sleep, condition_sleep
<1>8. CASE Release(t)
  <2>1. owner[Wait] = t
    BY <1>8 DEF Release, Locked, Guarded
  <2> QED BY <2>1, <1>8, <1>2, <1>m, ReleaseMonitor DEF Release
<1>9. CASE AppendClient(t)
  <2>1. owner[Wait] = t
    BY <1>9 DEF AppendClient, Locked, Guarded
  <2> QED BY <2>1, <1>9, <1>2, <1>m, WakeupMonitor DEF AppendClient
<1> QED BY <1>4, <1>5, <1>6, <1>7, <1>8, <1>9 DEF Step

(* The clients in hand when a thread gets one, and when it gives it back.  *)
LEMMA HeldGrows ==
  ASSUME client \in [Thread -> Client \cup {NoClient}], NEW t \in Thread, NEW c,
         client[t] = NoClient, c # NoClient, client' = [client EXCEPT ![t] = c]
  PROVE  Held' = Held \cup {c}
<1>1. client'[t] = c /\ \A u \in Thread \ {t} : client'[u] = client[u]
  OBVIOUS
<1>2. ASSUME NEW e \in Held' PROVE e \in Held \cup {c}
  <2>1. PICK u \in Thread : e = client'[u] /\ e # NoClient
    BY <1>2 DEF Held
  <2> QED BY <2>1, <1>1 DEF Held
<1>3. ASSUME NEW e \in Held PROVE e \in Held'
  <2>1. PICK u \in Thread : e = client[u] /\ e # NoClient
    BY <1>3 DEF Held
  <2>2. u # t /\ client'[u] = e
    BY <2>1, <1>1
  <2> QED BY <2>1, <2>2 DEF Held
<1>4. c \in Held'
  BY <1>1 DEF Held
<1> QED BY <1>2, <1>3, <1>4

(* The other way round: a thread gives its client back.                    *)
LEMMA HeldShrinks ==
  ASSUME client \in [Thread -> Client \cup {NoClient}], NEW t \in Thread,
         client[t] # NoClient, client' = [client EXCEPT ![t] = NoClient],
         \A u \in Thread \ {t} : client[u] # client[t]
  PROVE  Held = Held' \cup {client[t]}
<1>1. client'[t] = NoClient /\ \A u \in Thread \ {t} : client'[u] = client[u]
  OBVIOUS
<1>2. ASSUME NEW e \in Held' PROVE e \in Held
  <2>1. PICK u \in Thread : e = client'[u] /\ e # NoClient
    BY <1>2 DEF Held
  <2> QED BY <2>1, <1>1 DEF Held
<1>3. ASSUME NEW e \in Held, e # client[t] PROVE e \in Held'
  <2>1. PICK u \in Thread : e = client[u] /\ e # NoClient
    BY <1>3 DEF Held
  <2>2. u # t /\ client'[u] = e
    BY <2>1, <1>1, <1>3
  <2> QED BY <2>1, <2>2 DEF Held
<1>4. client[t] \in Held
  BY DEF Held
<1> QED BY <1>2, <1>3, <1>4

(* A step that moves no client.                                            *)
LEMMA QuietStep ==
  ASSUME Apart, Counted, UNCHANGED <<clients, current, client>>
  PROVE  Apart' /\ Counted'
<1>1. UNCHANGED <<Held, Holders, Opened>>
  BY DEF Held, Holders, Opened
<1> QED BY <1>1 DEF Apart, Counted, PoolAccount

(* An idle client is checked out.                                          *)
LEMMA ShiftStep ==
  ASSUME PoolInv, NEW t \in Thread, Shift(t)
  PROVE  /\ clients' \in Seq(Client)
         /\ client' \in [Thread -> Client \cup {NoClient}]
         /\ Apart' /\ Counted' /\ Head(clients) \in Client /\ Head(clients) \notin Held
<1>0. /\ clients \in Seq(Client) /\ client \in [Thread -> Client \cup {NoClient}]
      /\ clients # <<>> /\ client[t] = NoClient /\ clients' = Tail(clients)
      /\ client' = [client EXCEPT ![t] = Head(clients)] /\ current' = current
  BY DEF PoolInv, TypeOK, InHand, Outside, Shift, Goto, pool
<1>1. /\ Head(clients) \in Client /\ Head(clients) = clients[1]
      /\ Tail(clients) \in Seq(Client) /\ Len(clients') = Len(clients) - 1
      /\ \A i \in 1 .. Len(clients') : clients'[i] = clients[i + 1]
      /\ Len(clients) \in Nat \ {0}
  BY <1>0, HeadTailProperties, EmptySeq
<1>2. Head(clients) # NoClient
  BY <1>1, NoClientAssumption
<1>3. /\ \A u \in Thread : client[u] # Head(clients)
      /\ \A i \in 1 .. Len(clients) - 1 : clients[i + 1] # Head(clients)
  BY <1>1 DEF PoolInv, Apart
<1>4. Apart'
  <2>1. \A i, j \in 1 .. Len(clients') : clients'[i] = clients'[j] => i = j
    BY <1>1 DEF PoolInv, Apart
  <2>2. \A u, v \in Thread : client'[u] = client'[v] /\ client'[u] # NoClient => u = v
    BY <1>0, <1>2, <1>3 DEF PoolInv, Apart
  <2>3. \A u \in Thread, i \in 1 .. Len(clients') : clients'[i] # client'[u]
    BY <1>0, <1>1, <1>3 DEF PoolInv, Apart
  <2> QED BY <2>1, <2>2, <2>3 DEF Apart
<1>5. Held' = Held \cup {Head(clients)}
  BY <1>0, <1>2, HeldGrows
<1>6. Opened' = Opened
  BY <1>0, <1>5, TailSet DEF Opened
<1>7. Holders' = Holders \cup {t} /\ t \notin Holders
  BY <1>0, <1>2 DEF Holders
<1>8. IsFiniteSet(Holders)
  BY ThreadAssumption, FS_Subset DEF Holders
<1>9. Cardinality(Holders') = Cardinality(Holders) + 1 /\ Cardinality(Holders) \in Nat
  BY <1>7, <1>8, FS_AddElement, FS_CardinalityType
<1>10. Counted'
  <2>1. /\ current \in Nat /\ Len(clients) \in Nat
        /\ IsFiniteSet(Opened) /\ current = Cardinality(Opened)
        /\ current = Len(clients) + Cardinality(Holders)
    BY LenProperties DEF PoolInv, TypeOK, Counted, PoolAccount
  <2>2. IsFiniteSet(Opened') /\ Cardinality(Opened') = Cardinality(Opened)
    BY <2>1, <1>6
  <2>3. current' = Cardinality(Opened')
    BY <2>1, <2>2, <1>0
  <2>4. current' = Len(clients') + Cardinality(Holders')
    BY <2>1, <1>0, <1>1, <1>9
  <2> QED BY <2>2, <2>3, <2>4 DEF Counted, PoolAccount
<1>11. client' \in [Thread -> Client \cup {NoClient}]
  BY <1>0, <1>1
<1> QED BY <1>0, <1>1, <1>3, <1>4, <1>10, <1>11 DEF Held

(* A new client is made for the caller.                                    *)
LEMMA OpenStep ==
  ASSUME PoolInv, NEW t \in Thread, Open(t)
  PROVE  /\ clients' \in Seq(Client) /\ current' \in 0 .. maxclients
         /\ client' \in [Thread -> Client \cup {NoClient}]
         /\ Apart' /\ Counted'
         /\ \E c \in Client \ Held : /\ client' = [client EXCEPT ![t] = c]
                                    /\ Opened' = Opened \cup {c}
<1>0. /\ clients \in Seq(Client) /\ client \in [Thread -> Client \cup {NoClient}]
      /\ clients = <<>> /\ client[t] = NoClient /\ clients' = clients
      /\ current' = current + 1 /\ current < maxclients
      /\ current \in Nat /\ maxclients \in Nat
  BY LimitsAssumption DEF PoolInv, TypeOK, InHand, Outside, Open, Goto
<1>1. PICK c \in Client \ Opened : client' = [client EXCEPT ![t] = c]
  BY DEF Open
<1>2. c # NoClient /\ c \notin Opened /\ c \notin Held
  BY <1>1, NoClientAssumption DEF Opened
<1>3. Len(clients) = 0 /\ ToSet(clients) = {}
  BY <1>0, EmptySeq, LenProperties DEF ToSet
<1>4. Apart'
  <2>1. \A u \in Thread : client[u] # c
    BY <1>2 DEF Held
  <2>2. \A u, v \in Thread : client'[u] = client'[v] /\ client'[u] # NoClient => u = v
    BY <1>0, <1>1, <2>1 DEF PoolInv, Apart
  <2>3. Len(clients') = 0
    BY <1>0, <1>3
  <2> QED BY <2>2, <2>3 DEF Apart
<1>5. Held' = Held \cup {c}
  BY <1>0, <1>1, <1>2, HeldGrows
<1>6. Opened' = Opened \cup {c}
  BY <1>0, <1>5 DEF Opened
<1>7. Holders' = Holders \cup {t} /\ t \notin Holders
  BY <1>0, <1>1, <1>2 DEF Holders
<1>8. IsFiniteSet(Holders)
  BY ThreadAssumption, FS_Subset DEF Holders
<1>9. Cardinality(Holders') = Cardinality(Holders) + 1 /\ Cardinality(Holders) \in Nat
  BY <1>7, <1>8, FS_AddElement, FS_CardinalityType
<1>10. IsFiniteSet(Opened') /\ Cardinality(Opened') = Cardinality(Opened) + 1
  BY <1>2, <1>6, FS_AddElement DEF PoolInv, Counted
<1>11. Counted'
  <2>1. /\ current \in Nat /\ Len(clients) \in Nat
        /\ IsFiniteSet(Opened) /\ current = Cardinality(Opened)
        /\ current = Len(clients) + Cardinality(Holders)
    BY LenProperties DEF PoolInv, TypeOK, Counted, PoolAccount
  <2>2. IsFiniteSet(Opened') /\ Cardinality(Opened') = Cardinality(Opened) + 1
    BY <2>1, <1>10
  <2>3. current' = Cardinality(Opened')
    BY <2>1, <2>2, <1>0
  <2>4. current' = Len(clients') + Cardinality(Holders')
    BY <2>1, <1>0, <1>3, <1>9
  <2> QED BY <2>2, <2>3, <2>4 DEF Counted, PoolAccount
<1>12. current' \in 0 .. maxclients
  BY <1>0
<1> QED BY <1>0, <1>1, <1>2, <1>4, <1>6, <1>11, <1>12

(* A client is given back.                                                 *)
LEMMA AppendStep ==
  ASSUME PoolInv, NEW t \in Thread, AppendClient(t)
  PROVE  /\ clients' \in Seq(Client)
         /\ client' \in [Thread -> Client \cup {NoClient}]
         /\ Apart' /\ Counted' /\ Opened' = Opened /\ client[t] # NoClient
<1>0. /\ clients \in Seq(Client) /\ client \in [Thread -> Client \cup {NoClient}]
      /\ client[t] # NoClient /\ clients' = Append(clients, client[t])
      /\ client' = [client EXCEPT ![t] = NoClient] /\ current' = current
  BY DEF PoolInv, TypeOK, InHand, Using, AppendClient, Goto
<1>1. /\ client[t] \in Client /\ Len(clients) \in Nat
      /\ clients' \in Seq(Client) /\ Len(clients') = Len(clients) + 1
      /\ \A i \in 1 .. Len(clients) : clients'[i] = clients[i]
      /\ clients'[Len(clients) + 1] = client[t]
  BY <1>0, AppendProperties, LenProperties
<1>2. /\ \A u \in Thread \ {t} : client[u] # client[t]
      /\ \A i \in 1 .. Len(clients) : clients[i] # client[t]
  BY <1>0 DEF PoolInv, Apart
<1>3. \A i \in 1 .. Len(clients') : i \in 1 .. Len(clients) \/ i = Len(clients) + 1
  BY <1>1
<1>4. Apart'
  <2>1. \A i, j \in 1 .. Len(clients') : clients'[i] = clients'[j] => i = j
    BY <1>1, <1>2, <1>3 DEF PoolInv, Apart
  <2>2. \A u, v \in Thread : client'[u] = client'[v] /\ client'[u] # NoClient => u = v
    BY <1>0 DEF PoolInv, Apart
  <2>3. \A i \in 1 .. Len(clients) : clients[i] # NoClient
    BY <1>0, NoClientAssumption, ElementOfSeq
  <2>4. \A u \in Thread, i \in 1 .. Len(clients') : clients'[i] # client'[u]
    BY <1>0, <1>1, <1>2, <1>3, <2>3 DEF PoolInv, Apart
  <2> QED BY <2>1, <2>2, <2>4 DEF Apart
<1>5. Held = Held' \cup {client[t]}
  BY <1>0, <1>2, HeldShrinks
<1>6. ToSet(clients') = ToSet(clients) \cup {client[t]}
  BY <1>0, <1>1, AppendSet
<1>7. Opened' = Opened
  BY <1>5, <1>6 DEF Opened
<1>8. Holders' = Holders \ {t} /\ t \in Holders
  BY <1>0 DEF Holders
<1>9. IsFiniteSet(Holders)
  BY ThreadAssumption, FS_Subset DEF Holders
<1>10. Cardinality(Holders') = Cardinality(Holders) - 1 /\ Cardinality(Holders) \in Nat
  BY <1>8, <1>9, FS_RemoveElement, FS_CardinalityType
<1>11. Counted'
  <2>1. /\ current \in Nat /\ Len(clients) \in Nat
        /\ IsFiniteSet(Opened) /\ current = Cardinality(Opened)
        /\ current = Len(clients) + Cardinality(Holders)
    BY LenProperties DEF PoolInv, TypeOK, Counted, PoolAccount
  <2>2. IsFiniteSet(Opened') /\ Cardinality(Opened') = Cardinality(Opened)
    BY <2>1, <1>7
  <2>3. current' = Cardinality(Opened')
    BY <2>1, <2>2, <1>0
  <2>4. current' = Len(clients') + Cardinality(Holders')
    BY <2>1, <1>0, <1>1, <1>10
  <2> QED BY <2>2, <2>3, <2>4 DEF Counted, PoolAccount
<1>12. client' \in [Thread -> Client \cup {NoClient}]
  BY <1>0
<1> QED BY <1>0, <1>1, <1>4, <1>7, <1>11, <1>12
-----------------------------------------------------------------------------
(* The invariant holds at first, ...                                       *)
LEMMA PoolInitially == Init => PoolInv
<1> SUFFICES ASSUME Init PROVE PoolInv
  OBVIOUS
<1> USE DEF Init, MonitorInit
<1>1. TypeOK
  BY LimitsAssumption, BoundAssumption DEF TypeOK, MonitorTypeOK
<1>2. Locked
  BY WaitType DEF Locked, Guarded
<1>3. InHand
  BY DEF InHand, Using
<1>4. Apart
  BY DEF Apart
<1>5. ToSet(clients) = {} /\ Held = {} /\ Holders = {}
  BY DEF ToSet, Held, Holders
<1>6. Opened = {} /\ Len(clients) = 0
  BY <1>5 DEF Opened
<1>7. Counted
  BY <1>5, <1>6, FS_EmptySet DEF Counted, PoolAccount
<1> QED BY <1>1, <1>2, <1>3, <1>4, <1>7 DEF PoolInv

(* Who has a client after the step of t.                                   *)
LEMMA InHandStep ==
  ASSUME PoolInv, NEW t \in Thread, Step(t)
  PROVE  InHand'
<1> USE DEF Goto
<1>0. /\ pc \in [Thread -> {"script", "acquire", "choose", "asleep", "release",
                            "run", "return", "append"}]
      /\ client \in [Thread -> Client \cup {NoClient}] /\ InHand
  BY DEF PoolInv, TypeOK
<1>1. ASSUME UNCHANGED client,
             pc'[t] \in Using => client[t] # NoClient,
             pc'[t] \in Outside => client[t] = NoClient,
             NEW to, pc' = [pc EXCEPT ![t] = to]
      PROVE  InHand'
  BY <1>0, <1>1 DEF InHand
<1>2. CASE Acquire(t) \/ OpenFails(t) \/ Sleep(t) \/ Awake(t)
  <2>1. client[t] = NoClient /\ UNCHANGED client
    BY <1>0, <1>2 DEF InHand, Outside, Acquire, OpenFails, Sleep, Awake
  <2>2. pc'[t] \notin Using
    BY <1>0, <1>2 DEF Using, Acquire, OpenFails, Sleep, Awake
  <2> QED BY <1>1, <1>2, <2>1, <2>2 DEF Acquire, OpenFails, Sleep, Awake
<1>3. CASE Run(t) \/ Return(t)
  <2>1. client[t] # NoClient /\ UNCHANGED client
    BY <1>0, <1>3 DEF InHand, Using, Run, Return
  <2>2. pc'[t] \notin Outside
    BY <1>0, <1>3 DEF Outside, Run, Return
  <2> QED BY <1>1, <1>3, <2>1, <2>2 DEF Run, Return
<1>4. CASE Release(t)
  <2>1. pc' = [pc EXCEPT ![t] = IF client[t] = NoClient THEN "script" ELSE "run"]
        /\ UNCHANGED client
    BY <1>4 DEF Release
  <2>2. CASE client[t] = NoClient
    <3>1. pc' = [pc EXCEPT ![t] = "script"] /\ pc'[t] \notin Using
      BY <1>0, <2>1, <2>2 DEF Using
    <3> QED BY <1>1, <2>1, <2>2, <3>1
  <2>3. CASE client[t] # NoClient
    <3>1. pc' = [pc EXCEPT ![t] = "run"] /\ pc'[t] \notin Outside
      BY <1>0, <2>1, <2>3 DEF Outside
    <3> QED BY <1>1, <2>1, <2>3, <3>1
  <2> QED BY <2>2, <2>3
<1>5. CASE Shift(t) \/ Open(t)
  <2>1. pc' = [pc EXCEPT ![t] = "release"] /\ \E c \in Client : client' = [client EXCEPT ![t] = c]
    BY <1>5, ShiftStep DEF Shift, Open
  <2> QED BY <1>0, <2>1 DEF InHand, Using, Outside
<1>6. CASE AppendClient(t)
  BY <1>0, <1>6 DEF AppendClient, InHand, Using
<1> QED BY <1>2, <1>3, <1>4, <1>5, <1>6 DEF Step

(* The types after the step of t.                                          *)
LEMMA TypeStep ==
  ASSUME PoolInv, NEW t \in Thread, Step(t)
  PROVE  TypeOK'
<1>0. /\ pc \in [Thread -> {"script", "acquire", "choose", "asleep", "release",
                            "run", "return", "append"}]
      /\ client \in [Thread -> Client \cup {NoClient}]
      /\ clients \in Seq(Client) /\ current \in 0 .. maxclients /\ maxclients \in Limits
      /\ calls \in [Thread -> 0 .. MaxCalls]
  BY DEF PoolInv, TypeOK
<1>1. MonitorTypeOK'
  BY LockedStep DEF PoolInv
<1>2. /\ pc' \in [Thread -> {"script", "acquire", "choose", "asleep", "release",
                             "run", "return", "append"}]
      /\ UNCHANGED <<maxclients, calls>>
  BY <1>0 DEF Step, Goto, Acquire, Shift, Open, OpenFails, Sleep, Awake, Release, Run,
             Return, AppendClient, pool
<1>3. /\ clients' \in Seq(Client) /\ current' \in 0 .. maxclients
      /\ client' \in [Thread -> Client \cup {NoClient}]
  <2>1. CASE Shift(t)
    BY <2>1, <1>0, ShiftStep DEF Shift
  <2>2. CASE Open(t)
    BY <2>2, OpenStep
  <2>3. CASE AppendClient(t)
    BY <2>3, <1>0, AppendStep DEF AppendClient
  <2>4. CASE UNCHANGED <<clients, current, client>>
    BY <2>4, <1>0
  <2> QED BY <2>1, <2>2, <2>3, <2>4
          DEF Step, Acquire, OpenFails, Sleep, Awake, Release, Run, Return, pool
<1> QED BY <1>0, <1>1, <1>2, <1>3 DEF TypeOK

(* ... and every step keeps it.                                            *)
LEMMA PoolStep == PoolInv /\ [Next]_vars => PoolInv'
<1> SUFFICES ASSUME PoolInv, [Next]_vars PROVE PoolInv'
  OBVIOUS
<1>1. ASSUME NEW t \in Thread, Step(t) PROVE PoolInv'
  <2>1. TypeOK' /\ Locked' /\ InHand'
    BY <1>1, TypeStep, LockedStep, InHandStep DEF PoolInv
  <2>2. CASE UNCHANGED <<clients, current, client>>
    BY <2>1, <2>2, QuietStep DEF PoolInv
  <2>3. CASE Shift(t) \/ Open(t) \/ AppendClient(t)
    BY <2>1, <2>3, ShiftStep, OpenStep, AppendStep DEF PoolInv
  <2> QED BY <1>1, <2>2, <2>3
          DEF Step, Acquire, OpenFails, Sleep, Awake, Release, Run, Return, pool
<1>2. ASSUME NEW t \in Thread, RemoteCall(t) PROVE PoolInv'
  <2>1. /\ UNCHANGED <<owner, depth, sleepers, clients, current, maxclients, client>>
        /\ pc[t] = "script" /\ pc' = [pc EXCEPT ![t] = "acquire"]
        /\ calls[t] < MaxCalls /\ calls' = [calls EXCEPT ![t] = @ + 1]
    BY <1>2 DEF RemoteCall, Goto, monitor, pool
  <2>2. calls' \in [Thread -> 0 .. MaxCalls]
    BY <2>1, BoundAssumption DEF PoolInv, TypeOK
  <2>3. TypeOK'
    BY <2>1, <2>2 DEF PoolInv, TypeOK, MonitorTypeOK
  <2>4. Locked' /\ InHand'
    BY <2>1 DEF PoolInv, TypeOK, Locked, InHand, Guarded, Using, Outside
  <2> QED BY <2>1, <2>3, <2>4, QuietStep DEF PoolInv
<1>3. ASSUME NEW t \in Thread, Spurious(t) PROVE PoolInv'
  <2>1. /\ UNCHANGED <<owner, depth, clients, current, maxclients, client, pc, calls>>
        /\ MonitorTypeOK'
    BY <1>3, SpuriousMonitor DEF Spurious, pool, PoolInv, TypeOK
  <2>2. TypeOK' /\ Locked' /\ InHand'
    BY <2>1 DEF PoolInv, TypeOK, Locked, InHand
  <2> QED BY <2>1, <2>2, QuietStep DEF PoolInv
<1>4. CASE UNCHANGED vars
  <2>1. UNCHANGED <<owner, depth, sleepers, clients, current, maxclients, client, pc, calls>>
    BY <1>4 DEF vars, monitor
  <2>2. TypeOK' /\ Locked' /\ InHand'
    BY <2>1 DEF PoolInv, TypeOK, MonitorTypeOK, Locked, InHand
  <2> QED BY <2>1, <2>2, QuietStep DEF PoolInv
<1> QED BY <1>1, <1>2, <1>3, <1>4 DEF Next

(* No client is lost, none is shared and there are never too many: for any *)
(* number of threads, clients and calls.                                   *)
THEOREM NoClientLost == Spec => []PoolAccount
<1>1. Spec => []PoolInv
  BY PoolInitially, PoolStep, PTL DEF Spec
<1>2. PoolInv => PoolAccount
  BY DEF PoolInv, Counted
<1> QED BY <1>1, <1>2, PTL

(* Only the owner of the mutex changes the pool.                           *)
THEOREM OwnerChangesPool == Spec => PoolGuarded
<1>1. Spec => []PoolInv
  BY PoolInitially, PoolStep, PTL DEF Spec
<1>2. PoolInv /\ [Next]_vars =>
        [pool' # pool => /\ owner[Wait] # NoThread
                         /\ pc'[owner[Wait]] # pc[owner[Wait]]]_vars
  <2> SUFFICES ASSUME PoolInv, Next, pool' # pool
               PROVE  owner[Wait] # NoThread /\ pc'[owner[Wait]] # pc[owner[Wait]]
    BY DEF vars, pool
  <2>1. PICK t \in Thread : Shift(t) \/ Open(t) \/ AppendClient(t)
    BY DEF Next, RemoteCall, Spurious, Step, Acquire, OpenFails, Sleep, Awake, Release,
           Run, Return, pool
  <2>2. pc[t] \in Guarded /\ pc'[t] \in {"release", "script"} /\ pc'[t] # pc[t]
    BY <2>1 DEF PoolInv, TypeOK, Shift, Open, AppendClient, Goto, Guarded
  <2>3. owner[Wait] = t
    BY <2>2 DEF PoolInv, Locked
  <2> QED BY <2>2, <2>3, NoThreadAssumption
<1> QED BY <1>1, <1>2, PTL DEF Spec, PoolGuarded

(* The mountpoint keeps its promise: its state, seen as a pool, starts as  *)
(* one and changes as one.                                                 *)
Asking == {t \in Thread : pc[t] \in {"acquire", "choose", "asleep"}}

(* The pool counts as its implementation does.                             *)
LEMMA SameCardinality == \A S : Promise!Cardinality(S) = Cardinality(S)
  BY DEF Promise!Cardinality, Cardinality

(* An empty list is an empty pool.                                         *)
LEMMA PromiseInitially == Init => Promise!Init
<1> SUFFICES ASSUME Init PROVE Promise!Init
  OBVIOUS
<1>1. ToSet(clients) = {} /\ Held = {}
  BY DEF Init, ToSet, Held
<1> QED BY <1>1 DEF Init, Promise!Init, Opened

(* The limit is set once.                                                  *)
LEMMA LimitFixed == [Next]_vars => maxclients' = maxclients
  BY DEF vars, pool, Next, RemoteCall, Spurious, Step, Acquire, Shift, Open, OpenFails,
         Sleep, Awake, Release, Run, Return, AppendClient

(* Every step is one of the pool's, or changes nothing it knows of.        *)
LEMMA PromiseStep ==
  ASSUME PoolInv, PoolInv', [Next]_vars
  PROVE  [Promise!Next]_<<maxclients, Opened, Asking, client>>
<1> USE DEF Goto
<1>0. /\ pc \in [Thread -> {"script", "acquire", "choose", "asleep", "release",
                            "run", "return", "append"}]
      /\ client \in [Thread -> Client \cup {NoClient}]
      /\ InHand /\ maxclients \in Nat /\ maxclients' = maxclients
      /\ current' \in 0 .. maxclients /\ current' = Cardinality(Opened')
      /\ current = Cardinality(Opened)
  BY LimitFixed, LimitsAssumption DEF PoolInv, TypeOK, Counted, PoolAccount
<1>1. Promise!InUse = Held
  BY DEF Promise!InUse, Held
<1>2. ASSUME NEW t \in Thread, NEW from, NEW to, pc[t] = from, pc' = [pc EXCEPT ![t] = to],
             from \in {"acquire", "choose", "asleep"} <=> to \in {"acquire", "choose", "asleep"}
      PROVE  Asking' = Asking
  BY <1>0, <1>2 DEF Asking
<1>3. ASSUME NEW t \in Thread, pc[t] = "choose", pc' = [pc EXCEPT ![t] = "release"]
      PROVE  t \in Asking /\ Asking' = Asking \ {t}
  BY <1>0, <1>3 DEF Asking
<1>4. ASSUME UNCHANGED <<clients, client>> PROVE UNCHANGED <<Opened, client>>
  BY <1>4 DEF Opened, Held
<1>5. ASSUME NEW t \in Thread, RemoteCall(t) PROVE Promise!Ask(t)
  <2>1. t \notin Asking /\ client[t] = NoClient /\ Asking' = Asking \cup {t}
    BY <1>0, <1>5 DEF RemoteCall, Asking, InHand, Outside
  <2> QED BY <1>0, <2>1, <1>4, <1>5 DEF Promise!Ask, RemoteCall, pool, Asking
<1>6. ASSUME NEW t \in Thread, Shift(t) PROVE \E c \in Client : Promise!Grant(t, c)
  <2>1. Head(clients) \in Client /\ Head(clients) \notin Held
    BY <1>6, ShiftStep
  <2>2. client' = [client EXCEPT ![t] = Head(clients)] /\ client[t] = NoClient /\ clients # <<>>
        /\ clients' = Tail(clients) /\ current' = current
    BY <1>0, <1>6 DEF Shift, InHand, Outside
  <2>3. Held' = Held \cup {Head(clients)}
    BY <1>0, <2>1, <2>2, HeldGrows, NoClientAssumption
  <2>4. Opened' = Opened \cup {Head(clients)}
    BY <2>2, <2>3, TailSet DEF Opened, PoolInv, TypeOK
  <2>5. Cardinality(Opened') <= maxclients
    BY <1>0
  <2>6. t \in Asking /\ Asking' = Asking \ {t}
    BY <1>3, <1>6 DEF Shift
  <2> QED BY SameCardinality, <1>0, <1>1, <2>1, <2>2, <2>4, <2>5, <2>6 DEF Promise!Grant, Asking
<1>7. ASSUME NEW t \in Thread, Open(t) PROVE \E c \in Client : Promise!Grant(t, c)
  <2>1. PICK c \in Client \ Held : client' = [client EXCEPT ![t] = c] /\ Opened' = Opened \cup {c}
    BY <1>7, OpenStep
  <2>2. Cardinality(Opened') <= maxclients
    BY <1>0
  <2>3. t \in Asking /\ Asking' = Asking \ {t}
    BY <1>3, <1>7 DEF Open
  <2> QED BY SameCardinality, <1>0, <1>1, <2>1, <2>2, <2>3 DEF Promise!Grant, Asking
<1>8. ASSUME NEW t \in Thread, OpenFails(t) PROVE Promise!Refuse(t)
  <2>1. t \in Asking /\ Asking' = Asking \ {t}
    BY <1>3, <1>8 DEF OpenFails
  <2>2. Opened \subseteq Held
    BY <1>8 DEF OpenFails, Opened, ToSet
  <2>3. UNCHANGED <<Opened, client>> /\ Cardinality(Opened) < maxclients
    BY <1>0, <1>4, <1>8 DEF OpenFails, pool
  <2> QED BY SameCardinality, <1>0, <1>1, <2>1, <2>2, <2>3 DEF Promise!Refuse, Asking
<1>9. ASSUME NEW t \in Thread, AppendClient(t) PROVE Promise!GiveBack(t)
  <2>1. Opened' = Opened /\ client[t] # NoClient
    BY <1>9, AppendStep
  <2>2. Asking' = Asking
    BY <1>2, <1>9 DEF AppendClient
  <2> QED BY <1>0, <1>9, <2>1, <2>2 DEF AppendClient, Promise!GiveBack, Asking
<1>10. ASSUME NEW t \in Thread,
              Acquire(t) \/ Sleep(t) \/ Awake(t) \/ Release(t) \/ Run(t) \/ Return(t)
       PROVE  UNCHANGED <<maxclients, Opened, Asking, client>>
  <2>1. UNCHANGED <<maxclients, Opened, client>>
    BY <1>0, <1>4, <1>10 DEF Acquire, Sleep, Awake, Release, Run, Return, pool
  <2>2. CASE Release(t)
    <3>1. CASE client[t] = NoClient
      BY <1>2, <2>1, <2>2, <3>1 DEF Release
    <3>2. CASE client[t] # NoClient
      BY <1>2, <2>1, <2>2, <3>2 DEF Release
    <3> QED BY <2>1, <3>1, <3>2
  <2>3. CASE ~Release(t)
    BY <1>2, <1>10, <2>1, <2>3 DEF Acquire, Sleep, Awake, Run, Return
  <2> QED BY <2>2, <2>3
<1>11. ASSUME NEW t \in Thread, Spurious(t)
       PROVE  UNCHANGED <<maxclients, Opened, Asking, client>>
  BY <1>0, <1>4, <1>11 DEF Spurious, pool, Asking
<1>12. CASE UNCHANGED vars
  BY <1>0, <1>4, <1>12 DEF vars, Asking
<1> QED BY <1>5, <1>6, <1>7, <1>8, <1>9, <1>10, <1>11, <1>12 DEF Next, Step, Promise!Next

(* The shared list, the count and the condition implement the pool.        *)
THEOREM MountPointKeepsPromise == Spec => KeepsPromise
<1>1. Spec => []PoolInv
  BY PoolInitially, PoolStep, PTL DEF Spec
<1>2. PoolInv /\ PoolInv' /\ [Next]_vars => [Promise!Next]_<<maxclients, Opened, Asking, client>>
  BY PromiseStep
<1> QED BY <1>1, <1>2, PromiseInitially, PTL DEF Spec, KeepsPromise, Promise!Spec, Asking
=============================================================================
