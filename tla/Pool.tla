-------------------------------- MODULE Pool --------------------------------
(***************************************************************************)
(* What a mountpoint promises the threads that make remote calls: a thread *)
(* that asks gets a client nobody else has, or learns that no connection   *)
(* could be made; there are never more clients than the limit; a client    *)
(* given back can be handed out again.                                     *)
(***************************************************************************)
EXTENDS Naturals, FiniteSets

CONSTANTS Thread, Client, NoClient, Limits

VARIABLES
  limit,    \* how many clients there may be
  opened,   \* the clients made so far
  asking,   \* the threads that wait for a client
  using     \* using[t]: the client thread t has

InUse == {using[t] : t \in Thread} \ {NoClient}

Init ==
  /\ limit \in Limits
  /\ opened = {}
  /\ asking = {}
  /\ using = [t \in Thread |-> NoClient]

Ask(t) ==
  /\ t \notin asking
  /\ using[t] = NoClient
  /\ asking' = asking \cup {t}
  /\ UNCHANGED <<limit, opened, using>>

Grant(t, c) ==
  /\ t \in asking
  /\ c \notin InUse
  /\ opened' = opened \cup {c}
  /\ Cardinality(opened') <= limit
  /\ asking' = asking \ {t}
  /\ using' = [using EXCEPT ![t] = c]
  /\ UNCHANGED limit

Refuse(t) ==
  /\ t \in asking
  /\ opened \subseteq InUse
  /\ Cardinality(opened) < limit
  /\ asking' = asking \ {t}
  /\ UNCHANGED <<limit, opened, using>>

GiveBack(t) ==
  /\ using[t] # NoClient
  /\ using' = [using EXCEPT ![t] = NoClient]
  /\ UNCHANGED <<limit, opened, asking>>

Next ==
  \E t \in Thread :
    \/ Ask(t)
    \/ \E c \in Client : Grant(t, c)
    \/ Refuse(t)
    \/ GiveBack(t)

Spec == Init /\ [][Next]_<<limit, opened, asking, using>>
=============================================================================
