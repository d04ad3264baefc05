------------------------------- MODULE Mapping -------------------------------
(***************************************************************************)
(* What a dictionary promises (src/include/dict.h): a function from keys   *)
(* to values, and of every call what it returns and which value it frees.  *)
(***************************************************************************)
CONSTANTS MapKey, MapValue, MapNull

VARIABLES
  map,      \* the function
  result,   \* what the last call returned
  freed     \* the values the last call freed

Has(k) == k \in DOMAIN map
Got(k) == IF Has(k) THEN map[k] ELSE MapNull
Less(k) == [x \in DOMAIN map \ {k} |-> map[x]]

Init == map = <<>> /\ result = MapNull /\ freed = {}

Put(k, v) ==
  /\ map' = [x \in DOMAIN map \cup {k} |-> IF x = k THEN v ELSE map[x]]
  /\ result' = TRUE
  /\ freed' = {map[x] : x \in DOMAIN map \cap {k}}

Remove(k) ==
  /\ map' = Less(k)
  /\ result' = Has(k)
  /\ freed' = {map[x] : x \in DOMAIN map \cap {k}}

Pop(k) == map' = Less(k) /\ result' = Got(k) /\ freed' = {}

Clear ==
  /\ map' = <<>>
  /\ result' = TRUE
  /\ freed' = {map[x] : x \in DOMAIN map}

Get(k) == UNCHANGED map /\ result' = Got(k) /\ freed' = {}

Next ==
  \/ Clear
  \/ \E k \in MapKey : Remove(k) \/ Pop(k) \/ Get(k) \/ \E v \in MapValue : Put(k, v)

Spec == Init /\ [][Next]_<<map, result, freed>>
=============================================================================
