-------------------------------- MODULE Dict --------------------------------
(***************************************************************************)
(* The hash tables of src/lib/dict.c: an array of buckets that doubles     *)
(* when it is three quarters full, in every bucket the entries in the      *)
(* order they came in, each with its index; and an iterator over the table *)
(* that any call may change under it.  Where a bucket keeps its entries    *)
(* (in place, or in memory of its own when it grows) is abstracted.  Below,*)
(* the sets that are made of them.                                         *)
(***************************************************************************)
EXTENDS Integers, FiniteSets, FiniteSetsExt, SequencesExt

CONSTANTS
  DictKey,
  DictValue,
  DictNull,      \* NULL
  Hash,          \* Hash[k]: the hash of a key
  INIT_BUCKETS

ASSUME HashAssumption == Hash \in [DictKey -> Nat] /\ INIT_BUCKETS \in Nat \ {0, 1}

VARIABLES
  buckets,     \* buckets[b + 1]: the entries of bucket b, [key, value, ix]
  dictSize,    \* dict -> size
  dictResult,  \* what the last call returned
  dictFreed,   \* the values it freed
  di,          \* the iterator: [bucket, entry]
  sweep        \* [way, keys]: the keys it has returned on its way up from the
               \* head or down from the tail; a turn or a change loses the way

dictVars == <<buckets, dictSize, dictResult, dictFreed, di, sweep>>
table == <<buckets, dictSize>>

LostWay == [way |-> "lost", keys |-> <<>>]
Changed == di' = di /\ sweep' = LostWay


num_buckets == Len(buckets)
BucketOf(k, n) == (Hash[k] % n) + 1
DictEntries == FlattenSeq(buckets)
EntriesIn(bs) == UNION {ToSet(bs[b]) : b \in DOMAIN bs}
-----------------------------------------------------------------------------
(* The position an entry with key k says it has in its bucket, or none.    *)
_bucket_position_of(bucket, k) ==
  {bucket[i].ix : i \in {j \in DOMAIN bucket : bucket[j].key = k}}

_bucket_init_entry(bucket, k, v) ==
  Append(bucket, [key |-> k, value |-> v, ix |-> Len(bucket)])

\* Wrong: the entries behind the removed one would keep their indexes.
BucketRemoveOnly(bucket, ix) == RemoveAt(bucket, ix + 1)

_bucket_remove(bucket, ix) ==
  LET rest == RemoveAt(bucket, ix + 1)
  IN [i \in DOMAIN rest |-> [rest[i] EXCEPT !.ix = i - 1]]

\* Wrong: every entry would stay in the bucket with its old number.
RehashInPlace(old) ==
  IF old = <<>> THEN [b \in 1 .. INIT_BUCKETS |-> <<>>]
  ELSE [b \in 1 .. 2 * Len(old) |-> IF b <= Len(old) THEN old[b] ELSE <<>>]

(* Twice the buckets; the entries are copied bucket by bucket.             *)
_dict_rehash(old) ==
  LET entries == FlattenSeq(old)
      copied[n \in 0 .. Len(entries)] ==
        IF n = 0 THEN [b \in 1 .. 2 * Len(old) |-> <<>>]
        ELSE [copied[n - 1] EXCEPT ![BucketOf(entries[n].key, 2 * Len(old))] =
                _bucket_init_entry(@, entries[n].key, entries[n].value)]
  IN IF old = <<>> THEN [b \in 1 .. INIT_BUCKETS |-> <<>>] ELSE copied[Len(entries)]

(* Asked before the put, also when the key is there already.               *)
Overloaded == num_buckets = 0 \/ 4 * (dictSize + 1) > 3 * num_buckets

Answers(result, gone) == dictResult' = result /\ dictFreed' = gone

ValuesOf(bucket, ixs) == {bucket[i + 1].value : i \in ixs}

dict_put(k, v) ==
  LET ready == IF Overloaded THEN _dict_rehash(buckets) ELSE buckets
      bucket == ready[BucketOf(k, Len(ready))]
      at == _bucket_position_of(bucket, k)
  IN /\ buckets' = [ready EXCEPT ![BucketOf(k, Len(ready))] =
                      IF at = {} THEN _bucket_init_entry(@, k, v)
                      ELSE [i \in DOMAIN @ |-> IF @[i].key = k THEN [@[i] EXCEPT !.value = v]
                                               ELSE @[i]]]
     /\ dictSize' = dictSize + (IF at = {} THEN 1 ELSE 0)
     /\ Answers(TRUE, ValuesOf(bucket, at))
     /\ Changed

(* Where key k is: an empty dictionary has no buckets to look in.          *)
Found(k) ==
  IF dictSize = 0 THEN {} ELSE _bucket_position_of(buckets[BucketOf(k, num_buckets)], k)

RemoveEntry(k) ==
  LET b == BucketOf(k, num_buckets)
  IN IF Found(k) = {} THEN UNCHANGED table
     ELSE /\ buckets' = [buckets EXCEPT ![b] =
                           _bucket_remove(@, CHOOSE ix \in Found(k) : TRUE)]
          /\ dictSize' = dictSize - 1

dict_remove(k) ==
  /\ RemoveEntry(k)
  /\ Answers(Found(k) # {},
             IF Found(k) = {} THEN {} ELSE ValuesOf(buckets[BucketOf(k, num_buckets)], Found(k)))
  /\ Changed

ValueAt(k) ==
  IF Found(k) = {} THEN DictNull
  ELSE CHOOSE v \in ValuesOf(buckets[BucketOf(k, num_buckets)], Found(k)) : TRUE

(* The value is taken out of the entry before that is removed.             *)
dict_pop(k) == RemoveEntry(k) /\ Answers(ValueAt(k), {}) /\ Changed

dict_get(k) == Answers(ValueAt(k), {}) /\ UNCHANGED <<table, di, sweep>>

(* The buckets stay.                                                       *)
dict_clear ==
  /\ buckets' = IF dictSize = 0 THEN buckets ELSE [b \in DOMAIN buckets |-> <<>>]
  /\ dictSize' = 0
  /\ Answers(TRUE, {e.value : e \in EntriesIn(buckets)})
  /\ Changed

dict_keys == [i \in DOMAIN DictEntries |-> DictEntries[i].key]
-----------------------------------------------------------------------------
(* The iterator.  Bucket numbers and entries count from 0; the place before*)
(* the first entry of a bucket is -1.                                      *)
SizeOf(b) == IF b \in 0 .. num_buckets - 1 THEN Len(buckets[b + 1]) ELSE 0

_di_bucket_has_next(b, e) == SizeOf(b) > 0 /\ e < SizeOf(b) - 1
\* Wrong: a place past the end of a bucket would do to go down from.
BucketHasPrevAnywhere(b, e) == SizeOf(b) > 0 /\ e > 0

_di_bucket_has_prev(b, e) == SizeOf(b) > 0 /\ e > 0 /\ e <= SizeOf(b)

EntryOnWayUp(b) == IF b = di.bucket THEN di.entry ELSE -1

\* Wrong: the rest of the bucket the iterator is in would be skipped.
BucketNextOnly ==
  {b \in di.bucket + 1 .. num_buckets - 1 : _di_bucket_has_next(b, EntryOnWayUp(b))}

(* The buckets from the current one up in which there is a next entry.     *)
_di_bucket_next ==
  {b \in di.bucket .. num_buckets - 1 : _di_bucket_has_next(b, EntryOnWayUp(b))}

EntryOnWayDown(b) == IF b = di.bucket THEN di.entry ELSE SizeOf(b)

_di_bucket_prev ==
  {b \in 0 .. di.bucket : _di_bucket_has_prev(b, EntryOnWayDown(b))}

Iterates(b, e, s) ==
  /\ di' = [bucket |-> b, entry |-> e]
  /\ sweep' = s
  /\ UNCHANGED <<table, dictResult, dictFreed>>

Seen(way, key) ==
  IF sweep.way = way THEN [sweep EXCEPT !.keys = Append(@, key)] ELSE LostWay

di_head == Iterates(-1, -1, [way |-> "up", keys |-> <<>>])

di_tail ==
  Iterates(num_buckets - 1, IF num_buckets = 0 THEN -1 ELSE SizeOf(num_buckets - 1),
           [way |-> "down", keys |-> <<>>])

di_next ==
  /\ _di_bucket_next # {}
  /\ LET b == Min(_di_bucket_next)
         e == EntryOnWayUp(b) + 1
     IN Iterates(b, e, Seen("up", buckets[b + 1][e + 1].key))

di_prev ==
  /\ _di_bucket_prev # {}
  /\ LET b == Max(_di_bucket_prev)
         e == EntryOnWayDown(b) - 1
     IN Iterates(b, e, Seen("down", buckets[b + 1][e + 1].key))
-----------------------------------------------------------------------------
DictInit ==
  /\ buckets = <<>>
  /\ dictSize = 0
  /\ dictResult = DictNull
  /\ dictFreed = {}
  /\ di = [bucket |-> -1, entry |-> -1]
  /\ sweep = [way |-> "up", keys |-> <<>>]

DictNext ==
  \/ dict_clear \/ di_head \/ di_tail \/ di_next \/ di_prev
  \/ \E k \in DictKey :
       \/ dict_get(k) \/ dict_remove(k) \/ dict_pop(k)
       \/ \E v \in DictValue : dict_put(k, v)

DictSpec == DictInit /\ [][DictNext]_dictVars
-----------------------------------------------------------------------------
(* dict.c:273, :227, :595 -- however the table grows and shrinks, every    *)
(* entry is in the bucket its key is looked up in and knows its place      *)
(* there, no key is in it twice, and the size counts the entries, which    *)
(* leave a quarter of the table's places free.                             *)
DictTable ==
  /\ \A b \in DOMAIN buckets : \A i \in DOMAIN buckets[b] :
       buckets[b][i].ix = i - 1 /\ BucketOf(buckets[b][i].key, num_buckets) = b
  /\ IsInjective(dict_keys)
  /\ dictSize = Len(DictEntries)
  /\ 4 * dictSize <= 3 * num_buckets

(* dict.c:852, :872 -- a loop over a dictionary nobody changes sees every  *)
(* entry once, and the loop back sees them in the opposite order.          *)
SweepIsComplete ==
  /\ sweep.way = "up" /\ _di_bucket_next = {} => sweep.keys = dict_keys
  /\ sweep.way = "down" /\ _di_bucket_prev = {} => sweep.keys = Reverse(dict_keys)

(* dict.c:844, :849 -- an iterator whose dictionary was rehashed, cleared  *)
(* or made smaller under it goes on at an entry that is there.             *)
IteratorFindsEntries ==
  [][di_next \/ di_prev => di'.entry \in 0 .. SizeOf(di'.bucket) - 1]_dictVars

(* dict.c -- the table is a function from keys to values; a call returns   *)
(* what is in it and frees the value it overwrites or removes, and no      *)
(* other.                                                                  *)
AsFunction(bs) ==
  [k \in {e.key : e \in EntriesIn(bs)} |-> (CHOOSE e \in EntriesIn(bs) : e.key = k).value]

Contents == INSTANCE Mapping WITH
  MapKey <- DictKey, MapValue <- DictValue, MapNull <- DictNull,
  map <- AsFunction(buckets),
  result <- dictResult,
  freed <- dictFreed

DictIsMapping == Contents!Spec
-----------------------------------------------------------------------------
(* The sets of src/lib/set.c: dictionaries whose keys are pointers, the    *)
(* elements, compared by what they point at.  set_intersect and set_minus  *)
(* collect what must go in a clone of the set.  set_clone gives the clone  *)
(* its own type, which is none, so that it compares pointers.              *)

CONSTANTS
  Pointer,      \* the elements
  PointedAt     \* PointedAt[p]: the value at p

ASSUME PointedAtAssumption == DOMAIN PointedAt = Pointer

VARIABLES thisSet, otherSet   \* [elems, typed]: the pointers, and how they compare

setVars == <<thisSet, otherSet>>

Same(s, p, q) == IF s.typed THEN PointedAt[p] = PointedAt[q] ELSE p = q
ValuesIn(s) == {PointedAt[p] : p \in s.elems}

set_has(s, p) == \E q \in s.elems : Same(s, p, q)

(* dict_put: an element that is there already stays.                       *)
set_add(s, p) == IF set_has(s, p) THEN s ELSE [s EXCEPT !.elems = @ \cup {p}]

set_remove(s, p) == [s EXCEPT !.elems = {q \in @ : ~Same(s, p, q)}]

set_clone(s) == [elems |-> {}, typed |-> FALSE]

_set_remover(s, remove) ==
  FoldSet(LAMBDA p, acc : set_remove(acc, p), s, remove.elems)

set_union(s, other) == FoldSet(LAMBDA p, acc : set_add(acc, p), s, other.elems)

\* Wrong: what the other set has would go.
IntersectRemovesCommon(s, other) ==
  _set_remover(s, [set_clone(s) EXCEPT !.elems = {p \in s.elems : set_has(other, p)}])

set_intersect(s, other) ==
  _set_remover(s, FoldSet(LAMBDA p, acc : IF set_has(other, p) THEN acc ELSE set_add(acc, p),
                          set_clone(s), s.elems))

set_minus(s, other) ==
  _set_remover(s, FoldSet(LAMBDA p, acc : IF set_has(other, p) THEN set_add(acc, p) ELSE acc,
                          set_clone(s), s.elems))

set_disjoint(s, other) == \A p \in s.elems : ~set_has(other, p)

set_subsetof(s, other) == \A p \in s.elems : set_has(other, p)

set_cmp(s, other) ==
  IF Cardinality(s.elems) # Cardinality(other.elems)
  THEN Cardinality(s.elems) - Cardinality(other.elems)
  ELSE IF set_subsetof(s, other) THEN 0 ELSE 1
-----------------------------------------------------------------------------
SetsInit == thisSet = [elems |-> {}, typed |-> TRUE] /\ otherSet = thisSet

SetsNext ==
  \/ \E p \in Pointer : thisSet' = set_add(thisSet, p) /\ UNCHANGED otherSet
  \/ \E p \in Pointer : otherSet' = set_add(otherSet, p) /\ UNCHANGED thisSet
  \/ \E p \in Pointer : thisSet' = set_remove(thisSet, p) /\ UNCHANGED otherSet
  \/ thisSet' = set_union(thisSet, otherSet) /\ UNCHANGED otherSet
  \/ thisSet' = set_intersect(thisSet, otherSet) /\ UNCHANGED otherSet
  \/ thisSet' = set_minus(thisSet, otherSet) /\ UNCHANGED otherSet

SetsSpec == SetsInit /\ [][SetsNext]_setVars
-----------------------------------------------------------------------------
(* set.c:138, :264, :285 -- although the elements to remove are collected  *)
(* by their addresses, and equal elements have different ones in the two   *)
(* sets: the operations are those of the sets of values, no value is in a  *)
(* set twice, and two sets compare as equal just if they have the same.    *)
SetsAreByValue ==
  LET a == ValuesIn(thisSet)  b == ValuesIn(otherSet)
  IN /\ Cardinality(a) = Cardinality(thisSet.elems)
     /\ ValuesIn(set_union(thisSet, otherSet)) = a \cup b
     /\ ValuesIn(set_intersect(thisSet, otherSet)) = a \cap b
     /\ ValuesIn(set_minus(thisSet, otherSet)) = a \ b
     /\ set_disjoint(thisSet, otherSet) <=> a \cap b = {}
     /\ (set_cmp(thisSet, otherSet) = 0) <=> a = b
=============================================================================
