----------------------------- MODULE LibraryProofs -----------------------------
(***************************************************************************)
(* The containers and the modules of a program, of any size.               *)
(*                                                                         *)
(* Dictionaries: every entry is in the bucket of its key, and the entries  *)
(* of a bucket have different keys; so a table stands for one function, a  *)
(* look into one bucket decides whether a key is in it, and copying the    *)
(* entries one by one into a table of another size makes a table of the    *)
(* same function.  The size counts the keys.                               *)
(*                                                                         *)
(* Lists: each list stands for a sequence, and the sequences of different  *)
(* lists have no node in common.  A call changes the links of a node and   *)
(* its neighbours, which makes the sequence of a list lose a place or gain *)
(* one; what else it did not touch is linked as before.                    *)
(*                                                                         *)
(* Modules: what is known but not whole is on the stack of the scripts     *)
(* under way, or its load has failed; a script is pushed only for a name   *)
(* that was not known, and so once.                                        *)
(*                                                                         *)
(* Calls: scopes and objects are only added to, and whatever can be called *)
(* names a scope of the function its script stands in.                     *)
(***************************************************************************)
EXTENDS Library, Induction

\* An entry, the bucket a key belongs to, and the keys that are there.
Entry == [key : DictKey, value : DictValue, ix : Nat]

Bucket(bs, k) == bs[BucketOf(k, Len(bs))]

KeysOf(bs) == {e.key : e \in EntriesIn(bs)}

(* The entries are where their keys are looked up, and know their places.  *)
InPlace(bs) ==
  \A b \in 1 .. Len(bs) : \A i \in 1 .. Len(bs[b]) :
    bs[b][i].ix = i - 1 /\ BucketOf(bs[b][i].key, Len(bs)) = b

(* No bucket has two entries with the same key.                            *)
Once(bs) ==
  \A b \in 1 .. Len(bs) : \A i, j \in 1 .. Len(bs[b]) : bs[b][i].key = bs[b][j].key => i = j

\* A table in order.
Good(bs) == bs \in Seq(Seq(Entry)) /\ InPlace(bs) /\ Once(bs)

(* The inductive invariant.                                                *)
DictInv ==
  /\ Good(buckets)
  /\ dictSize = Cardinality(KeysOf(buckets)) /\ IsFiniteSet(KeysOf(buckets))
  /\ num_buckets # 1 /\ 4 * dictSize <= 3 * num_buckets
-----------------------------------------------------------------------------
(* The bucket of a key is one of the table.                                *)
LEMMA BucketInTable ==
  ASSUME NEW k \in DictKey, NEW n \in Nat \ {0}
  PROVE  BucketOf(k, n) \in 1 .. n
<1>1. Hash[k] \in Nat
  BY HashAssumption
<1> QED BY <1>1 DEF BucketOf

(* What a table stands for.                                                *)
LEMMA EntriesArePlaced ==
  ASSUME NEW bs, Good(bs), NEW e
  PROVE  e \in EntriesIn(bs) <=> \E b \in 1 .. Len(bs) : \E i \in 1 .. Len(bs[b]) : e = bs[b][i]
BY DEF Good, EntriesIn, ToSet

(* A key of the table is the key of an entry that has a place.             *)
LEMMA KeysArePlaced ==
  ASSUME NEW bs, Good(bs), NEW k
  PROVE  k \in KeysOf(bs) <=> \E b \in 1 .. Len(bs) : \E i \in 1 .. Len(bs[b]) : bs[b][i].key = k
BY EntriesArePlaced DEF KeysOf

(* It is looked for where it is: in the bucket of its hash.                *)
LEMMA KeysInBucket ==
  ASSUME NEW bs, Good(bs), NEW k \in KeysOf(bs)
  PROVE  /\ k \in DictKey /\ BucketOf(k, Len(bs)) \in 1 .. Len(bs)
         /\ \E i \in 1 .. Len(Bucket(bs, k)) : Bucket(bs, k)[i].key = k
<1>1. PICK b, i : b \in 1 .. Len(bs) /\ i \in 1 .. Len(bs[b]) /\ bs[b][i].key = k
  BY KeysArePlaced
<1>2. bs[b][i] \in Entry /\ BucketOf(k, Len(bs)) = b
  BY <1>1 DEF Good, InPlace
<1> QED BY <1>1, <1>2 DEF Entry, Bucket

(* The value a table gives to a key is the one at the place of the key.    *)
LEMMA ValueOfPlace ==
  ASSUME NEW bs, Good(bs), NEW b \in 1 .. Len(bs), NEW i \in 1 .. Len(bs[b])
  PROVE  bs[b][i].key \in KeysOf(bs) /\ AsFunction(bs)[bs[b][i].key] = bs[b][i].value
<1> DEFINE k == bs[b][i].key
           e == CHOOSE x \in EntriesIn(bs) : x.key = k
<1>1. bs[b][i] \in EntriesIn(bs)
  BY DEF EntriesIn, ToSet, Good
<1>2. e \in EntriesIn(bs) /\ e.key = k
  BY <1>1
<1>3. PICK c, j : c \in 1 .. Len(bs) /\ j \in 1 .. Len(bs[c]) /\ e = bs[c][j]
  <2> HIDE DEF e
  <2> QED BY <1>2, EntriesArePlaced
<1>4. b = c /\ i = j
  <2> HIDE DEF e
  <2> QED BY <1>2, <1>3 DEF Good, InPlace, Once
<1>5. k \in KeysOf(bs) /\ AsFunction(bs)[k] = e.value
  BY <1>1 DEF KeysOf, AsFunction
<1> QED BY <1>3, <1>4, <1>5

(* A table stands for a function if each of its entries agrees with it.    *)
LEMMA StandsFor ==
  ASSUME NEW bs, Good(bs), NEW f, f = [k \in DOMAIN f |-> f[k]],
         \A k : k \in KeysOf(bs) <=> k \in DOMAIN f,
         \A b \in 1 .. Len(bs) : \A i \in 1 .. Len(bs[b]) : bs[b][i].value = f[bs[b][i].key]
  PROVE  KeysOf(bs) = DOMAIN f /\ AsFunction(bs) = f
<1>1. KeysOf(bs) = DOMAIN f
  OBVIOUS
<1>2. ASSUME NEW k \in DOMAIN f PROVE AsFunction(bs)[k] = f[k]
  <2>1. PICK b, i : b \in 1 .. Len(bs) /\ i \in 1 .. Len(bs[b]) /\ bs[b][i].key = k
    BY <1>1, KeysArePlaced
  <2> QED BY <2>1, ValueOfPlace
<1>3. AsFunction(bs) = [k \in DOMAIN f |-> AsFunction(bs)[k]]
  BY <1>1 DEF AsFunction, KeysOf
<1> QED BY <1>1, <1>2, <1>3
-----------------------------------------------------------------------------
(* A table one of whose buckets is replaced stands for f, if f is what the *)
(* table stood for outside of that bucket, and what the new one has.       *)
Replaces(bs, b, bucket, new) == new = [bs EXCEPT ![b] = bucket]

\* A bucket in order, and one that has the keys and values of the function f.
BucketGood(bs, b, bucket) ==
  /\ bucket \in Seq(Entry)
  /\ \A i \in 1 .. Len(bucket) : bucket[i].ix = i - 1 /\ BucketOf(bucket[i].key, Len(bs)) = b
  /\ \A i, j \in 1 .. Len(bucket) : bucket[i].key = bucket[j].key => i = j

BucketAgrees(bs, b, bucket, f) ==
  /\ f = [k \in DOMAIN f |-> f[k]]
  /\ DOMAIN f \subseteq DictKey
  /\ \A k \in DictKey : BucketOf(k, Len(bs)) # b =>
       (k \in DOMAIN f <=> k \in KeysOf(bs)) /\ (k \in KeysOf(bs) => f[k] = AsFunction(bs)[k])
  /\ \A k \in DictKey : BucketOf(k, Len(bs)) = b =>
       (k \in DOMAIN f <=> \E i \in 1 .. Len(bucket) : bucket[i].key = k)
  /\ \A i \in 1 .. Len(bucket) : f[bucket[i].key] = bucket[i].value

(* With one bucket replaced by a good one the table is good, and it maps   *)
(* what the new bucket and the other buckets hold.                         *)
LEMMA BucketReplaced ==
  ASSUME NEW bs, Good(bs), NEW b \in 1 .. Len(bs), NEW bucket, BucketGood(bs, b, bucket),
         NEW f, BucketAgrees(bs, b, bucket, f), NEW new, Replaces(bs, b, bucket, new)
  PROVE  Good(new) /\ Len(new) = Len(bs) /\ KeysOf(new) = DOMAIN f /\ AsFunction(new) = f
<1>1. /\ new \in Seq(Seq(Entry)) /\ Len(new) = Len(bs) /\ Len(bs) \in Nat
      /\ new[b] = bucket /\ \A c \in 1 .. Len(bs) \ {b} : new[c] = bs[c]
  BY DEF Good, Replaces, BucketGood
<1>2. InPlace(new)
  <2> SUFFICES ASSUME NEW c \in 1 .. Len(bs), NEW i \in 1 .. Len(new[c])
               PROVE  new[c][i].ix = i - 1 /\ BucketOf(new[c][i].key, Len(bs)) = c
    BY <1>1 DEF InPlace
  <2>1. CASE c # b
    BY <2>1, <1>1 DEF Good, InPlace
  <2>2. CASE c = b
    BY <2>2, <1>1 DEF BucketGood
  <2> QED BY <2>1, <2>2
<1>3. Once(new)
  <2> SUFFICES ASSUME NEW c \in 1 .. Len(bs), NEW i \in 1 .. Len(new[c]), NEW j \in 1 .. Len(new[c]),
                      new[c][i].key = new[c][j].key
               PROVE  i = j
    BY <1>1 DEF Once
  <2>1. CASE c # b
    BY <2>1, <1>1 DEF Good, Once
  <2>2. CASE c = b
    BY <2>2, <1>1 DEF BucketGood
  <2> QED BY <2>1, <2>2
<1>4. Good(new)
  BY <1>1, <1>2, <1>3 DEF Good
<1>5. ASSUME NEW c \in 1 .. Len(bs), NEW i \in 1 .. Len(new[c])
      PROVE  new[c][i].key \in DictKey /\ BucketOf(new[c][i].key, Len(bs)) = c
  <2>1. new[c][i] \in Entry
    BY <1>1
  <2> QED BY <2>1, <1>1, <1>2 DEF Entry, InPlace
<1>6. ASSUME NEW k, k \in KeysOf(new) PROVE k \in DOMAIN f
  <2>0. \E c \in 1 .. Len(new) : \E i \in 1 .. Len(new[c]) : new[c][i].key = k
    BY <1>4, <1>6, KeysArePlaced
  <2>1. PICK c, i : c \in 1 .. Len(bs) /\ i \in 1 .. Len(new[c]) /\ new[c][i].key = k
    BY <2>0, <1>1
  <2>2. CASE c = b
    BY <2>1, <2>2, <1>1, <1>5 DEF BucketAgrees
  <2>3. CASE c # b
    <3>1. k \in KeysOf(bs)
      BY <2>1, <2>3, <1>1, KeysArePlaced
    <3> QED BY <3>1, <2>1, <2>3, <1>5 DEF BucketAgrees
  <2> QED BY <2>2, <2>3
<1>7. ASSUME NEW k, k \in DOMAIN f PROVE k \in KeysOf(new)
  <2>1. k \in DictKey
    BY <1>7 DEF BucketAgrees
  <2>2. CASE BucketOf(k, Len(bs)) = b
    <3>1. PICK i \in 1 .. Len(bucket) : bucket[i].key = k
      BY <1>7, <2>1, <2>2 DEF BucketAgrees
    <3> QED BY <3>1, <1>1, <1>4, KeysArePlaced
  <2>3. CASE BucketOf(k, Len(bs)) # b
    <3>1. k \in KeysOf(bs)
      BY <1>7, <2>1, <2>3 DEF BucketAgrees
    <3>2. PICK i : i \in 1 .. Len(Bucket(bs, k)) /\ Bucket(bs, k)[i].key = k
      BY <3>1, KeysInBucket
    <3>3. BucketOf(k, Len(bs)) \in 1 .. Len(bs)
      BY <3>1, KeysInBucket
    <3> QED BY <3>2, <3>3, <2>3, <1>1, <1>4, KeysArePlaced DEF Bucket
  <2> QED BY <2>2, <2>3
<1>8. ASSUME NEW c \in 1 .. Len(bs), NEW i \in 1 .. Len(new[c])
      PROVE  new[c][i].value = f[new[c][i].key]
  <2>1. CASE c = b
    BY <2>1, <1>1 DEF BucketAgrees
  <2>2. CASE c # b
    <3>1. new[c] = bs[c] /\ i \in 1 .. Len(bs[c])
      BY <2>2, <1>1
    <3>2. bs[c][i].key \in KeysOf(bs) /\ AsFunction(bs)[bs[c][i].key] = bs[c][i].value
      BY <3>1, ValueOfPlace
    <3> QED BY <3>1, <3>2, <2>2, <1>5 DEF BucketAgrees
  <2> QED BY <2>1, <2>2
<1>9. KeysOf(new) = DOMAIN f /\ AsFunction(new) = f
  <2>1. \A k : k \in KeysOf(new) <=> k \in DOMAIN f
    BY <1>6, <1>7
  <2>2. \A c \in 1 .. Len(new) : \A i \in 1 .. Len(new[c]) : new[c][i].value = f[new[c][i].key]
    BY <1>1, <1>8
  <2>3. f = [k \in DOMAIN f |-> f[k]]
    BY DEF BucketAgrees
  <2> QED BY <2>1, <2>2, <2>3, <1>4, StandsFor
<1> QED BY <1>1, <1>4, <1>9

(* A key is in a table iff it is in its bucket.                            *)
LEMMA InBucket ==
  ASSUME NEW bs, Good(bs), NEW k \in DictKey, BucketOf(k, Len(bs)) \in 1 .. Len(bs)
  PROVE  k \in KeysOf(bs) <=> \E i \in 1 .. Len(Bucket(bs, k)) : Bucket(bs, k)[i].key = k
BY KeysInBucket, KeysArePlaced DEF Bucket

(* Every bucket of a good table is a good bucket.                          *)
LEMMA BucketIsGood ==
  ASSUME NEW bs, Good(bs), NEW b \in 1 .. Len(bs)
  PROVE  BucketGood(bs, b, bs[b])
BY DEF Good, InPlace, Once, BucketGood

(* What a mapping is after a key was put or taken out.                     *)
Put(bs, k, v) == [x \in KeysOf(bs) \cup {k} |-> IF x = k THEN v ELSE AsFunction(bs)[x]]
\* The function without the key.
Taken(bs, k) == [x \in KeysOf(bs) \ {k} |-> AsFunction(bs)[x]]

(* dict.c:197 -- an entry put at the end of its bucket adds one key.       *)
LEMMA AddedKeeps ==
  ASSUME NEW bs, Good(bs), NEW k \in DictKey, k \notin KeysOf(bs), NEW v \in DictValue,
         NEW b \in 1 .. Len(bs), b = BucketOf(k, Len(bs)),
         NEW new, Replaces(bs, b, _bucket_init_entry(bs[b], k, v), new)
  PROVE  /\ Good(new) /\ Len(new) = Len(bs)
         /\ KeysOf(new) = KeysOf(bs) \cup {k} /\ AsFunction(new) = Put(bs, k, v)
<1> DEFINE e == [key |-> k, value |-> v, ix |-> Len(bs[b])]
           bucket == Append(bs[b], e)
           f == Put(bs, k, v)
<1>1. BucketGood(bs, b, bs[b])
  BY BucketIsGood
<1>2. bs[b] \in Seq(Entry) /\ Len(bs[b]) \in Nat
  BY <1>1 DEF BucketGood
<1>3. e \in Entry
  BY <1>2 DEF Entry
<1>4. e.key = k /\ e.value = v /\ e.ix = Len(bs[b])
  OBVIOUS
<1> HIDE DEF e
<1>5. /\ bucket \in Seq(Entry) /\ Len(bucket) = Len(bs[b]) + 1 /\ bucket[Len(bs[b]) + 1] = e
      /\ \A i \in 1 .. Len(bs[b]) : bucket[i] = bs[b][i]
  BY <1>2, <1>3
<1> HIDE DEF bucket
<1>6. ASSUME NEW i \in 1 .. Len(bucket)
      PROVE  i = Len(bs[b]) + 1 \/ i \in 1 .. Len(bs[b])
  BY <1>2, <1>5
<1>7. \A x \in DictKey : BucketOf(x, Len(bs)) = b =>
        (x \in KeysOf(bs) <=> \E i \in 1 .. Len(bs[b]) : bs[b][i].key = x)
  BY InBucket DEF Bucket
<1>8. BucketGood(bs, b, bucket)
  <2>1. ASSUME NEW i \in 1 .. Len(bucket)
        PROVE  bucket[i].ix = i - 1 /\ BucketOf(bucket[i].key, Len(bs)) = b
    BY <1>1, <1>2, <1>4, <1>5, <1>6 DEF BucketGood
  <2>2. ASSUME NEW i \in 1 .. Len(bucket), NEW j \in 1 .. Len(bucket), bucket[i].key = bucket[j].key
        PROVE  i = j
    <3>1. \A h \in 1 .. Len(bs[b]) : bucket[h].key # k
      BY <1>5, <1>7
    <3>2. CASE i \in 1 .. Len(bs[b]) /\ j \in 1 .. Len(bs[b])
      BY <2>2, <3>2, <1>1, <1>5 DEF BucketGood
    <3>3. CASE i = Len(bs[b]) + 1 \/ j = Len(bs[b]) + 1
      BY <2>2, <3>1, <3>3, <1>4, <1>5, <1>6
    <3> QED BY <3>2, <3>3, <1>6
  <2> QED BY <2>1, <2>2, <1>5 DEF BucketGood
<1>9. BucketAgrees(bs, b, bucket, f)
  <2>1. f = [x \in DOMAIN f |-> f[x]] /\ DOMAIN f = KeysOf(bs) \cup {k} /\ DOMAIN f \subseteq DictKey
    BY KeysInBucket DEF Put
  <2>2. \A x \in KeysOf(bs) : f[x] = AsFunction(bs)[x]
    BY DEF Put
  <2>3. f[k] = v
    BY DEF Put
  <2> HIDE DEF f
  <2>4. ASSUME NEW x \in DictKey, BucketOf(x, Len(bs)) = b
        PROVE  x \in DOMAIN f <=> \E i \in 1 .. Len(bucket) : bucket[i].key = x
    <3>1. CASE x = k
      BY <3>1, <2>1, <1>2, <1>4, <1>5
    <3>2. CASE x # k
      BY <3>2, <2>1, <2>4, <1>2, <1>4, <1>5, <1>6, <1>7
    <3> QED BY <3>1, <3>2
  <2>5. ASSUME NEW i \in 1 .. Len(bucket) PROVE f[bucket[i].key] = bucket[i].value
    <3>1. CASE i = Len(bs[b]) + 1
      BY <3>1, <2>3, <1>4, <1>5
    <3>2. CASE i \in 1 .. Len(bs[b])
      BY <3>2, <2>2, <1>5, ValueOfPlace
    <3> QED BY <3>1, <3>2, <1>6
  <2> QED BY <2>1, <2>2, <2>4, <2>5 DEF BucketAgrees
<1>10. Replaces(bs, b, bucket, new)
  BY DEF _bucket_init_entry, bucket, e
<1>11. DOMAIN f = KeysOf(bs) \cup {k}
  BY DEF Put
<1> HIDE DEF f
<1>12. Good(new) /\ Len(new) = Len(bs) /\ KeysOf(new) = DOMAIN f /\ AsFunction(new) = f
  BY <1>8, <1>9, <1>10, BucketReplaced
<1> QED BY <1>11, <1>12 DEF f

(* The value of a key that is there is overwritten.                        *)
Overwritten(bucket, k, v) ==
  [i \in DOMAIN bucket |-> IF bucket[i].key = k THEN [bucket[i] EXCEPT !.value = v] ELSE bucket[i]]

(* dict.c:272 -- a value that is put again replaces the one before.        *)
LEMMA OverwrittenKeeps ==
  ASSUME NEW bs, Good(bs), NEW k \in KeysOf(bs), NEW v \in DictValue,
         NEW b \in 1 .. Len(bs), b = BucketOf(k, Len(bs)),
         NEW new, Replaces(bs, b, Overwritten(bs[b], k, v), new)
  PROVE  /\ Good(new) /\ Len(new) = Len(bs)
         /\ KeysOf(new) = KeysOf(bs) \cup {k} /\ AsFunction(new) = Put(bs, k, v)
<1> DEFINE bucket == Overwritten(bs[b], k, v)
           f == Put(bs, k, v)
<1>1. BucketGood(bs, b, bs[b]) /\ k \in DictKey
  BY BucketIsGood, KeysInBucket
<1>2. bs[b] \in Seq(Entry) /\ Len(bs[b]) \in Nat
  BY <1>1 DEF BucketGood
<1>3. /\ bucket \in Seq(Entry) /\ Len(bucket) = Len(bs[b])
      /\ \A i \in 1 .. Len(bs[b]) :
           bucket[i] = IF bs[b][i].key = k THEN [bs[b][i] EXCEPT !.value = v] ELSE bs[b][i]
  <2>1. ASSUME NEW i \in 1 .. Len(bs[b]), NEW e, e = bs[b][i]
        PROVE  e \in Entry /\ [e EXCEPT !.value = v] \in Entry
    <3>1. e \in Entry
      BY <1>2, <2>1
    <3> HIDE DEF bucket
    <3> QED BY <3>1 DEF Entry
  <2>2. DOMAIN bs[b] = 1 .. Len(bs[b])
    BY <1>2
  <2>3. /\ bucket = [i \in 1 .. Len(bs[b]) |-> bucket[i]]
        /\ \A i \in 1 .. Len(bs[b]) :
             bucket[i] = IF bs[b][i].key = k THEN [bs[b][i] EXCEPT !.value = v] ELSE bs[b][i]
    BY <2>2 DEF Overwritten
  <2> HIDE DEF bucket
  <2>4. \A i \in 1 .. Len(bs[b]) : bucket[i] \in Entry
    BY <2>1, <2>3
  <2>5. bucket \in Seq(Entry) /\ Len(bucket) = Len(bs[b])
    <3>1. bucket \in [1 .. Len(bs[b]) -> Entry]
      BY <2>3, <2>4
    <3> QED BY <3>1, <1>2, SequenceOf
  <2> QED BY <2>3, <2>5
<1>4. ASSUME NEW i \in 1 .. Len(bs[b])
      PROVE  /\ bucket[i].key = bs[b][i].key /\ bucket[i].ix = bs[b][i].ix
             /\ bucket[i].value = IF bs[b][i].key = k THEN v ELSE bs[b][i].value
  <2>1. bs[b][i] \in Entry
    BY <1>2
  <2> QED BY <2>1, <1>3 DEF Entry
<1> HIDE DEF bucket
<1>5. BucketGood(bs, b, bucket)
  BY <1>1, <1>3, <1>4 DEF BucketGood
<1>6. BucketAgrees(bs, b, bucket, f)
  <2>1. f = [x \in DOMAIN f |-> f[x]] /\ DOMAIN f = KeysOf(bs) /\ DOMAIN f \subseteq DictKey
    BY KeysInBucket DEF Put
  <2>2. f[k] = v /\ \A x \in KeysOf(bs) \ {k} : f[x] = AsFunction(bs)[x]
    BY DEF Put
  <2> HIDE DEF f
  <2>3. ASSUME NEW x \in DictKey, BucketOf(x, Len(bs)) = b
        PROVE  x \in DOMAIN f <=> \E i \in 1 .. Len(bucket) : bucket[i].key = x
    BY <2>1, <2>3, <1>3, <1>4, InBucket DEF Bucket
  <2>4. ASSUME NEW i \in 1 .. Len(bucket) PROVE f[bucket[i].key] = bucket[i].value
    BY <2>2, <1>3, <1>4, ValueOfPlace
  <2> QED BY <2>1, <2>2, <2>3, <2>4 DEF BucketAgrees
<1>7. DOMAIN f = KeysOf(bs) \cup {k}
  BY DEF Put
<1> HIDE DEF f
<1>8. Good(new) /\ Len(new) = Len(bs) /\ KeysOf(new) = DOMAIN f /\ AsFunction(new) = f
  BY <1>5, <1>6, BucketReplaced DEF bucket
<1> QED BY <1>7, <1>8 DEF f

(* An entry is taken out, and those behind it move up.                     *)
LEMMA RemovedKeeps ==
  ASSUME NEW bs, Good(bs), NEW b \in 1 .. Len(bs), NEW p \in 1 .. Len(bs[b]),
         NEW new, Replaces(bs, b, _bucket_remove(bs[b], p - 1), new)
  PROVE  /\ Good(new) /\ Len(new) = Len(bs)
         /\ KeysOf(new) = KeysOf(bs) \ {bs[b][p].key} /\ AsFunction(new) = Taken(bs, bs[b][p].key)
<1> DEFINE k == bs[b][p].key
           bucket == _bucket_remove(bs[b], p - 1)
           f == Taken(bs, k)
           From(i) == IF i < p THEN i ELSE i + 1
<1>1. BucketGood(bs, b, bs[b])
  BY BucketIsGood
<1>2. bs[b] \in Seq(Entry) /\ Len(bs[b]) \in Nat /\ k \in DictKey /\ BucketOf(k, Len(bs)) = b
  <2>1. bs[b] \in Seq(Entry) /\ Len(bs[b]) \in Nat /\ BucketOf(k, Len(bs)) = b
    BY <1>1 DEF BucketGood
  <2>2. bs[b][p] \in Entry
    BY <2>1
  <2> QED BY <2>1, <2>2 DEF Entry
<1>3. /\ bucket \in Seq(Entry) /\ Len(bucket) = Len(bs[b]) - 1
      /\ \A i \in 1 .. Len(bs[b]) - 1 : bucket[i] = [bs[b][From(i)] EXCEPT !.ix = i - 1]
  <2> DEFINE rest == RemoveAt(bs[b], p)
  <2>1. /\ rest \in Seq(Entry) /\ Len(rest) = Len(bs[b]) - 1
        /\ \A i \in 1 .. Len(bs[b]) - 1 : rest[i] = bs[b][From(i)]
    BY <1>2, RemovedAt
  <2>2. bucket = [i \in DOMAIN rest |-> [rest[i] EXCEPT !.ix = i - 1]]
    BY DEF _bucket_remove
  <2>3. DOMAIN rest = 1 .. Len(bs[b]) - 1
    BY <2>1, <1>2
  <2> HIDE DEF rest, From
  <2>4. /\ bucket = [i \in 1 .. Len(bs[b]) - 1 |-> bucket[i]]
        /\ \A i \in 1 .. Len(bs[b]) - 1 : bucket[i] = [bs[b][From(i)] EXCEPT !.ix = i - 1]
    BY <2>1, <2>2, <2>3
  <2>5. ASSUME NEW i \in 1 .. Len(bs[b]) - 1, NEW e \in Entry PROVE [e EXCEPT !.ix = i - 1] \in Entry
    <3>1. i - 1 \in Nat
      BY <1>2
    <3> QED BY <3>1 DEF Entry
  <2>6. \A i \in 1 .. Len(bs[b]) - 1 : rest[i] \in Entry
    BY <2>1, <2>3
  <2> HIDE DEF bucket
  <2>7. \A i \in 1 .. Len(bs[b]) - 1 : bucket[i] \in Entry
    <3> SUFFICES ASSUME NEW i \in 1 .. Len(bs[b]) - 1 PROVE bucket[i] \in Entry
      OBVIOUS
    <3>1. bs[b][From(i)] \in Entry
      BY <2>1, <2>6
    <3> QED BY <3>1, <2>4, <2>5
  <2>8. Len(bs[b]) - 1 \in Nat
    BY <1>2
  <2>9. bucket \in Seq(Entry) /\ Len(bucket) = Len(bs[b]) - 1
    <3>1. bucket \in [1 .. Len(bs[b]) - 1 -> Entry]
      BY <2>4, <2>7
    <3> QED BY <3>1, <2>8, SequenceOf
  <2> QED BY <2>4, <2>9
<1>4. ASSUME NEW i \in 1 .. Len(bucket)
      PROVE  /\ From(i) \in 1 .. Len(bs[b]) /\ From(i) # p /\ bucket[i].ix = i - 1
             /\ bucket[i].key = bs[b][From(i)].key /\ bucket[i].value = bs[b][From(i)].value
  <2>1. From(i) \in 1 .. Len(bs[b]) /\ From(i) # p
    BY <1>2, <1>3
  <2>2. bs[b][From(i)] \in Entry
    BY <1>2, <2>1
  <2> HIDE DEF From
  <2> QED BY <2>1, <2>2, <1>3 DEF Entry
<1>5. ASSUME NEW j \in 1 .. Len(bs[b]), j # p
      PROVE  \E i \in 1 .. Len(bucket) : From(i) = j
  <2>1. CASE j < p
    BY <2>1, <1>2, <1>3
  <2>2. CASE j > p
    <3>1. j - 1 \in 1 .. Len(bucket) /\ From(j - 1) = j
      BY <2>2, <1>2, <1>3
    <3> QED BY <3>1
  <2> QED BY <2>1, <2>2, <1>5
<1>6. \A i, j \in 1 .. Len(bucket) : From(i) = From(j) => i = j
  BY <1>2, <1>3
<1> HIDE DEF bucket, From
<1>7. BucketGood(bs, b, bucket)
  <2>0. /\ \A i \in 1 .. Len(bs[b]) : BucketOf(bs[b][i].key, Len(bs)) = b
        /\ \A i, j \in 1 .. Len(bs[b]) : bs[b][i].key = bs[b][j].key => i = j
    BY <1>1 DEF BucketGood
  <2>1. ASSUME NEW i \in 1 .. Len(bucket)
        PROVE  bucket[i].ix = i - 1 /\ BucketOf(bucket[i].key, Len(bs)) = b
    <3>1. From(i) \in 1 .. Len(bs[b]) /\ bucket[i].ix = i - 1 /\ bucket[i].key = bs[b][From(i)].key
      BY <1>4
    <3> QED BY <2>0, <3>1
  <2>2. ASSUME NEW i \in 1 .. Len(bucket), NEW j \in 1 .. Len(bucket), bucket[i].key = bucket[j].key
        PROVE  i = j
    <3>1. From(i) = From(j)
      <4>1. /\ From(i) \in 1 .. Len(bs[b]) /\ bucket[i].key = bs[b][From(i)].key
            /\ From(j) \in 1 .. Len(bs[b]) /\ bucket[j].key = bs[b][From(j)].key
        BY <1>4
      <4> QED BY <2>0, <2>2, <4>1
    <3> QED BY <3>1, <1>6
  <2> QED BY <2>1, <2>2, <1>3 DEF BucketGood
<1>8. BucketAgrees(bs, b, bucket, f)
  <2>1. f = [x \in DOMAIN f |-> f[x]] /\ DOMAIN f = KeysOf(bs) \ {k} /\ DOMAIN f \subseteq DictKey
        /\ \A x \in KeysOf(bs) \ {k} : f[x] = AsFunction(bs)[x]
    BY KeysInBucket DEF Taken
  <2> HIDE DEF f
  <2>2. ASSUME NEW i \in 1 .. Len(bucket) PROVE bucket[i].key # k
    <3>1. bs[b][From(i)].key # bs[b][p].key
      BY <1>1, <1>4 DEF BucketGood
    <3> QED BY <3>1, <1>4
  <2>k. k = bs[b][p].key
    OBVIOUS
  <2> HIDE DEF k
  <2>3. ASSUME NEW x \in DictKey, BucketOf(x, Len(bs)) = b
        PROVE  x \in DOMAIN f <=> \E i \in 1 .. Len(bucket) : bucket[i].key = x
    <3>1. x \in KeysOf(bs) <=> \E j \in 1 .. Len(bs[b]) : bs[b][j].key = x
      BY <2>3, InBucket DEF Bucket
    <3>2. ASSUME x \in DOMAIN f PROVE \E i \in 1 .. Len(bucket) : bucket[i].key = x
      <4>1. PICK j \in 1 .. Len(bs[b]) : bs[b][j].key = x
        BY <3>1, <3>2, <2>1
      <4>2. j # p
        BY <4>1, <3>2, <2>1, <2>k
      <4>3. PICK i \in 1 .. Len(bucket) : From(i) = j
        BY <4>2, <1>5
      <4> QED BY <4>1, <4>3, <1>4
    <3>3. ASSUME NEW i \in 1 .. Len(bucket), bucket[i].key = x PROVE x \in DOMAIN f
      <4>1. From(i) \in 1 .. Len(bs[b]) /\ bs[b][From(i)].key = x
        BY <3>3, <1>4
      <4> QED BY <4>1, <3>1, <3>3, <2>1, <2>2
    <3> QED BY <3>2, <3>3
  <2>4. ASSUME NEW i \in 1 .. Len(bucket) PROVE f[bucket[i].key] = bucket[i].value
    <3>1. /\ bs[b][From(i)].key \in KeysOf(bs)
          /\ AsFunction(bs)[bs[b][From(i)].key] = bs[b][From(i)].value
      BY <1>4, ValueOfPlace
    <3> QED BY <3>1, <2>1, <2>2, <1>4
  <2>5. ASSUME NEW x \in DictKey, BucketOf(x, Len(bs)) # b
        PROVE  (x \in DOMAIN f <=> x \in KeysOf(bs)) /\ (x \in KeysOf(bs) => f[x] = AsFunction(bs)[x])
    <3>1. x # k
      BY <2>5, <2>k, <1>2
    <3> QED BY <3>1, <2>1
  <2> QED BY <2>1, <2>3, <2>4, <2>5, <1>2 DEF BucketAgrees
<1>9. DOMAIN f = KeysOf(bs) \ {k}
  BY DEF Taken
<1> HIDE DEF f
<1>10. Good(new) /\ Len(new) = Len(bs) /\ KeysOf(new) = DOMAIN f /\ AsFunction(new) = f
  BY <1>7, <1>8, BucketReplaced DEF bucket
<1> QED BY <1>9, <1>10 DEF f
-----------------------------------------------------------------------------
(* The entries of a table, bucket by bucket: every key once.               *)
Lists(entries, bs) ==
  /\ entries \in Seq(Entry)
  /\ \A i, j \in 1 .. Len(entries) : entries[i].key = entries[j].key => i = j
  /\ \A i \in 1 .. Len(entries) :
       /\ entries[i].key \in KeysOf(bs)
       /\ AsFunction(bs)[entries[i].key] = entries[i].value
  /\ \A k \in KeysOf(bs) : \E i \in 1 .. Len(entries) : entries[i].key = k

(* The buckets one after the other list every entry, and each key once.    *)
LEMMA EntriesListed ==
  ASSUME NEW bs, Good(bs)
  PROVE  Lists(FlattenSeq(bs), bs)
<1> DEFINE entries == FlattenSeq(bs)
<1>1. bs \in Seq(Seq(Entry))
  BY DEF Good
<1>2. entries \in Seq(Entry) /\ \E row, col : Unfolds(bs, Len(bs), entries, row, col)
  <2> HIDE DEF Entry
  <2> QED BY <1>1, FlattenUnfolds
<1>3. PICK row, col : Unfolds(bs, Len(bs), entries, row, col)
  BY <1>2
<1> HIDE DEF entries
<1>4. ASSUME NEW i \in 1 .. Len(entries)
      PROVE  /\ row[i] \in 1 .. Len(bs) /\ col[i] \in 1 .. Len(bs[row[i]])
             /\ entries[i] = bs[row[i]][col[i]]
  BY <1>3 DEF Unfolds
<1>5. ASSUME NEW i \in 1 .. Len(entries), NEW j \in 1 .. Len(entries), entries[i].key = entries[j].key
      PROVE  i = j
  <2>1. row[i] = row[j]
    <3>1. \A h \in 1 .. Len(entries) : row[h] = BucketOf(entries[h].key, Len(bs))
      BY <1>4 DEF Good, InPlace
    <3> QED BY <1>5, <3>1
  <2>2. col[i] = col[j]
    <3>1. /\ row[i] \in 1 .. Len(bs) /\ col[i] \in 1 .. Len(bs[row[i]]) /\ col[j] \in 1 .. Len(bs[row[i]])
          /\ bs[row[i]][col[i]].key = bs[row[i]][col[j]].key
      BY <1>4, <1>5, <2>1
    <3> QED BY <3>1 DEF Good, Once
  <2> QED BY <2>1, <2>2, <1>3 DEF Unfolds
<1>6. ASSUME NEW i \in 1 .. Len(entries)
      PROVE  entries[i].key \in KeysOf(bs) /\ AsFunction(bs)[entries[i].key] = entries[i].value
  BY <1>4, ValueOfPlace
<1>7. ASSUME NEW k \in KeysOf(bs) PROVE \E i \in 1 .. Len(entries) : entries[i].key = k
  <2>1. PICK b, j : b \in 1 .. Len(bs) /\ j \in 1 .. Len(bs[b]) /\ bs[b][j].key = k
    BY KeysArePlaced
  <2>2. PICK i \in 1 .. Len(entries) : row[i] = b /\ col[i] = j
    BY <2>1, <1>3 DEF Unfolds
  <2> QED BY <2>1, <2>2, <1>4
<1>8. Lists(entries, bs)
  BY <1>2, <1>5, <1>6, <1>7 DEF Lists
<1> QED BY <1>8 DEF entries

(* A table of empty buckets stands for the empty function.                 *)
LEMMA EmptyTable ==
  ASSUME NEW n \in Nat, NEW bs, bs = [b \in 1 .. n |-> <<>>]
  PROVE  Good(bs) /\ Len(bs) = n /\ EntriesIn(bs) = {} /\ KeysOf(bs) = {} /\ AsFunction(bs) = <<>>
<1>1. bs \in Seq(Seq(Entry)) /\ Len(bs) = n /\ \A b \in 1 .. n : bs[b] = <<>>
  <2>1. <<>> \in Seq(Entry)
    OBVIOUS
  <2>2. bs \in [1 .. n -> Seq(Entry)]
    BY <2>1
  <2> QED BY <2>2, SequenceOf
<1>2. \A b \in 1 .. n : Len(bs[b]) = 0
  BY <1>1
<1>3. Good(bs)
  BY <1>1, <1>2 DEF Good, InPlace, Once
<1>4. EntriesIn(bs) = {}
  <2>1. \A e : ~(e \in EntriesIn(bs))
    BY <1>1, <1>2, <1>3, EntriesArePlaced
  <2> QED BY <2>1
<1>5. KeysOf(bs) = {}
  BY <1>4 DEF KeysOf
<1>6. AsFunction(bs) = <<>>
  <2>1. {e.key : e \in EntriesIn(bs)} = {}
    BY <1>4
  <2>2. AsFunction(bs) = [k \in {} |-> AsFunction(bs)[k]]
    BY <2>1 DEF AsFunction
  <2> HIDE DEF AsFunction
  <2> QED BY <2>2
<1> QED BY <1>1, <1>3, <1>4, <1>5, <1>6

(* The entries are copied one by one: after n of them the new table stands *)
(* for what these n say.                                                   *)
Copy(old, entries, copied) ==
  copied = [n \in 0 .. Len(entries) |->
              IF n = 0 THEN [b \in 1 .. 2 * Len(old) |-> <<>>]
              ELSE [copied[n - 1] EXCEPT ![BucketOf(entries[n].key, 2 * Len(old))] =
                      _bucket_init_entry(@, entries[n].key, entries[n].value)]]

(* The function a rehash copies by exists, and so does what it says.       *)
LEMMA CopyExists ==
  ASSUME NEW old \in Seq(Seq(Entry)), old # <<>>, NEW entries \in Seq(Entry)
  PROVE  \E copied : Copy(old, entries, copied)
<1> DEFINE N == 2 * Len(old)
           T == [1 .. N -> Seq(Entry)]
           none == [b \in 1 .. N |-> <<>>]
           B(n) == BucketOf(entries[n].key, N)
           With(t, n) == [t EXCEPT ![B(n)] = _bucket_init_entry(@, entries[n].key, entries[n].value)]
           step == [x \in Nat \X T |->
                      IF x[1] + 1 \in 1 .. Len(entries) THEN With(x[2], x[1] + 1) ELSE x[2]]
<1>1. N \in Nat \ {0} /\ Len(entries) \in Nat
  OBVIOUS
<1>2. none \in T
  OBVIOUS
<1>3. step \in [Nat \X T -> T]
  <2> SUFFICES ASSUME NEW n \in Nat, NEW t \in T, n + 1 \in 1 .. Len(entries)
               PROVE  With(t, n + 1) \in T
    OBVIOUS
  <2>1. entries[n + 1] \in Entry
    OBVIOUS
  <2>2. entries[n + 1].key \in DictKey /\ entries[n + 1].value \in DictValue
    BY <2>1 DEF Entry
  <2>3. B(n + 1) \in 1 .. N
    BY <1>1, <2>2, BucketInTable
  <2>4. t[B(n + 1)] \in Seq(Entry)
    BY <2>3
  <2>5. _bucket_init_entry(t[B(n + 1)], entries[n + 1].key, entries[n + 1].value) \in Seq(Entry)
    <3> DEFINE e == [key |-> entries[n + 1].key, value |-> entries[n + 1].value, ix |-> Len(t[B(n + 1)])]
    <3>1. Len(t[B(n + 1)]) \in Nat
      BY <2>4
    <3>2. e \in Entry
      BY <2>2, <3>1 DEF Entry
    <3> HIDE DEF e
    <3>3. Append(t[B(n + 1)], e) \in Seq(Entry)
      BY <2>4, <3>2
    <3> QED BY <3>3 DEF _bucket_init_entry, e
  <2> HIDE DEF B, N
  <2> QED BY <2>3, <2>5
<1>4. PICK f \in [Nat -> T] : Recurs(f, none, step)
  <2> HIDE DEF T, none, step
  <2> QED BY <1>2, <1>3, RecursionExists
<1> DEFINE g == [n \in 0 .. Len(entries) |-> f[n]]
<1>5. ASSUME NEW n \in 0 .. Len(entries)
      PROVE  g[n] = IF n = 0 THEN none ELSE With(g[n - 1], n)
  <2>1. CASE n = 0
    BY <2>1, <1>4 DEF Recurs
  <2>2. CASE n # 0
    <3>1. n - 1 \in Nat /\ (n - 1) + 1 = n /\ n - 1 \in 0 .. Len(entries) /\ n \in 1 .. Len(entries)
      BY <2>2, <1>1
    <3>2. f[n - 1] \in T
      BY <3>1
    <3>3. f[(n - 1) + 1] = step[<<n - 1, f[n - 1]>>]
      BY <3>1, <1>4 DEF Recurs
    <3>4. step[<<n - 1, f[n - 1]>>] = With(f[n - 1], n)
      <4> HIDE DEF T, With
      <4> QED BY <3>1, <3>2
    <3> HIDE DEF With, step
    <3> QED BY <2>2, <3>1, <3>3, <3>4
  <2> QED BY <2>1, <2>2
<1>6. g = [n \in 0 .. Len(entries) |-> IF n = 0 THEN none ELSE With(g[n - 1], n)]
  <2> HIDE DEF none, With
  <2> QED BY <1>5
<1>7. Copy(old, entries, g)
  <2> HIDE DEF g
  <2> QED BY <1>6 DEF Copy
<1> QED BY <1>7

(* What has been copied after n entries.                                   *)
Copied(tab, N, entries, n) ==
  /\ Good(tab) /\ Len(tab) = N
  /\ \A k : k \in KeysOf(tab) <=> \E i \in 1 .. n : entries[i].key = k
  /\ \A i \in 1 .. n : AsFunction(tab)[entries[i].key] = entries[i].value

(* Copying one more entry puts one more key into the new table.            *)
LEMMA OneMoreCopied ==
  ASSUME NEW entries \in Seq(Entry),
         \A i, j \in 1 .. Len(entries) : entries[i].key = entries[j].key => i = j,
         NEW n \in Nat, n + 1 \in 1 .. Len(entries), NEW N \in Nat \ {0},
         NEW tab, Copied(tab, N, entries, n),
         NEW new, Replaces(tab, BucketOf(entries[n + 1].key, N),
                           _bucket_init_entry(tab[BucketOf(entries[n + 1].key, N)],
                                              entries[n + 1].key, entries[n + 1].value), new)
  PROVE  Copied(new, N, entries, n + 1)
<1> DEFINE k == entries[n + 1].key
           v == entries[n + 1].value
           b == BucketOf(k, N)
<1>1. k \in DictKey /\ v \in DictValue
  <2>1. entries[n + 1] \in Entry
    OBVIOUS
  <2> QED BY <2>1 DEF Entry
<1>2. Good(tab) /\ Len(tab) = N /\ b \in 1 .. N
  BY <1>1, BucketInTable DEF Copied
<1>3. k \notin KeysOf(tab)
  <2> SUFFICES ASSUME k \in KeysOf(tab) PROVE FALSE
    OBVIOUS
  <2>1. PICK i \in 1 .. n : entries[i].key = k
    BY DEF Copied
  <2> QED BY <2>1
<1>4. /\ Good(new) /\ Len(new) = N
      /\ KeysOf(new) = KeysOf(tab) \cup {k} /\ AsFunction(new) = Put(tab, k, v)
  <2>1. Replaces(tab, b, _bucket_init_entry(tab[b], k, v), new)
    OBVIOUS
  <2> HIDE DEF k, v
  <2> QED BY <1>1, <1>2, <1>3, <2>1, AddedKeeps
<1>5. ASSUME NEW i \in 1 .. n + 1 PROVE i = n + 1 \/ (i \in 1 .. n /\ i # n + 1 /\ entries[i].key # k)
  OBVIOUS
<1>6. ASSUME NEW x
      PROVE  x \in KeysOf(new) <=> \E i \in 1 .. n + 1 : entries[i].key = x
  <2>1. CASE x = k
    <3>1. n + 1 \in 1 .. n + 1
      OBVIOUS
    <3> QED BY <2>1, <3>1, <1>4
  <2>2. CASE x # k
    <3>1. x \in KeysOf(new) <=> x \in KeysOf(tab)
      BY <2>2, <1>4
    <3>2. \A i \in 1 .. n : i \in 1 .. n + 1
      OBVIOUS
    <3> QED BY <2>2, <3>1, <3>2, <1>5 DEF Copied
  <2> QED BY <2>1, <2>2
<1>7. ASSUME NEW i \in 1 .. n + 1 PROVE AsFunction(new)[entries[i].key] = entries[i].value
  <2>1. CASE i = n + 1
    BY <2>1, <1>4 DEF Put
  <2>2. CASE i \in 1 .. n /\ entries[i].key # k
    <3>1. entries[i].key \in KeysOf(tab) /\ AsFunction(tab)[entries[i].key] = entries[i].value
      BY <2>2 DEF Copied
    <3> QED BY <2>2, <3>1, <1>4 DEF Put
  <2> QED BY <2>1, <2>2, <1>5
<1> QED BY <1>4, <1>6, <1>7 DEF Copied

(* A rehash arrives with all entries copied.                               *)
LEMMA AllCopied ==
  ASSUME NEW bs, Good(bs), bs # <<>>, NEW copied, Copy(bs, FlattenSeq(bs), copied)
  PROVE  Copied(copied[Len(FlattenSeq(bs))], 2 * Len(bs), FlattenSeq(bs), Len(FlattenSeq(bs)))
<1> DEFINE entries == FlattenSeq(bs)
           N == 2 * Len(bs)
           A == {n \in Nat : n \in 0 .. Len(entries) => Copied(copied[n], N, entries, n)}
<1>1. Lists(entries, bs)
  BY EntriesListed
<1> HIDE DEF entries
<1>2. entries \in Seq(Entry) /\ Len(entries) \in Nat /\ N \in Nat \ {0}
  BY <1>1 DEF Lists, Good
<1>3. /\ copied[0] = [b \in 1 .. N |-> <<>>]
      /\ \A n \in Nat : n + 1 \in 1 .. Len(entries) =>
           Replaces(copied[n], BucketOf(entries[n + 1].key, N),
                    _bucket_init_entry(copied[n][BucketOf(entries[n + 1].key, N)],
                                       entries[n + 1].key, entries[n + 1].value), copied[n + 1])
  <2>1. copied = [n \in 0 .. Len(entries) |->
              IF n = 0 THEN [b \in 1 .. N |-> <<>>]
              ELSE [copied[n - 1] EXCEPT ![BucketOf(entries[n].key, N)] =
                      _bucket_init_entry(@, entries[n].key, entries[n].value)]]
    BY DEF Copy, entries
  <2>2. copied[0] = [b \in 1 .. N |-> <<>>]
    <3>1. 0 \in 0 .. Len(entries)
      BY <1>2
    <3> QED BY <2>1, <3>1
  <2>3. ASSUME NEW n \in Nat, n + 1 \in 1 .. Len(entries)
        PROVE  copied[n + 1] = [copied[n] EXCEPT ![BucketOf(entries[n + 1].key, N)] =
                                  _bucket_init_entry(@, entries[n + 1].key, entries[n + 1].value)]
    <3>1. n + 1 \in 0 .. Len(entries) /\ n + 1 # 0 /\ (n + 1) - 1 = n
      BY <2>3, <1>2
    <3> HIDE DEF N
    <3> QED BY <2>1, <3>1
  <2> QED BY <2>2, <2>3 DEF Replaces
<1>4. 0 \in A
  <2>1. /\ Good(copied[0]) /\ Len(copied[0]) = N /\ KeysOf(copied[0]) = {}
    BY <1>2, <1>3, EmptyTable
  <2> QED BY <2>1 DEF Copied
<1>5. ASSUME NEW n \in Nat, n \in A PROVE n + 1 \in A
  <2> SUFFICES ASSUME n + 1 \in 0 .. Len(entries) PROVE Copied(copied[n + 1], N, entries, n + 1)
    OBVIOUS
  <2>1. n + 1 \in 1 .. Len(entries) /\ Copied(copied[n], N, entries, n)
    BY <1>2, <1>5
  <2>2. \A i, j \in 1 .. Len(entries) : entries[i].key = entries[j].key => i = j
    BY <1>1 DEF Lists
  <2> HIDE DEF N
  <2> QED BY <1>2, <1>3, <2>1, <2>2, OneMoreCopied
<1>6. Nat \subseteq A
  <2> HIDE DEF A
  <2> QED BY <1>4, <1>5, SetInduction
<1>7. Len(entries) \in A
  BY <1>2, <1>6
<1>8. Copied(copied[Len(entries)], N, entries, Len(entries))
  BY <1>2, <1>7
<1> QED BY <1>8 DEF entries

(* A table that is rehashed stands for what it stood for.                  *)
LEMMA RehashKeeps ==
  ASSUME NEW bs, Good(bs)
  PROVE  /\ Good(_dict_rehash(bs))
         /\ Len(_dict_rehash(bs)) = IF bs = <<>> THEN INIT_BUCKETS ELSE 2 * Len(bs)
         /\ KeysOf(_dict_rehash(bs)) = KeysOf(bs) /\ AsFunction(_dict_rehash(bs)) = AsFunction(bs)
<1>1. CASE bs = <<>>
  <2>1. _dict_rehash(bs) = [b \in 1 .. INIT_BUCKETS |-> <<>>]
    BY <1>1 DEF _dict_rehash
  <2>2. /\ Good(_dict_rehash(bs)) /\ Len(_dict_rehash(bs)) = INIT_BUCKETS
        /\ KeysOf(_dict_rehash(bs)) = {} /\ AsFunction(_dict_rehash(bs)) = <<>>
    BY <2>1, HashAssumption, EmptyTable
  <2>3. bs = [b \in 1 .. 0 |-> <<>>]
    BY <1>1
  <2>4. KeysOf(bs) = {} /\ AsFunction(bs) = <<>>
    BY <2>3, EmptyTable
  <2> QED BY <1>1, <2>2, <2>4
<1>2. CASE bs # <<>>
  <2> DEFINE entries == FlattenSeq(bs)
             copied == CHOOSE c : Copy(bs, entries, c)
             new == copied[Len(entries)]
  <2>1. Lists(entries, bs)
    BY EntriesListed
  <2>2. Copy(bs, entries, copied)
    <3>1. \E c : Copy(bs, entries, c)
      <4> HIDE DEF entries
      <4> QED BY <2>1, <1>2, CopyExists DEF Lists, Good
    <3> QED BY <3>1
  <2>3. _dict_rehash(bs) = new
    BY <1>2 DEF _dict_rehash, Copy
  <2>4. Copied(new, 2 * Len(bs), entries, Len(entries))
    <3> HIDE DEF copied
    <3> QED BY <2>2, <1>2, AllCopied
  <2> HIDE DEF entries, new
  <2>5. Good(new) /\ Len(new) = 2 * Len(bs)
    BY <2>4 DEF Copied
  <2>6. KeysOf(new) = KeysOf(bs)
    <3>1. \A k : k \in KeysOf(new) <=> k \in KeysOf(bs)
      BY <2>1, <2>4 DEF Copied, Lists
    <3> QED BY <3>1
  <2>7. ASSUME NEW k \in KeysOf(bs) PROVE AsFunction(new)[k] = AsFunction(bs)[k]
    BY <2>1, <2>4 DEF Copied, Lists
  <2>8. AsFunction(new) = AsFunction(bs)
    <3>1. /\ AsFunction(new) = [k \in KeysOf(new) |-> AsFunction(new)[k]]
          /\ AsFunction(bs) = [k \in KeysOf(bs) |-> AsFunction(bs)[k]]
      BY DEF AsFunction, KeysOf
    <3> QED BY <3>1, <2>6, <2>7
  <2> QED BY <1>2, <2>3, <2>5, <2>6, <2>8
<1> QED BY <1>1, <1>2
-----------------------------------------------------------------------------
(* A look into the bucket of a key finds the place of its one entry.       *)
LEMMA PositionFound ==
  ASSUME NEW bs, Good(bs), NEW k \in KeysOf(bs)
  PROVE  \E p \in 1 .. Len(Bucket(bs, k)) :
           /\ Bucket(bs, k)[p].key = k
           /\ _bucket_position_of(Bucket(bs, k), k) = {p - 1}
           /\ ValuesOf(Bucket(bs, k), {p - 1}) = {AsFunction(bs)[k]}
<1> DEFINE b == BucketOf(k, Len(bs))
<1>1. b \in 1 .. Len(bs) /\ Bucket(bs, k) = bs[b]
  BY KeysInBucket DEF Bucket
<1>2. PICK p \in 1 .. Len(bs[b]) : bs[b][p].key = k
  BY <1>1, KeysInBucket
<1> HIDE DEF b
<1>3. DOMAIN bs[b] = 1 .. Len(bs[b])
  BY <1>1 DEF Good
<1>4. \A j \in 1 .. Len(bs[b]) : bs[b][j].ix = j - 1 /\ (bs[b][j].key = k => j = p)
  BY <1>1, <1>2 DEF Good, InPlace, Once
<1>5. _bucket_position_of(bs[b], k) = {p - 1}
  BY <1>2, <1>3, <1>4 DEF _bucket_position_of
<1>6. bs[b][p].value = AsFunction(bs)[k]
  BY <1>1, <1>2, ValueOfPlace
<1>7. (p - 1) + 1 = p
  BY <1>2
<1>8. ValuesOf(bs[b], {p - 1}) = {AsFunction(bs)[k]}
  BY <1>6, <1>7 DEF ValuesOf
<1> QED BY <1>1, <1>2, <1>5, <1>8

(* A key that is not in the table is at no position of its bucket.         *)
LEMMA NoPosition ==
  ASSUME NEW bs, Good(bs), bs # <<>>, NEW k \in DictKey, k \notin KeysOf(bs)
  PROVE  _bucket_position_of(Bucket(bs, k), k) = {}
<1>1. BucketOf(k, Len(bs)) \in 1 .. Len(bs)
  BY BucketInTable DEF Good
<1>2. \A i \in DOMAIN Bucket(bs, k) : Bucket(bs, k)[i].key # k
  BY <1>1, KeysArePlaced DEF Good, Bucket
<1> QED BY <1>2 DEF _bucket_position_of

(* What Found says of a key.                                               *)
LEMMA FoundIsRight ==
  ASSUME DictInv, NEW k \in DictKey
  PROVE  /\ k \notin KeysOf(buckets) => Found(k) = {}
         /\ k \in KeysOf(buckets) =>
              /\ BucketOf(k, num_buckets) \in 1 .. num_buckets
              /\ \E p \in 1 .. Len(buckets[BucketOf(k, num_buckets)]) :
                   /\ buckets[BucketOf(k, num_buckets)][p].key = k /\ Found(k) = {p - 1}
                   /\ ValuesOf(buckets[BucketOf(k, num_buckets)], {p - 1}) = {AsFunction(buckets)[k]}
<1>1. Good(buckets)
  BY DEF DictInv
<1>2. CASE k \in KeysOf(buckets)
  <2>1. dictSize # 0
    BY <1>2, FS_EmptySet DEF DictInv
  <2>2. Found(k) = _bucket_position_of(Bucket(buckets, k), k)
    BY <2>1 DEF Found, Bucket, num_buckets
  <2>3. BucketOf(k, num_buckets) \in 1 .. num_buckets
    BY <1>1, <1>2, KeysInBucket DEF num_buckets
  <2>4. Bucket(buckets, k) = buckets[BucketOf(k, num_buckets)]
    BY DEF Bucket, num_buckets
  <2>5. \E p \in 1 .. Len(Bucket(buckets, k)) :
           /\ Bucket(buckets, k)[p].key = k
           /\ _bucket_position_of(Bucket(buckets, k), k) = {p - 1}
           /\ ValuesOf(Bucket(buckets, k), {p - 1}) = {AsFunction(buckets)[k]}
    BY <1>1, <1>2, PositionFound
  <2> QED BY <1>2, <2>2, <2>3, <2>4, <2>5
<1>3. CASE k \notin KeysOf(buckets)
  <2>1. CASE dictSize = 0
    BY <1>3, <2>1 DEF Found
  <2>2. CASE dictSize # 0
    <3>1. buckets # <<>>
      <4> SUFFICES ASSUME buckets = <<>> PROVE FALSE
        OBVIOUS
      <4>1. KeysOf(buckets) = {}
        BY <1>1, KeysArePlaced
      <4> QED BY <4>1, <2>2, FS_EmptySet DEF DictInv
    <3>2. Found(k) = _bucket_position_of(Bucket(buckets, k), k)
      BY <2>2 DEF Found, Bucket, num_buckets
    <3> QED BY <1>1, <1>3, <3>1, <3>2, NoPosition
  <2> QED BY <2>1, <2>2
<1> QED BY <1>2, <1>3

(* dict_put: the value is written over that of the key, or added.          *)
LEMMA PutPuts ==
  ASSUME DictInv, NEW k \in DictKey, NEW v \in DictValue, dict_put(k, v)
  PROVE  DictInv' /\ Contents!Put(k, v)
<1> DEFINE ready == IF Overloaded THEN _dict_rehash(buckets) ELSE buckets
           b == BucketOf(k, Len(ready))
           at == _bucket_position_of(ready[b], k)
           f == Put(buckets, k, v)
<1>1. Good(buckets) /\ Len(buckets) \in Nat /\ dictSize \in Nat /\ dictSize = Cardinality(KeysOf(buckets))
      /\ IsFiniteSet(KeysOf(buckets)) /\ Len(buckets) # 1 /\ 4 * dictSize <= 3 * Len(buckets)
  BY FS_CardinalityType DEF DictInv, Good, num_buckets
<1>2. /\ Good(ready) /\ KeysOf(ready) = KeysOf(buckets) /\ AsFunction(ready) = AsFunction(buckets)
      /\ Len(ready) \in Nat \ {0, 1} /\ 4 * (dictSize + 1) <= 3 * Len(ready)
  <2>1. CASE Overloaded
    <3>1. ready = _dict_rehash(buckets)
      BY <2>1
    <3>2. Len(ready) = IF buckets = <<>> THEN INIT_BUCKETS ELSE 2 * Len(buckets)
      BY <3>1, <1>1, RehashKeeps
    <3>3. Len(ready) \in Nat \ {0, 1} /\ 4 * (dictSize + 1) <= 3 * Len(ready)
      <4>1. buckets # <<>> => Len(buckets) # 0
        BY <1>1 DEF Good
      <4>2. buckets = <<>> => Len(buckets) = 0
        OBVIOUS
      <4> HIDE DEF ready
      <4> QED BY <4>1, <4>2, <3>2, <1>1, HashAssumption
    <3> QED BY <3>1, <3>3, <1>1, RehashKeeps
  <2>2. CASE ~Overloaded
    BY <2>2, <1>1 DEF Overloaded, num_buckets
  <2> QED BY <2>1, <2>2
<1>3. /\ Replaces(ready, b, IF at = {} THEN _bucket_init_entry(ready[b], k, v)
                            ELSE Overwritten(ready[b], k, v), buckets')
      /\ dictSize' = dictSize + (IF at = {} THEN 1 ELSE 0)
      /\ dictResult' = TRUE /\ dictFreed' = ValuesOf(ready[b], at)
  BY DEF dict_put, Replaces, Overwritten, Answers
<1> HIDE DEF ready
<1>4. b \in 1 .. Len(ready) /\ Bucket(ready, k) = ready[b]
  BY <1>2, BucketInTable DEF Bucket
<1> HIDE DEF b
<1>5. ready # <<>>
  BY <1>2
<1>6. /\ Good(buckets') /\ Len(buckets') = Len(ready)
      /\ KeysOf(buckets') = KeysOf(buckets) \cup {k} /\ AsFunction(buckets') = f
      /\ dictSize' = Cardinality(KeysOf(buckets')) /\ IsFiniteSet(KeysOf(buckets'))
      /\ dictSize' <= dictSize + 1 /\ dictSize' \in Nat
      /\ dictFreed' = {AsFunction(buckets)[x] : x \in KeysOf(buckets) \cap {k}}
  <2>1. CASE k \in KeysOf(buckets)
    <3>0. \E p \in 1 .. Len(Bucket(ready, k)) :
             /\ Bucket(ready, k)[p].key = k
             /\ _bucket_position_of(Bucket(ready, k), k) = {p - 1}
             /\ ValuesOf(Bucket(ready, k), {p - 1}) = {AsFunction(ready)[k]}
      BY <2>1, <1>2, PositionFound
    <3>1. PICK p : at = {p - 1} /\ ValuesOf(ready[b], {p - 1}) = {AsFunction(ready)[k]}
      BY <3>0, <1>4
    <3>2. at # {} /\ dictFreed' = {AsFunction(buckets)[k]} /\ dictSize' = dictSize
      <4>1. dictFreed' = ValuesOf(ready[b], at) /\ dictSize' = dictSize + (IF at = {} THEN 1 ELSE 0)
        BY <1>3
      <4>2. at # {}
        BY <3>1
      <4>3. AsFunction(ready) = AsFunction(buckets)
        BY <1>2
      <4> HIDE DEF at
      <4>4. dictFreed' = {AsFunction(buckets)[k]}
        BY <3>1, <4>1, <4>3
      <4>5. dictSize' = dictSize
        BY <4>1, <4>2, <1>1
      <4> QED BY <4>2, <4>4, <4>5
    <3>3. /\ Good(buckets') /\ Len(buckets') = Len(ready)
          /\ KeysOf(buckets') = KeysOf(buckets) \cup {k} /\ AsFunction(buckets') = Put(ready, k, v)
      <4>1. Replaces(ready, b, Overwritten(ready[b], k, v), buckets')
        BY <3>2, <1>3
      <4> QED BY <4>1, <2>1, <1>2, <1>4, OverwrittenKeeps DEF b
    <3>4. Put(ready, k, v) = f /\ KeysOf(buckets) \cup {k} = KeysOf(buckets)
      BY <2>1, <1>2 DEF Put
    <3>5. dictFreed' = {AsFunction(buckets)[x] : x \in KeysOf(buckets) \cap {k}}
      BY <3>2, <2>1
    <3>6. KeysOf(buckets') = KeysOf(buckets)
      BY <3>3, <3>4
    <3> HIDE DEF f
    <3>7. dictSize' = Cardinality(KeysOf(buckets')) /\ IsFiniteSet(KeysOf(buckets'))
      BY <3>2, <3>6, <1>1
    <3>8. dictSize' <= dictSize + 1 /\ dictSize' \in Nat
      BY <3>2, <1>1
    <3>9. AsFunction(buckets') = f
      BY <3>3, <3>4
    <3> QED BY <3>3, <3>5, <3>7, <3>8, <3>9
  <2>2. CASE k \notin KeysOf(buckets)
    <3>1. at = {}
      BY <2>2, <1>2, <1>4, <1>5, NoPosition
    <3>2. dictFreed' = {} /\ dictSize' = dictSize + 1
      BY <3>1, <1>3 DEF ValuesOf
    <3>3. /\ Good(buckets') /\ Len(buckets') = Len(ready)
          /\ KeysOf(buckets') = KeysOf(buckets) \cup {k} /\ AsFunction(buckets') = Put(ready, k, v)
      <4>1. Replaces(ready, b, _bucket_init_entry(ready[b], k, v), buckets')
        BY <3>1, <1>3
      <4> QED BY <4>1, <2>2, <1>2, <1>4, AddedKeeps DEF b
    <3>4. Put(ready, k, v) = f
      BY <1>2 DEF Put
    <3>5. /\ IsFiniteSet(KeysOf(buckets) \cup {k})
          /\ Cardinality(KeysOf(buckets) \cup {k}) = dictSize + 1
      BY <2>2, <1>1, FS_AddElement
    <3>6. dictFreed' = {AsFunction(buckets)[x] : x \in KeysOf(buckets) \cap {k}}
      BY <3>2, <2>2
    <3> HIDE DEF f
    <3>7. dictSize' = Cardinality(KeysOf(buckets')) /\ IsFiniteSet(KeysOf(buckets'))
      BY <3>2, <3>3, <3>5
    <3>8. dictSize' <= dictSize + 1 /\ dictSize' \in Nat
      BY <3>2, <1>1
    <3>9. AsFunction(buckets') = f
      BY <3>3, <3>4
    <3> QED BY <3>3, <3>6, <3>7, <3>8, <3>9
  <2> QED BY <2>1, <2>2
<1>7. DictInv'
  BY <1>1, <1>2, <1>6 DEF DictInv, num_buckets
<1>8. Contents!Put(k, v)
  <2>1. DOMAIN AsFunction(buckets) = KeysOf(buckets)
    BY DEF AsFunction, KeysOf
  <2>2. AsFunction(buckets)' = AsFunction(buckets')
    BY DEF AsFunction, EntriesIn
  <2>3. AsFunction(buckets)' =
          [x \in DOMAIN AsFunction(buckets) \cup {k} |-> IF x = k THEN v ELSE AsFunction(buckets)[x]]
    BY <2>1, <2>2, <1>6 DEF Put
  <2> HIDE DEF f
  <2> QED BY <2>1, <2>3, <1>3, <1>6 DEF Contents!Put
<1> QED BY <1>7, <1>8

(* The end of dict_remove and dict_pop: the entry leaves, or nothing does. *)
LEMMA RemoveTakes ==
  ASSUME DictInv, NEW k \in DictKey, RemoveEntry(k)
  PROVE  /\ DictInv' /\ AsFunction(buckets)' = Taken(buckets, k)
         /\ k \notin KeysOf(buckets) => Found(k) = {}
         /\ k \in KeysOf(buckets) =>
              /\ Found(k) # {}
              /\ ValuesOf(buckets[BucketOf(k, num_buckets)], Found(k)) = {AsFunction(buckets)[k]}
<1>1. Good(buckets) /\ Len(buckets) \in Nat /\ dictSize \in Nat /\ dictSize = Cardinality(KeysOf(buckets))
      /\ IsFiniteSet(KeysOf(buckets)) /\ Len(buckets) # 1 /\ 4 * dictSize <= 3 * Len(buckets)
  BY FS_CardinalityType DEF DictInv, Good, num_buckets
<1>2. AsFunction(buckets)' = AsFunction(buckets')
  BY DEF AsFunction, EntriesIn
<1>3. CASE k \notin KeysOf(buckets)
  <2>1. Found(k) = {}
    BY <1>3, FoundIsRight
  <2>2. buckets' = buckets /\ dictSize' = dictSize
    BY <2>1 DEF RemoveEntry, table
  <2>3. Taken(buckets, k) = AsFunction(buckets)
    BY <1>3 DEF Taken, AsFunction, KeysOf
  <2>4. DictInv'
    BY <2>2 DEF DictInv, num_buckets
  <2> QED BY <1>2, <1>3, <2>1, <2>2, <2>3, <2>4
<1>4. CASE k \in KeysOf(buckets)
  <2> DEFINE b == BucketOf(k, Len(buckets))
  <2>1. /\ b \in 1 .. Len(buckets)
        /\ \E p \in 1 .. Len(buckets[b]) :
             /\ buckets[b][p].key = k /\ Found(k) = {p - 1}
             /\ ValuesOf(buckets[b], {p - 1}) = {AsFunction(buckets)[k]}
    BY <1>4, FoundIsRight DEF num_buckets
  <2>2. PICK p \in 1 .. Len(buckets[b]) :
             /\ buckets[b][p].key = k /\ Found(k) = {p - 1}
             /\ ValuesOf(buckets[b], {p - 1}) = {AsFunction(buckets)[k]}
    BY <2>1
  <2>3. Found(k) # {} /\ (CHOOSE ix \in Found(k) : TRUE) = p - 1
    BY <2>2
  <2>4. buckets' = [buckets EXCEPT ![b] = _bucket_remove(@, CHOOSE ix \in Found(k) : TRUE)]
        /\ dictSize' = dictSize - 1
    BY <2>3 DEF RemoveEntry, num_buckets
  <2>5. Replaces(buckets, b, _bucket_remove(buckets[b], p - 1), buckets')
    BY <2>3, <2>4 DEF Replaces
  <2>6. ValuesOf(buckets[BucketOf(k, num_buckets)], Found(k)) = {AsFunction(buckets)[k]}
    BY <2>2 DEF num_buckets
  <2> HIDE DEF b
  <2>7. /\ Good(buckets') /\ Len(buckets') = Len(buckets)
        /\ KeysOf(buckets') = KeysOf(buckets) \ {k} /\ AsFunction(buckets') = Taken(buckets, k)
    BY <1>1, <2>1, <2>2, <2>5, RemovedKeeps
  <2>8. IsFiniteSet(KeysOf(buckets) \ {k}) /\ Cardinality(KeysOf(buckets) \ {k}) = dictSize - 1
    BY <1>1, <1>4, FS_RemoveElement
  <2>9. DictInv'
    <3>1. Len(buckets') # 1 /\ 4 * dictSize' <= 3 * Len(buckets')
      BY <1>1, <2>4, <2>7
    <3>2. dictSize' = Cardinality(KeysOf(buckets')) /\ IsFiniteSet(KeysOf(buckets'))
      BY <2>4, <2>7, <2>8
    <3> QED BY <2>7, <3>1, <3>2 DEF DictInv, num_buckets
  <2> QED BY <1>2, <1>4, <2>3, <2>6, <2>7, <2>9
<1> QED BY <1>3, <1>4

(* What is left of the function, and what is asked of it.                  *)
LEMMA AsMapping ==
  ASSUME NEW k
  PROVE  /\ DOMAIN AsFunction(buckets) = KeysOf(buckets)
         /\ Taken(buckets, k) = Contents!Less(k)
         /\ Contents!Has(k) <=> k \in KeysOf(buckets)
         /\ Contents!Got(k) = IF k \in KeysOf(buckets) THEN AsFunction(buckets)[k] ELSE DictNull
<1>1. DOMAIN AsFunction(buckets) = KeysOf(buckets)
  BY DEF AsFunction, KeysOf
<1> QED BY <1>1 DEF Taken, Contents!Less, Contents!Has, Contents!Got

(* dict_remove, dict_pop and dict_get answer what the function says.       *)
LEMMA RemoveRemoves ==
  ASSUME DictInv, NEW k \in DictKey, dict_remove(k)
  PROVE  DictInv' /\ Contents!Remove(k)
<1>1. /\ DictInv' /\ AsFunction(buckets)' = Taken(buckets, k)
      /\ k \notin KeysOf(buckets) => Found(k) = {}
      /\ k \in KeysOf(buckets) =>
           /\ Found(k) # {}
           /\ ValuesOf(buckets[BucketOf(k, num_buckets)], Found(k)) = {AsFunction(buckets)[k]}
  BY RemoveTakes DEF dict_remove
<1>2. dictResult' = (Found(k) # {})
      /\ dictFreed' = IF Found(k) = {} THEN {}
                      ELSE ValuesOf(buckets[BucketOf(k, num_buckets)], Found(k))
  BY DEF dict_remove, Answers
<1>3. /\ dictResult' = (k \in KeysOf(buckets))
      /\ dictFreed' = {AsFunction(buckets)[x] : x \in KeysOf(buckets) \cap {k}}
  <2>1. CASE k \in KeysOf(buckets)
    BY <2>1, <1>1, <1>2
  <2>2. CASE k \notin KeysOf(buckets)
    BY <2>2, <1>1, <1>2
  <2> QED BY <2>1, <2>2
<1>4. AsFunction(buckets)' = Contents!Less(k)
  BY <1>1, AsMapping
<1>5. dictResult' = Contents!Has(k)
  BY <1>3 DEF Contents!Has, AsFunction, KeysOf
<1>6. dictFreed' = {AsFunction(buckets)[x] : x \in DOMAIN AsFunction(buckets) \cap {k}}
  BY <1>3, AsMapping
<1> QED BY <1>1, <1>4, <1>5, <1>6 DEF Contents!Remove

(* What is found is the value the abstract dictionary has.                 *)
LEMMA ValueIsGot ==
  ASSUME DictInv, NEW k \in DictKey
  PROVE  ValueAt(k) = Contents!Got(k)
<1>1. CASE k \notin KeysOf(buckets)
  BY <1>1, FoundIsRight, AsMapping DEF ValueAt
<1>2. CASE k \in KeysOf(buckets)
  <2>1. PICK p : /\ Found(k) = {p - 1}
                 /\ ValuesOf(buckets[BucketOf(k, num_buckets)], {p - 1}) = {AsFunction(buckets)[k]}
    BY <1>2, FoundIsRight
  <2> QED BY <1>2, <2>1, AsMapping DEF ValueAt
<1> QED BY <1>1, <1>2

(* dict_pop takes the key out and answers with its value.                  *)
LEMMA PopPops ==
  ASSUME DictInv, NEW k \in DictKey, dict_pop(k)
  PROVE  DictInv' /\ Contents!Pop(k)
<1>1. DictInv' /\ AsFunction(buckets)' = Taken(buckets, k)
  BY RemoveTakes DEF dict_pop
<1>2. dictResult' = ValueAt(k) /\ dictFreed' = {}
  BY DEF dict_pop, Answers
<1> QED BY <1>1, <1>2, AsMapping, ValueIsGot DEF Contents!Pop

(* dict_get answers with the value and changes nothing.                    *)
LEMMA GetGets ==
  ASSUME DictInv, NEW k \in DictKey, dict_get(k)
  PROVE  DictInv' /\ Contents!Get(k)
<1>1. buckets' = buckets /\ dictSize' = dictSize /\ dictResult' = ValueAt(k) /\ dictFreed' = {}
  BY DEF dict_get, Answers, table
<1>2. DictInv'
  BY <1>1 DEF DictInv, num_buckets
<1>3. AsFunction(buckets)' = AsFunction(buckets)
  BY <1>1 DEF AsFunction, EntriesIn
<1> QED BY <1>1, <1>2, <1>3, ValueIsGot DEF Contents!Get

(* dict_clear frees every value there is and leaves no key.                *)
LEMMA ClearClears ==
  ASSUME DictInv, dict_clear
  PROVE  DictInv' /\ Contents!Clear
<1>1. Good(buckets) /\ Len(buckets) \in Nat /\ IsFiniteSet(KeysOf(buckets))
      /\ dictSize = Cardinality(KeysOf(buckets)) /\ Len(buckets) # 1 /\ 4 * dictSize <= 3 * Len(buckets)
  BY DEF DictInv, Good, num_buckets
<1>2. Good(buckets') /\ Len(buckets') = Len(buckets) /\ KeysOf(buckets') = {} /\ AsFunction(buckets') = <<>>
  <2>1. CASE dictSize = 0
    <3>1. KeysOf(buckets) = {} /\ buckets' = buckets
      BY <2>1, <1>1, FS_EmptySet DEF dict_clear
    <3>2. AsFunction(buckets) = <<>>
      <4>1. AsFunction(buckets) = [k \in {} |-> AsFunction(buckets)[k]]
        BY <3>1 DEF AsFunction, KeysOf
      <4> HIDE DEF AsFunction
      <4> QED BY <4>1
    <3> QED BY <3>1, <3>2, <1>1
  <2>2. CASE dictSize # 0
    <3>1. buckets' = [b \in 1 .. Len(buckets) |-> <<>>]
      BY <2>2, <1>1 DEF dict_clear, Good
    <3> QED BY <3>1, <1>1, EmptyTable
  <2> QED BY <2>1, <2>2
<1>3. dictSize' = 0 /\ dictResult' = TRUE /\ dictFreed' = {e.value : e \in EntriesIn(buckets)}
  BY DEF dict_clear, Answers
<1>4. DictInv'
  <2>1. IsFiniteSet({}) /\ Cardinality({}) = 0
    BY FS_EmptySet
  <2>2. 4 * dictSize' <= 3 * Len(buckets')
    BY <1>1, <1>2, <1>3
  <2> QED BY <1>1, <1>2, <1>3, <2>1, <2>2 DEF DictInv, num_buckets
<1>5. {e.value : e \in EntriesIn(buckets)} = {AsFunction(buckets)[x] : x \in KeysOf(buckets)}
  <2>1. ASSUME NEW e \in EntriesIn(buckets)
        PROVE  e.key \in KeysOf(buckets) /\ AsFunction(buckets)[e.key] = e.value
    <3>1. PICK b, i : b \in 1 .. Len(buckets) /\ i \in 1 .. Len(buckets[b]) /\ e = buckets[b][i]
      BY <1>1, EntriesArePlaced
    <3> QED BY <3>1, <1>1, ValueOfPlace
  <2>2. ASSUME NEW x \in KeysOf(buckets)
        PROVE  \E e \in EntriesIn(buckets) : e.value = AsFunction(buckets)[x]
    <3>1. PICK e \in EntriesIn(buckets) : e.key = x
      BY DEF KeysOf
    <3> QED BY <3>1, <2>1
  <2> QED BY <2>1, <2>2
<1>6. AsFunction(buckets)' = <<>>
  BY <1>2 DEF AsFunction, EntriesIn
<1>7. DOMAIN AsFunction(buckets) = KeysOf(buckets)
  BY AsMapping
<1> QED BY <1>3, <1>4, <1>5, <1>6, <1>7 DEF Contents!Clear

(* The iterator leaves the table alone.                                    *)
IteratorMoves == di_head \/ di_tail \/ di_next \/ di_prev

(* No move of the iterator touches the table.                              *)
LEMMA IteratorKeeps ==
  ASSUME DictInv, IteratorMoves \/ UNCHANGED dictVars
  PROVE  DictInv' /\ UNCHANGED <<AsFunction(buckets), dictResult, dictFreed>>
<1>1. UNCHANGED <<buckets, dictSize, dictResult, dictFreed>>
  BY DEF IteratorMoves, di_head, di_tail, di_next, di_prev, Iterates, table, dictVars
<1>2. DictInv'
  BY <1>1 DEF DictInv, num_buckets
<1>3. AsFunction(buckets)' = AsFunction(buckets)
  BY <1>1 DEF AsFunction, EntriesIn
<1> QED BY <1>1, <1>2, <1>3

(* A new dictionary is empty.                                              *)
LEMMA DictStarts ==
  ASSUME DictInit
  PROVE  DictInv /\ Contents!Init
<1>1. buckets = [b \in 1 .. 0 |-> <<>>]
  BY DEF DictInit
<1>2. Good(buckets) /\ Len(buckets) = 0 /\ KeysOf(buckets) = {} /\ AsFunction(buckets) = <<>>
  BY <1>1, EmptyTable
<1>3. dictSize = 0 /\ dictResult = DictNull /\ dictFreed = {}
  BY DEF DictInit
<1> QED BY <1>2, <1>3, FS_EmptySet DEF DictInv, num_buckets, Contents!Init

(* Every step keeps the table in order and is a step of the mapping, or    *)
(* one it does not see.                                                    *)
LEMMA DictSteps ==
  ASSUME DictInv, [DictNext]_dictVars
  PROVE  DictInv' /\ [Contents!Next]_<<AsFunction(buckets), dictResult, dictFreed>>
<1>1. CASE dict_clear
  BY <1>1, ClearClears DEF Contents!Next
<1>2. CASE IteratorMoves \/ UNCHANGED dictVars
  BY <1>2, IteratorKeeps
<1>3. CASE \E k \in DictKey : \/ dict_get(k) \/ dict_remove(k) \/ dict_pop(k)
                              \/ \E v \in DictValue : dict_put(k, v)
  <2> PICK k \in DictKey : \/ dict_get(k) \/ dict_remove(k) \/ dict_pop(k)
                           \/ \E v \in DictValue : dict_put(k, v)
    BY <1>3
  <2>1. CASE dict_get(k)
    BY <2>1, GetGets DEF Contents!Next
  <2>2. CASE dict_remove(k)
    BY <2>2, RemoveRemoves DEF Contents!Next
  <2>3. CASE dict_pop(k)
    BY <2>3, PopPops DEF Contents!Next
  <2>4. CASE \E v \in DictValue : dict_put(k, v)
    BY <2>4, PutPuts DEF Contents!Next
  <2> QED BY <2>1, <2>2, <2>3, <2>4
<1> QED BY <1>1, <1>2, <1>3 DEF DictNext, IteratorMoves
-----------------------------------------------------------------------------
(* Of every dictionary: its entries lie where they are looked up, no key   *)
(* twice, and the size counts them.                                        *)
THEOREM TableInOrder == DictSpec => []DictInv
<1>1. DictInit => DictInv
  BY DictStarts
<1>2. DictInv /\ [DictNext]_dictVars => DictInv'
  BY DictSteps
<1> QED BY <1>1, <1>2, PTL DEF DictSpec

(* dict.c:273, :227, :595 -- the entries in one list know their places, no *)
(* key is listed twice, and a quarter of the table is free.                *)
THEOREM TableIsSound == DictSpec => []DictTable
<1>1. DictInv => DictTable
  <2> SUFFICES ASSUME DictInv PROVE DictTable
    OBVIOUS
  <2>1. Good(buckets) /\ Lists(DictEntries, buckets)
    BY EntriesListed DEF DictInv, DictEntries
  <2>2. \A b \in DOMAIN buckets : \A i \in DOMAIN buckets[b] :
          buckets[b][i].ix = i - 1 /\ BucketOf(buckets[b][i].key, num_buckets) = b
    <3> SUFFICES ASSUME NEW b \in DOMAIN buckets, NEW i \in DOMAIN buckets[b]
                 PROVE  buckets[b][i].ix = i - 1 /\ BucketOf(buckets[b][i].key, num_buckets) = b
      OBVIOUS
    <3>1. b \in 1 .. Len(buckets) /\ buckets[b] \in Seq(Entry)
      BY <2>1 DEF Good
    <3>2. i \in 1 .. Len(buckets[b])
      BY <3>1
    <3> QED BY <2>1, <3>1, <3>2 DEF Good, InPlace, num_buckets
  <2>3. IsInjective(dict_keys)
    <3>1. DOMAIN DictEntries = 1 .. Len(DictEntries)
      BY <2>1 DEF Lists
    <3> QED BY <2>1, <3>1 DEF Lists, IsInjective, dict_keys
  <2>4. dictSize = Len(DictEntries)
    <3> DEFINE n == Len(DictEntries)
               f == [i \in 1 .. n |-> DictEntries[i].key]
    <3>1. n \in Nat /\ IsFiniteSet(1 .. n) /\ Cardinality(1 .. n) = n
      <4>1. n \in Nat
        BY <2>1 DEF Lists
      <4>2. IsFiniteSet(1 .. n) /\ Cardinality(1 .. n) = IF 1 > n THEN 0 ELSE n - 1 + 1
        BY <4>1, FS_Interval
      <4> QED BY <4>1, <4>2
    <3>2. f \in Bijection(1 .. n, KeysOf(buckets))
      BY <2>1 DEF Lists, Bijection, Injection, IsInjective, Surjection
    <3>3. ExistsBijection(1 .. n, KeysOf(buckets))
      <4> HIDE DEF f, n
      <4> QED BY <3>2 DEF ExistsBijection
    <3>4. Cardinality(KeysOf(buckets)) = n
      <4> HIDE DEF f, n
      <4> QED BY <3>1, <3>3, FS_Bijection
    <3> QED BY <3>4 DEF DictInv
  <2> QED BY <2>2, <2>3, <2>4 DEF DictTable, DictInv
<1> QED BY <1>1, TableInOrder, PTL

(* dict.c -- a dictionary is the function its interface promises: its      *)
(* tables grow, its buckets close up, and no caller sees it.               *)
THEOREM DictionaryIsMapping == DictSpec => DictIsMapping
<1>1. DictInit => Contents!Init
  BY DictStarts
<1>2. DictInv /\ [DictNext]_dictVars => [Contents!Next]_<<AsFunction(buckets), dictResult, dictFreed>>
  BY DictSteps
<1> QED BY <1>1, <1>2, TableInOrder, PTL DEF DictSpec, DictIsMapping, Contents!Spec
-----------------------------------------------------------------------------
(* A set of numbers between two bounds has a smallest and a largest.       *)
LEMMA EndsOfASet ==
  ASSUME NEW lo \in Int, NEW hi \in Int, NEW S \in SUBSET (lo .. hi), S # {}
  PROVE  Min(S) \in S /\ (\A y \in S : Min(S) <= y) /\ Max(S) \in S /\ (\A y \in S : y <= Max(S))
<1>1. \E x \in S : \A y \in S : x <= y
  <2> SUFFICES ASSUME \A x \in S : \E y \in S : y < x PROVE FALSE
    OBVIOUS
  <2> DEFINE A == {n \in Nat : \A y \in S : ~(y < lo + n)}
  <2>1. 0 \in A
    OBVIOUS
  <2>2. ASSUME NEW n \in Nat, n \in A PROVE n + 1 \in A
    BY <2>2
  <2>3. Nat \subseteq A
    <3> HIDE DEF A
    <3> QED BY <2>1, <2>2, SetInduction
  <2>4. PICK x \in S : TRUE
    OBVIOUS
  <2>5. (hi - lo) + 1 \in Nat /\ lo + ((hi - lo) + 1) = hi + 1 /\ x < hi + 1
    OBVIOUS
  <2> QED BY <2>3, <2>4, <2>5
<1>2. \E x \in S : \A y \in S : x >= y
  <2> SUFFICES ASSUME \A x \in S : \E y \in S : y > x PROVE FALSE
    OBVIOUS
  <2> DEFINE A == {n \in Nat : \A y \in S : ~(y > hi - n)}
  <2>1. 0 \in A
    OBVIOUS
  <2>2. ASSUME NEW n \in Nat, n \in A PROVE n + 1 \in A
    BY <2>2
  <2>3. Nat \subseteq A
    <3> HIDE DEF A
    <3> QED BY <2>1, <2>2, SetInduction
  <2>4. PICK x \in S : TRUE
    OBVIOUS
  <2>5. (hi - lo) + 1 \in Nat /\ hi - ((hi - lo) + 1) = lo - 1 /\ x > lo - 1
    OBVIOUS
  <2> QED BY <2>3, <2>4, <2>5
<1>3. Min(S) \in S /\ \A y \in S : Min(S) <= y
  BY <1>1 DEF Min
<1>4. Max(S) \in S /\ \A y \in S : Max(S) >= y
  BY <1>2 DEF Max
<1>5. \A y \in S : y <= Max(S)
  BY <1>4
<1> QED BY <1>3, <1>4, <1>5

(* Where the iterator of a dictionary can stand.                           *)
Standing == di \in [bucket : Int, entry : Int] /\ di.entry >= -1

IterInv == DictInv /\ Standing

(* A move of the iterator ends on an entry.                                *)
LEMMA MovesFind ==
  ASSUME IterInv, di_next \/ di_prev
  PROVE  Standing' /\ di'.entry \in 0 .. SizeOf(di'.bucket) - 1
<1>1. num_buckets \in Nat /\ di.bucket \in Int /\ di.entry \in Int /\ di.entry >= -1
      /\ \A b \in Int : SizeOf(b) \in Nat
  <2>1. buckets \in Seq(Seq(Entry))
    BY DEF IterInv, DictInv, Good
  <2>2. \A b \in Int : SizeOf(b) \in Nat
    <3> SUFFICES ASSUME NEW b \in Int, b \in 0 .. num_buckets - 1 PROVE Len(buckets[b + 1]) \in Nat
      BY DEF SizeOf
    <3>1. b + 1 \in 1 .. Len(buckets)
      BY <2>1 DEF num_buckets
    <3> QED BY <2>1, <3>1
  <2> QED BY <2>1, <2>2 DEF IterInv, Standing, num_buckets
<1>2. CASE di_next
  <2> DEFINE S == _di_bucket_next
             b == Min(S)
             e == EntryOnWayUp(b) + 1
  <2>1. di' = [bucket |-> b, entry |-> e] /\ S # {}
    BY <1>2 DEF di_next, Iterates
  <2>2. b \in S
    <3>1. S \in SUBSET (di.bucket .. num_buckets - 1)
      BY DEF _di_bucket_next
    <3>2. num_buckets - 1 \in Int
      BY <1>1
    <3> HIDE DEF S
    <3> QED BY <1>1, <2>1, <3>1, <3>2, EndsOfASet
  <2> HIDE DEF b
  <2>3. b \in Int /\ SizeOf(b) > 0 /\ EntryOnWayUp(b) < SizeOf(b) - 1
    BY <1>1, <2>2 DEF _di_bucket_next, _di_bucket_has_next
  <2>4. EntryOnWayUp(b) \in Int /\ EntryOnWayUp(b) >= -1
    BY <1>1 DEF EntryOnWayUp
  <2>5. SizeOf(b) \in Nat
    BY <1>1, <2>3
  <2>6. e \in 0 .. SizeOf(b) - 1
    BY <2>3, <2>4, <2>5
  <2> HIDE DEF e
  <2> QED BY <2>1, <2>3, <2>5, <2>6 DEF Standing
<1>3. CASE di_prev
  <2> DEFINE S == _di_bucket_prev
             b == Max(S)
             e == EntryOnWayDown(b) - 1
  <2>1. di' = [bucket |-> b, entry |-> e] /\ S # {}
    BY <1>3 DEF di_prev, Iterates
  <2>2. b \in S
    <3> DEFINE hi == di.bucket
               lo == 0
    <3>1. S \in SUBSET (lo .. hi) /\ lo \in Int /\ hi \in Int
      BY <1>1 DEF _di_bucket_prev
    <3> HIDE DEF S, lo, hi
    <3> QED BY <2>1, <3>1, EndsOfASet
  <2> HIDE DEF b
  <2>3. b \in Int /\ EntryOnWayDown(b) > 0 /\ EntryOnWayDown(b) <= SizeOf(b)
    BY <1>1, <2>2 DEF _di_bucket_prev, _di_bucket_has_prev
  <2>4. SizeOf(b) \in Nat /\ EntryOnWayDown(b) \in Int
    BY <1>1, <2>3 DEF EntryOnWayDown
  <2>5. e \in 0 .. SizeOf(b) - 1
    BY <2>3, <2>4
  <2> HIDE DEF e
  <2> QED BY <2>1, <2>3, <2>4, <2>5 DEF Standing
<1> QED BY <1>2, <1>3

(* The iterator stands somewhere after every step.                         *)
LEMMA StandingKept ==
  ASSUME IterInv, [DictNext]_dictVars
  PROVE  IterInv'
<1>1. DictInv'
  BY DictSteps DEF IterInv
<1>2. CASE di' = di
  BY <1>1, <1>2 DEF IterInv, Standing
<1>3. CASE di_next \/ di_prev
  BY <1>1, <1>3, MovesFind DEF IterInv
<1>4. CASE di_head
  BY <1>1, <1>4 DEF di_head, Iterates, IterInv, Standing
<1>5. CASE di_tail
  <2> DEFINE n == num_buckets
             e == IF n = 0 THEN -1 ELSE SizeOf(n - 1)
  <2>1. di' = [bucket |-> n - 1, entry |-> e]
    BY <1>5 DEF di_tail, Iterates
  <2>2. n \in Nat /\ (n # 0 => SizeOf(n - 1) \in Nat)
    <3>1. buckets \in Seq(Seq(Entry))
      BY DEF IterInv, DictInv, Good
    <3>2. n \in Nat /\ (n # 0 => n - 1 \in 0 .. n - 1 /\ (n - 1) + 1 \in 1 .. Len(buckets))
      BY <3>1 DEF num_buckets
    <3>3. n # 0 => Len(buckets[(n - 1) + 1]) \in Nat
      BY <3>1, <3>2
    <3> QED BY <3>2, <3>3 DEF SizeOf
  <2>3. n - 1 \in Int /\ e \in Int /\ e >= -1
    BY <2>2
  <2> HIDE DEF n, e
  <2> QED BY <1>1, <2>1, <2>3 DEF IterInv, Standing
<1>6. di' = di \/ di_next \/ di_prev \/ di_head \/ di_tail
  BY DEF DictNext, dictVars, dict_clear, dict_get, dict_remove, dict_pop, dict_put, Changed
<1> QED BY <1>2, <1>3, <1>4, <1>5, <1>6

(* dict.c:844, :849 -- the iterator finds an entry wherever the table has  *)
(* left it.                                                                *)
THEOREM IteratorFinds == DictSpec => IteratorFindsEntries
<1>1. DictInit => IterInv
  BY DictStarts DEF DictInit, IterInv, Standing
<1>2. IterInv /\ [DictNext]_dictVars => IterInv'
  BY StandingKept
<1>3. IterInv /\ [DictNext]_dictVars
      => [di_next \/ di_prev => di'.entry \in 0 .. SizeOf(di'.bucket) - 1]_dictVars
  BY MovesFind
<1> QED BY <1>1, <1>2, <1>3, PTL DEF DictSpec, IteratorFindsEntries
-----------------------------------------------------------------------------
(* No element twice.                                                       *)
Distinct(s) == \A i, j \in DOMAIN s : s[i] = s[j] => i = j

(* A sequence from its first element to its last is all of it.             *)
LEMMA WholeSubSeq ==
  ASSUME NEW S, NEW s \in Seq(S)
  PROVE  SubSeq(s, 1, Len(s)) = s
<1> DEFINE t == SubSeq(s, 1, Len(s))
<1>1. t \in Seq(S) /\ Len(t) = Len(s) /\ \A i \in 1 .. Len(s) : t[i] = s[i]
  OBVIOUS
<1> HIDE DEF t
<1> QED BY <1>1, SeqEqual DEF t

(* A sequence without an element twice is not longer than its set.         *)
LEMMA OnceIsShort ==
  ASSUME NEW S, IsFiniteSet(S), NEW s \in Seq(S), Distinct(s)
  PROVE  Len(s) <= Cardinality(S) /\ Cardinality(S) \in Nat
<1>1. Cardinality(S) \in Nat
  BY FS_CardinalityType
<1>2. IsFiniteSet(1 .. Len(s)) /\ Cardinality(1 .. Len(s)) = Len(s)
  <2> DEFINE n == Len(s)
  <2>1. n \in Nat
    OBVIOUS
  <2> HIDE DEF n
  <2> QED BY <2>1, FS_Interval DEF n
<1>3. s \in [1 .. Len(s) -> S]
  OBVIOUS
<1>4. ASSUME Len(s) > Cardinality(S) PROVE FALSE
  <2>1. \E x, y \in 1 .. Len(s) : x # y /\ s[x] = s[y]
    BY <1>1, <1>2, <1>3, <1>4, FS_PigeonHole
  <2> QED BY <2>1 DEF Distinct
<1> QED BY <1>1, <1>4

(* The cells of a list in their order, its head the one before the first.  *)
At(s, l, i) == IF i = 0 THEN HeadOf(l) ELSE IF i = Len(s) + 1 THEN TailOf(l) ELSE s[i]

(* The step from cell c leads to the first of s, from each to the next and *)
(* from the last to something that is not a node.                          *)
Leads(s, c, step, over) ==
  /\ s \in Seq(Node) /\ Distinct(s) /\ over \notin Node
  /\ step[c] = IF s = <<>> THEN over ELSE s[1]
  /\ \A i \in 1 .. Len(s) : step[s[i]] = IF i = Len(s) THEN over ELSE s[i + 1]

(* The walk along cells that follow each other collects them.              *)
LEMMA ChainCollects ==
  ASSUME NEW s, NEW c, NEW step, NEW over, Leads(s, c, step, over)
  PROVE  Chain(c, step) = s
<1> SUFFICES ASSUME s \in Seq(Node), Distinct(s), over \notin Node, step[c] = IF s = <<>> THEN over ELSE s[1],
                    \A i \in 1 .. Len(s) : step[s[i]] = IF i = Len(s) THEN over ELSE s[i + 1]
             PROVE  Chain(c, step) = s
  BY DEF Leads
<1> DEFINE N == Cardinality(Node)
           Longer(k, w) == LET n == IF k = 1 THEN step[c] ELSE step[Last(w)]
                           IN IF Len(w) = k - 1 /\ n \in Node THEN Append(w, n) ELSE w
           upto(k) == SubSeq(s, 1, IF k < Len(s) THEN k ELSE Len(s))
           f == [k \in 0 .. N |-> upto(k)]
           walk == CHOOSE g : g = [k \in 0 .. N |-> IF k = 0 THEN <<>> ELSE Longer(k, g[k - 1])]
<1>1. Len(s) <= N /\ N \in Nat /\ Len(s) \in Nat
  BY OnceIsShort, ListAssumption
<1>2. ASSUME NEW k \in 1 .. N PROVE upto(k) = Longer(k, upto(k - 1))
  <2>1. k \in Nat /\ k >= 1
    BY <1>1
  <2>2. CASE k > Len(s)
    <3>1. upto(k) = s /\ upto(k - 1) = s
      <4>1. SubSeq(s, 1, Len(s)) = s
        BY WholeSubSeq
      <4>2. (IF k < Len(s) THEN k ELSE Len(s)) = Len(s) /\ (IF k - 1 < Len(s) THEN k - 1 ELSE Len(s)) = Len(s)
        BY <2>1, <2>2, <1>1
      <4> QED BY <4>1, <4>2
    <3>2. CASE Len(s) = k - 1 /\ k = 1
      <4>1. s = <<>>
        BY <3>2
      <4> QED BY <4>1, <3>1, <3>2
    <3>3. CASE Len(s) = k - 1 /\ k # 1
      <4>1. Last(s) = s[Len(s)] /\ Len(s) \in 1 .. Len(s)
        BY <3>3, <2>1, <1>1 DEF Last
      <4>2. step[Last(s)] = over
        BY <4>1
      <4> QED BY <4>2, <3>1, <3>3
    <3>4. CASE Len(s) # k - 1
      BY <3>1, <3>4
    <3> QED BY <3>2, <3>3, <3>4
  <2>3. CASE k <= Len(s)
    <3> DEFINE t == SubSeq(s, 1, k - 1)
    <3>1. upto(k) = SubSeq(s, 1, k) /\ upto(k - 1) = t
      BY <2>1, <2>3, <1>1
    <3>2. t \in Seq(Node) /\ Len(t) = k - 1 /\ \A i \in 1 .. k - 1 : t[i] = s[i]
      BY <2>1, <2>3, <1>1
    <3>3. s[k] \in Node /\ SubSeq(s, 1, k) = Append(t, s[k])
      <4>1. s[k] \in Node
        BY <2>1, <2>3
      <4>2. Len(SubSeq(s, 1, k)) = k /\ \A i \in 1 .. k : SubSeq(s, 1, k)[i] = s[i]
        BY <2>1, <2>3, <1>1
      <4>3. Len(Append(t, s[k])) = k /\ \A i \in 1 .. k : Append(t, s[k])[i] = s[i]
        BY <3>2, <4>1, <2>1
      <4>4. SubSeq(s, 1, k) \in Seq(Node) /\ Append(t, s[k]) \in Seq(Node)
        BY <3>2, <4>1, <2>1, <2>3, <1>1
      <4> HIDE DEF t
      <4> QED BY <4>2, <4>3, <4>4, SeqEqual
    <3>4. (IF k = 1 THEN step[c] ELSE step[Last(t)]) = s[k]
      <4>1. CASE k = 1
        <5>1. s # <<>>
          BY <4>1, <2>3
        <5> QED BY <5>1, <4>1
      <4>2. CASE k # 1
        <5>1. Last(t) = s[k - 1] /\ k - 1 \in 1 .. Len(s) /\ k - 1 # Len(s) /\ (k - 1) + 1 = k
          <6>1. Last(t) = t[k - 1] /\ k - 1 \in 1 .. k - 1
            <7> HIDE DEF t
            <7> QED BY <3>2, <4>2, <2>1 DEF Last
          <6> QED BY <6>1, <3>2, <4>2, <2>1, <2>3
        <5> QED BY <5>1, <4>2
      <4> QED BY <4>1, <4>2
    <3> HIDE DEF t, upto
    <3> QED BY <3>1, <3>2, <3>3, <3>4
  <2> QED BY <2>1, <2>2, <2>3, <1>1
<1>3. upto(0) = <<>>
  BY <1>1
<1>4. f = [k \in 0 .. N |-> IF k = 0 THEN <<>> ELSE Longer(k, f[k - 1])]
  <2>1. ASSUME NEW k \in 0 .. N PROVE f[k] = IF k = 0 THEN <<>> ELSE Longer(k, f[k - 1])
    <3>1. CASE k = 0
      <4>1. f[0] = upto(0)
        <5> HIDE DEF upto
        <5> QED BY <1>1
      <4> QED BY <4>1, <3>1, <1>3
    <3>2. CASE k # 0
      <4>1. k \in 1 .. N /\ k - 1 \in 0 .. N
        BY <3>2, <1>1
      <4>2. f[k] = upto(k) /\ f[k - 1] = upto(k - 1)
        <5> HIDE DEF upto
        <5> QED BY <4>1
      <4> HIDE DEF upto, f, Longer
      <4> QED BY <4>1, <4>2, <3>2, <1>2
    <3> QED BY <3>1, <3>2
  <2>2. f = [k \in 0 .. N |-> f[k]]
    OBVIOUS
  <2> HIDE DEF f, Longer, upto
  <2> QED BY <2>1, <2>2
<1>5. walk = [k \in 0 .. N |-> IF k = 0 THEN <<>> ELSE Longer(k, walk[k - 1])]
  <2> HIDE DEF f, Longer
  <2> QED BY <1>4
<1>6. walk[N] = f[N]
  <2> DEFINE A == {k \in Nat : k <= N => walk[k] = f[k]}
  <2> HIDE DEF f, Longer, walk
  <2>1. 0 \in A
    <3>1. walk[0] = <<>>
      BY <1>1, <1>5
    <3>2. f[0] = <<>>
      BY <1>1, <1>4
    <3> QED BY <3>1, <3>2
  <2>2. ASSUME NEW k \in Nat, k \in A PROVE k + 1 \in A
    <3> SUFFICES ASSUME k + 1 <= N PROVE walk[k + 1] = f[k + 1]
      OBVIOUS
    <3>1. k + 1 \in 0 .. N /\ k + 1 # 0 /\ (k + 1) - 1 = k /\ walk[k] = f[k]
      BY <2>2, <1>1
    <3>2. walk[k + 1] = Longer(k + 1, walk[k])
      BY <3>1, <1>5
    <3>3. f[k + 1] = Longer(k + 1, f[k])
      BY <3>1, <1>4
    <3> QED BY <3>1, <3>2, <3>3
  <2>3. Nat \subseteq A
    <3> HIDE DEF A
    <3> QED BY <2>1, <2>2, SetInduction
  <2> QED BY <2>3, <1>1
<1>7. f[N] = s
  <2>1. SubSeq(s, 1, Len(s)) = s
    BY WholeSubSeq
  <2>2. (IF N < Len(s) THEN N ELSE Len(s)) = Len(s) /\ N \in 0 .. N
    BY <1>1
  <2>3. f[N] = upto(N)
    <3> HIDE DEF upto, N
    <3> QED BY <2>2
  <2> QED BY <2>1, <2>2, <2>3
<1>8. Chain(c, step) = walk[N]
  BY DEF Chain
<1> QED BY <1>6, <1>7, <1>8

(* What the memory holds when it holds the sequences q, one for each list. *)
Rings(q, next, prev, list) ==
  /\ DOMAIN q \subseteq ListId /\ q \in [DOMAIN q -> Seq(Node)]
  /\ next \in [Cell -> Cell \cup {Null}] /\ prev \in [Cell -> Cell \cup {Null}]
  /\ list \in [Node -> DOMAIN q \cup {Null}]
  /\ \A l \in DOMAIN q : Distinct(q[l])
  /\ \A l \in DOMAIN q : \A i \in 0 .. Len(q[l]) :
       next[At(q[l], l, i)] = At(q[l], l, i + 1) /\ prev[At(q[l], l, i + 1)] = At(q[l], l, i)
  /\ \A l \in DOMAIN q, n \in Node : list[n] = l <=> \E i \in DOMAIN q[l] : q[l][i] = n
  /\ \A l \in ListId : next[TailOf(l)] = Null /\ prev[HeadOf(l)] = Null

(* A place of a list is a cell, and a node just if it is neither end.      *)
LEMMA AtIsCell ==
  ASSUME NEW l \in ListId, NEW s \in Seq(Node), NEW i \in 0 .. Len(s) + 1
  PROVE  At(s, l, i) \in Cell /\ (At(s, l, i) \in Node <=> i \in 1 .. Len(s))
         /\ (i \in 1 .. Len(s) => At(s, l, i) = s[i])
<1>1. Len(s) \in Nat /\ i \in Nat
  OBVIOUS
<1>2. CASE i = 0
  BY <1>1, <1>2, ListAssumption DEF At, Cell
<1>3. CASE i = Len(s) + 1
  BY <1>1, <1>3, ListAssumption DEF At, Cell
<1>4. CASE i \in 1 .. Len(s)
  BY <1>1, <1>4 DEF At, Cell
<1> QED BY <1>1, <1>2, <1>3, <1>4

(* Every cell is at one place of one list.                                 *)
LEMMA AtApart ==
  ASSUME NEW q, NEW next, NEW prev, NEW list, Rings(q, next, prev, list),
         NEW k \in DOMAIN q, NEW l \in DOMAIN q, NEW i \in 0 .. Len(q[k]) + 1, NEW j \in 0 .. Len(q[l]) + 1,
         At(q[k], k, i) = At(q[l], l, j)
  PROVE  k = l /\ i = j
<1>1. k \in ListId /\ l \in ListId /\ q[k] \in Seq(Node) /\ q[l] \in Seq(Node)
  BY DEF Rings
<1>2. Len(q[k]) \in Nat /\ Len(q[l]) \in Nat
  BY <1>1
<1>3. i \in 1 .. Len(q[k]) <=> j \in 1 .. Len(q[l])
  BY <1>1, AtIsCell
<1>4. CASE i \in 1 .. Len(q[k])
  <2>1. q[k][i] = q[l][j] /\ q[k][i] \in Node /\ i \in DOMAIN q[k] /\ j \in DOMAIN q[l]
    BY <1>1, <1>3, <1>4, AtIsCell
  <2>2. k = l
    BY <2>1 DEF Rings
  <2> QED BY <2>1, <2>2 DEF Rings, Distinct
<1>5. CASE i \notin 1 .. Len(q[k])
  <2>1. (i = 0 \/ i = Len(q[k]) + 1) /\ (j = 0 \/ j = Len(q[l]) + 1)
    BY <1>2, <1>3, <1>5
  <2>2. HeadOf(k) # TailOf(l) /\ HeadOf(l) # TailOf(k)
    BY DEF HeadOf, TailOf
  <2>3. (HeadOf(k) = HeadOf(l) \/ TailOf(k) = TailOf(l)) => k = l
    BY DEF HeadOf, TailOf
  <2> QED BY <1>2, <2>1, <2>2, <2>3 DEF At
<1> QED BY <1>4, <1>5

-----------------------------------------------------------------------------
(* The sequence s with n behind the first i.                               *)
Inserted(s, i, n) ==
  [j \in 1 .. Len(s) + 1 |-> IF j <= i THEN s[j] ELSE IF j = i + 1 THEN n ELSE s[j - 1]]

(* The cells of a list with a new one behind place i.                      *)
LEMMA AtInserted ==
  ASSUME NEW l \in ListId, NEW s \in Seq(Node), NEW n \in Node, NEW i \in 0 .. Len(s)
  PROVE  /\ Inserted(s, i, n) \in Seq(Node) /\ Len(Inserted(s, i, n)) = Len(s) + 1
         /\ \A j \in 0 .. Len(s) + 2 :
              At(Inserted(s, i, n), l, j) = IF j <= i THEN At(s, l, j) ELSE IF j = i + 1 THEN n ELSE At(s, l, j - 1)
<1> DEFINE t == Inserted(s, i, n)
<1>1. Len(s) \in Nat /\ i \in Nat /\ i <= Len(s)
  OBVIOUS
<1>2. t \in [1 .. Len(s) + 1 -> Node]
  BY <1>1 DEF Inserted
<1>3. t \in Seq(Node) /\ Len(t) = Len(s) + 1
  <2> HIDE DEF t
  <2>1. Len(s) + 1 \in Nat
    BY <1>1
  <2> QED BY <1>2, <2>1, SequenceOf
<1>4. ASSUME NEW j \in 0 .. Len(s) + 2
      PROVE  At(t, l, j) = IF j <= i THEN At(s, l, j) ELSE IF j = i + 1 THEN n ELSE At(s, l, j - 1)
  <2>1. CASE j = 0
    BY <1>1, <2>1 DEF At
  <2>2. CASE j = Len(s) + 2
    <3>1. j = Len(t) + 1 /\ ~(j <= i) /\ j # i + 1 /\ j - 1 = Len(s) + 1 /\ j # 0 /\ j - 1 # 0
      BY <1>1, <1>3, <2>2
    <3> HIDE DEF t
    <3> QED BY <3>1 DEF At
  <2>3. CASE j \in 1 .. Len(s) + 1
    <3>1. At(t, l, j) = t[j]
      <4>1. j # 0 /\ j # Len(t) + 1
        BY <2>3, <1>1, <1>3
      <4> HIDE DEF t
      <4> QED BY <4>1 DEF At
    <3>2. t[j] = IF j <= i THEN s[j] ELSE IF j = i + 1 THEN n ELSE s[j - 1]
      BY <2>3 DEF Inserted
    <3>3. j <= i => At(s, l, j) = s[j]
      BY <2>3, <1>1 DEF At
    <3>4. (~(j <= i) /\ j # i + 1) => At(s, l, j - 1) = s[j - 1]
      BY <2>3, <1>1 DEF At
    <3> HIDE DEF t
    <3> QED BY <3>1, <3>2, <3>3, <3>4
  <2> QED BY <1>1, <2>1, <2>2, <2>3
<1> QED BY <1>3, <1>4

(* The four pointers that are set are enough: the memory holds the list    *)
(* with the new node.                                                      *)
LEMMA InsertRing ==
  ASSUME NEW q, NEW next, NEW prev, NEW list, Rings(q, next, prev, list),
         NEW l \in DOMAIN q, NEW n \in Node, list[n] = Null, NEW i \in 0 .. Len(q[l]),
         NEW p, p = At(q[l], l, i)
  PROVE  Rings([q EXCEPT ![l] = Inserted(q[l], i, n)],
               [next EXCEPT ![n] = next[p], ![p] = n],
               [prev EXCEPT ![n] = p, ![next[p]] = n],
               [list EXCEPT ![n] = l])
<1> DEFINE s == q[l]
           t == Inserted(s, i, n)
           q1 == [q EXCEPT ![l] = t]
           next1 == [next EXCEPT ![n] = next[p], ![p] = n]
           prev1 == [prev EXCEPT ![n] = p, ![next[p]] = n]
           list1 == [list EXCEPT ![n] = l]
<1>1. l \in ListId /\ s \in Seq(Node) /\ Len(s) \in Nat /\ i \in Nat /\ i <= Len(s)
  BY DEF Rings
<1>2. p \in Cell /\ next[p] = At(s, l, i + 1) /\ next[p] \in Cell /\ n \in Cell
  <2>1. next[p] = At(s, l, i + 1)
    BY DEF Rings
  <2>2. i \in 0 .. Len(s) + 1 /\ i + 1 \in 0 .. Len(s) + 1
    BY <1>1
  <2> QED BY <2>1, <2>2, <1>1, AtIsCell DEF Cell
<1>3. t \in Seq(Node) /\ Len(t) = Len(s) + 1
      /\ \A j \in 0 .. Len(s) + 2 : At(t, l, j) = IF j <= i THEN At(s, l, j) ELSE IF j = i + 1 THEN n ELSE At(s, l, j - 1)
  BY <1>1, AtInserted
<1> HIDE DEF t
<1>4. DOMAIN q1 = DOMAIN q /\ q1 \in [DOMAIN q -> Seq(Node)] /\ q1[l] = t /\ \A k \in DOMAIN q : k # l => q1[k] = q[k]
  BY <1>3 DEF Rings
<1>5. ASSUME NEW k \in DOMAIN q, NEW j \in 0 .. Len(q[k]) + 1 PROVE At(q[k], k, j) # n
  <2>1. k \in ListId /\ q[k] \in Seq(Node) /\ k # Null
    BY ListAssumption DEF Rings
  <2>2. CASE j \in 1 .. Len(q[k])
    <3>1. At(q[k], k, j) = q[k][j] /\ j \in DOMAIN q[k]
      BY <2>1, <2>2, AtIsCell
    <3>2. list[q[k][j]] = k
      BY <3>1, <2>1, <2>2 DEF Rings
    <3> QED BY <3>1, <3>2, <2>1
  <2>3. CASE j \notin 1 .. Len(q[k])
    BY <2>1, <2>3, AtIsCell
  <2> QED BY <2>2, <2>3
<1>6. n # p /\ n # next[p]
  <2>1. i \in 0 .. Len(s) + 1 /\ i + 1 \in 0 .. Len(s) + 1
    BY <1>1
  <2> QED BY <2>1, <1>2, <1>5
<1>7. next1 \in [Cell -> Cell \cup {Null}] /\ prev1 \in [Cell -> Cell \cup {Null}]
      /\ next1[n] = next[p] /\ next1[p] = n /\ prev1[n] = p /\ prev1[next[p]] = n
      /\ (\A c \in Cell : c # n /\ c # p => next1[c] = next[c])
      /\ (\A c \in Cell : c # n /\ c # next[p] => prev1[c] = prev[c])
  BY <1>2, <1>6 DEF Rings
<1>8. list1 \in [Node -> DOMAIN q \cup {Null}] /\ list1[n] = l /\ \A m \in Node : m # n => list1[m] = list[m]
  BY DEF Rings
<1> HIDE DEF q1, next1, prev1, list1
<1>9. ASSUME NEW k \in DOMAIN q PROVE Distinct(q1[k])
  <2>1. CASE k = l
    <3>1. ASSUME NEW x \in DOMAIN t, NEW y \in DOMAIN t, t[x] = t[y] PROVE x = y
      <4> DEFINE back(j) == IF j <= i THEN j ELSE j - 1
      <4>1. x \in 1 .. Len(s) + 1 /\ y \in 1 .. Len(s) + 1
        BY <1>3
      <4>2. At(t, l, x) = t[x] /\ At(t, l, y) = t[y]
        BY <4>1, <1>1, <1>3, AtIsCell
      <4>3. \A j \in 1 .. Len(s) + 1 : At(t, l, j) = IF j <= i THEN At(s, l, j) ELSE IF j = i + 1 THEN n ELSE At(s, l, j - 1)
        BY <1>1, <1>3
      <4>4. ASSUME NEW j \in 1 .. Len(s) + 1, j # i + 1
            PROVE  back(j) \in 0 .. Len(s) + 1 /\ At(t, l, j) = At(s, l, back(j)) /\ At(s, l, back(j)) # n
        <5>1. back(j) \in 0 .. Len(s) + 1
          BY <1>1
        <5>2. At(t, l, j) = At(s, l, back(j))
          BY <4>3, <4>4, <1>1
        <5> QED BY <5>1, <5>2, <1>5
      <4>5. CASE x = i + 1 /\ y = i + 1
        BY <4>5
      <4>6. CASE x # i + 1 /\ y # i + 1
        <5>1. back(x) = back(y)
          <6> HIDE DEF back
          <6> QED BY <4>1, <4>2, <4>4, <4>6, <3>1, AtApart
        <5> QED BY <5>1, <4>1, <4>6, <1>1
      <4>7. At(t, l, i + 1) = n
        BY <4>3, <1>1
      <4>8. (x = i + 1) <=> (y = i + 1)
        <5> HIDE DEF back
        <5> QED BY <4>1, <4>2, <4>4, <4>7, <3>1
      <4> QED BY <4>5, <4>6, <4>8
    <3> QED BY <3>1, <2>1, <1>4 DEF Distinct
  <2>2. CASE k # l
    BY <2>2, <1>4 DEF Rings
  <2> QED BY <2>1, <2>2
<1>10. ASSUME NEW k \in DOMAIN q, NEW j \in 0 .. Len(q1[k])
       PROVE  next1[At(q1[k], k, j)] = At(q1[k], k, j + 1) /\ prev1[At(q1[k], k, j + 1)] = At(q1[k], k, j)
  <2>1. CASE k = l
    <3>1. q1[k] = t /\ j \in 0 .. Len(s) + 1
      BY <2>1, <1>3, <1>4
    <3>2. CASE j < i
      <4>1. At(t, l, j) = At(s, l, j) /\ At(t, l, j + 1) = At(s, l, j + 1) /\ j \in 0 .. Len(s)
        BY <3>1, <3>2, <1>1, <1>3
      <4>2. At(s, l, j) # p /\ At(s, l, j + 1) # next[p]
        <5>1. j \in 0 .. Len(s) + 1 /\ j + 1 \in 0 .. Len(s) + 1 /\ i \in 0 .. Len(s) + 1 /\ i + 1 \in 0 .. Len(s) + 1
              /\ j # i /\ j + 1 # i + 1
          BY <4>1, <3>2, <1>1
        <5> QED BY <5>1, <1>2, AtApart
      <4>3. At(s, l, j) # n /\ At(s, l, j + 1) # n /\ At(s, l, j) \in Cell /\ At(s, l, j + 1) \in Cell
        <5>1. j \in 0 .. Len(s) + 1 /\ j + 1 \in 0 .. Len(s) + 1
          BY <4>1, <1>1
        <5> QED BY <5>1, <1>1, <1>5, AtIsCell
      <4>4. next[At(s, l, j)] = At(s, l, j + 1) /\ prev[At(s, l, j + 1)] = At(s, l, j)
        BY <4>1 DEF Rings
      <4> QED BY <2>1, <3>1, <4>1, <4>2, <4>3, <4>4, <1>7
    <3>3. CASE j = i
      <4>1. At(t, l, j) = p /\ At(t, l, j + 1) = n
        BY <3>1, <3>3, <1>1, <1>3
      <4> QED BY <4>1, <2>1, <3>1, <1>7
    <3>4. CASE j = i + 1
      <4>1. At(t, l, j) = n /\ At(t, l, j + 1) = next[p]
        BY <3>1, <3>4, <1>1, <1>2, <1>3
      <4> QED BY <4>1, <2>1, <3>1, <1>7
    <3>5. CASE j > i + 1
      <4>1. At(t, l, j) = At(s, l, j - 1) /\ At(t, l, j + 1) = At(s, l, j) /\ j - 1 \in 0 .. Len(s) /\ (j - 1) + 1 = j
        <5>1. j \in 0 .. Len(s) + 2 /\ j + 1 \in 0 .. Len(s) + 2 /\ ~(j <= i) /\ ~(j + 1 <= i) /\ j # i + 1 /\ j + 1 # i + 1 /\ (j + 1) - 1 = j
          BY <3>1, <3>5, <1>1
        <5>2. j - 1 \in 0 .. Len(s) /\ (j - 1) + 1 = j
          BY <3>1, <3>5, <1>1
        <5> QED BY <5>1, <5>2, <1>3
      <4>2. At(s, l, j - 1) # p /\ At(s, l, j) # next[p]
        <5>1. j \in 0 .. Len(s) + 1 /\ j - 1 \in 0 .. Len(s) + 1 /\ i \in 0 .. Len(s) + 1 /\ i + 1 \in 0 .. Len(s) + 1
              /\ j - 1 # i /\ j # i + 1
          BY <3>1, <3>5, <1>1
        <5> QED BY <5>1, <1>2, AtApart
      <4>3. At(s, l, j - 1) # n /\ At(s, l, j) # n /\ At(s, l, j - 1) \in Cell /\ At(s, l, j) \in Cell
        <5>1. j \in 0 .. Len(s) + 1 /\ j - 1 \in 0 .. Len(s) + 1
          BY <4>1, <3>1
        <5> QED BY <5>1, <1>1, <1>5, AtIsCell
      <4>4. next[At(s, l, j - 1)] = At(s, l, j) /\ prev[At(s, l, j)] = At(s, l, j - 1)
        BY <4>1 DEF Rings
      <4> QED BY <2>1, <3>1, <4>1, <4>2, <4>3, <4>4, <1>7
    <3> QED BY <3>1, <3>2, <3>3, <3>4, <3>5, <1>1
  <2>2. CASE k # l
    <3>1. q1[k] = q[k] /\ q[k] \in Seq(Node) /\ k \in ListId /\ Len(q[k]) \in Nat
      BY <2>2, <1>4 DEF Rings
    <3>2. j \in 0 .. Len(q[k]) + 1 /\ j + 1 \in 0 .. Len(q[k]) + 1 /\ i \in 0 .. Len(s) + 1 /\ i + 1 \in 0 .. Len(s) + 1
      BY <3>1, <1>1
    <3>3. At(q[k], k, j) # p /\ At(q[k], k, j + 1) # next[p] /\ At(q[k], k, j) # n /\ At(q[k], k, j + 1) # n
      BY <3>2, <2>2, <1>2, <1>5, AtApart
    <3>4. At(q[k], k, j) \in Cell /\ At(q[k], k, j + 1) \in Cell
      BY <3>1, <3>2, AtIsCell
    <3>5. next[At(q[k], k, j)] = At(q[k], k, j + 1) /\ prev[At(q[k], k, j + 1)] = At(q[k], k, j)
      BY <3>1 DEF Rings
    <3> QED BY <3>1, <3>3, <3>4, <3>5, <1>7
  <2> QED BY <2>1, <2>2
<1>11. ASSUME NEW k \in DOMAIN q, NEW m \in Node PROVE list1[m] = k <=> \E j \in DOMAIN q1[k] : q1[k][j] = m
  <2>1. CASE k = l
    <3>1. \A j \in 1 .. Len(t) : t[j] = IF j <= i THEN s[j] ELSE IF j = i + 1 THEN n ELSE s[j - 1]
      BY <1>3 DEF t, Inserted
    <3>2. DOMAIN t = 1 .. Len(s) + 1 /\ DOMAIN s = 1 .. Len(s)
      BY <1>1, <1>3
    <3>3. CASE m = n
      <4>1. t[i + 1] = n /\ i + 1 \in DOMAIN t
        BY <3>1, <3>2, <1>1, <1>3
      <4> QED BY <4>1, <3>3, <2>1, <1>4, <1>8
    <3>4. CASE m # n
      <4>1. (\E j \in DOMAIN s : s[j] = m) => \E j \in DOMAIN t : t[j] = m
        <5> SUFFICES ASSUME NEW j \in DOMAIN s, s[j] = m PROVE \E x \in DOMAIN t : t[x] = m
          OBVIOUS
        <5>1. CASE j <= i
          <6>1. j \in DOMAIN t /\ t[j] = s[j]
            BY <5>1, <3>1, <3>2, <1>1, <1>3
          <6> QED BY <6>1
        <5>2. CASE j > i
          <6>1. j + 1 \in DOMAIN t /\ t[j + 1] = s[j]
            BY <5>2, <3>1, <3>2, <1>1, <1>3
          <6> QED BY <6>1
        <5> QED BY <5>1, <5>2, <3>2, <1>1
      <4>2. (\E j \in DOMAIN t : t[j] = m) => \E j \in DOMAIN s : s[j] = m
        <5> SUFFICES ASSUME NEW j \in DOMAIN t, t[j] = m PROVE \E x \in DOMAIN s : s[x] = m
          OBVIOUS
        <5>1. CASE j <= i
          <6>1. j \in DOMAIN s /\ t[j] = s[j]
            BY <5>1, <3>1, <3>2, <1>1, <1>3
          <6> QED BY <6>1
        <5>2. CASE j > i
          <6>1. j - 1 \in DOMAIN s /\ t[j] = s[j - 1]
            <7>1. j # i + 1
              BY <3>1, <3>2, <3>4, <1>1, <1>3
            <7> QED BY <7>1, <5>2, <3>1, <3>2, <1>1, <1>3
          <6> QED BY <6>1
        <5> QED BY <5>1, <5>2, <3>2, <1>1
      <4>3. list1[m] = list[m]
        BY <3>4, <1>8
      <4> QED BY <4>1, <4>2, <4>3, <2>1, <1>4 DEF Rings
    <3> QED BY <3>3, <3>4
  <2>2. CASE k # l
    <3>1. q1[k] = q[k]
      BY <2>2, <1>4
    <3>2. CASE m = n
      <4>1. list[m] # k /\ list1[m] # k
        BY <3>2, <2>2, <1>8, ListAssumption DEF Rings
      <4> QED BY <4>1, <3>1 DEF Rings
    <3>3. CASE m # n
      BY <3>1, <3>3, <1>8 DEF Rings
    <3> QED BY <3>2, <3>3
  <2> QED BY <2>1, <2>2
<1>12. ASSUME NEW k \in ListId PROVE next1[TailOf(k)] = Null /\ prev1[HeadOf(k)] = Null
  <2>1. TailOf(k) \in Cell /\ HeadOf(k) \in Cell /\ TailOf(k) # n /\ HeadOf(k) # n
    BY ListAssumption DEF Cell
  <2>2. TailOf(k) # p
    <3>1. next[p] # Null /\ next[TailOf(k)] = Null
      BY <1>2, ListAssumption DEF Rings
    <3> QED BY <3>1
  <2>3. HeadOf(k) # next[p]
    <3>1. prev[next[p]] = p
      BY <1>2 DEF Rings
    <3>2. prev[HeadOf(k)] = Null /\ p # Null
      BY <1>2, ListAssumption DEF Rings
    <3> QED BY <3>1, <3>2
  <2> QED BY <2>1, <2>2, <2>3, <1>7 DEF Rings
<1>13. DOMAIN q1 \subseteq ListId
  BY <1>4 DEF Rings
<1>14. Rings(q1, next1, prev1, list1)
  BY <1>4, <1>7, <1>8, <1>9, <1>10, <1>11, <1>12, <1>13 DEF Rings
<1> QED BY <1>14 DEF q1, next1, prev1, list1, t

(* The sequence s without its element at p.                                *)
Removed(s, p) == [j \in 1 .. Len(s) - 1 |-> IF j < p THEN s[j] ELSE s[j + 1]]

(* The cells of a list without the node at place p.                        *)
LEMMA AtRemoved ==
  ASSUME NEW l \in ListId, NEW s \in Seq(Node), NEW p \in 1 .. Len(s)
  PROVE  /\ Removed(s, p) \in Seq(Node) /\ Len(Removed(s, p)) = Len(s) - 1
         /\ \A j \in 0 .. Len(s) : At(Removed(s, p), l, j) = IF j < p THEN At(s, l, j) ELSE At(s, l, j + 1)
<1> DEFINE t == Removed(s, p)
<1>1. Len(s) \in Nat /\ p \in Nat /\ p <= Len(s) /\ p >= 1
  OBVIOUS
<1>2. t \in [1 .. Len(s) - 1 -> Node]
  BY <1>1 DEF Removed
<1>3. t \in Seq(Node) /\ Len(t) = Len(s) - 1
  <2> HIDE DEF t
  <2>1. Len(s) - 1 \in Nat
    BY <1>1
  <2> QED BY <1>2, <2>1, SequenceOf
<1>4. ASSUME NEW j \in 0 .. Len(s)
      PROVE  At(t, l, j) = IF j < p THEN At(s, l, j) ELSE At(s, l, j + 1)
  <2>1. CASE j = 0
    BY <1>1, <2>1 DEF At
  <2>2. CASE j = Len(s) /\ j # 0
    <3>1. j = Len(t) + 1 /\ ~(j < p) /\ j + 1 = Len(s) + 1 /\ j + 1 # 0
      BY <1>1, <1>3, <2>2
    <3> HIDE DEF t
    <3> QED BY <2>2, <3>1 DEF At
  <2>3. CASE j \in 1 .. Len(s) - 1
    <3>1. At(t, l, j) = t[j]
      <4>1. j # 0 /\ j # Len(t) + 1
        BY <2>3, <1>1, <1>3
      <4> HIDE DEF t
      <4> QED BY <4>1 DEF At
    <3>2. t[j] = IF j < p THEN s[j] ELSE s[j + 1]
      BY <2>3 DEF Removed
    <3>3. At(s, l, j) = s[j] /\ At(s, l, j + 1) = s[j + 1]
      BY <2>3, <1>1 DEF At
    <3> HIDE DEF t
    <3> QED BY <3>1, <3>2, <3>3
  <2> QED BY <1>1, <2>1, <2>2, <2>3
<1> QED BY <1>3, <1>4

(* What the sequence is made of: all but the one that goes.                *)
LEMMA RemovedHas ==
  ASSUME NEW s \in Seq(Node), Distinct(s), NEW p \in 1 .. Len(s), NEW m \in Node, NEW t, t = Removed(s, p)
  PROVE  (\E j \in DOMAIN t : t[j] = m) <=> m # s[p] /\ \E j \in DOMAIN s : s[j] = m
<1>1. Len(s) \in Nat /\ p \in Nat /\ p <= Len(s) /\ p >= 1 /\ DOMAIN s = 1 .. Len(s) /\ DOMAIN t = 1 .. Len(s) - 1
  BY DEF Removed
<1>2. \A j \in 1 .. Len(s) - 1 : t[j] = IF j < p THEN s[j] ELSE s[j + 1]
  BY DEF Removed
<1>3. ASSUME NEW j \in DOMAIN t, t[j] = m PROVE m # s[p] /\ \E x \in DOMAIN s : s[x] = m
  <2>1. CASE j < p
    <3>1. j \in DOMAIN s /\ s[j] = m /\ j # p
      BY <1>1, <1>2, <1>3, <2>1
    <3> QED BY <3>1, <1>1 DEF Distinct
  <2>2. CASE ~(j < p)
    <3>1. j + 1 \in DOMAIN s /\ s[j + 1] = m /\ j + 1 # p
      BY <1>1, <1>2, <1>3, <2>2
    <3> QED BY <3>1, <1>1 DEF Distinct
  <2> QED BY <2>1, <2>2
<1>4. ASSUME NEW j \in DOMAIN s, s[j] = m, m # s[p] PROVE \E x \in DOMAIN t : t[x] = m
  <2>1. j # p
    BY <1>4
  <2>2. CASE j < p
    <3>1. j \in DOMAIN t /\ t[j] = m
      BY <1>1, <1>2, <1>4, <2>2
    <3> QED BY <3>1
  <2>3. CASE j > p
    <3>1. j - 1 \in DOMAIN t /\ t[j - 1] = m
      BY <1>1, <1>2, <1>4, <2>3
    <3> QED BY <3>1
  <2> QED BY <2>1, <2>2, <2>3, <1>1
<1> QED BY <1>3, <1>4

(* A list that loses a node has none twice.                                *)
LEMMA RemovedOnce ==
  ASSUME NEW s \in Seq(Node), Distinct(s), NEW p \in 1 .. Len(s)
  PROVE  Distinct(Removed(s, p))
<1> DEFINE t == Removed(s, p)
<1>1. Len(s) \in Nat /\ p \in Nat /\ p <= Len(s) /\ p >= 1 /\ DOMAIN s = 1 .. Len(s) /\ DOMAIN t = 1 .. Len(s) - 1
  BY DEF Removed
<1>2. \A j \in 1 .. Len(s) - 1 : t[j] = s[IF j < p THEN j ELSE j + 1]
  BY DEF Removed
<1> HIDE DEF t
<1>3. ASSUME NEW x \in DOMAIN t, NEW y \in DOMAIN t, t[x] = t[y] PROVE x = y
  <2> DEFINE on(j) == IF j < p THEN j ELSE j + 1
  <2>1. on(x) \in DOMAIN s /\ on(y) \in DOMAIN s
    BY <1>1
  <2>2. s[on(x)] = s[on(y)]
    BY <1>1, <1>2, <1>3
  <2>3. on(x) = on(y)
    <3> HIDE DEF on
    <3> QED BY <2>1, <2>2 DEF Distinct
  <2> QED BY <2>3, <1>1
<1>4. Distinct(t)
  BY <1>3 DEF Distinct
<1> QED BY <1>4 DEF t

(* The neighbours of a node are joined: the memory holds the list without  *)
(* it.                                                                     *)
LEMMA RemoveRing ==
  ASSUME NEW q, NEW next, NEW prev, NEW list, Rings(q, next, prev, list),
         NEW l \in DOMAIN q, NEW p \in 1 .. Len(q[l]), NEW n, n = q[l][p]
  PROVE  Rings([q EXCEPT ![l] = Removed(q[l], p)],
               [next EXCEPT ![prev[n]] = next[n], ![n] = Null],
               [prev EXCEPT ![next[n]] = prev[n], ![n] = Null],
               [list EXCEPT ![n] = Null])
<1> DEFINE s == q[l]
           t == Removed(s, p)
           q1 == [q EXCEPT ![l] = t]
           next1 == [next EXCEPT ![prev[n]] = next[n], ![n] = Null]
           prev1 == [prev EXCEPT ![next[n]] = prev[n], ![n] = Null]
           list1 == [list EXCEPT ![n] = Null]
<1>1. l \in ListId /\ s \in Seq(Node) /\ Len(s) \in Nat /\ p \in Nat /\ p <= Len(s) /\ p >= 1 /\ Distinct(s)
  BY DEF Rings
<1>2. n = At(s, l, p) /\ n \in Node /\ n \in Cell /\ p \in 0 .. Len(s) + 1 /\ p - 1 \in 0 .. Len(s) + 1 /\ p + 1 \in 0 .. Len(s) + 1
  BY <1>1 DEF At, Cell
<1>3. prev[n] = At(s, l, p - 1) /\ next[n] = At(s, l, p + 1) /\ prev[n] \in Cell /\ next[n] \in Cell
  <2>1. p \in 0 .. Len(s) /\ p - 1 \in 0 .. Len(s) /\ (p - 1) + 1 = p
    BY <1>1
  <2>2. prev[n] = At(s, l, p - 1) /\ next[n] = At(s, l, p + 1)
    BY <2>1, <1>2 DEF Rings
  <2> QED BY <2>2, <1>1, <1>2, AtIsCell
<1>4. t \in Seq(Node) /\ Len(t) = Len(s) - 1
      /\ \A j \in 0 .. Len(s) : At(t, l, j) = IF j < p THEN At(s, l, j) ELSE At(s, l, j + 1)
  BY <1>1, AtRemoved
<1>5. Distinct(t) /\ \A m \in Node : (\E j \in DOMAIN t : t[j] = m) <=> m # n /\ \E j \in DOMAIN s : s[j] = m
  <2>1. Distinct(t)
    BY <1>1, RemovedOnce
  <2>2. ASSUME NEW m \in Node PROVE (\E j \in DOMAIN t : t[j] = m) <=> m # n /\ \E j \in DOMAIN s : s[j] = m
    <3>1. s \in Seq(Node) /\ Distinct(s) /\ p \in 1 .. Len(s) /\ n = s[p] /\ t = Removed(s, p)
      BY <1>1
    <3> HIDE DEF s, t
    <3>2. (\E j \in DOMAIN t : t[j] = m) <=> m # s[p] /\ \E j \in DOMAIN s : s[j] = m
      BY <3>1, RemovedHas
    <3> QED BY <3>1, <3>2
  <2> QED BY <2>1, <2>2
<1> HIDE DEF t
<1>6. DOMAIN q1 = DOMAIN q /\ q1 \in [DOMAIN q -> Seq(Node)] /\ q1[l] = t /\ \A k \in DOMAIN q : k # l => q1[k] = q[k]
  BY <1>4 DEF Rings
<1>7. prev[n] # n /\ next[n] # n
  <2>1. p - 1 # p /\ p + 1 # p
    BY <1>1
  <2> QED BY <2>1, <1>2, <1>3, AtApart
<1>8. next1 \in [Cell -> Cell \cup {Null}] /\ prev1 \in [Cell -> Cell \cup {Null}]
      /\ next1[prev[n]] = next[n] /\ prev1[next[n]] = prev[n]
      /\ (\A c \in Cell : c # n /\ c # prev[n] => next1[c] = next[c])
      /\ (\A c \in Cell : c # n /\ c # next[n] => prev1[c] = prev[c])
      /\ \A c \in Cell : next1[c] \in {Null, next[n], next[c]} /\ prev1[c] \in {Null, prev[n], prev[c]}
  BY <1>2, <1>3, <1>7 DEF Rings
<1>9. list1 \in [Node -> DOMAIN q \cup {Null}] /\ list1[n] = Null /\ \A m \in Node : m # n => list1[m] = list[m]
  BY <1>2 DEF Rings
<1> HIDE DEF q1, next1, prev1, list1
<1>10. ASSUME NEW k \in DOMAIN q PROVE Distinct(q1[k])
  BY <1>5, <1>6 DEF Rings
<1>11. ASSUME NEW k \in DOMAIN q, NEW j \in 0 .. Len(q1[k])
       PROVE  next1[At(q1[k], k, j)] = At(q1[k], k, j + 1) /\ prev1[At(q1[k], k, j + 1)] = At(q1[k], k, j)
  <2>1. ASSUME NEW h \in DOMAIN q, NEW i \in 0 .. Len(q[h]), h # l \/ i + 1 < p \/ i > p
        PROVE  next1[At(q[h], h, i)] = At(q[h], h, i + 1) /\ prev1[At(q[h], h, i + 1)] = At(q[h], h, i)
    <3>1. h \in ListId /\ q[h] \in Seq(Node) /\ Len(q[h]) \in Nat
      BY DEF Rings
    <3>2. i \in 0 .. Len(q[h]) + 1 /\ i + 1 \in 0 .. Len(q[h]) + 1
      BY <3>1
    <3>3. h # l \/ (i # p /\ i # p - 1 /\ i + 1 # p /\ i + 1 # p + 1)
      BY <2>1, <1>1
    <3>4. At(q[h], h, i) # n /\ At(q[h], h, i) # prev[n] /\ At(q[h], h, i + 1) # n /\ At(q[h], h, i + 1) # next[n]
      BY <3>2, <3>3, <1>2, <1>3, AtApart
    <3>5. At(q[h], h, i) \in Cell /\ At(q[h], h, i + 1) \in Cell
      BY <3>1, <3>2, AtIsCell
    <3> QED BY <3>4, <3>5, <1>8 DEF Rings
  <2>2. CASE k # l
    <3>1. q1[k] = q[k]
      BY <2>2, <1>6
    <3> QED BY <2>1, <2>2, <3>1
  <2>3. CASE k = l
    <3>1. q1[k] = t /\ j \in 0 .. Len(s) - 1 /\ j \in 0 .. Len(s) /\ j + 1 \in 0 .. Len(s)
      BY <2>3, <1>1, <1>4, <1>6
    <3>2. CASE j + 1 < p
      <4>1. At(t, l, j) = At(s, l, j) /\ At(t, l, j + 1) = At(s, l, j + 1)
        <5>1. j < p /\ j + 1 < p
          BY <3>1, <3>2, <1>1
        <5> QED BY <5>1, <3>1, <1>4
      <4> QED BY <4>1, <2>1, <2>3, <3>1, <3>2
    <3>3. CASE j + 1 = p
      <4>1. At(t, l, j) = prev[n] /\ At(t, l, j + 1) = next[n]
        <5>1. j < p /\ ~(j + 1 < p) /\ j = p - 1 /\ (j + 1) + 1 = p + 1
          BY <3>1, <3>3, <1>1
        <5> QED BY <5>1, <3>1, <1>3, <1>4
      <4> QED BY <4>1, <2>3, <3>1, <1>8
    <3>4. CASE j >= p
      <4>1. At(t, l, j) = At(s, l, j + 1) /\ At(t, l, j + 1) = At(s, l, (j + 1) + 1)
        <5>1. ~(j < p) /\ ~(j + 1 < p)
          BY <3>1, <3>4, <1>1
        <5> QED BY <5>1, <3>1, <1>4
      <4>2. j + 1 > p
        BY <3>1, <3>4, <1>1
      <4> QED BY <4>1, <4>2, <2>1, <2>3, <3>1
    <3> QED BY <3>1, <3>2, <3>3, <3>4, <1>1
  <2> QED BY <2>2, <2>3
<1>12. ASSUME NEW k \in DOMAIN q, NEW m \in Node PROVE list1[m] = k <=> \E j \in DOMAIN q1[k] : q1[k][j] = m
  <2>1. k # Null /\ list[n] = l
    <3>1. p \in DOMAIN s /\ s[p] = n
      BY <1>1
    <3>2. k \in ListId
      BY DEF Rings
    <3> QED BY <3>1, <3>2, <1>2, ListAssumption DEF Rings
  <2>2. CASE k = l
    <3>1. list[m] = k <=> \E j \in DOMAIN s : s[j] = m
      BY <2>2 DEF Rings
    <3> QED BY <3>1, <2>1, <2>2, <1>5, <1>6, <1>9
  <2>3. CASE k # l
    BY <2>1, <2>3, <1>6, <1>9 DEF Rings
  <2> QED BY <2>2, <2>3
<1>13. ASSUME NEW k \in ListId PROVE next1[TailOf(k)] = Null /\ prev1[HeadOf(k)] = Null
  <2>1. TailOf(k) \in Cell /\ HeadOf(k) \in Cell /\ TailOf(k) # n /\ HeadOf(k) # n
    BY <1>2, ListAssumption DEF Cell
  <2>2. TailOf(k) # prev[n]
    <3>1. next[prev[n]] = n
      <4>1. p - 1 \in 0 .. Len(s) /\ (p - 1) + 1 = p
        BY <1>1
      <4> QED BY <4>1, <1>2, <1>3 DEF Rings
    <3> QED BY <3>1, <1>2, ListAssumption DEF Rings
  <2>3. HeadOf(k) # next[n]
    <3>1. prev[next[n]] = n
      <4>1. p \in 0 .. Len(s)
        BY <1>1
      <4> QED BY <4>1, <1>2, <1>3 DEF Rings
    <3> QED BY <3>1, <1>2, ListAssumption DEF Rings
  <2> QED BY <2>1, <2>2, <2>3, <1>8 DEF Rings
<1>14. DOMAIN q1 \subseteq ListId
  BY <1>6 DEF Rings
<1>15. Rings(q1, next1, prev1, list1)
  BY <1>6, <1>8, <1>9, <1>10, <1>11, <1>12, <1>13, <1>14 DEF Rings
<1> QED BY <1>15 DEF q1, next1, prev1, list1, t

(* The lists q with an empty one more.                                     *)
With(q, l) == [k \in DOMAIN q \cup {l} |-> IF k = l THEN <<>> ELSE q[k]]

(* The lists q with one less.                                              *)
Without(q, l) == [k \in DOMAIN q \ {l} |-> q[k]]

(* The owners list once the nodes of the sequence s are given back.        *)
GivenBack(list, s) == [n \in Node |-> IF n \in ToSet(s) THEN Null ELSE list[n]]

(* A head and a tail that point at each other are an empty list.           *)
LEMMA CreateRing ==
  ASSUME NEW q, NEW next, NEW prev, NEW list, Rings(q, next, prev, list),
         NEW l \in ListId, l \notin DOMAIN q
  PROVE  Rings(With(q, l),
               [next EXCEPT ![HeadOf(l)] = TailOf(l)],
               [prev EXCEPT ![TailOf(l)] = HeadOf(l)], list)
<1> DEFINE q1 == [k \in DOMAIN q \cup {l} |-> IF k = l THEN <<>> ELSE q[k]]
           next1 == [next EXCEPT ![HeadOf(l)] = TailOf(l)]
           prev1 == [prev EXCEPT ![TailOf(l)] = HeadOf(l)]
<1>1. DOMAIN q1 = DOMAIN q \cup {l} /\ q1[l] = <<>> /\ (\A k \in DOMAIN q : k # l /\ q1[k] = q[k])
      /\ q1 \in [DOMAIN q1 -> Seq(Node)] /\ DOMAIN q1 \subseteq ListId
  BY DEF Rings
<1>2. HeadOf(l) \in Cell /\ TailOf(l) \in Cell
  BY DEF Cell
<1>3. next1 \in [Cell -> Cell \cup {Null}] /\ prev1 \in [Cell -> Cell \cup {Null}]
      /\ next1[HeadOf(l)] = TailOf(l) /\ prev1[TailOf(l)] = HeadOf(l)
      /\ (\A c \in Cell : c # HeadOf(l) => next1[c] = next[c])
      /\ (\A c \in Cell : c # TailOf(l) => prev1[c] = prev[c])
  BY <1>2 DEF Rings
<1> HIDE DEF q1, next1, prev1
<1>4. ASSUME NEW k \in DOMAIN q1, NEW j \in 0 .. Len(q1[k])
      PROVE  next1[At(q1[k], k, j)] = At(q1[k], k, j + 1) /\ prev1[At(q1[k], k, j + 1)] = At(q1[k], k, j)
  <2>1. CASE k = l
    <3>1. At(q1[k], k, j) = HeadOf(l) /\ At(q1[k], k, j + 1) = TailOf(l)
      BY <1>1, <2>1 DEF At
    <3> QED BY <3>1, <1>3
  <2>2. CASE k # l
    <3>1. q1[k] = q[k] /\ q[k] \in Seq(Node) /\ k \in ListId /\ k \in DOMAIN q /\ Len(q[k]) \in Nat
      BY <1>1, <2>2 DEF Rings
    <3>2. j \in 0 .. Len(q[k]) + 1 /\ j + 1 \in 0 .. Len(q[k]) + 1
      BY <3>1
    <3>3. At(q[k], k, j) \in Cell /\ At(q[k], k, j + 1) \in Cell
      BY <3>1, <3>2, AtIsCell
    <3>4. At(q[k], k, j) # HeadOf(l) /\ At(q[k], k, j + 1) # TailOf(l)
      <4>1. HeadOf(l) # HeadOf(k) /\ HeadOf(l) # TailOf(k) /\ TailOf(l) # HeadOf(k) /\ TailOf(l) # TailOf(k)
        BY <2>2 DEF HeadOf, TailOf
      <4>2. HeadOf(l) \notin Node /\ TailOf(l) \notin Node
        BY ListAssumption
      <4>3. \A i \in 1 .. Len(q[k]) : q[k][i] \in Node
        BY <3>1
      <4> QED BY <3>1, <3>2, <4>1, <4>2, <4>3 DEF At
    <3> QED BY <3>1, <3>3, <3>4, <1>3 DEF Rings
  <2> QED BY <2>1, <2>2
<1>5. ASSUME NEW k \in DOMAIN q1 PROVE Distinct(q1[k])
  BY <1>1 DEF Rings, Distinct
<1>6. ASSUME NEW k \in DOMAIN q1, NEW m \in Node PROVE list[m] = k <=> \E j \in DOMAIN q1[k] : q1[k][j] = m
  <2>1. CASE k = l
    <3>1. list[m] # l /\ DOMAIN q1[k] = {}
      BY <2>1, <1>1, ListAssumption DEF Rings
    <3> QED BY <2>1, <3>1
  <2>2. CASE k # l
    BY <2>2, <1>1 DEF Rings
  <2> QED BY <2>1, <2>2
<1>7. ASSUME NEW k \in ListId PROVE next1[TailOf(k)] = Null /\ prev1[HeadOf(k)] = Null
  <2>1. TailOf(k) \in Cell /\ HeadOf(k) \in Cell /\ TailOf(k) # HeadOf(l) /\ HeadOf(k) # TailOf(l)
    BY DEF Cell, HeadOf, TailOf
  <2> QED BY <2>1, <1>3 DEF Rings
<1>8. list \in [Node -> DOMAIN q1 \cup {Null}]
  BY <1>1 DEF Rings
<1>9. Rings(q1, next1, prev1, list)
  BY <1>1, <1>3, <1>4, <1>5, <1>6, <1>7, <1>8 DEF Rings
<1> QED BY <1>9 DEF q1, next1, prev1, With

(* The steps from and to the cells outside list l are what they were, and  *)
(* its head and its tail lead nowhere out.                                 *)
LetGo(q, l, next, prev, next1, prev1) ==
  /\ l \in DOMAIN q
  /\ next1 \in [Cell -> Cell \cup {Null}] /\ prev1 \in [Cell -> Cell \cup {Null}]
  /\ \A c \in Cell : c \notin ToSet(q[l]) \cup {HeadOf(l), TailOf(l)} => next1[c] = next[c] /\ prev1[c] = prev[c]
  /\ next1[TailOf(l)] = Null /\ prev1[HeadOf(l)] = Null

(* The cells of list l are given back: the memory holds the other lists.   *)
LEMMA DropRing ==
  ASSUME NEW q, NEW next, NEW prev, NEW list, Rings(q, next, prev, list),
         NEW l, NEW next1, NEW prev1, LetGo(q, l, next, prev, next1, prev1)
  PROVE  Rings(Without(q, l), next1, prev1, GivenBack(list, q[l]))
<1> SUFFICES ASSUME l \in DOMAIN q, next1 \in [Cell -> Cell \cup {Null}], prev1 \in [Cell -> Cell \cup {Null}],
                    \A c \in Cell : c \notin ToSet(q[l]) \cup {HeadOf(l), TailOf(l)} => next1[c] = next[c] /\ prev1[c] = prev[c],
                    next1[TailOf(l)] = Null, prev1[HeadOf(l)] = Null,
                    NEW q1, NEW list1, q1 = [k \in DOMAIN q \ {l} |-> q[k]],
                    list1 = [n \in Node |-> IF n \in ToSet(q[l]) THEN Null ELSE list[n]]
             PROVE  Rings(q1, next1, prev1, list1)
  BY DEF LetGo, Without, GivenBack
<1> DEFINE s == q[l]
<1>1. l \in ListId /\ s \in Seq(Node) /\ Len(s) \in Nat /\ DOMAIN s = 1 .. Len(s)
  BY DEF Rings
<1>2. DOMAIN q1 = DOMAIN q \ {l} /\ q1 \in [DOMAIN q1 -> Seq(Node)] /\ DOMAIN q1 \subseteq ListId
      /\ \A k \in DOMAIN q1 : k \in DOMAIN q /\ k # l /\ q1[k] = q[k]
  BY DEF Rings
<1>3. ASSUME NEW n \in Node PROVE n \in ToSet(s) <=> list[n] = l
  BY DEF Rings, ToSet
<1>4. list1 \in [Node -> DOMAIN q1 \cup {Null}]
  <2>1. ASSUME NEW n \in Node PROVE list1[n] \in DOMAIN q1 \cup {Null}
    BY <1>2, <1>3 DEF Rings
  <2> QED BY <2>1
<1>5. ASSUME NEW k \in DOMAIN q1, NEW j \in 0 .. Len(q[k]) + 1
      PROVE  At(q[k], k, j) \in Cell /\ At(q[k], k, j) \notin ToSet(s) \cup {HeadOf(l), TailOf(l)}
  <2>1. k \in ListId /\ k \in DOMAIN q /\ k # l /\ q[k] \in Seq(Node) /\ Len(q[k]) \in Nat
    BY <1>2 DEF Rings
  <2>2. ASSUME NEW i \in 0 .. Len(s) + 1 PROVE At(q[k], k, j) # At(s, l, i)
    BY <2>1, AtApart
  <2>3. HeadOf(l) = At(s, l, 0) /\ TailOf(l) = At(s, l, Len(s) + 1)
    BY <1>1 DEF At
  <2>4. \A i \in 1 .. Len(s) : s[i] = At(s, l, i)
    BY <1>1, AtIsCell
  <2>5. At(q[k], k, j) \in Cell
    BY <2>1, AtIsCell
  <2>6. \A i \in 1 .. Len(s) : i \in 0 .. Len(s) + 1
    BY <1>1
  <2>7. 0 \in 0 .. Len(s) + 1 /\ Len(s) + 1 \in 0 .. Len(s) + 1
    BY <1>1
  <2>8. At(q[k], k, j) # HeadOf(l) /\ At(q[k], k, j) # TailOf(l)
    BY <2>2, <2>3, <2>7
  <2>9. At(q[k], k, j) \notin ToSet(s)
    <3>1. \A i \in 1 .. Len(s) : s[i] # At(q[k], k, j)
      BY <2>2, <2>4, <2>6
    <3> QED BY <3>1, <1>1 DEF ToSet
  <2> QED BY <2>5, <2>8, <2>9
<1>6. ASSUME NEW k \in DOMAIN q1, NEW j \in 0 .. Len(q1[k])
      PROVE  next1[At(q1[k], k, j)] = At(q1[k], k, j + 1) /\ prev1[At(q1[k], k, j + 1)] = At(q1[k], k, j)
  <2>1. q1[k] = q[k] /\ k \in DOMAIN q /\ q[k] \in Seq(Node) /\ Len(q[k]) \in Nat
    BY <1>2 DEF Rings
  <2>2. j \in 0 .. Len(q[k]) + 1 /\ j + 1 \in 0 .. Len(q[k]) + 1 /\ j \in 0 .. Len(q[k])
    BY <2>1
  <2>3. next1[At(q[k], k, j)] = next[At(q[k], k, j)] /\ prev1[At(q[k], k, j + 1)] = prev[At(q[k], k, j + 1)]
    BY <2>2, <1>5
  <2> QED BY <2>1, <2>2, <2>3 DEF Rings
<1>7. ASSUME NEW k \in DOMAIN q1 PROVE Distinct(q1[k])
  BY <1>2 DEF Rings
<1>8. ASSUME NEW k \in DOMAIN q1, NEW m \in Node PROVE list1[m] = k <=> \E j \in DOMAIN q1[k] : q1[k][j] = m
  <2>1. k # Null /\ k # l
    BY <1>2, ListAssumption
  <2>2. list1[m] = k <=> list[m] = k
    BY <1>3, <2>1
  <2> QED BY <2>2, <1>2 DEF Rings
<1>9. ASSUME NEW k \in ListId PROVE next1[TailOf(k)] = Null /\ prev1[HeadOf(k)] = Null
  <2>1. TailOf(k) \in Cell /\ HeadOf(k) \in Cell /\ TailOf(k) # HeadOf(l) /\ HeadOf(k) # TailOf(l)
    BY DEF Cell, HeadOf, TailOf
  <2>2. TailOf(k) \notin ToSet(s) /\ HeadOf(k) \notin ToSet(s)
    BY <1>1, ListAssumption DEF ToSet
  <2>3. k # l => HeadOf(k) # HeadOf(l) /\ TailOf(k) # TailOf(l)
    BY DEF HeadOf, TailOf
  <2> QED BY <2>1, <2>2, <2>3 DEF Rings
<1> QED BY <1>2, <1>4, <1>6, <1>7, <1>8, <1>9 DEF Rings

(* A list whose nodes are given back is empty.                             *)
LEMMA ClearRing ==
  ASSUME NEW q, NEW next, NEW prev, NEW list, Rings(q, next, prev, list), NEW l \in DOMAIN q
  PROVE  Rings(With(Without(q, l), l),
               [c \in Cell |-> IF c = HeadOf(l) THEN TailOf(l) ELSE IF c \in ToSet(q[l]) THEN Null ELSE next[c]],
               [c \in Cell |-> IF c = TailOf(l) THEN HeadOf(l) ELSE IF c \in ToSet(q[l]) THEN Null ELSE prev[c]],
               GivenBack(list, q[l]))
<1> DEFINE next0 == [c \in Cell |-> IF c \in ToSet(q[l]) THEN Null ELSE next[c]]
           prev0 == [c \in Cell |-> IF c \in ToSet(q[l]) THEN Null ELSE prev[c]]
<1>1. l \in ListId /\ HeadOf(l) \in Cell /\ TailOf(l) \in Cell /\ q[l] \in Seq(Node)
  BY DEF Rings, Cell
<1>2. HeadOf(l) \notin ToSet(q[l]) /\ TailOf(l) \notin ToSet(q[l])
  BY <1>1, ListAssumption DEF ToSet
<1>3. LetGo(q, l, next, prev, next0, prev0)
  BY <1>1, <1>2 DEF Rings, LetGo
<1>4. /\ [next0 EXCEPT ![HeadOf(l)] = TailOf(l)]
           = [c \in Cell |-> IF c = HeadOf(l) THEN TailOf(l) ELSE IF c \in ToSet(q[l]) THEN Null ELSE next[c]]
      /\ [prev0 EXCEPT ![TailOf(l)] = HeadOf(l)]
           = [c \in Cell |-> IF c = TailOf(l) THEN HeadOf(l) ELSE IF c \in ToSet(q[l]) THEN Null ELSE prev[c]]
  BY <1>1
<1>5. l \notin DOMAIN Without(q, l)
  BY DEF Without
<1> HIDE DEF next0, prev0
<1>6. Rings(Without(q, l), next0, prev0, GivenBack(list, q[l]))
  BY <1>3, DropRing
<1>7. Rings(With(Without(q, l), l), [next0 EXCEPT ![HeadOf(l)] = TailOf(l)],
            [prev0 EXCEPT ![TailOf(l)] = HeadOf(l)], GivenBack(list, q[l]))
  BY <1>1, <1>5, <1>6, CreateRing
<1> QED BY <1>4, <1>7

(* A list whose nodes, head and tail are given back is gone.               *)
LEMMA FreeRing ==
  ASSUME NEW q, NEW next, NEW prev, NEW list, Rings(q, next, prev, list), NEW l \in DOMAIN q
  PROVE  Rings(Without(q, l),
               [c \in Cell |-> IF c \in ToSet(q[l]) \cup {HeadOf(l)} THEN Null ELSE next[c]],
               [c \in Cell |-> IF c \in ToSet(q[l]) \cup {TailOf(l)} THEN Null ELSE prev[c]],
               GivenBack(list, q[l]))
<1> DEFINE next0 == [c \in Cell |-> IF c \in ToSet(q[l]) \cup {HeadOf(l)} THEN Null ELSE next[c]]
           prev0 == [c \in Cell |-> IF c \in ToSet(q[l]) \cup {TailOf(l)} THEN Null ELSE prev[c]]
<1>1. l \in ListId /\ HeadOf(l) \in Cell /\ TailOf(l) \in Cell
  BY DEF Rings, Cell
<1>2. LetGo(q, l, next, prev, next0, prev0)
  BY <1>1 DEF Rings, LetGo
<1> HIDE DEF next0, prev0
<1>3. Rings(Without(q, l), next0, prev0, GivenBack(list, q[l]))
  BY <1>2, DropRing
<1> QED BY <1>3 DEF next0, prev0

(* Walking a list from its head collects it, from its tail its reverse.    *)
LEMMA RingElements ==
  ASSUME NEW q, NEW next, NEW prev, NEW list, Rings(q, next, prev, list), NEW l \in DOMAIN q
  PROVE  Chain(HeadOf(l), next) = q[l] /\ Chain(TailOf(l), prev) = Reverse(q[l])
<1> DEFINE s == q[l]
           n == Len(s)
           r == Reverse(s)
<1>1. l \in ListId /\ s \in Seq(Node) /\ n \in Nat /\ Distinct(s) /\ HeadOf(l) \notin Node /\ TailOf(l) \notin Node
  BY ListAssumption DEF Rings
<1>2. \A i \in 0 .. n : next[At(s, l, i)] = At(s, l, i + 1) /\ prev[At(s, l, i + 1)] = At(s, l, i)
  BY DEF Rings
<1>3. Chain(HeadOf(l), next) = s
  <2>1. next[HeadOf(l)] = IF s = <<>> THEN TailOf(l) ELSE s[1]
    <3>1. next[At(s, l, 0)] = At(s, l, 1)
      BY <1>1, <1>2
    <3> QED BY <3>1, <1>1 DEF At
  <2>2. ASSUME NEW i \in 1 .. Len(s) PROVE next[s[i]] = IF i = Len(s) THEN TailOf(l) ELSE s[i + 1]
    <3>1. At(s, l, i) = s[i] /\ next[At(s, l, i)] = At(s, l, i + 1)
      BY <1>1, <1>2 DEF At
    <3> QED BY <3>1, <1>1 DEF At
  <2> HIDE DEF s
  <2> QED BY <2>1, <2>2, <1>1, ChainCollects DEF Leads
<1>4. Chain(TailOf(l), prev) = r
  <2>1. r \in [1 .. n -> Node] /\ \A i \in 1 .. n : r[i] = s[(n - i) + 1]
    BY <1>1 DEF Reverse
  <2> HIDE DEF r
  <2>2. r \in Seq(Node) /\ Len(r) = n
    <3> HIDE DEF n
    <3> QED BY <2>1, <1>1, SequenceOf
  <2>3. Distinct(r)
    <3>1. ASSUME NEW x \in 1 .. n, NEW y \in 1 .. n, r[x] = r[y] PROVE x = y
      <4>1. (n - x) + 1 \in DOMAIN s /\ (n - y) + 1 \in DOMAIN s /\ s[(n - x) + 1] = s[(n - y) + 1]
        BY <2>1, <3>1, <1>1
      <4>2. (n - x) + 1 = (n - y) + 1
        <5> HIDE DEF n, s
        <5> QED BY <4>1, <1>1 DEF Distinct
      <4> QED BY <4>2, <1>1
    <3>2. DOMAIN r = 1 .. n
      BY <2>1
    <3> QED BY <3>1, <3>2 DEF Distinct
  <2>4. prev[TailOf(l)] = IF r = <<>> THEN HeadOf(l) ELSE r[1]
    <3>1. prev[At(s, l, n + 1)] = At(s, l, n)
      BY <1>1, <1>2
    <3>2. At(s, l, n + 1) = TailOf(l)
      BY <1>1 DEF At
    <3>3. CASE n = 0
      BY <3>1, <3>2, <3>3, <2>2 DEF At
    <3>4. CASE n # 0
      <4>1. r # <<>> /\ r[1] = s[n] /\ At(s, l, n) = s[n]
        <5>1. 1 \in 1 .. n /\ (n - 1) + 1 = n /\ n # n + 1
          BY <3>4, <1>1
        <5>2. r[1] = s[n]
          BY <5>1, <2>1
        <5>3. r # <<>>
          <6>1. Len(r) # 0
            BY <3>4, <2>2
          <6> HIDE DEF r, n
          <6> QED BY <6>1
        <5>4. At(s, l, n) = s[n]
          BY <3>4, <5>1 DEF At
        <5> QED BY <5>2, <5>3, <5>4
      <4> QED BY <4>1, <3>1, <3>2
    <3> QED BY <3>3, <3>4
  <2>5. ASSUME NEW i \in 1 .. Len(r) PROVE prev[r[i]] = IF i = Len(r) THEN HeadOf(l) ELSE r[i + 1]
    <3>1. n - i \in 0 .. n /\ i \in 1 .. n /\ r[i] = s[(n - i) + 1] /\ At(s, l, (n - i) + 1) = s[(n - i) + 1]
      BY <2>1, <2>2, <1>1 DEF At
    <3>2. prev[r[i]] = At(s, l, n - i)
      BY <3>1, <1>2
    <3>3. CASE i = n
      <4>1. n - i = 0
        BY <3>3, <1>1
      <4> QED BY <4>1, <3>2, <3>3, <2>2 DEF At
    <3>4. CASE i # n
      <4>1. r[i + 1] = s[n - i] /\ At(s, l, n - i) = s[n - i]
        <5>1. i + 1 \in 1 .. n /\ (n - (i + 1)) + 1 = n - i /\ n - i # 0 /\ n - i # n + 1
          BY <3>1, <3>4, <1>1
        <5> QED BY <5>1, <2>1 DEF At
      <4> QED BY <4>1, <3>2, <3>4, <2>2
    <3> QED BY <3>3, <3>4
  <2> HIDE DEF s, n
  <2> QED BY <2>2, <2>3, <2>4, <2>5, <1>1, ChainCollects DEF Leads
<1> QED BY <1>3, <1>4

-----------------------------------------------------------------------------
(* The cells of a list to which others were joined.                        *)
LEMMA AtJoined ==
  ASSUME NEW l \in ListId, NEW s \in Seq(Node), NEW f \in Seq(Node)
  PROVE  /\ s \o f \in Seq(Node) /\ Len(s \o f) = Len(s) + Len(f)
         /\ \A i \in 1 .. Len(s) + Len(f) : (s \o f)[i] = IF i <= Len(s) THEN s[i] ELSE f[i - Len(s)]
         /\ \A i \in 0 .. Len(s) + Len(f) + 1 :
              At(s \o f, l, i) = IF i <= Len(s) THEN At(s, l, i)
                                 ELSE IF i <= Len(s) + Len(f) THEN f[i - Len(s)] ELSE TailOf(l)
<1> DEFINE t == s \o f
<1>1. t \in Seq(Node) /\ Len(t) = Len(s) + Len(f) /\ Len(s) \in Nat /\ Len(f) \in Nat
  OBVIOUS
<1>2. \A i \in 1 .. Len(s) + Len(f) : t[i] = IF i <= Len(s) THEN s[i] ELSE f[i - Len(s)]
  OBVIOUS
<1> HIDE DEF t
<1>3. ASSUME NEW i \in 0 .. Len(s) + Len(f) + 1
      PROVE  At(t, l, i) = IF i <= Len(s) THEN At(s, l, i)
                           ELSE IF i <= Len(s) + Len(f) THEN f[i - Len(s)] ELSE TailOf(l)
  <2>1. CASE i = 0
    BY <2>1, <1>1 DEF At
  <2>2. CASE i = Len(s) + Len(f) + 1
    BY <2>2, <1>1 DEF At
  <2>3. CASE i \in 1 .. Len(s) + Len(f)
    <3>1. At(t, l, i) = t[i]
      BY <2>3, <1>1 DEF At
    <3>2. i <= Len(s) => At(s, l, i) = s[i]
      BY <2>3, <1>1 DEF At
    <3> QED BY <3>1, <3>2, <2>3, <1>1, <1>2
  <2> QED BY <2>1, <2>2, <2>3, <1>1
<1> QED BY <1>1, <1>2, <1>3 DEF t

(* Nodes that follow each other but are on no list, as far as list tells;  *)
(* the memory m may still have the list they were on.                      *)
Loose(f, m, list) ==
  /\ f \in Seq(Node) /\ f # <<>> /\ Distinct(f)
  /\ \A i \in 1 .. Len(f) : list[f[i]] = Null
  /\ \A i \in 1 .. Len(f) - 1 : m.next[f[i]] = f[i + 1] /\ m.prev[f[i + 1]] = f[i]
  /\ m.next[f[Len(f)]] \notin Node
  /\ \A n \in Node : n \notin ToSet(f) => m.list[n] = list[n]

(* The lists q with a sequence more at the end of one.                     *)
Appended(q, l, f) == [q EXCEPT ![l] = q[l] \o f]

(* The memory r is m with them at the end of list l.                       *)
Moved(r, m, l, f) == r = _list_append_fragment(m, l, f[1], f[Len(f)])

(* They become the end of one.                                             *)
LEMMA FragmentRing ==
  ASSUME NEW q, NEW m, NEW list, Rings(q, m.next, m.prev, list), NEW l \in DOMAIN q,
         NEW f, Loose(f, m, list), NEW r, Moved(r, m, l, f)
  PROVE  Rings(Appended(q, l, f), r.next, r.prev, r.list) /\ r.count = Len(f)
<1> SUFFICES ASSUME f \in Seq(Node), f # <<>>, Distinct(f), \A i \in 1 .. Len(f) : list[f[i]] = Null,
                    \A i \in 1 .. Len(f) - 1 : m.next[f[i]] = f[i + 1] /\ m.prev[f[i + 1]] = f[i],
                    m.next[f[Len(f)]] \notin Node, \A n \in Node : n \notin ToSet(f) => m.list[n] = list[n]
             PROVE  Rings([q EXCEPT ![l] = @ \o f], r.next, r.prev, r.list) /\ r.count = Len(f)
  BY DEF Loose, Appended
<1> DEFINE s == q[l]
           N == Len(s)
           M == Len(f)
           t == s \o f
           q1 == [q EXCEPT ![l] = t]
           first == f[1]
           last == f[M]
           end == m.prev[TailOf(l)]
<1>1. l \in ListId /\ s \in Seq(Node) /\ N \in Nat /\ M \in Nat /\ M >= 1 /\ first \in Node /\ last \in Node
      /\ Distinct(s) /\ DOMAIN f = 1 .. M /\ DOMAIN s = 1 .. N
  BY DEF Rings
<1>2. HeadOf(l) \in Cell /\ TailOf(l) \in Cell /\ first \in Cell /\ last \in Cell /\ Node \subseteq Cell
      /\ TailOf(l) \notin Node /\ HeadOf(l) \notin Node /\ HeadOf(l) # TailOf(l)
  BY <1>1, ListAssumption DEF Cell, HeadOf, TailOf
<1>3. end = At(s, l, N) /\ end \in Cell /\ end # TailOf(l)
  <2>1. m.prev[At(s, l, N + 1)] = At(s, l, N) /\ At(s, l, N + 1) = TailOf(l)
    <3>1. N \in 0 .. Len(q[l])
      BY <1>1
    <3>2. m.prev[At(s, l, N + 1)] = At(s, l, N)
      BY <3>1 DEF Rings
    <3>3. N + 1 # 0
      BY <1>1
    <3> QED BY <3>2, <3>3 DEF At
  <2>2. At(s, l, N) \in Cell
    BY <1>1, AtIsCell
  <2>3. At(s, l, N) # TailOf(l)
    <3>1. CASE N = 0
      BY <3>1, <1>2 DEF At
    <3>2. CASE N # 0
      <4> HIDE DEF N
      <4>1. N \in 1 .. N /\ N # N + 1
        BY <3>2, <1>1
      <4>2. At(s, l, N) = s[N] /\ s[N] \in Node
        <5>1. s[N] \in Node
          BY <4>1, <1>1
        <5>2. N # Len(s) + 1
          BY <4>1 DEF N
        <5> HIDE DEF s
        <5> QED BY <3>2, <5>1, <5>2 DEF At
      <4> QED BY <4>2, <1>2
    <3> QED BY <3>1, <3>2
  <2> QED BY <2>1, <2>2, <2>3
<1>4. ASSUME NEW k \in DOMAIN q, NEW j \in 0 .. Len(q[k]) + 1, NEW i \in 1 .. M PROVE At(q[k], k, j) # f[i]
  <2>1. k \in ListId /\ q[k] \in Seq(Node) /\ k # Null
    BY ListAssumption DEF Rings
  <2>2. CASE j \in 1 .. Len(q[k])
    <3>1. At(q[k], k, j) = q[k][j] /\ j \in DOMAIN q[k] /\ q[k][j] \in Node
      BY <2>1, <2>2, AtIsCell
    <3>2. list[q[k][j]] = k
      BY <3>1, <2>1 DEF Rings
    <3> QED BY <3>1, <3>2, <2>1
  <2>3. CASE j \notin 1 .. Len(q[k])
    <3>1. At(q[k], k, j) \notin Node
      BY <2>1, <2>3, AtIsCell
    <3>2. f[i] \in Node
      BY <1>1
    <3> QED BY <3>1, <3>2
  <2> QED BY <2>2, <2>3
<1>5. \A i \in 1 .. M : f[i] # end
  <2>1. N \in 0 .. N + 1
    BY <1>1
  <2> QED BY <2>1, <1>3, <1>4
<1>6. \A i \in 1 .. M - 1 : f[i] # last
  BY <1>1 DEF Distinct
<1>7. \A i \in 2 .. M : f[i] # first
  BY <1>1 DEF Distinct
<1> DEFINE moved == <<first>> \o Chain(first, m.next)
<1>8. moved = f
  <2> DEFINE rest == SubSeq(f, 2, M)
  <2>1. rest \in Seq(Node) /\ Len(rest) = M - 1 /\ \A i \in 1 .. M - 1 : rest[i] = f[1 + i]
    BY <1>1, Behind
  <2> HIDE DEF rest
  <2>2. Distinct(rest)
    <3>1. DOMAIN rest = 1 .. M - 1
      BY <2>1
    <3>2. ASSUME NEW x \in 1 .. M - 1, NEW y \in 1 .. M - 1, rest[x] = rest[y] PROVE x = y
      <4>1. 1 + x \in DOMAIN f /\ 1 + y \in DOMAIN f /\ f[1 + x] = f[1 + y]
        BY <3>2, <2>1, <1>1
      <4>2. 1 + x = 1 + y
        <5> HIDE DEF M
        <5> QED BY <4>1 DEF Distinct
      <4> QED BY <4>2, <1>1
    <3> QED BY <3>1, <3>2 DEF Distinct
  <2>3. m.next[first] = IF rest = <<>> THEN m.next[last] ELSE rest[1]
    <3>1. CASE M = 1
      <4>1. rest = <<>>
        BY <3>1, <2>1
      <4> QED BY <4>1, <3>1
    <3>2. CASE M # 1
      <4>1. 1 \in 1 .. M - 1 /\ rest # <<>>
        BY <3>2, <2>1, <1>1
      <4>2. rest[1] = f[1 + 1] /\ m.next[f[1]] = f[1 + 1]
        BY <4>1, <2>1
      <4> QED BY <4>1, <4>2
    <3> QED BY <3>1, <3>2
  <2>4. ASSUME NEW i \in 1 .. Len(rest) PROVE m.next[rest[i]] = IF i = Len(rest) THEN m.next[last] ELSE rest[i + 1]
    <3>1. i \in 1 .. M - 1 /\ rest[i] = f[1 + i]
      BY <2>1, <1>1
    <3>2. CASE i = M - 1
      <4>1. 1 + i = M
        BY <3>2, <1>1
      <4> QED BY <4>1, <3>1, <3>2, <2>1
    <3>3. CASE i # M - 1
      <4>1. 1 + i \in 1 .. M - 1 /\ i + 1 \in 1 .. M - 1 /\ 1 + (i + 1) = (1 + i) + 1
        BY <3>1, <3>3, <1>1
      <4>2. rest[i + 1] = f[(1 + i) + 1] /\ m.next[f[1 + i]] = f[(1 + i) + 1]
        BY <4>1, <2>1
      <4> QED BY <4>2, <3>1, <3>3, <2>1
    <3> QED BY <3>2, <3>3
  <2>5. Chain(first, m.next) = rest
    <3>1. m.next[last] \notin Node
      OBVIOUS
    <3>2. Leads(rest, first, m.next, m.next[last])
      <4> HIDE DEF first, last
      <4> QED BY <3>1, <2>1, <2>2, <2>3, <2>4 DEF Leads
    <3> HIDE DEF first, last
    <3> QED BY <3>2, ChainCollects
  <2>6. <<first>> \o rest \in Seq(Node) /\ Len(<<first>> \o rest) = M
        /\ \A i \in 1 .. M : (<<first>> \o rest)[i] = f[i]
    <3>1. <<first>> \in Seq(Node) /\ Len(<<first>>) = 1 /\ <<first>>[1] = first
      BY <1>1
    <3>2. ASSUME NEW i \in 1 .. M PROVE (<<first>> \o rest)[i] = f[i]
      <4>1. (<<first>> \o rest)[i] = IF i <= 1 THEN <<first>>[i] ELSE rest[i - 1]
        <5> HIDE DEF first, M
        <5>1. i \in 1 .. Len(<<first>>) + Len(rest)
          BY <2>1, <3>1, <1>1
        <5> QED BY <5>1, <2>1, <3>1
      <4>2. i > 1 => rest[i - 1] = f[i]
        <5> SUFFICES ASSUME i > 1 PROVE rest[i - 1] = f[i]
          OBVIOUS
        <5>1. i - 1 \in 1 .. M - 1 /\ 1 + (i - 1) = i
          BY <1>1
        <5> QED BY <5>1, <2>1
      <4>3. i <= 1 => i = 1
        BY <1>1
      <4>4. CASE i = 1
        <5>1. (<<first>> \o rest)[i] = <<first>>[1]
          BY <4>1, <4>4
        <5> QED BY <5>1, <4>4
      <4>5. CASE ~(i <= 1)
        <5>1. i > 1
          BY <4>5, <1>1
        <5> QED BY <4>1, <4>2, <4>5, <5>1
      <4> QED BY <4>3, <4>4, <4>5
    <3> QED BY <3>1, <3>2, <2>1, <1>1
  <2>7. <<first>> \o rest = f
    <3> DEFINE g == <<first>> \o rest
    <3>1. g \in Seq(Node) /\ Len(g) = Len(f) /\ \A i \in 1 .. Len(g) : g[i] = f[i]
      BY <2>6
    <3> HIDE DEF g
    <3>2. g = f
      BY <3>1, SeqEqual
    <3> QED BY <3>2 DEF g
  <2> QED BY <2>5, <2>7
<1>9. r.next = [m.next EXCEPT ![last] = TailOf(l), ![end] = first]
      /\ r.prev = [m.prev EXCEPT ![first] = end, ![TailOf(l)] = last]
      /\ r.list = [n \in Node |-> IF n \in ToSet(f) THEN l ELSE m.list[n]]
      /\ r.count = M
  BY <1>8 DEF _list_append_fragment, Moved
<1> HIDE DEF moved
<1>10. r.next \in [Cell -> Cell \cup {Null}] /\ r.prev \in [Cell -> Cell \cup {Null}]
       /\ r.next[end] = first /\ r.next[last] = TailOf(l) /\ r.prev[first] = end /\ r.prev[TailOf(l)] = last
       /\ (\A c \in Cell : c # end /\ c # last => r.next[c] = m.next[c])
       /\ (\A c \in Cell : c # first /\ c # TailOf(l) => r.prev[c] = m.prev[c])
  <2>1. last # end /\ first # TailOf(l)
    BY <1>1, <1>2, <1>5
  <2>2. m.next \in [Cell -> Cell \cup {Null}] /\ m.prev \in [Cell -> Cell \cup {Null}]
    BY DEF Rings
  <2> HIDE DEF first, last, end
  <2> QED BY <2>1, <2>2, <1>2, <1>3, <1>9
<1>11. t \in Seq(Node) /\ Len(t) = N + M /\ (\A i \in 1 .. N + M : t[i] = IF i <= N THEN s[i] ELSE f[i - N])
       /\ \A i \in 0 .. N + M + 1 : At(t, l, i) = IF i <= N THEN At(s, l, i) ELSE IF i <= N + M THEN f[i - N] ELSE TailOf(l)
  BY <1>1, AtJoined
<1> HIDE DEF t
<1>12. DOMAIN q1 = DOMAIN q /\ q1 \in [DOMAIN q -> Seq(Node)] /\ q1[l] = t /\ (\A k \in DOMAIN q : k # l => q1[k] = q[k])
       /\ DOMAIN q1 \subseteq ListId
  BY <1>11 DEF Rings
<1> HIDE DEF q1
<1>13. ASSUME NEW k \in DOMAIN q PROVE Distinct(q1[k])
  <2>1. CASE k = l
    <3>1. ASSUME NEW x \in 1 .. N + M, NEW y \in 1 .. N + M, t[x] = t[y], x <= y PROVE x = y
      <4>1. CASE y <= N
        <5>1. x \in 1 .. N /\ y \in 1 .. N /\ s[x] = s[y]
          BY <4>1, <3>1, <1>1, <1>11
        <5> HIDE DEF s, N, M
        <5> QED BY <5>1, <1>1 DEF Distinct
      <4>2. CASE x > N
        <5>1. x - N \in 1 .. M /\ y - N \in 1 .. M /\ f[x - N] = f[y - N]
          BY <4>2, <3>1, <1>1, <1>11
        <5>2. x - N = y - N
          <6> HIDE DEF s, N, M
          <6> QED BY <5>1, <1>1 DEF Distinct
        <5> QED BY <5>2, <1>1
      <4>3. CASE x <= N /\ y > N
        <5>1. x \in 0 .. N + 1 /\ y - N \in 1 .. M /\ At(s, l, x) = s[x] /\ t[x] = s[x] /\ t[y] = f[y - N]
          BY <4>3, <3>1, <1>1, <1>11 DEF At
        <5> QED BY <5>1, <3>1, <1>4
      <4> QED BY <4>1, <4>2, <4>3, <1>1
    <3>2. ASSUME NEW x \in 1 .. N + M, NEW y \in 1 .. N + M, t[x] = t[y] PROVE x = y
      <4>1. x <= y \/ y <= x
        BY <1>1
      <4> QED BY <4>1, <3>1, <3>2
    <3>3. DOMAIN t = 1 .. N + M
      BY <1>11
    <3> QED BY <2>1, <3>2, <3>3, <1>12 DEF Distinct
  <2>2. CASE k # l
    BY <2>2, <1>12 DEF Rings
  <2> QED BY <2>1, <2>2
<1>14. ASSUME NEW k \in DOMAIN q, NEW j \in 0 .. Len(q1[k])
       PROVE  r.next[At(q1[k], k, j)] = At(q1[k], k, j + 1) /\ r.prev[At(q1[k], k, j + 1)] = At(q1[k], k, j)
  <2>1. ASSUME NEW h \in DOMAIN q, NEW i \in 0 .. Len(q[h]), h # l \/ i < N
        PROVE  r.next[At(q[h], h, i)] = At(q[h], h, i + 1) /\ r.prev[At(q[h], h, i + 1)] = At(q[h], h, i)
    <3>1. h \in ListId /\ q[h] \in Seq(Node) /\ Len(q[h]) \in Nat
      BY DEF Rings
    <3>2. i \in 0 .. Len(q[h]) + 1 /\ i + 1 \in 0 .. Len(q[h]) + 1
      BY <3>1
    <3>3. At(q[h], h, i) \in Cell /\ At(q[h], h, i + 1) \in Cell
      BY <3>1, <3>2, AtIsCell
    <3>4. At(q[h], h, i) # last /\ At(q[h], h, i + 1) # first
      BY <3>2, <1>1, <1>4
    <3>5. At(q[h], h, i) # end /\ At(q[h], h, i + 1) # TailOf(l)
      <4>1. TailOf(l) = At(s, l, N + 1)
        BY <1>1 DEF At
      <4>2. N \in 0 .. N + 1 /\ N + 1 \in 0 .. N + 1 /\ (h # l \/ (i # N /\ i + 1 # N + 1))
        <5>1. i \in Int /\ N \in Nat
          BY <1>1
        <5> HIDE DEF N
        <5> QED BY <5>1, <2>1
      <4> QED BY <4>1, <4>2, <3>2, <1>3, AtApart
    <3> QED BY <3>3, <3>4, <3>5, <1>10 DEF Rings
  <2>2. CASE k # l
    <3>1. q1[k] = q[k]
      BY <2>2, <1>12
    <3> QED BY <2>1, <2>2, <3>1
  <2>3. CASE k = l
    <3>1. q1[k] = t /\ j \in 0 .. N + M
      BY <2>3, <1>11, <1>12
    <3>2. CASE j < N
      <4>1. At(t, l, j) = At(s, l, j) /\ At(t, l, j + 1) = At(s, l, j + 1) /\ j \in 0 .. N
        <5>1. j <= N /\ j + 1 <= N /\ j \in 0 .. N + M + 1 /\ j + 1 \in 0 .. N + M + 1
          BY <3>1, <3>2, <1>1
        <5> QED BY <5>1, <3>1, <1>1, <1>11
      <4> QED BY <4>1, <2>1, <2>3, <3>1, <3>2
    <3>3. CASE j = N
      <4>1. j \in 0 .. N + M + 1 /\ j + 1 \in 0 .. N + M + 1 /\ j <= N /\ ~(j + 1 <= N) /\ j + 1 <= N + M /\ (j + 1) - N = 1
        BY <3>1, <3>3, <1>1
      <4>2. At(t, l, j) = end /\ At(t, l, j + 1) = first
        BY <4>1, <3>3, <1>3, <1>11
      <4> QED BY <4>2, <2>3, <3>1, <1>10
    <3>4. CASE j > N /\ j < N + M
      <4>1. j \in 0 .. N + M + 1 /\ j + 1 \in 0 .. N + M + 1 /\ ~(j <= N) /\ ~(j + 1 <= N) /\ j <= N + M /\ j + 1 <= N + M
            /\ (j + 1) - N = (j - N) + 1 /\ j - N \in 1 .. M - 1 /\ j - N \in 1 .. M /\ (j - N) + 1 \in 2 .. M /\ (j - N) + 1 \in 1 .. M
        BY <3>1, <3>4, <1>1
      <4>2. At(t, l, j) = f[j - N] /\ At(t, l, j + 1) = f[(j - N) + 1]
        BY <4>1, <1>11
      <4>3. m.next[f[j - N]] = f[(j - N) + 1] /\ m.prev[f[(j - N) + 1]] = f[j - N]
        BY <4>1
      <4>4. f[j - N] # last /\ f[j - N] # end /\ f[(j - N) + 1] # first
        BY <4>1, <1>5, <1>6, <1>7
      <4>5. f[j - N] \in Cell /\ f[(j - N) + 1] \in Node
        BY <4>1, <1>1, <1>2
      <4>6. r.next[f[j - N]] = f[(j - N) + 1] /\ r.prev[f[(j - N) + 1]] = f[j - N]
        <5>1. f[(j - N) + 1] \in Cell /\ f[(j - N) + 1] # TailOf(l)
          BY <4>5, <1>2
        <5> HIDE DEF first, last, end, N
        <5> QED BY <5>1, <4>3, <4>4, <4>5, <1>10
      <4> HIDE DEF N
      <4> QED BY <4>2, <4>6, <2>3, <3>1
    <3>5. CASE j = N + M
      <4>1. j \in 0 .. N + M + 1 /\ j + 1 \in 0 .. N + M + 1 /\ ~(j <= N) /\ ~(j + 1 <= N) /\ j <= N + M /\ ~(j + 1 <= N + M) /\ j - N = M
        BY <3>1, <3>5, <1>1
      <4>2. At(t, l, j) = last /\ At(t, l, j + 1) = TailOf(l)
        <5> HIDE DEF N, M, s
        <5> QED BY <4>1, <1>11 DEF last
      <4>3. r.next[last] = TailOf(l) /\ r.prev[TailOf(l)] = last
        BY <1>10
      <4> HIDE DEF last, N, M
      <4> QED BY <4>2, <4>3, <2>3, <3>1
    <3>6. j < N \/ j = N \/ (j > N /\ j < N + M) \/ j = N + M
      <4> HIDE DEF N, M
      <4> QED BY <3>1, <1>1
    <3> QED BY <3>2, <3>3, <3>4, <3>5, <3>6
  <2> QED BY <2>2, <2>3
<1>15. ASSUME NEW n \in Node PROVE n \in ToSet(f) <=> \E i \in 1 .. M : f[i] = n
  BY <1>1 DEF ToSet
<1>16. \A n \in Node : r.list[n] = IF n \in ToSet(f) THEN l ELSE list[n]
  BY <1>9
<1>17. r.list \in [Node -> DOMAIN q1 \cup {Null}]
  <2>1. \A n \in Node : r.list[n] \in DOMAIN q1 \cup {Null}
    BY <1>12, <1>16 DEF Rings
  <2> QED BY <2>1, <1>9
<1>18. ASSUME NEW k \in DOMAIN q, NEW n \in Node PROVE r.list[n] = k <=> \E j \in DOMAIN q1[k] : q1[k][j] = n
  <2>1. n \in ToSet(f) => list[n] = Null
    BY <1>15
  <2>2. k # Null
    BY ListAssumption DEF Rings
  <2>3. list[n] = k <=> \E j \in DOMAIN q[k] : q[k][j] = n
    BY DEF Rings
  <2>4. CASE k # l
    BY <2>1, <2>2, <2>3, <2>4, <1>12, <1>16
  <2>5. CASE k = l
    <3>1. DOMAIN q1[k] = 1 .. N + M /\ q1[k] = t
      BY <2>5, <1>11, <1>12
    <3>2. ASSUME NEW j \in 1 .. N + M, t[j] = n PROVE (\E i \in 1 .. N : s[i] = n) \/ \E i \in 1 .. M : f[i] = n
      <4>1. CASE j <= N
        <5>1. j \in 1 .. N /\ s[j] = n
          BY <4>1, <3>2, <1>1, <1>11
        <5> QED BY <5>1
      <4>2. CASE j > N
        <5>1. j - N \in 1 .. M /\ f[j - N] = n
          BY <4>2, <3>2, <1>1, <1>11
        <5> QED BY <5>1
      <4> QED BY <4>1, <4>2, <1>1
    <3>3. ASSUME NEW i \in 1 .. N, s[i] = n PROVE \E j \in 1 .. N + M : t[j] = n
      <4>1. i \in 1 .. N + M /\ t[i] = n
        BY <3>3, <1>1, <1>11
      <4> QED BY <4>1
    <3>4. ASSUME NEW i \in 1 .. M, f[i] = n PROVE \E j \in 1 .. N + M : t[j] = n
      <4>1. N + i \in 1 .. N + M /\ t[N + i] = n
        <5>1. N + i \in 1 .. N + M /\ ~(N + i <= N) /\ (N + i) - N = i
          BY <1>1
        <5> QED BY <5>1, <3>4, <1>11
      <4> QED BY <4>1
    <3>5. (\E j \in 1 .. N + M : t[j] = n) <=> n \in ToSet(f) \/ \E i \in 1 .. N : s[i] = n
      BY <3>2, <3>3, <3>4, <1>15
    <3>6. (\E j \in 1 .. N + M : t[j] = n) <=> n \in ToSet(f) \/ list[n] = l
      BY <3>5, <2>3, <2>5, <1>1
    <3> QED BY <3>1, <3>6, <2>5, <1>16
  <2> QED BY <2>4, <2>5
<1>19. ASSUME NEW k \in ListId PROVE r.next[TailOf(k)] = Null /\ r.prev[HeadOf(k)] = Null
  <2>1. TailOf(k) \in Cell /\ HeadOf(k) \in Cell /\ HeadOf(k) # TailOf(l) /\ TailOf(k) # last /\ HeadOf(k) # first
    BY <1>1, ListAssumption DEF Cell, HeadOf, TailOf
  <2>2. TailOf(k) # end
    <3>1. m.next[end] = TailOf(l)
      <4>1. m.next[At(s, l, N)] = At(s, l, N + 1)
        <5>1. N \in 0 .. Len(q[l])
          BY <1>1
        <5> QED BY <5>1 DEF Rings
      <4>2. At(s, l, N + 1) = TailOf(l)
        BY <1>1 DEF At
      <4> QED BY <4>1, <4>2, <1>3
    <3>2. m.next[TailOf(k)] = Null
      BY DEF Rings
    <3> QED BY <3>1, <3>2, <1>2, ListAssumption
  <2> QED BY <2>1, <2>2, <1>10 DEF Rings
<1>20. Rings(q1, r.next, r.prev, r.list)
  BY <1>10, <1>12, <1>13, <1>14, <1>17, <1>18, <1>19 DEF Rings
<1> QED BY <1>9, <1>20 DEF q1, t

(* The memory list1 is list without the nodes of l from place p on.        *)
CutOff(q, l, p, list, list1) ==
  /\ l \in DOMAIN q /\ p \in 1 .. Len(q[l]) /\ list1 \in [Node -> DOMAIN q \cup {Null}]
  /\ \A n \in Node : list1[n] = IF \E i \in p .. Len(q[l]) : q[l][i] = n THEN Null ELSE list[n]

(* The lists q with one that ends before place p.                          *)
Shortened(q, l, p) == [q EXCEPT ![l] = SubSeq(q[l], 1, p - 1)]

(* Loose nodes that can join a list, and the lists once they have.         *)
Joinable(q, m, list, l, f, r) ==
  Rings(q, m.next, m.prev, list) /\ l \in DOMAIN q /\ Loose(f, m, list) /\ Moved(r, m, l, f)
Attached(q, l, f, r) == Rings(Appended(q, l, f), r.next, r.prev, r.list) /\ r.count = Len(f)

(* Loose nodes join a list.                                                *)
LEMMA FragmentJoins ==
  ASSUME NEW q, NEW m, NEW list, NEW l, NEW f, NEW r, Joinable(q, m, list, l, f, r)
  PROVE  Attached(q, l, f, r)
BY FragmentRing DEF Joinable, Attached

(* The nodes of a list from place p on are cut out of it.                  *)
LEMMA CutRing ==
  ASSUME NEW q, NEW next, NEW prev, NEW list, Rings(q, next, prev, list),
         NEW l, NEW p, NEW list1, CutOff(q, l, p, list, list1), NEW before, before = prev[q[l][p]]
  PROVE  Rings(Shortened(q, l, p),
               [next EXCEPT ![before] = TailOf(l)], [prev EXCEPT ![TailOf(l)] = before], list1)
<1> SUFFICES ASSUME l \in DOMAIN q, p \in 1 .. Len(q[l]), list1 \in [Node -> DOMAIN q \cup {Null}],
                    \A n \in Node : list1[n] = IF \E i \in p .. Len(q[l]) : q[l][i] = n THEN Null ELSE list[n]
             PROVE  Rings([q EXCEPT ![l] = SubSeq(q[l], 1, p - 1)],
                          [next EXCEPT ![before] = TailOf(l)], [prev EXCEPT ![TailOf(l)] = before], list1)
  BY DEF CutOff, Shortened
<1> DEFINE s == q[l]
           t == SubSeq(s, 1, p - 1)
           q1 == [q EXCEPT ![l] = t]
           next1 == [next EXCEPT ![before] = TailOf(l)]
           prev1 == [prev EXCEPT ![TailOf(l)] = before]
<1>1. l \in ListId /\ s \in Seq(Node) /\ Len(s) \in Nat /\ p \in Nat /\ p <= Len(s) /\ p >= 1 /\ Distinct(s)
  BY DEF Rings
<1>2. before = At(s, l, p - 1) /\ before \in Cell /\ TailOf(l) \in Cell /\ p - 1 \in 0 .. Len(s) + 1
  <2>1. p - 1 \in 0 .. Len(s) /\ (p - 1) + 1 = p /\ p # 0 /\ p # Len(s) + 1
    BY <1>1
  <2>2. prev[At(s, l, (p - 1) + 1)] = At(s, l, p - 1)
    BY <2>1 DEF Rings
  <2>3. At(s, l, p) = s[p]
    BY <2>1 DEF At
  <2>4. p - 1 \in 0 .. Len(s) + 1
    BY <1>1
  <2>5. before = At(s, l, p - 1)
    BY <2>1, <2>2, <2>3
  <2> QED BY <2>4, <2>5, <1>1, AtIsCell DEF Cell
<1>3. t \in Seq(Node) /\ Len(t) = p - 1 /\ (\A i \in 1 .. p - 1 : t[i] = s[i])
      /\ \A j \in 0 .. p : At(t, l, j) = IF j < p THEN At(s, l, j) ELSE TailOf(l)
  <2>1. t \in Seq(Node) /\ Len(t) = p - 1 /\ \A i \in 1 .. p - 1 : t[i] = s[i]
    BY <1>1
  <2> HIDE DEF t
  <2>2. ASSUME NEW j \in 0 .. p PROVE At(t, l, j) = IF j < p THEN At(s, l, j) ELSE TailOf(l)
    <3>1. CASE j = 0
      BY <3>1, <1>1 DEF At
    <3>2. CASE j = p
      BY <3>2, <1>1, <2>1 DEF At
    <3>3. CASE j \in 1 .. p - 1
      <4>1. j # 0 /\ j # Len(t) + 1 /\ j # Len(s) + 1 /\ j < p
        BY <3>3, <1>1, <2>1
      <4> QED BY <4>1, <3>3, <2>1 DEF At
    <3> QED BY <3>1, <3>2, <3>3, <1>1
  <2> QED BY <2>1, <2>2
<1> HIDE DEF t
<1>4. DOMAIN q1 = DOMAIN q /\ q1 \in [DOMAIN q -> Seq(Node)] /\ q1[l] = t /\ (\A k \in DOMAIN q : k # l => q1[k] = q[k])
      /\ DOMAIN q1 \subseteq ListId
  BY <1>3 DEF Rings
<1>5. next1 \in [Cell -> Cell \cup {Null}] /\ prev1 \in [Cell -> Cell \cup {Null}]
      /\ next1[before] = TailOf(l) /\ prev1[TailOf(l)] = before
      /\ (\A c \in Cell : c # before => next1[c] = next[c]) /\ (\A c \in Cell : c # TailOf(l) => prev1[c] = prev[c])
  BY <1>2 DEF Rings
<1> HIDE DEF q1, next1, prev1
<1>6. ASSUME NEW k \in DOMAIN q PROVE Distinct(q1[k])
  <2>1. CASE k = l
    <3>1. DOMAIN t = 1 .. p - 1 /\ DOMAIN s = 1 .. Len(s)
      BY <1>1, <1>3
    <3>2. ASSUME NEW x \in 1 .. p - 1, NEW y \in 1 .. p - 1, t[x] = t[y] PROVE x = y
      <4>1. s[x] = s[y] /\ x \in 1 .. Len(s) /\ y \in 1 .. Len(s)
        BY <3>2, <1>1, <1>3
      <4> QED BY <4>1, <3>1, <1>1 DEF Distinct
    <3> QED BY <2>1, <3>1, <3>2, <1>4 DEF Distinct
  <2>2. CASE k # l
    BY <2>2, <1>4 DEF Rings
  <2> QED BY <2>1, <2>2
<1>7. ASSUME NEW k \in DOMAIN q, NEW j \in 0 .. Len(q1[k])
      PROVE  next1[At(q1[k], k, j)] = At(q1[k], k, j + 1) /\ prev1[At(q1[k], k, j + 1)] = At(q1[k], k, j)
  <2>1. ASSUME NEW h \in DOMAIN q, NEW i \in 0 .. Len(q[h]), h # l \/ i + 1 < p
        PROVE  next1[At(q[h], h, i)] = At(q[h], h, i + 1) /\ prev1[At(q[h], h, i + 1)] = At(q[h], h, i)
    <3>1. h \in ListId /\ q[h] \in Seq(Node) /\ Len(q[h]) \in Nat
      BY DEF Rings
    <3>2. i \in 0 .. Len(q[h]) + 1 /\ i + 1 \in 0 .. Len(q[h]) + 1
      BY <3>1
    <3>3. At(q[h], h, i) \in Cell /\ At(q[h], h, i + 1) \in Cell
      BY <3>1, <3>2, AtIsCell
    <3>4. At(q[h], h, i) # before
      <4>1. h # l \/ i # p - 1
        BY <2>1, <1>1
      <4> QED BY <4>1, <3>2, <1>2, AtApart
    <3>5. At(q[h], h, i + 1) # TailOf(l)
      <4>1. TailOf(l) = At(s, l, Len(s) + 1)
        BY <1>1 DEF At
      <4>2. Len(s) + 1 \in 0 .. Len(s) + 1 /\ (h # l \/ i + 1 # Len(s) + 1)
        BY <2>1, <1>1
      <4> QED BY <4>1, <4>2, <3>2, AtApart
    <3> QED BY <3>3, <3>4, <3>5, <1>5 DEF Rings
  <2>2. CASE k # l
    <3>1. q1[k] = q[k]
      BY <2>2, <1>4
    <3> QED BY <2>1, <2>2, <3>1
  <2>3. CASE k = l
    <3>1. q1[k] = t /\ j \in 0 .. p - 1 /\ j \in 0 .. p /\ j + 1 \in 0 .. p /\ j \in 0 .. Len(s)
      BY <2>3, <1>1, <1>3, <1>4
    <3>2. CASE j + 1 < p
      <4>1. At(t, l, j) = At(s, l, j) /\ At(t, l, j + 1) = At(s, l, j + 1)
        <5>1. j < p
          BY <3>1, <3>2, <1>1
        <5> QED BY <5>1, <3>1, <3>2, <1>3
      <4> QED BY <4>1, <2>1, <2>3, <3>1, <3>2
    <3>3. CASE j + 1 = p
      <4>1. At(t, l, j) = before /\ At(t, l, j + 1) = TailOf(l)
        <5>1. j < p /\ ~(j + 1 < p) /\ j = p - 1
          BY <3>1, <3>3, <1>1
        <5> QED BY <5>1, <3>1, <1>2, <1>3
      <4> QED BY <4>1, <2>3, <3>1, <1>5
    <3>4. j + 1 < p \/ j + 1 = p
      BY <3>1, <1>1
    <3> QED BY <3>2, <3>3, <3>4
  <2> QED BY <2>2, <2>3
<1>8. list1 \in [Node -> DOMAIN q1 \cup {Null}]
  <2>1. \A n \in Node : list1[n] \in DOMAIN q1 \cup {Null}
    BY <1>4 DEF Rings
  <2> QED BY <2>1
<1>9. ASSUME NEW k \in DOMAIN q, NEW n \in Node PROVE list1[n] = k <=> \E j \in DOMAIN q1[k] : q1[k][j] = n
  <2>1. k # Null
    BY ListAssumption DEF Rings
  <2>2. list[n] = k <=> \E j \in DOMAIN q[k] : q[k][j] = n
    BY DEF Rings
  <2>3. (\E i \in p .. Len(s) : s[i] = n) => list[n] = l
    <3>1. \A i \in p .. Len(s) : i \in DOMAIN s
      BY <1>1
    <3> QED BY <3>1 DEF Rings
  <2>4. CASE k # l
    BY <2>1, <2>2, <2>3, <2>4, <1>4
  <2>5. CASE k = l
    <3>1. DOMAIN t = 1 .. p - 1 /\ DOMAIN s = 1 .. Len(s)
      BY <1>1, <1>3
    <3>2. ASSUME NEW j \in 1 .. p - 1, t[j] = n PROVE list[n] = l /\ ~\E i \in p .. Len(s) : s[i] = n
      <4>1. s[j] = n /\ j \in 1 .. Len(s) /\ \A i \in p .. Len(s) : i \in 1 .. Len(s) /\ i # j
        BY <3>2, <1>1, <1>3
      <4> QED BY <4>1, <3>1, <1>1, <2>2, <2>5 DEF Distinct
    <3>3. ASSUME list[n] = l, ~\E i \in p .. Len(s) : s[i] = n PROVE \E j \in 1 .. p - 1 : t[j] = n
      <4>1. PICK j \in 1 .. Len(s) : s[j] = n
        BY <3>1, <3>3, <2>2, <2>5
      <4>2. j \in 1 .. p - 1
        BY <3>3, <4>1, <1>1
      <4> QED BY <4>1, <4>2, <1>3
    <3>4. list1[n] = l <=> list[n] = l /\ ~\E i \in p .. Len(s) : s[i] = n
      BY <2>1, <2>5
    <3> QED BY <3>1, <3>2, <3>3, <3>4, <2>5, <1>4
  <2> QED BY <2>4, <2>5
<1>10. ASSUME NEW k \in ListId PROVE next1[TailOf(k)] = Null /\ prev1[HeadOf(k)] = Null
  <2>1. TailOf(k) \in Cell /\ HeadOf(k) \in Cell /\ HeadOf(k) # TailOf(l)
    BY DEF Cell, HeadOf, TailOf
  <2>2. TailOf(k) # before
    <3>1. p - 1 \in 0 .. Len(s) /\ (p - 1) + 1 = p /\ p \in 0 .. Len(s) + 1
      BY <1>1
    <3>2. next[before] = At(s, l, p) /\ At(s, l, p) \in Cell
      <4>1. next[At(s, l, p - 1)] = At(s, l, (p - 1) + 1)
        BY <3>1 DEF Rings
      <4> QED BY <4>1, <3>1, <1>1, <1>2, AtIsCell
    <3> QED BY <3>2, ListAssumption DEF Rings
  <2> QED BY <2>1, <2>2, <1>5 DEF Rings
<1>11. Rings(q1, next1, prev1, list1)
  BY <1>4, <1>5, <1>6, <1>7, <1>8, <1>9, <1>10 DEF Rings
<1> QED BY <1>11 DEF q1, next1, prev1, t

(* The memory m once the head and the tail of list src have been let go.   *)
Detached(m, src, next, prev, list) ==
  /\ m.next = [next EXCEPT ![HeadOf(src)] = Null]
  /\ m.prev = [prev EXCEPT ![TailOf(src)] = Null] /\ m.list = list

(* What that leaves of the other lists.                                    *)
LEMMA DetachRing ==
  ASSUME NEW q, NEW next, NEW prev, NEW list, Rings(q, next, prev, list), NEW src \in DOMAIN q,
         NEW m, Detached(m, src, next, prev, list)
  PROVE  /\ Rings(Without(q, src), m.next, m.prev, GivenBack(list, q[src])) /\ m.list = list
         /\ (\A c \in Cell : c # HeadOf(src) => m.next[c] = next[c])
         /\ (\A c \in Cell : c # TailOf(src) => m.prev[c] = prev[c])
<1>1. src \in ListId /\ HeadOf(src) \in Cell /\ TailOf(src) \in Cell /\ HeadOf(src) # TailOf(src)
  BY DEF Rings, Cell, HeadOf, TailOf
<1>2. m.next \in [Cell -> Cell \cup {Null}] /\ m.prev \in [Cell -> Cell \cup {Null}] /\ m.list = list
      /\ (\A c \in Cell : c # HeadOf(src) => m.next[c] = next[c])
      /\ (\A c \in Cell : c # TailOf(src) => m.prev[c] = prev[c])
  BY DEF Rings, Detached
<1>3. m.next[TailOf(src)] = Null /\ m.prev[HeadOf(src)] = Null
  BY <1>1, <1>2 DEF Rings
<1>4. LetGo(q, src, next, prev, m.next, m.prev)
  BY <1>2, <1>3 DEF LetGo
<1>5. Rings(Without(q, src), m.next, m.prev, GivenBack(list, q[src]))
  BY <1>4, DropRing
<1> QED BY <1>2, <1>5

(* A list without nodes goes.                                              *)
LEMMA JoinNothingRing ==
  ASSUME NEW q, NEW next, NEW prev, NEW list, Rings(q, next, prev, list), NEW src \in DOMAIN q, q[src] = <<>>,
         NEW m, Detached(m, src, next, prev, list)
  PROVE  Rings(Without(q, src), m.next, m.prev, m.list)
<1>1. Rings(Without(q, src), m.next, m.prev, GivenBack(list, q[src])) /\ m.list = list
  BY DetachRing
<1>2. GivenBack(list, q[src]) = list
  BY DEF Rings, GivenBack, ToSet
<1> QED BY <1>1, <1>2

(* The nodes of src become the end of target, and src goes.                *)
Joined(q, target, src) == Appended(Without(q, src), target, q[src])

(* list_join leaves the memory with the joined list, and without the       *)
(* other.                                                                  *)
LEMMA JoinRing ==
  ASSUME NEW q, NEW next, NEW prev, NEW list, Rings(q, next, prev, list),
         NEW target \in DOMAIN q, NEW src \in DOMAIN q, target # src, q[src] # <<>>,
         NEW m, Detached(m, src, next, prev, list),
         NEW r, r = _list_append_fragment(m, target, next[HeadOf(src)], prev[TailOf(src)])
  PROVE  Rings(Joined(q, target, src), r.next, r.prev, r.list) /\ r.count = Len(q[src])
<1> DEFINE f == q[src]
           list0 == GivenBack(list, f)
<1>1. src \in ListId /\ f \in Seq(Node) /\ Distinct(f) /\ DOMAIN f = 1 .. Len(f) /\ Len(f) \in Nat
      /\ HeadOf(src) \in Cell /\ TailOf(src) \in Cell /\ HeadOf(src) \notin Node /\ TailOf(src) \notin Node
      /\ HeadOf(src) # TailOf(src)
  BY ListAssumption DEF Rings, Cell, HeadOf, TailOf
<1>2. Rings(Without(q, src), m.next, m.prev, list0) /\ m.list = list
      /\ (\A c \in Cell : c # HeadOf(src) => m.next[c] = next[c])
      /\ (\A c \in Cell : c # TailOf(src) => m.prev[c] = prev[c])
  BY DetachRing
<1>3. target \in DOMAIN Without(q, src)
  BY DEF Without
<1>4. Len(f) # 0
  <2> HIDE DEF f
  <2>1. f # <<>>
    BY DEF f
  <2> QED BY <2>1, <1>1
<1>5. \A i \in 1 .. Len(f) : list0[f[i]] = Null
  BY <1>1 DEF ToSet, GivenBack
<1>6. \A i \in 0 .. Len(f) : next[At(f, src, i)] = At(f, src, i + 1) /\ prev[At(f, src, i + 1)] = At(f, src, i)
  BY DEF Rings
<1>7. \A i \in 1 .. Len(f) : At(f, src, i) = f[i] /\ f[i] \in Node /\ f[i] \in Cell
  <2> HIDE DEF f
  <2>1. \A i \in 1 .. Len(f) : i # 0 /\ i # Len(f) + 1 /\ f[i] \in Node
    BY <1>1
  <2> QED BY <2>1 DEF At, Cell
<1>8. At(f, src, 0) = HeadOf(src) /\ At(f, src, Len(f) + 1) = TailOf(src)
  <2>1. Len(f) + 1 # 0
    BY <1>1
  <2> QED BY <2>1 DEF At
<1>9. next[HeadOf(src)] = f[1] /\ prev[TailOf(src)] = f[Len(f)] /\ next[f[Len(f)]] = TailOf(src)
  <2>1. 0 \in 0 .. Len(f) /\ 0 + 1 = 1 /\ 1 \in 1 .. Len(f) /\ Len(f) \in 0 .. Len(f) /\ Len(f) \in 1 .. Len(f)
    BY <1>1, <1>4
  <2> HIDE DEF f
  <2> QED BY <2>1, <1>6, <1>7, <1>8
<1>10. \A i \in 1 .. Len(f) - 1 : m.next[f[i]] = f[i + 1] /\ m.prev[f[i + 1]] = f[i]
  <2> TAKE i \in 1 .. Len(f) - 1
  <2>1. i \in 1 .. Len(f) /\ i + 1 \in 1 .. Len(f) /\ i \in 0 .. Len(f)
    BY <1>1
  <2>2. next[f[i]] = f[i + 1] /\ prev[f[i + 1]] = f[i]
    BY <2>1, <1>6, <1>7
  <2>3. f[i] # HeadOf(src) /\ f[i + 1] # TailOf(src) /\ f[i] \in Cell /\ f[i + 1] \in Cell
    BY <2>1, <1>1, <1>7
  <2> HIDE DEF f
  <2> QED BY <2>2, <2>3, <1>2
<1>11. m.next[f[Len(f)]] \notin Node
  <2>1. Len(f) \in 1 .. Len(f)
    BY <1>1, <1>4
  <2>2. f[Len(f)] # HeadOf(src) /\ f[Len(f)] \in Cell
    BY <2>1, <1>1, <1>7
  <2> HIDE DEF f
  <2> QED BY <2>2, <1>1, <1>2, <1>9
<1>12. \A n \in Node : n \notin ToSet(f) => m.list[n] = list0[n]
  BY <1>2 DEF GivenBack
<1>13. Loose(f, m, list0) /\ Moved(r, m, target, f)
  <2>1. Moved(r, m, target, f)
    BY <1>9 DEF Moved
  <2> HIDE DEF f, list0
  <2>2. f # <<>>
    BY DEF f
  <2> QED BY <2>1, <2>2, <1>1, <1>5, <1>10, <1>11, <1>12 DEF Loose
<1> HIDE DEF f, list0
<1>14. Rings(Appended(Without(q, src), target, f), r.next, r.prev, r.list) /\ r.count = Len(f)
  BY <1>2, <1>3, <1>13, FragmentRing
<1> QED BY <1>14 DEF Joined, f

(* The memory cut once the tail of list l follows the cell before.         *)
Severed(cut, l, before, next, prev, list) ==
  /\ cut.next = [next EXCEPT ![before] = TailOf(l)]
  /\ cut.prev = [prev EXCEPT ![TailOf(l)] = before] /\ cut.list = list

(* The nodes of list l from place p on move to a list that is empty.       *)
SplitUp(q, l, p, new) == Appended(Shortened(q, l, p), new, SubSeq(q[l], p, Len(q[l])))

(* list_split leaves the memory with the two parts of the list.            *)
LEMMA SplitRing ==
  ASSUME NEW q, NEW next, NEW prev, NEW list, Rings(q, next, prev, list),
         NEW l \in DOMAIN q, NEW new \in DOMAIN q, l # new, q[new] = <<>>,
         NEW p \in 1 .. Len(q[l]), NEW start, start = q[l][p],
         NEW before, before = prev[start],
         NEW cut, Severed(cut, l, before, next, prev, list),
         NEW r, r = _list_append_fragment(cut, new, start, prev[TailOf(l)])
  PROVE  /\ Rings(SplitUp(q, l, p, new), r.next, r.prev, r.list)
         /\ r.count = (Len(q[l]) - p) + 1
<1> SUFFICES ASSUME cut.next = [next EXCEPT ![before] = TailOf(l)],
                    cut.prev = [prev EXCEPT ![TailOf(l)] = before], cut.list = list
             PROVE  /\ Rings(SplitUp(q, l, p, new), r.next, r.prev, r.list)
                    /\ r.count = (Len(q[l]) - p) + 1
  BY DEF Severed
<1> DEFINE s == q[l]
           N == Len(s)
           f == SubSeq(s, p, N)
           M == (N - p) + 1
           list0 == [n \in Node |-> IF \E i \in p .. N : s[i] = n THEN Null ELSE list[n]]
           q2 == Shortened(q, l, p)
<1>1. l \in ListId /\ s \in Seq(Node) /\ N \in Nat /\ p \in Nat /\ p <= N /\ p >= 1 /\ Distinct(s)
      /\ DOMAIN s = 1 .. N /\ M \in Nat /\ M >= 1
  BY DEF Rings
<1>2. next \in [Cell -> Cell \cup {Null}] /\ prev \in [Cell -> Cell \cup {Null}]
      /\ \A i \in 0 .. N : next[At(s, l, i)] = At(s, l, i + 1) /\ prev[At(s, l, i + 1)] = At(s, l, i)
  BY DEF Rings
<1>3. Rings(q2, cut.next, cut.prev, list0)
  <2>1. CutOff(q, l, p, list, list0)
    <3>1. list0 \in [Node -> DOMAIN q \cup {Null}]
      BY DEF Rings
    <3> QED BY <3>1 DEF CutOff
  <2> DEFINE bb == before
  <2>2. bb = prev[q[l][p]]
    OBVIOUS
  <2> HIDE DEF list0, bb
  <2>3. Rings(Shortened(q, l, p), [next EXCEPT ![bb] = TailOf(l)], [prev EXCEPT ![TailOf(l)] = bb], list0)
    BY <2>1, <2>2, CutRing
  <2> QED BY <2>3 DEF bb
<1>4. f \in Seq(Node) /\ Len(f) = M /\ \A i \in 1 .. M : f[i] = s[(p - 1) + i]
  <2>1. p - 1 \in Nat /\ p - 1 <= Len(s) /\ (p - 1) + 1 = p /\ N - (p - 1) = M
    BY <1>1
  <2>2. LET b == SubSeq(s, (p - 1) + 1, Len(s))
        IN b \in Seq(Node) /\ Len(b) = Len(s) - (p - 1) /\ \A i \in 1 .. Len(s) - (p - 1) : b[i] = s[(p - 1) + i]
    <3> DEFINE n == p - 1
    <3>1. n \in Nat /\ n <= Len(s) /\ s \in Seq(Node)
      BY <2>1, <1>1
    <3> HIDE DEF n, s
    <3>2. LET b == SubSeq(s, n + 1, Len(s))
          IN b \in Seq(Node) /\ Len(b) = Len(s) - n /\ \A i \in 1 .. Len(s) - n : b[i] = s[n + i]
      BY <3>1, Behind
    <3> QED BY <3>2 DEF n
  <2>3. SubSeq(s, (p - 1) + 1, Len(s)) = f
    BY <2>1
  <2> HIDE DEF f, M, s
  <2> QED BY <2>1, <2>2, <2>3 DEF N
<1> HIDE DEF f
<1>5. Len(f) \in Nat /\ Len(f) >= 1 /\ DOMAIN f = 1 .. M /\ f # <<>>
  <2>1. Len(f) \in Nat /\ Len(f) >= 1 /\ DOMAIN f = 1 .. M
    <3> HIDE DEF M
    <3> QED BY <1>1, <1>4
  <2> QED BY <2>1
<1>6. ASSUME NEW i \in 1 .. M
      PROVE  /\ (p - 1) + i \in 1 .. N /\ (p - 1) + i \in p .. N /\ f[i] = s[(p - 1) + i] /\ f[i] \in Node /\ f[i] \in Cell
             /\ (p - 1) + i \in 0 .. N /\ f[i] = At(s, l, (p - 1) + i)
  <2>1. (p - 1) + i \in 1 .. N /\ (p - 1) + i \in p .. N /\ f[i] = s[(p - 1) + i] /\ (p - 1) + i \in 0 .. N
    <3>1. i \in Nat /\ i >= 1 /\ i <= M
      BY <1>1
    <3> HIDE DEF N
    <3> QED BY <3>1, <1>1, <1>4
  <2>2. (p - 1) + i # 0 /\ (p - 1) + i # N + 1
    <3> HIDE DEF N
    <3> QED BY <2>1, <1>1
  <2>3. f[i] = At(s, l, (p - 1) + i)
    BY <2>1, <2>2 DEF At
  <2>4. f[i] \in Node
    BY <2>1, <1>1
  <2> QED BY <2>1, <2>3, <2>4 DEF Cell
<1>7. Distinct(f)
  <2>1. ASSUME NEW x \in 1 .. M, NEW y \in 1 .. M, f[x] = f[y] PROVE x = y
    <3>1. (p - 1) + x = (p - 1) + y
      <4> HIDE DEF s, N
      <4> QED BY <2>1, <1>1, <1>6 DEF Distinct
    <3> QED BY <3>1, <1>1
  <2> QED BY <2>1, <1>5 DEF Distinct
<1>8. \A i \in 1 .. M : list0[f[i]] = Null
  <2> TAKE i \in 1 .. M
  <2>1. f[i] \in Node /\ \E j \in p .. N : s[j] = f[i]
    BY <1>6
  <2> QED BY <2>1
<1>9. before = At(s, l, p - 1) /\ before \in Cell
  <2>1. p - 1 \in 0 .. N /\ (p - 1) + 1 = p /\ p # 0 /\ p # N + 1 /\ p - 1 \in 0 .. N + 1
    BY <1>1
  <2>2. prev[At(s, l, p)] = At(s, l, p - 1)
    BY <2>1, <1>2
  <2>3. At(s, l, p) = start
    BY <2>1 DEF At
  <2> QED BY <2>1, <2>2, <2>3, <1>1, AtIsCell
<1>10. ASSUME NEW i \in 1 .. M
       PROVE  cut.next[f[i]] = At(s, l, ((p - 1) + i) + 1)
  <2>1. (p - 1) + i \in 0 .. N + 1 /\ p - 1 \in 0 .. N + 1 /\ (p - 1) + i # p - 1
    <3> HIDE DEF N
    <3> QED BY <1>1, <1>6
  <2>2. next[f[i]] = At(s, l, ((p - 1) + i) + 1)
    BY <1>2, <1>6
  <2>3. f[i] # before
    BY <2>1, <1>6, <1>9, AtApart
  <2>4. f[i] \in Cell
    BY <1>6
  <2> QED BY <2>2, <2>3, <2>4, <1>2
<1>11. \A i \in 1 .. M - 1 : cut.next[f[i]] = f[i + 1] /\ cut.prev[f[i + 1]] = f[i]
  <2> TAKE i \in 1 .. M - 1
  <2>1. i \in 1 .. M /\ i + 1 \in 1 .. M /\ ((p - 1) + i) + 1 = (p - 1) + (i + 1)
    <3> HIDE DEF M
    <3> QED BY <1>1
  <2> HIDE DEF M
  <2>2. At(s, l, ((p - 1) + i) + 1) = f[i + 1] /\ At(s, l, (p - 1) + i) = f[i] /\ (p - 1) + i \in 0 .. N
    BY <2>1, <1>6
  <2>3. prev[f[i + 1]] = f[i]
    BY <2>2, <1>2
  <2>4. f[i + 1] # TailOf(l) /\ f[i + 1] \in Cell
    BY <2>1, <1>1, <1>6, ListAssumption
  <2>5. cut.next[f[i]] = f[i + 1]
    BY <2>1, <2>2, <1>10
  <2>6. cut.prev[f[i + 1]] = f[i]
    BY <2>3, <2>4, <1>2
  <2> QED BY <2>5, <2>6
<1>12. M \in 1 .. M /\ (p - 1) + M = N /\ 1 \in 1 .. M /\ (p - 1) + 1 = p /\ N + 1 # 0 /\ N \in 0 .. N
  <2> HIDE DEF N
  <2> QED BY <1>1
<1>13. cut.next[f[M]] \notin Node
  <2>1. cut.next[f[M]] = At(s, l, N + 1)
    <3> HIDE DEF M, N
    <3> QED BY <1>10, <1>12
  <2> QED BY <2>1, <1>1, <1>12, ListAssumption DEF At
<1>14. prev[TailOf(l)] = f[M] /\ start = f[1]
  <2>1. prev[At(s, l, N + 1)] = At(s, l, N) /\ At(s, l, N + 1) = TailOf(l)
    BY <1>2, <1>12 DEF At
  <2>2. f[M] = At(s, l, N) /\ f[1] = s[p]
    <3> HIDE DEF M, N
    <3> QED BY <1>6, <1>12
  <2> QED BY <2>1, <2>2
<1>15. \A n \in Node : n \notin ToSet(f) => cut.list[n] = list0[n]
  <2> TAKE n \in Node
  <2>1. ASSUME NEW i \in p .. N, s[i] = n PROVE n \in ToSet(f)
    <3>1. (i - p) + 1 \in 1 .. M /\ (p - 1) + ((i - p) + 1) = i
      <4> HIDE DEF N
      <4> QED BY <1>1
    <3>2. f[(i - p) + 1] = n
      BY <3>1, <2>1, <1>6
    <3> QED BY <3>1, <3>2, <1>5 DEF ToSet
  <2> QED BY <2>1
<1>16. new \in DOMAIN q2
  BY DEF Shortened
<1>17. Moved(r, cut, new, f) /\ Loose(f, cut, list0)
  <2> HIDE DEF q2, list0, M
  <2> QED BY <1>4, <1>5, <1>7, <1>8, <1>11, <1>13, <1>14, <1>15, <1>16 DEF Loose, Moved
<1>18. Rings(Appended(q2, new, f), r.next, r.prev, r.list) /\ r.count = Len(f)
  <2> DEFINE cc == cut
  <2>1. Rings(q2, cc.next, cc.prev, list0) /\ Moved(r, cc, new, f) /\ Loose(f, cc, list0)
    <3> HIDE DEF q2, list0
    <3> QED BY <1>3, <1>17
  <2> HIDE DEF q2, list0, cc
  <2>2. Joinable(q2, cc, list0, new, f, r)
    BY <2>1, <1>16 DEF Joinable
  <2>3. Attached(q2, new, f, r)
    BY <2>2, FragmentJoins
  <2> QED BY <2>3 DEF Attached
<1>19. r.count = (N - p) + 1
  BY <1>4, <1>18
<1> QED BY <1>18, <1>19 DEF f, SplitUp

(* The element a comes before b.                                           *)
InOrder(a, b, s) == \E i, j \in 1 .. Len(s) : i < j /\ s[i] = a /\ s[j] = b

(* No node on two lists.                                                   *)
Apart(q) == \A k, l \in DOMAIN q : k # l => ToSet(q[k]) \cap ToSet(q[l]) = {}

(* What stays on a list, or joins it, keeps its place.                     *)
Keeps(q, q1) ==
  \A l \in DOMAIN q, k \in DOMAIN q1, a, b \in Node :
    /\ a \in ToSet(q1[k]) /\ b \in ToSet(q1[k])
    /\ \/ InOrder(a, b, q[l])
       \/ k \in DOMAIN q /\ a \in ToSet(q[k]) /\ \E h \in DOMAIN q \ {k} : b \in ToSet(q[h])
    => InOrder(a, b, q1[k])

(* Lists held by the memory share no node.                                 *)
LEMMA RingsApart ==
  ASSUME NEW q, NEW next, NEW prev, NEW list, Rings(q, next, prev, list)
  PROVE  Apart(q) /\ q \in [DOMAIN q -> Seq(Node)]
<1>1. ASSUME NEW k \in DOMAIN q, NEW n \in ToSet(q[k]) PROVE n \in Node /\ list[n] = k
  <2>1. q[k] \in Seq(Node)
    BY DEF Rings
  <2>2. PICK i \in DOMAIN q[k] : q[k][i] = n
    BY DEF ToSet
  <2>3. n \in Node
    BY <2>1, <2>2
  <2> QED BY <2>2, <2>3 DEF Rings
<1>2. q \in [DOMAIN q -> Seq(Node)]
  BY DEF Rings
<1> QED BY <1>1, <1>2 DEF Apart

(* Two nodes in an order are on the list.                                  *)
LEMMA InOrderOn ==
  ASSUME NEW s \in Seq(Node), NEW a, NEW b, InOrder(a, b, s)
  PROVE  a \in ToSet(s) /\ b \in ToSet(s)
<1>1. DOMAIN s = 1 .. Len(s)
  OBVIOUS
<1> QED BY <1>1 DEF InOrder, ToSet

(* Lists that are as they were, or are empty.                              *)
LEMMA KeepsSame ==
  ASSUME NEW q, NEW q1, Apart(q), q \in [DOMAIN q -> Seq(Node)],
         \A k \in DOMAIN q1 : (k \in DOMAIN q /\ q1[k] = q[k]) \/ q1[k] = <<>>
  PROVE  Keeps(q, q1)
<1>1. ASSUME NEW l \in DOMAIN q, NEW k \in DOMAIN q1, NEW a \in Node, NEW b \in Node,
             a \in ToSet(q1[k]), b \in ToSet(q1[k]),
             \/ InOrder(a, b, q[l])
             \/ k \in DOMAIN q /\ a \in ToSet(q[k]) /\ \E h \in DOMAIN q \ {k} : b \in ToSet(q[h])
      PROVE  InOrder(a, b, q1[k])
  <2>1. k \in DOMAIN q /\ q1[k] = q[k]
    BY <1>1 DEF ToSet
  <2>2. InOrder(a, b, q[l])
    BY <1>1, <2>1 DEF Apart
  <2>3. a \in ToSet(q[l])
    BY <2>2, InOrderOn
  <2>4. k = l
    BY <1>1, <2>1, <2>3 DEF Apart
  <2> QED BY <2>1, <2>2, <2>4
<1> QED BY <1>1 DEF Keeps

(* One list changes, and its own nodes keep their order.                   *)
LEMMA KeepsOne ==
  ASSUME NEW q, NEW q1, Apart(q), q \in [DOMAIN q -> Seq(Node)], Apart(q1), DOMAIN q1 = DOMAIN q,
         NEW l \in DOMAIN q, \A k \in DOMAIN q : k # l => q1[k] = q[k],
         \A a, b \in Node : a \in ToSet(q1[l]) /\ b \in ToSet(q1[l]) /\ InOrder(a, b, q[l]) => InOrder(a, b, q1[l])
  PROVE  Keeps(q, q1)
<1>1. ASSUME NEW g \in DOMAIN q, NEW k \in DOMAIN q1, NEW a \in Node, NEW b \in Node,
             a \in ToSet(q1[k]), b \in ToSet(q1[k]),
             \/ InOrder(a, b, q[g])
             \/ k \in DOMAIN q /\ a \in ToSet(q[k]) /\ \E h \in DOMAIN q \ {k} : b \in ToSet(q[h])
      PROVE  InOrder(a, b, q1[k])
  <2>1. InOrder(a, b, q[g]) => a \in ToSet(q[g])
    BY InOrderOn
  <2>2. ~\E h \in DOMAIN q \ {k} : b \in ToSet(q[h]) /\ (h = l => k = l)
    BY <1>1 DEF Apart
  <2>3. CASE k # l
    <3>1. q1[k] = q[k] /\ k \in DOMAIN q
      BY <2>3
    <3>2. InOrder(a, b, q[g])
      BY <1>1, <3>1 DEF Apart
    <3>3. g = k
      BY <1>1, <2>1, <3>1, <3>2 DEF Apart
    <3> QED BY <3>1, <3>2, <3>3
  <2>4. CASE k = l
    <3>1. InOrder(a, b, q[g])
      BY <1>1, <2>2, <2>4
    <3>2. g = l
      BY <1>1, <2>1, <2>4, <3>1 DEF Apart
    <3> QED BY <1>1, <2>4, <3>1, <3>2
  <2> QED BY <2>3, <2>4
<1> QED BY <1>1 DEF Keeps

(* A node more does not change the order of the others.                    *)
LEMMA InsertedKeepsOrder ==
  ASSUME NEW s \in Seq(Node), NEW i \in 0 .. Len(s), NEW n \in Node, NEW a, NEW b, InOrder(a, b, s),
         NEW t, t = Inserted(s, i, n)
  PROVE  InOrder(a, b, t)
<1>1. Len(s) \in Nat
  OBVIOUS
<1>2. t \in [1 .. Len(s) + 1 -> Node] /\ \A j \in 1 .. Len(s) + 1 : t[j] = IF j <= i THEN s[j] ELSE IF j = i + 1 THEN n ELSE s[j - 1]
  BY <1>1 DEF Inserted
<1>3. Len(t) = Len(s) + 1
  <2>1. Len(s) + 1 \in Nat
    BY <1>1
  <2> QED BY <1>2, <2>1, SequenceOf
<1>4. PICK x \in 1 .. Len(s), y \in 1 .. Len(s) : x < y /\ s[x] = a /\ s[y] = b
  BY DEF InOrder
<1> DEFINE at(j) == IF j <= i THEN j ELSE j + 1
<1>5. at(x) \in 1 .. Len(s) + 1 /\ at(y) \in 1 .. Len(s) + 1 /\ at(x) < at(y)
  BY <1>1, <1>4
<1>6. t[at(x)] = a /\ t[at(y)] = b
  BY <1>1, <1>2, <1>4
<1> HIDE DEF at
<1> QED BY <1>3, <1>5, <1>6 DEF InOrder

(* Nor does a node less.                                                   *)
LEMMA RemovedKeepsOrder ==
  ASSUME NEW s \in Seq(Node), NEW p \in 1 .. Len(s), NEW a, NEW b, InOrder(a, b, s), a # s[p], b # s[p],
         NEW t, t = Removed(s, p)
  PROVE  InOrder(a, b, t)
<1>1. Len(s) \in Nat
  OBVIOUS
<1>2. t \in [1 .. Len(s) - 1 -> Node] /\ \A j \in 1 .. Len(s) - 1 : t[j] = IF j < p THEN s[j] ELSE s[j + 1]
  BY <1>1 DEF Removed
<1>3. Len(t) = Len(s) - 1
  <2>1. Len(s) - 1 \in Nat
    BY <1>1
  <2> QED BY <1>2, <2>1, SequenceOf
<1>4. PICK x \in 1 .. Len(s), y \in 1 .. Len(s) : x < y /\ s[x] = a /\ s[y] = b
  BY DEF InOrder
<1>5. x # p /\ y # p
  BY <1>4
<1> DEFINE at(j) == IF j < p THEN j ELSE j - 1
<1>6. at(x) \in 1 .. Len(s) - 1 /\ at(y) \in 1 .. Len(s) - 1 /\ at(x) < at(y)
  BY <1>1, <1>4, <1>5
<1>7. t[at(x)] = a /\ t[at(y)] = b
  BY <1>1, <1>2, <1>4, <1>5
<1> HIDE DEF at
<1> QED BY <1>3, <1>6, <1>7 DEF InOrder

(* The nodes of a list that is joined come after those that were there.    *)
LEMMA KeepsJoin ==
  ASSUME NEW q, Apart(q), q \in [DOMAIN q -> Seq(Node)], NEW target \in DOMAIN q, NEW src \in DOMAIN q,
         target # src
  PROVE  Keeps(q, Joined(q, target, src))
<1> SUFFICES ASSUME NEW q1, DOMAIN q1 = DOMAIN q \ {src}, q1[target] = q[target] \o q[src],
                    \A k \in DOMAIN q1 : k # target => q1[k] = q[k]
             PROVE  Keeps(q, q1)
  BY DEF Joined, Appended, Without
<1> DEFINE s == q[target]
           f == q[src]
           t == s \o f
           N == Len(s)
           M == Len(f)
<1>1. s \in Seq(Node) /\ f \in Seq(Node) /\ N \in Nat /\ M \in Nat /\ DOMAIN s = 1 .. N /\ DOMAIN f = 1 .. M
  OBVIOUS
<1>2. Len(t) = N + M /\ DOMAIN t = 1 .. N + M /\ \A i \in 1 .. N + M : t[i] = IF i <= N THEN s[i] ELSE f[i - N]
  BY <1>1
<1>3. DOMAIN q1 = DOMAIN q \ {src} /\ q1[target] = t /\ \A k \in DOMAIN q1 : k # target => q1[k] = q[k]
  OBVIOUS
<1> HIDE DEF t
<1>5. ASSUME NEW n \in ToSet(t) PROVE n \in ToSet(s) \/ n \in ToSet(f)
  <2>1. PICK i \in 1 .. N + M : t[i] = n
    BY <1>2 DEF ToSet
  <2>2. CASE i <= N
    <3>1. i \in 1 .. N /\ s[i] = n
      BY <2>1, <2>2, <1>1, <1>2
    <3> QED BY <3>1, <1>1 DEF ToSet
  <2>3. CASE ~(i <= N)
    <3>1. i - N \in 1 .. M /\ f[i - N] = n
      BY <2>1, <2>3, <1>1, <1>2
    <3> QED BY <3>1, <1>1 DEF ToSet
  <2> QED BY <2>2, <2>3
<1>6. ASSUME NEW a, NEW b, InOrder(a, b, s) PROVE InOrder(a, b, t)
  <2>1. PICK x \in 1 .. N, y \in 1 .. N : x < y /\ s[x] = a /\ s[y] = b
    BY <1>6 DEF InOrder
  <2>2. x \in 1 .. N + M /\ y \in 1 .. N + M /\ t[x] = a /\ t[y] = b
    BY <2>1, <1>1, <1>2
  <2> QED BY <2>1, <2>2, <1>2 DEF InOrder
<1>7. ASSUME NEW a, NEW b, InOrder(a, b, f) PROVE InOrder(a, b, t)
  <2>1. PICK x \in 1 .. M, y \in 1 .. M : x < y /\ f[x] = a /\ f[y] = b
    BY <1>7 DEF InOrder
  <2>2. N + x \in 1 .. N + M /\ N + y \in 1 .. N + M /\ N + x < N + y /\ ~(N + x <= N) /\ ~(N + y <= N)
        /\ (N + x) - N = x /\ (N + y) - N = y
    BY <2>1, <1>1
  <2>3. t[N + x] = a /\ t[N + y] = b
    BY <2>1, <2>2, <1>2
  <2> QED BY <2>2, <2>3, <1>2 DEF InOrder
<1>8. ASSUME NEW a \in ToSet(s), NEW b \in ToSet(f) PROVE InOrder(a, b, t)
  <2>1. PICK x \in 1 .. N : s[x] = a
    BY <1>1 DEF ToSet
  <2>2. PICK y \in 1 .. M : f[y] = b
    BY <1>1 DEF ToSet
  <2>3. x \in 1 .. N + M /\ N + y \in 1 .. N + M /\ x < N + y /\ x <= N /\ ~(N + y <= N) /\ (N + y) - N = y
    BY <1>1
  <2>4. t[x] = a /\ t[N + y] = b
    BY <2>1, <2>2, <2>3, <1>2
  <2> QED BY <2>3, <2>4, <1>2 DEF InOrder
<1>9. ASSUME NEW g \in DOMAIN q, NEW k \in DOMAIN q1, NEW a \in Node, NEW b \in Node,
             a \in ToSet(q1[k]), b \in ToSet(q1[k]),
             \/ InOrder(a, b, q[g])
             \/ k \in DOMAIN q /\ a \in ToSet(q[k]) /\ \E h \in DOMAIN q \ {k} : b \in ToSet(q[h])
      PROVE  InOrder(a, b, q1[k])
  <2>1. InOrder(a, b, q[g]) => a \in ToSet(q[g])
    BY InOrderOn
  <2>2. CASE k # target
    <3>1. q1[k] = q[k] /\ k \in DOMAIN q
      BY <2>2, <1>3
    <3>2. InOrder(a, b, q[g])
      BY <1>9, <3>1 DEF Apart
    <3>3. g = k
      BY <1>9, <2>1, <3>1, <3>2 DEF Apart
    <3> QED BY <3>1, <3>2, <3>3
  <2>3. CASE k = target
    <3>1. (a \in ToSet(s) \/ a \in ToSet(f)) /\ (b \in ToSet(s) \/ b \in ToSet(f)) /\ q1[k] = t
      BY <1>3, <1>5, <1>9, <2>3
    <3>2. CASE InOrder(a, b, q[g])
      <4>1. g = target \/ g = src
        BY <2>1, <3>1, <3>2 DEF Apart
      <4> QED BY <1>6, <1>7, <3>1, <3>2, <4>1
    <3>3. CASE ~InOrder(a, b, q[g])
      <4>1. a \in ToSet(s) /\ b \notin ToSet(s)
        BY <1>9, <2>3, <3>3 DEF Apart
      <4> QED BY <1>8, <3>1, <4>1
    <3> QED BY <3>2, <3>3
  <2> QED BY <2>2, <2>3
<1> QED BY <1>9 DEF Keeps

(* The lists q1 are q with list l cut before place p, the rest on new.     *)
IsSplit(q, l, p, new, q1) ==
  /\ l \in DOMAIN q /\ new \notin DOMAIN q /\ p \in 1 .. Len(q[l])
  /\ DOMAIN q1 = DOMAIN q \cup {new} /\ \A k \in DOMAIN q \ {l} : q1[k] = q[k]
  /\ q1[l] = SubSeq(q[l], 1, p - 1) /\ q1[new] = SubSeq(q[l], p, Len(q[l]))

(* A list that is cut keeps its order on both sides.                       *)
LEMMA KeepsSplit ==
  ASSUME NEW q, Apart(q), q \in [DOMAIN q -> Seq(Node)], NEW l, NEW p, NEW new, NEW q1, IsSplit(q, l, p, new, q1),
         Distinct(q[l])
  PROVE  Keeps(q, q1)
<1> SUFFICES ASSUME l \in DOMAIN q, new \notin DOMAIN q, p \in 1 .. Len(q[l]),
                    DOMAIN q1 = DOMAIN q \cup {new}, \A k \in DOMAIN q \ {l} : q1[k] = q[k],
                    q1[l] = SubSeq(q[l], 1, p - 1), q1[new] = SubSeq(q[l], p, Len(q[l]))
             PROVE  Keeps(q, q1)
  BY DEF IsSplit
<1> DEFINE s == q[l]
           N == Len(s)
           t == SubSeq(s, 1, p - 1)
           f == SubSeq(s, p, N)
           M == (N - p) + 1
<1>1. s \in Seq(Node) /\ N \in Nat /\ p \in Nat /\ p >= 1 /\ p <= N /\ DOMAIN s = 1 .. N /\ M \in Nat
  OBVIOUS
<1>2. Len(t) = p - 1 /\ DOMAIN t = 1 .. p - 1 /\ \A i \in 1 .. p - 1 : t[i] = s[i]
  BY <1>1
<1>3. Len(f) = M /\ DOMAIN f = 1 .. M /\ \A i \in 1 .. M : f[i] = s[(p - 1) + i]
  <2> DEFINE n == p - 1
  <2>1. n \in Nat /\ n <= Len(s) /\ s \in Seq(Node) /\ N - n = M /\ n + 1 = p
    BY <1>1
  <2>2. LET b == SubSeq(s, n + 1, Len(s))
        IN b \in Seq(Node) /\ Len(b) = Len(s) - n /\ \A i \in 1 .. Len(s) - n : b[i] = s[n + i]
    <3> HIDE DEF n, s
    <3> QED BY <2>1, Behind
  <2> HIDE DEF n
  <2>3. f \in Seq(Node) /\ Len(f) = M /\ \A i \in 1 .. M : f[i] = s[n + i]
    BY <2>1, <2>2
  <2>4. DOMAIN f = 1 .. M
    <3> HIDE DEF f, M
    <3> QED BY <2>3
  <2> QED BY <2>3, <2>4 DEF n
<1>4. q1[l] = t /\ q1[new] = f /\ l # new
  OBVIOUS
<1> HIDE DEF t, f
<1>5. ASSUME NEW n \in ToSet(t) PROVE \E i \in 1 .. p - 1 : s[i] = n
  BY <1>2 DEF ToSet
<1>6. ASSUME NEW n \in ToSet(f) PROVE \E i \in p .. N : s[i] = n
  <2>1. PICK i \in 1 .. M : f[i] = n
    BY <1>3 DEF ToSet
  <2>2. (p - 1) + i \in p .. N
    BY <1>1
  <2>3. s[(p - 1) + i] = n
    BY <2>1, <1>3
  <2> QED BY <2>2, <2>3
<1>7. ASSUME NEW n, n \in ToSet(t) \/ n \in ToSet(f) PROVE n \in ToSet(s)
  <2>1. \E i \in 1 .. N : s[i] = n
    <3>1. \A i \in 1 .. p - 1 : i \in 1 .. N
      BY <1>1
    <3>2. \A i \in p .. N : i \in 1 .. N
      BY <1>1
    <3> QED BY <1>5, <1>6, <1>7, <3>1, <3>2
  <2> QED BY <2>1, <1>1 DEF ToSet
<1>8. ASSUME NEW a \in ToSet(t), NEW b \in ToSet(t), InOrder(a, b, s) PROVE InOrder(a, b, t)
  <2>1. PICK x \in 1 .. N, y \in 1 .. N : x < y /\ s[x] = a /\ s[y] = b
    BY <1>8 DEF InOrder
  <2>2. PICK i \in 1 .. p - 1, j \in 1 .. p - 1 : s[i] = a /\ s[j] = b
    BY <1>5
  <2>3. i \in DOMAIN s /\ j \in DOMAIN s
    BY <1>1
  <2>4. x = i /\ y = j
    BY <2>1, <2>2, <2>3, <1>1 DEF Distinct
  <2> QED BY <2>1, <2>2, <2>4, <1>2 DEF InOrder
<1>9. ASSUME NEW a \in ToSet(f), NEW b \in ToSet(f), InOrder(a, b, s) PROVE InOrder(a, b, f)
  <2>1. PICK x \in 1 .. N, y \in 1 .. N : x < y /\ s[x] = a /\ s[y] = b
    BY <1>9 DEF InOrder
  <2>2. PICK i \in p .. N, j \in p .. N : s[i] = a /\ s[j] = b
    BY <1>6
  <2>3. i \in DOMAIN s /\ j \in DOMAIN s
    BY <1>1
  <2>4. x = i /\ y = j
    BY <2>1, <2>2, <2>3, <1>1 DEF Distinct
  <2>5. (x - p) + 1 \in 1 .. M /\ (y - p) + 1 \in 1 .. M /\ (x - p) + 1 < (y - p) + 1
        /\ (p - 1) + ((x - p) + 1) = x /\ (p - 1) + ((y - p) + 1) = y
    BY <2>1, <2>4, <1>1
  <2>6. f[(x - p) + 1] = a /\ f[(y - p) + 1] = b
    <3> HIDE DEF M
    <3> QED BY <2>1, <2>5, <1>3
  <2> HIDE DEF M
  <2> QED BY <2>5, <2>6, <1>3 DEF InOrder
<1>10. ASSUME NEW g \in DOMAIN q, NEW k \in DOMAIN q1, NEW a \in Node, NEW b \in Node,
              a \in ToSet(q1[k]), b \in ToSet(q1[k]),
              \/ InOrder(a, b, q[g])
              \/ k \in DOMAIN q /\ a \in ToSet(q[k]) /\ \E h \in DOMAIN q \ {k} : b \in ToSet(q[h])
       PROVE  InOrder(a, b, q1[k])
  <2>1. InOrder(a, b, q[g]) => a \in ToSet(q[g])
    BY InOrderOn
  <2>2. CASE k \in DOMAIN q /\ k # l
    <3>1. q1[k] = q[k]
      BY <2>2
    <3>2. InOrder(a, b, q[g])
      BY <1>10, <2>2, <3>1 DEF Apart
    <3>3. g = k
      BY <1>10, <2>1, <2>2, <3>1, <3>2 DEF Apart
    <3> QED BY <3>1, <3>2, <3>3
  <2>3. CASE k = l \/ k = new
    <3>1. a \in ToSet(s) /\ b \in ToSet(s)
      BY <1>4, <1>7, <1>10, <2>3
    <3>2. InOrder(a, b, q[g])
      BY <1>10, <2>3, <3>1 DEF Apart
    <3>3. g = l
      BY <2>1, <3>1, <3>2 DEF Apart
    <3> QED BY <1>4, <1>8, <1>9, <1>10, <2>3, <3>2, <3>3
  <2> QED BY <2>2, <2>3
<1> QED BY <1>10 DEF Keeps

(* Lists that are not there have no size.                                  *)
ListTypes ==
  /\ lists \subseteq ListId /\ listSize \in [ListId -> Int]
  /\ listIter \in [ListId -> Cell \cup {Null}]
  /\ \A l \in ListId \ lists : listSize[l] = 0

(* What is on each list.                                                   *)
Content == [l \in lists |-> Elements(l)]

(* The memory holds what is on the lists, and their sizes count it.        *)
ListInv ==
  /\ ListTypes
  /\ Rings(Content, nodeNext, nodePrev, nodeList)
  /\ \A l \in lists : listSize[l] = Len(Content[l])

(* The step leaves the memory with the lists q.                            *)
Leaves(q) ==
  /\ ListTypes' /\ DOMAIN q = lists' /\ Rings(q, nodeNext', nodePrev', nodeList')
  /\ \A l \in lists' : listSize'[l] = Len(q[l])

(* Then q is what is on the lists after it.                                *)
LEMMA LeavesContent ==
  ASSUME NEW q, Leaves(q)
  PROVE  ListInv' /\ Content' = q
<1>1. \A l \in lists' : Chain(HeadOf(l), nodeNext') = q[l]
  BY RingElements DEF Leaves
<1>2. q = [l \in lists' |-> q[l]]
  BY DEF Leaves, Rings
<1>3. Content' = [l \in lists' |-> Chain(HeadOf(l), nodeNext')]
  BY DEF Content, Elements
<1>4. Content' = q
  <2>1. [l \in lists' |-> Chain(HeadOf(l), nodeNext')] = [l \in lists' |-> q[l]]
    BY <1>1
  <2> QED BY <1>2, <1>3, <2>1
<1> QED BY <1>4 DEF ListInv, Leaves

(* What a step says of the lists that are there, and of each of them.      *)
LEMMA OfAList ==
  ASSUME ListInv, NEW l \in lists
  PROVE  /\ l \in ListId /\ DOMAIN Content = lists /\ Content[l] = Elements(l) /\ Content[l] \in Seq(Node)
         /\ Len(Content[l]) \in Nat /\ Distinct(Content[l])
         /\ HeadOf(l) = At(Content[l], l, 0) /\ TailOf(l) = At(Content[l], l, Len(Content[l]) + 1)
         /\ \A i \in 1 .. Len(Content[l]) : At(Content[l], l, i) = Content[l][i]
         /\ \A i \in 0 .. Len(Content[l]) : /\ nodeNext[At(Content[l], l, i)] = At(Content[l], l, i + 1)
                                            /\ nodePrev[At(Content[l], l, i + 1)] = At(Content[l], l, i)
<1>1. l \in ListId /\ DOMAIN Content = lists /\ Content[l] = Elements(l)
  BY DEF ListInv, ListTypes, Content
<1>2. Content[l] \in Seq(Node) /\ Distinct(Content[l])
      /\ \A i \in 0 .. Len(Content[l]) : /\ nodeNext[At(Content[l], l, i)] = At(Content[l], l, i + 1)
                                         /\ nodePrev[At(Content[l], l, i + 1)] = At(Content[l], l, i)
  BY <1>1 DEF ListInv, Rings
<1> DEFINE s == Content[l]
<1> HIDE DEF s
<1>3. Len(s) \in Nat
  BY <1>2 DEF s
<1>4. HeadOf(l) = At(s, l, 0) /\ TailOf(l) = At(s, l, Len(s) + 1) /\ \A i \in 1 .. Len(s) : At(s, l, i) = s[i]
  BY <1>3 DEF At
<1> QED BY <1>1, <1>2, <1>3, <1>4 DEF s

(* Where an iterator that is on its list stands.                           *)
LEMMA WhereOn ==
  ASSUME ListInv, NEW l \in lists, OnList(l)
  PROVE  \E i \in 0 .. Len(Content[l]) + 1 : listIter[l] = At(Content[l], l, i)
<1> DEFINE s == Content[l]
<1>1. s \in Seq(Node) /\ s = Elements(l) /\ Len(s) \in Nat /\ DOMAIN s = 1 .. Len(s)
      /\ HeadOf(l) = At(s, l, 0) /\ TailOf(l) = At(s, l, Len(s) + 1) /\ \A i \in 1 .. Len(s) : At(s, l, i) = s[i]
  BY OfAList
<1> HIDE DEF s
<1>2. 0 \in 0 .. Len(s) + 1 /\ Len(s) + 1 \in 0 .. Len(s) + 1 /\ \A i \in 1 .. Len(s) : i \in 0 .. Len(s) + 1
  BY <1>1
<1>3. listIter[l] \in ToSet(s) \/ listIter[l] = HeadOf(l) \/ listIter[l] = TailOf(l)
  BY <1>1 DEF OnList
<1>4. CASE listIter[l] \in ToSet(s)
  <2>1. PICK i \in 1 .. Len(s) : s[i] = listIter[l]
    BY <1>1, <1>4 DEF ToSet
  <2> QED BY <2>1, <1>1, <1>2 DEF s
<1> QED BY <1>1, <1>2, <1>3, <1>4 DEF s
-----------------------------------------------------------------------------
(* A node is linked in after some cell of a list.                          *)
LEMMA LinkInLeaves ==
  ASSUME ListInv, NEW l \in lists, NEW n \in Node, NEW i \in 0 .. Len(Content[l]),
         LinkIn(l, n, At(Content[l], l, i)), listIter' \in [ListId -> Cell \cup {Null}]
  PROVE  \E q : Leaves(q) /\ Keeps(Content, q)
<1> DEFINE s == Content[l]
           t == Inserted(s, i, n)
           q == [Content EXCEPT ![l] = t]
<1>1. l \in ListId /\ DOMAIN Content = lists /\ s \in Seq(Node) /\ Len(s) \in Nat
  BY OfAList
<1>2. t \in Seq(Node) /\ Len(t) = Len(s) + 1
  BY <1>1, AtInserted
<1>3. Rings(q, nodeNext', nodePrev', nodeList')
  <2> DEFINE p == At(s, l, i)
  <2>1. Rings(Content, nodeNext, nodePrev, nodeList) /\ l \in DOMAIN Content /\ nodeList[n] = Null
    BY <1>1 DEF ListInv, LinkIn
  <2>2. p = At(Content[l], l, i)
    OBVIOUS
  <2>3. nodeNext' = [nodeNext EXCEPT ![n] = nodeNext[p], ![p] = n]
        /\ nodePrev' = [nodePrev EXCEPT ![n] = p, ![nodeNext[p]] = n] /\ nodeList' = [nodeList EXCEPT ![n] = l]
    BY DEF LinkIn
  <2> HIDE DEF p
  <2>4. Rings([Content EXCEPT ![l] = Inserted(Content[l], i, n)],
               [nodeNext EXCEPT ![n] = nodeNext[p], ![p] = n],
               [nodePrev EXCEPT ![n] = p, ![nodeNext[p]] = n],
               [nodeList EXCEPT ![n] = l])
    BY <2>1, <2>2, InsertRing
  <2> QED BY <2>3, <2>4
<1> HIDE DEF t
<1>4. DOMAIN q = lists /\ q[l] = t /\ \A k \in lists : k # l => q[k] = Content[k]
  BY <1>1
<1>5. Leaves(q)
  <2>1. lists' = lists /\ listSize' = [listSize EXCEPT ![l] = @ + 1]
    BY DEF LinkIn
  <2>2. ListTypes'
    BY <2>1 DEF ListTypes, ListInv
  <2>3. ASSUME NEW k \in lists PROVE listSize'[k] = Len(q[k])
    BY <2>1, <1>1, <1>2, <1>4 DEF ListInv, ListTypes
  <2> HIDE DEF q
  <2> QED BY <2>1, <2>2, <2>3, <1>3, <1>4 DEF Leaves
<1>6. Keeps(Content, q)
  <2>1. Apart(Content) /\ Content \in [DOMAIN Content -> Seq(Node)]
    BY RingsApart DEF ListInv
  <2>2. Apart(q)
    BY <1>3, RingsApart
  <2>3. ASSUME NEW a \in Node, NEW b \in Node, InOrder(a, b, Content[l]) PROVE InOrder(a, b, q[l])
    <3>1. t = Inserted(s, i, n)
      BY DEF t
    <3>2. InOrder(a, b, s) /\ s \in Seq(Node) /\ i \in 0 .. Len(s)
      BY <2>3, <1>1
    <3> HIDE DEF s
    <3>3. InOrder(a, b, t)
      BY <3>1, <3>2, InsertedKeepsOrder
    <3> QED BY <3>3, <1>4
  <2> HIDE DEF q
  <2> QED BY <2>1, <2>2, <2>3, <1>1, <1>4, KeepsOne
<1> QED BY <1>5, <1>6

(* The node at some place of a list is unlinked.                           *)
LEMMA UnlinkLeaves ==
  ASSUME ListInv, NEW l \in lists, NEW p \in 1 .. Len(Content[l]), NEW n, n = Content[l][p],
         Unlink(l, n), listIter' \in [ListId -> Cell \cup {Null}],
         NEW q, q = [Content EXCEPT ![l] = Removed(Content[l], p)]
  PROVE  Leaves(q) /\ Keeps(Content, q)
<1> DEFINE s == Content[l]
           t == Removed(s, p)
<1>1. l \in ListId /\ DOMAIN Content = lists /\ s \in Seq(Node) /\ Len(s) \in Nat /\ Distinct(s) /\ p \in 1 .. Len(s)
      /\ t = Removed(s, p)
  BY OfAList
<1>2. t \in Seq(Node) /\ Len(t) = Len(s) - 1
  BY <1>1, AtRemoved
<1>3. Rings(q, nodeNext', nodePrev', nodeList')
  <2>1. Rings(Content, nodeNext, nodePrev, nodeList) /\ l \in DOMAIN Content
    BY <1>1 DEF ListInv
  <2>2. nodeNext' = [nodeNext EXCEPT ![nodePrev[n]] = nodeNext[n], ![n] = Null]
        /\ nodePrev' = [nodePrev EXCEPT ![nodeNext[n]] = nodePrev[n], ![n] = Null] /\ nodeList' = [nodeList EXCEPT ![n] = Null]
    BY DEF Unlink
  <2>3. Rings([Content EXCEPT ![l] = Removed(Content[l], p)],
              [nodeNext EXCEPT ![nodePrev[n]] = nodeNext[n], ![n] = Null],
              [nodePrev EXCEPT ![nodeNext[n]] = nodePrev[n], ![n] = Null],
              [nodeList EXCEPT ![n] = Null])
    BY <2>1, RemoveRing
  <2> QED BY <2>2, <2>3
<1> HIDE DEF t
<1>4. DOMAIN q = lists /\ q[l] = t /\ \A k \in lists : k # l => q[k] = Content[k]
  BY <1>1
<1>5. Leaves(q)
  <2>1. lists' = lists /\ listSize' = [listSize EXCEPT ![l] = @ - 1]
    BY DEF Unlink
  <2>2. ListTypes'
    BY <2>1 DEF ListTypes, ListInv
  <2>3. ASSUME NEW k \in lists PROVE listSize'[k] = Len(q[k])
    BY <2>1, <1>1, <1>2, <1>4 DEF ListInv, ListTypes
  <2> QED BY <2>1, <2>2, <2>3, <1>3, <1>4 DEF Leaves
<1>6. Keeps(Content, q)
  <2>1. Apart(Content) /\ Content \in [DOMAIN Content -> Seq(Node)]
    BY RingsApart DEF ListInv
  <2>2. Apart(q)
    BY <1>3, RingsApart
  <2>3. ASSUME NEW a \in Node, NEW b \in Node, a \in ToSet(q[l]), b \in ToSet(q[l]), InOrder(a, b, Content[l])
        PROVE InOrder(a, b, q[l])
    <3>1. (\E j \in DOMAIN t : t[j] = a) /\ (\E j \in DOMAIN t : t[j] = b)
      BY <2>3, <1>4 DEF ToSet
    <3>2. InOrder(a, b, s)
      BY <2>3
    <3> HIDE DEF s
    <3>3. a # s[p] /\ b # s[p]
      BY <3>1, <1>1, RemovedHas
    <3>4. InOrder(a, b, t)
      BY <3>2, <3>3, <1>1, RemovedKeepsOrder
    <3> QED BY <3>4, <1>4
  <2> DEFINE qq == q
  <2>4. Apart(qq) /\ DOMAIN qq = DOMAIN Content /\ (\A k \in DOMAIN Content : k # l => qq[k] = Content[k])
        /\ \A a, b \in Node : a \in ToSet(qq[l]) /\ b \in ToSet(qq[l]) /\ InOrder(a, b, Content[l]) => InOrder(a, b, qq[l])
    BY <2>2, <2>3, <1>1, <1>4
  <2> HIDE DEF qq
  <2>5. Keeps(Content, qq)
    BY <2>1, <2>4, <1>1, KeepsOne
  <2> QED BY <2>5 DEF qq
<1> QED BY <1>5, <1>6

(* A new list is empty.                                                    *)
LEMMA CreateLeaves ==
  ASSUME ListInv, NEW l \in ListId, list_create(l)
  PROVE  \E q : Leaves(q) /\ Keeps(Content, q)
<1> DEFINE q == With(Content, l)
<1>1. DOMAIN Content = lists /\ l \notin lists
  BY DEF Content, list_create
<1>2. Rings(q, nodeNext', nodePrev', nodeList')
  <2>1. Rings(Content, nodeNext, nodePrev, nodeList) /\ l \notin DOMAIN Content
    BY <1>1 DEF ListInv
  <2>2. Rings(With(Content, l),
              [nodeNext EXCEPT ![HeadOf(l)] = TailOf(l)], [nodePrev EXCEPT ![TailOf(l)] = HeadOf(l)], nodeList)
    BY <2>1, CreateRing
  <2> QED BY <2>2 DEF list_create
<1>3. DOMAIN q = lists' /\ q[l] = <<>> /\ \A k \in lists : k # l /\ q[k] = Content[k]
  BY <1>1 DEF list_create, With
<1>4. Leaves(q)
  <2>1. lists' = lists \cup {l} /\ listSize' = [listSize EXCEPT ![l] = 0] /\ listIter' = [listIter EXCEPT ![l] = HeadOf(l)]
    BY DEF list_create
  <2>2. HeadOf(l) \in Cell
    BY DEF Cell
  <2>3. ListTypes'
    BY <2>1, <2>2 DEF ListTypes, ListInv
  <2>4. ASSUME NEW k \in lists' PROVE listSize'[k] = Len(q[k])
    BY <2>1, <1>1, <1>3 DEF ListInv, ListTypes
  <2> HIDE DEF q
  <2> QED BY <2>3, <2>4, <1>2, <1>3 DEF Leaves
<1>5. Keeps(Content, q)
  <2>1. Apart(Content) /\ Content \in [DOMAIN Content -> Seq(Node)]
    BY RingsApart DEF ListInv
  <2>2. \A k \in DOMAIN q : (k \in DOMAIN Content /\ q[k] = Content[k]) \/ q[k] = <<>>
    BY DEF With
  <2> HIDE DEF q
  <2> QED BY <2>1, <2>2, KeepsSame
<1> QED BY <1>4, <1>5

(* A list that is cleared is empty.                                        *)
LEMMA ClearLeaves ==
  ASSUME ListInv, NEW l \in lists, list_clear(l)
  PROVE  \E q : Leaves(q) /\ Keeps(Content, q)
<1> DEFINE q == With(Without(Content, l), l)
<1>1. DOMAIN Content = lists /\ Content[l] = Elements(l)
  BY OfAList
<1>2. Rings(q, nodeNext', nodePrev', nodeList')
  <2>1. Rings(Content, nodeNext, nodePrev, nodeList) /\ l \in DOMAIN Content
    BY <1>1 DEF ListInv
  <2>2. Rings(With(Without(Content, l), l),
              [c \in Cell |-> IF c = HeadOf(l) THEN TailOf(l) ELSE IF c \in ToSet(Content[l]) THEN Null ELSE nodeNext[c]],
              [c \in Cell |-> IF c = TailOf(l) THEN HeadOf(l) ELSE IF c \in ToSet(Content[l]) THEN Null ELSE nodePrev[c]],
              GivenBack(nodeList, Content[l]))
    BY <2>1, ClearRing
  <2> QED BY <2>2, <1>1 DEF list_clear, GivenBack
<1>3. DOMAIN q = lists /\ q[l] = <<>> /\ \A k \in lists : k # l => q[k] = Content[k]
  BY <1>1 DEF With, Without
<1>4. Leaves(q)
  <2>1. lists' = lists /\ listSize' = [listSize EXCEPT ![l] = 0] /\ listIter' = listIter
    BY DEF list_clear
  <2>2. ListTypes'
    BY <2>1 DEF ListTypes, ListInv
  <2>3. ASSUME NEW k \in lists PROVE listSize'[k] = Len(q[k])
    BY <2>1, <1>3 DEF ListInv, ListTypes
  <2> HIDE DEF q
  <2> QED BY <2>1, <2>2, <2>3, <1>2, <1>3 DEF Leaves
<1>5. Keeps(Content, q)
  <2>1. Apart(Content) /\ Content \in [DOMAIN Content -> Seq(Node)]
    BY RingsApart DEF ListInv
  <2>2. \A k \in DOMAIN q : (k \in DOMAIN Content /\ q[k] = Content[k]) \/ q[k] = <<>>
    BY <1>1, <1>3
  <2> HIDE DEF q
  <2> QED BY <2>1, <2>2, KeepsSame
<1> QED BY <1>4, <1>5

(* A list that is freed takes its nodes with it.                           *)
LEMMA FreeLeaves ==
  ASSUME ListInv, NEW l \in lists, list_free(l)
  PROVE  \E q : Leaves(q) /\ Keeps(Content, q)
<1> DEFINE q == Without(Content, l)
<1>1. DOMAIN Content = lists /\ Content[l] = Elements(l)
  BY OfAList
<1>2. Rings(q, nodeNext', nodePrev', nodeList')
  <2>1. Rings(Content, nodeNext, nodePrev, nodeList) /\ l \in DOMAIN Content
    BY <1>1 DEF ListInv
  <2>2. Rings(Without(Content, l),
              [c \in Cell |-> IF c \in ToSet(Content[l]) \cup {HeadOf(l)} THEN Null ELSE nodeNext[c]],
              [c \in Cell |-> IF c \in ToSet(Content[l]) \cup {TailOf(l)} THEN Null ELSE nodePrev[c]],
              GivenBack(nodeList, Content[l]))
    BY <2>1, FreeRing
  <2> QED BY <2>2, <1>1 DEF list_free, GivenBack
<1>3. DOMAIN q = lists \ {l} /\ \A k \in lists \ {l} : q[k] = Content[k]
  BY <1>1 DEF Without
<1>4. Leaves(q)
  <2>1. lists' = lists \ {l} /\ listSize' = [listSize EXCEPT ![l] = 0] /\ listIter' = [listIter EXCEPT ![l] = Null]
    BY DEF list_free
  <2>2. ListTypes'
    BY <2>1 DEF ListTypes, ListInv
  <2>3. ASSUME NEW k \in lists' PROVE listSize'[k] = Len(q[k])
    BY <2>1, <1>3 DEF ListInv, ListTypes
  <2> HIDE DEF q
  <2> QED BY <2>1, <2>2, <2>3, <1>2, <1>3 DEF Leaves
<1>5. Keeps(Content, q)
  <2>1. Apart(Content) /\ Content \in [DOMAIN Content -> Seq(Node)]
    BY RingsApart DEF ListInv
  <2>2. \A k \in DOMAIN q : (k \in DOMAIN Content /\ q[k] = Content[k]) \/ q[k] = <<>>
    BY <1>1, <1>3
  <2> HIDE DEF q
  <2> QED BY <2>1, <2>2, KeepsSame
<1> QED BY <1>4, <1>5

(* The nodes of one list become the end of another.                        *)
LEMMA JoinLeaves ==
  ASSUME ListInv, NEW target \in lists, NEW src \in lists, list_join(target, src)
  PROVE  \E q : Leaves(q) /\ Keeps(Content, q)
<1> DEFINE m == [next |-> [nodeNext EXCEPT ![HeadOf(src)] = Null],
                 prev |-> [nodePrev EXCEPT ![TailOf(src)] = Null], list |-> nodeList]
           r == _list_append_fragment(m, target, nodeNext[HeadOf(src)], nodePrev[TailOf(src)])
           q0 == Without(Content, src)
           q1 == Joined(Content, target, src)
<1>1. DOMAIN Content = lists /\ target # src /\ Content[target] \in Seq(Node) /\ Content[src] \in Seq(Node)
  <2>1. target # src
    BY DEF list_join
  <2> QED BY <2>1, OfAList
<1>2. Apart(Content) /\ Content \in [DOMAIN Content -> Seq(Node)]
  BY RingsApart DEF ListInv
<1>3. IF listSize[src] = 0 THEN Assign(m) /\ listSize' = listSize
      ELSE Assign(r) /\ listSize' = [listSize EXCEPT ![target] = @ + r.count, ![src] = 0]
  BY DEF list_join
<1>4. lists' = lists \ {src} /\ listIter' = [listIter EXCEPT ![src] = Null]
  BY DEF list_join
<1>5. listSize[src] = Len(Content[src]) /\ (listSize[src] = 0 <=> Content[src] = <<>>)
  <2>1. listSize[src] = Len(Content[src])
    BY DEF ListInv
  <2>2. Content[src] = <<>> <=> Len(Content[src]) = 0
    BY <1>1
  <2> QED BY <2>1, <2>2
<1>6. Detached(m, src, nodeNext, nodePrev, nodeList)
  BY DEF Detached
<1> HIDE DEF m
<1>7. r = _list_append_fragment(m, target, nodeNext[HeadOf(src)], nodePrev[TailOf(src)])
  OBVIOUS
<1> HIDE DEF r
<1>8. DOMAIN q0 = lists \ {src} /\ \A k \in lists \ {src} : q0[k] = Content[k]
  BY <1>1 DEF Without
<1>9. DOMAIN q1 = lists \ {src} /\ q1[target] = Content[target] \o Content[src]
      /\ \A k \in lists \ {src} : k # target => q1[k] = Content[k]
  BY <1>1 DEF Joined, Appended, Without
<1>10. Rings(Content, nodeNext, nodePrev, nodeList)
  BY DEF ListInv
<1>11. Content[src] = <<>> => Rings(q0, m.next, m.prev, m.list)
  BY <1>1, <1>6, <1>10, JoinNothingRing
<1>12. Content[src] # <<>> => Rings(q1, r.next, r.prev, r.list) /\ r.count = Len(Content[src])
  BY <1>1, <1>6, <1>7, <1>10, JoinRing
<1> HIDE DEF q0, q1
<1>13. CASE listSize[src] = 0
  <2>1. Rings(q0, nodeNext', nodePrev', nodeList') /\ listSize' = listSize
    BY <1>3, <1>5, <1>11, <1>13 DEF Assign
  <2>2. ListTypes'
    BY <2>1, <1>4, <1>13 DEF ListTypes, ListInv
  <2>3. ASSUME NEW k \in lists' PROVE listSize'[k] = Len(q0[k])
    BY <2>1, <1>4, <1>8 DEF ListInv
  <2>4. Leaves(q0)
    BY <2>1, <2>2, <2>3, <1>4, <1>8 DEF Leaves
  <2>5. \A k \in DOMAIN q0 : (k \in DOMAIN Content /\ q0[k] = Content[k]) \/ q0[k] = <<>>
    BY <1>1, <1>8
  <2>6. Keeps(Content, q0)
    BY <2>5, <1>2, KeepsSame
  <2> QED BY <2>4, <2>6
<1>14. CASE listSize[src] # 0
  <2>1. Rings(q1, nodeNext', nodePrev', nodeList') /\ r.count = Len(Content[src])
        /\ listSize' = [listSize EXCEPT ![target] = @ + r.count, ![src] = 0]
    BY <1>3, <1>5, <1>12, <1>14 DEF Assign
  <2>2. Len(Content[target] \o Content[src]) = Len(Content[target]) + Len(Content[src])
        /\ Len(Content[target]) \in Nat /\ Len(Content[src]) \in Nat
    BY <1>1
  <2>4. listSize[target] = Len(Content[target])
    BY DEF ListInv
  <2>5. target \in ListId /\ src \in ListId /\ listSize \in [ListId -> Int]
    BY DEF ListInv, ListTypes
  <2>6. listSize'[target] = Len(Content[target]) + Len(Content[src])
    BY <2>1, <2>4, <2>5, <1>1
  <2>3. ListTypes'
    <3>1. listSize' \in [ListId -> Int] /\ \A k \in ListId \ {target, src} : listSize'[k] = listSize[k]
      BY <2>1, <2>2, <2>5
    <3>2. listSize'[src] = 0
      BY <2>1, <2>5
    <3> QED BY <3>1, <3>2, <1>1, <1>4 DEF ListTypes, ListInv
  <2>7. ASSUME NEW k \in lists' PROVE listSize'[k] = Len(q1[k])
    <3>1. CASE k = target
      BY <3>1, <2>2, <2>6, <1>9
    <3>2. CASE k # target
      <4>1. k \in lists /\ k # src /\ k \in ListId
        BY <1>4 DEF ListInv, ListTypes
      <4>2. listSize'[k] = listSize[k] /\ listSize[k] = Len(Content[k])
        BY <3>2, <4>1, <2>1, <2>5 DEF ListInv
      <4> QED BY <3>2, <4>1, <4>2, <1>9
    <3> QED BY <3>1, <3>2
  <2>8. Leaves(q1)
    BY <2>1, <2>3, <2>7, <1>4, <1>9 DEF Leaves
  <2>9. Keeps(Content, q1)
    BY <1>1, <1>2, KeepsJoin DEF q1
  <2> QED BY <2>8, <2>9
<1> QED BY <1>13, <1>14

(* A list is cut in two where its iterator stands.                         *)
LEMMA SplitLeaves ==
  ASSUME ListInv, NEW l \in lists, NEW new \in ListId, OnList(l), list_split(l, new)
  PROVE  \E q : Leaves(q) /\ Keeps(Content, q)
<1> DEFINE start == listIter[l]
           s == Content[l]
           m == [next |-> [nodeNext EXCEPT ![HeadOf(new)] = TailOf(new)],
                 prev |-> [nodePrev EXCEPT ![TailOf(new)] = HeadOf(new)], list |-> nodeList]
           cut == Cut(m, l, start)
           r == _list_append_fragment(cut, new, start, nodePrev[TailOf(l)])
           q0 == With(Content, new)
           before == m.prev[start]
<1>1. DOMAIN Content = lists /\ new \notin lists /\ l # new /\ s \in Seq(Node) /\ Len(s) \in Nat /\ Distinct(s)
  <2>1. new \notin lists
    BY DEF list_split
  <2> QED BY <2>1, OfAList
<1>2. Apart(Content) /\ Content \in [DOMAIN Content -> Seq(Node)]
  BY RingsApart DEF ListInv
<1>3. IF start \in Node
      THEN Assign(r) /\ listSize' = [listSize EXCEPT ![l] = @ - r.count, ![new] = r.count]
      ELSE Assign(m) /\ UNCHANGED listSize
  BY DEF list_split
<1>4. lists' = lists \cup {new} /\ listIter' = [listIter EXCEPT ![new] = HeadOf(new)]
  BY DEF list_split
<1>5. m.next = [nodeNext EXCEPT ![HeadOf(new)] = TailOf(new)] /\ m.prev = [nodePrev EXCEPT ![TailOf(new)] = HeadOf(new)]
      /\ m.list = nodeList
  OBVIOUS
<1>6. Severed(cut, l, before, m.next, m.prev, nodeList)
  BY DEF Cut, Severed
<1> HIDE DEF m, cut
<1>7. r = _list_append_fragment(cut, new, start, nodePrev[TailOf(l)])
  OBVIOUS
<1> HIDE DEF r
<1>8. Rings(q0, m.next, m.prev, nodeList)
  <2>1. Rings(Content, nodeNext, nodePrev, nodeList) /\ new \notin DOMAIN Content
    BY <1>1 DEF ListInv
  <2>2. Rings(With(Content, new),
              [nodeNext EXCEPT ![HeadOf(new)] = TailOf(new)], [nodePrev EXCEPT ![TailOf(new)] = HeadOf(new)], nodeList)
    BY <2>1, CreateRing
  <2> QED BY <2>2, <1>5
<1>9. DOMAIN q0 = lists \cup {new} /\ q0[l] = s /\ q0[new] = <<>> /\ \A k \in lists : k # new /\ q0[k] = Content[k]
  BY <1>1 DEF With
<1> HIDE DEF q0
<1>10. HeadOf(new) \in Cell /\ ListTypes
  BY DEF Cell, ListInv
<1>11. listSize[new] \in Int
  BY <1>10 DEF ListTypes
<1>12. CASE start \notin Node
  <2>1. Rings(q0, nodeNext', nodePrev', nodeList') /\ listSize' = listSize
    BY <1>3, <1>5, <1>8, <1>12 DEF Assign
  <2>2. ListTypes'
    BY <2>1, <1>4, <1>10 DEF ListTypes
  <2>3. ASSUME NEW k \in lists' PROVE listSize'[k] = Len(q0[k])
    BY <2>1, <1>1, <1>4, <1>9 DEF ListInv, ListTypes
  <2>4. Leaves(q0)
    BY <2>1, <2>2, <2>3, <1>4, <1>9 DEF Leaves
  <2>5. \A k \in DOMAIN q0 : (k \in DOMAIN Content /\ q0[k] = Content[k]) \/ q0[k] = <<>>
    BY <1>1, <1>9
  <2>6. Keeps(Content, q0)
    BY <2>5, <1>2, KeepsSame
  <2> QED BY <2>4, <2>6
<1>13. CASE start \in Node
  <2>1. PICK p \in 1 .. Len(s) : s[p] = start
    <3>1. PICK i \in 0 .. Len(s) + 1 : start = At(s, l, i)
      BY WhereOn
    <3>2. l \in ListId
      BY OfAList
    <3> HIDE DEF start, s
    <3> QED BY <3>1, <3>2, <1>1, <1>13, AtIsCell
  <2> DEFINE q1 == SplitUp(q0, l, p, new)
             mn == m.next
             mp == m.prev
  <2>2. mp[TailOf(l)] = nodePrev[TailOf(l)]
    <3>1. TailOf(l) # TailOf(new)
      BY <1>1 DEF TailOf
    <3> QED BY <3>1, <1>5
  <2>3. Rings(q0, mn, mp, nodeList) /\ l \in DOMAIN q0 /\ new \in DOMAIN q0 /\ p \in 1 .. Len(q0[l]) /\ start = q0[l][p]
        /\ before = mp[start] /\ Severed(cut, l, before, mn, mp, nodeList)
        /\ r = _list_append_fragment(cut, new, start, mp[TailOf(l)])
    BY <2>1, <2>2, <1>6, <1>7, <1>8, <1>9
  <2> HIDE DEF start, before, mn, mp
  <2>4. Rings(SplitUp(q0, l, p, new), r.next, r.prev, r.list) /\ r.count = (Len(q0[l]) - p) + 1
    BY <2>3, <1>1, <1>9, SplitRing
  <2>5. Rings(q1, r.next, r.prev, r.list) /\ r.count = (Len(s) - p) + 1
    BY <2>4, <1>9
  <2>6. DOMAIN q1 = lists \cup {new} /\ q1[l] = SubSeq(s, 1, p - 1) /\ q1[new] = SubSeq(s, p, Len(s))
        /\ \A k \in lists : k # l => q1[k] = Content[k]
    <3> DEFINE f == SubSeq(s, p, Len(s))
    <3>1. <<>> \o f = f
      <4>1. f \in Seq(Node)
        BY <1>1
      <4> HIDE DEF f
      <4> DEFINE g == <<>> \o f
      <4>2. g \in Seq(Node) /\ Len(g) = Len(f) /\ \A i \in 1 .. Len(f) : g[i] = f[i]
        BY <4>1
      <4> HIDE DEF g
      <4>3. g = f
        BY <4>1, <4>2, SeqEqual
      <4> QED BY <4>3 DEF g
    <3> HIDE DEF f
    <3>2. Appended(Shortened(q0, l, p), new, f)[new] = f
      BY <3>1, <1>1, <1>9 DEF Appended, Shortened
    <3>3. Appended(Shortened(q0, l, p), new, f)[l] = SubSeq(s, 1, p - 1)
      BY <1>1, <1>9 DEF Appended, Shortened
    <3>4. q1 = Appended(Shortened(q0, l, p), new, f)
      BY <1>9 DEF SplitUp, f
    <3>5. DOMAIN Appended(Shortened(q0, l, p), new, f) = lists \cup {new}
          /\ \A k \in lists : k # l => Appended(Shortened(q0, l, p), new, f)[k] = Content[k]
      BY <1>9 DEF Appended, Shortened
    <3> HIDE DEF q1, s
    <3> QED BY <3>2, <3>3, <3>4, <3>5 DEF f
  <2>7. Len(q1[l]) = p - 1 /\ Len(q1[new]) = (Len(s) - p) + 1 /\ p \in Nat /\ p >= 1 /\ p <= Len(s)
    <3>1. p \in Nat /\ p >= 1 /\ p <= Len(s)
      BY <1>1
    <3>2. Len(SubSeq(s, 1, p - 1)) = p - 1 /\ Len(SubSeq(s, p, Len(s))) = (Len(s) - p) + 1
      <4> HIDE DEF s
      <4> QED BY <3>1, <1>1
    <3> QED BY <3>1, <3>2, <2>6
  <2> HIDE DEF q1
  <2>8. listSize' = [listSize EXCEPT ![l] = @ - r.count, ![new] = r.count] /\ Rings(q1, nodeNext', nodePrev', nodeList')
    BY <2>5, <1>3, <1>13 DEF Assign
  <2>9. l \in ListId /\ listSize \in [ListId -> Int] /\ listSize[l] = Len(s) /\ r.count \in Int
    BY <2>5, <2>7, <1>1 DEF ListInv, ListTypes
  <2>10. listSize'[l] = p - 1 /\ listSize'[new] = (Len(s) - p) + 1 /\ \A k \in ListId \ {l, new} : listSize'[k] = listSize[k]
    <3> HIDE DEF s
    <3> QED BY <2>5, <2>7, <2>8, <2>9, <1>1
  <2>11. ListTypes'
    <3>1. listSize' \in [ListId -> Int]
      BY <2>8, <2>9
    <3>2. lists' \subseteq ListId /\ listIter' \in [ListId -> Cell \cup {Null}]
      BY <1>4, <1>10 DEF ListTypes
    <3>3. \A k \in ListId \ lists' : listSize'[k] = 0
      BY <2>10, <1>4, <1>10 DEF ListTypes
    <3> QED BY <3>1, <3>2, <3>3 DEF ListTypes
  <2>12. ASSUME NEW k \in lists' PROVE listSize'[k] = Len(q1[k])
    <3>1. CASE k = l \/ k = new
      BY <3>1, <2>7, <2>10
    <3>2. CASE k # l /\ k # new
      <4>1. k \in lists /\ k \in ListId
        BY <3>2, <1>4 DEF ListInv, ListTypes
      <4>2. listSize'[k] = listSize[k] /\ listSize[k] = Len(Content[k])
        BY <3>2, <4>1, <2>10 DEF ListInv
      <4> QED BY <3>2, <4>1, <4>2, <2>6
    <3> QED BY <3>1, <3>2
  <2>13. Leaves(q1)
    BY <2>6, <2>8, <2>11, <2>12, <1>4 DEF Leaves
  <2>14. Keeps(Content, q1)
    <3>1. IsSplit(Content, l, p, new, q1) /\ Distinct(Content[l])
      BY <2>6, <1>1 DEF IsSplit
    <3> QED BY <3>1, <1>2, KeepsSplit
  <2> QED BY <2>13, <2>14
<1> QED BY <1>12, <1>13

(* Steps that leave the lists alone.                                       *)
LEMMA SameLeaves ==
  ASSUME ListInv, UNCHANGED <<lists, links, nodeList, listSize>>, listIter' \in [ListId -> Cell \cup {Null}]
  PROVE  Leaves(Content) /\ Keeps(Content, Content)
<1>1. lists' = lists /\ nodeNext' = nodeNext /\ nodePrev' = nodePrev /\ nodeList' = nodeList /\ listSize' = listSize
  BY DEF links
<1>2. DOMAIN Content = lists
  BY DEF Content
<1>3. ListTypes'
  BY <1>1 DEF ListTypes, ListInv
<1>4. Leaves(Content)
  BY <1>1, <1>2, <1>3 DEF Leaves, ListInv
<1>5. Apart(Content) /\ Content \in [DOMAIN Content -> Seq(Node)]
  BY RingsApart DEF ListInv
<1>6. Keeps(Content, Content)
  BY <1>5, KeepsSame
<1> QED BY <1>4, <1>6

(* What follows the cell an iterator on its list stands on, if it is a     *)
(* node, and what it follows: nodes of the list.                           *)
LEMMA StepOn ==
  ASSUME ListInv, NEW l \in lists, OnList(l),
         NEW c, c = nodeNext[listIter[l]] \/ c = nodePrev[listIter[l]], c \in Node
  PROVE  c \in ToSet(Elements(l))
<1> DEFINE s == Content[l]
<1>1. s \in Seq(Node) /\ s = Elements(l) /\ Len(s) \in Nat /\ DOMAIN s = 1 .. Len(s) /\ l \in ListId
      /\ HeadOf(l) = At(s, l, 0) /\ TailOf(l) = At(s, l, Len(s) + 1) /\ (\A i \in 1 .. Len(s) : At(s, l, i) = s[i])
      /\ \A i \in 0 .. Len(s) : nodeNext[At(s, l, i)] = At(s, l, i + 1) /\ nodePrev[At(s, l, i + 1)] = At(s, l, i)
  BY OfAList
<1>2. PICK i \in 0 .. Len(s) + 1 : listIter[l] = At(s, l, i)
  BY WhereOn
<1>3. nodeNext[TailOf(l)] = Null /\ nodePrev[HeadOf(l)] = Null /\ Null \notin Node
  BY <1>1, ListAssumption DEF ListInv, Rings, Cell
<1> HIDE DEF s
<1>4. \E j \in 0 .. Len(s) + 1 : c = At(s, l, j)
  <2>1. CASE c = nodeNext[listIter[l]]
    <3>1. i # Len(s) + 1
      BY <1>1, <1>2, <1>3, <2>1
    <3>2. i \in 0 .. Len(s) /\ i + 1 \in 0 .. Len(s) + 1
      BY <1>1, <3>1
    <3> QED BY <1>1, <1>2, <2>1, <3>2
  <2>2. CASE c = nodePrev[listIter[l]]
    <3>1. i # 0
      BY <1>1, <1>2, <1>3, <2>2
    <3>2. i - 1 \in 0 .. Len(s) /\ (i - 1) + 1 = i /\ i - 1 \in 0 .. Len(s) + 1
      BY <1>1, <3>1
    <3>3. nodePrev[At(s, l, (i - 1) + 1)] = At(s, l, i - 1)
      BY <1>1, <3>2
    <3> QED BY <1>2, <2>2, <3>2, <3>3
  <2> QED BY <2>1, <2>2
<1>5. PICK j \in 0 .. Len(s) + 1 : c = At(s, l, j)
  BY <1>4
<1>6. j \in 1 .. Len(s)
  BY <1>1, <1>5, AtIsCell
<1> QED BY <1>1, <1>5, <1>6 DEF ToSet

(* The place of a node that a list, or its iterator, is about to remove.   *)
LEMMA PlaceOf ==
  ASSUME ListInv, NEW l \in lists, NEW n \in ToSet(Elements(l))
  PROVE  \E p \in 1 .. Len(Content[l]) : n = Content[l][p]
<1>1. Content[l] \in Seq(Node) /\ Content[l] = Elements(l)
  BY OfAList
<1> DEFINE s == Content[l]
<1> HIDE DEF s
<1>2. DOMAIN s = 1 .. Len(s) /\ n \in ToSet(s)
  BY <1>1 DEF s
<1> QED BY <1>2 DEF ToSet, s

(* A list grows at its end, at its front or behind its iterator.           *)
LEMMA GrowLeaves ==
  ASSUME ListInv, NEW l \in lists, ListGrows(l)
  PROVE  \E q : Leaves(q) /\ Keeps(Content, q)
<1> DEFINE s == Content[l]
<1>1. s \in Seq(Node) /\ s = Elements(l) /\ Len(s) \in Nat /\ l \in ListId
      /\ HeadOf(l) = At(s, l, 0) /\ TailOf(l) = At(s, l, Len(s) + 1)
      /\ \A i \in 0 .. Len(s) : nodeNext[At(s, l, i)] = At(s, l, i + 1) /\ nodePrev[At(s, l, i + 1)] = At(s, l, i)
  BY OfAList
<1>2. listIter \in [ListId -> Cell \cup {Null}] /\ nodeNext[TailOf(l)] = Null
  BY <1>1 DEF ListInv, ListTypes, Rings
<1>3. PICK n \in Node : list_append(l, n) \/ list_unshift(l, n) \/ (OnList(l) /\ li_insert(l, n))
  BY DEF ListGrows
<1>4. 0 \in 0 .. Len(s) /\ Len(s) \in 0 .. Len(s)
  BY <1>1
<1>5. CASE list_append(l, n)
  <2>1. LinkIn(l, n, At(s, l, Len(s))) /\ listIter' = listIter
    BY <1>1, <1>4, <1>5 DEF list_append
  <2> QED BY <2>1, <1>2, <1>4, LinkInLeaves
<1>6. CASE list_unshift(l, n)
  <2>1. LinkIn(l, n, At(s, l, 0)) /\ listIter' = listIter
    BY <1>1, <1>6 DEF list_unshift
  <2> QED BY <2>1, <1>2, <1>4, LinkInLeaves
<1>7. CASE OnList(l) /\ li_insert(l, n)
  <2>1. PICK i \in 0 .. Len(s) + 1 : listIter[l] = At(s, l, i)
    BY <1>7, WhereOn
  <2>2. i # Len(s) + 1
    BY <1>1, <1>2, <1>7, <2>1 DEF li_insert
  <2>3. i \in 0 .. Len(s)
    BY <1>1, <2>2
  <2>4. LinkIn(l, n, At(s, l, i)) /\ listIter' = [listIter EXCEPT ![l] = n]
    BY <1>7, <2>1 DEF li_insert
  <2>5. listIter' \in [ListId -> Cell \cup {Null}]
    BY <1>2, <2>4 DEF Cell
  <2> QED BY <2>3, <2>4, <2>5, LinkInLeaves
<1> QED BY <1>3, <1>5, <1>6, <1>7

(* Removal through the iterator, which moves on to what followed.          *)
LEMMA RemoveOn ==
  ASSUME ListInv, NEW l \in lists, OnList(l), li_remove(l)
  PROVE  (\E q : Leaves(q) /\ Keeps(Content, q)) /\ OnList(l)'
<1> DEFINE s == Content[l]
           n == listIter[l]
<1>1. s \in Seq(Node) /\ s = Elements(l) /\ Len(s) \in Nat /\ l \in ListId /\ DOMAIN Content = lists /\ Distinct(s)
      /\ HeadOf(l) = At(s, l, 0) /\ TailOf(l) = At(s, l, Len(s) + 1)
      /\ \A i \in 0 .. Len(s) : nodeNext[At(s, l, i)] = At(s, l, i + 1)
  BY OfAList
<1>2. n \in Node /\ Unlink(l, n) /\ listIter' = [listIter EXCEPT ![l] = nodeNext[n]]
  BY DEF li_remove, _ln_datanode
<1>3. HeadOf(l) \notin Node /\ TailOf(l) \notin Node /\ listIter \in [ListId -> Cell \cup {Null}]
  BY <1>1, ListAssumption DEF ListInv, ListTypes
<1>4. PICK p \in 1 .. Len(s) : n = s[p]
  <2>1. n \in ToSet(Elements(l))
    BY <1>2, <1>3 DEF OnList
  <2> QED BY <2>1, PlaceOf
<1>5. nodeNext[n] = At(s, l, p + 1) /\ p + 1 \in 0 .. Len(s) + 1
  <2>1. p \in 0 .. Len(s) /\ p # 0 /\ p # Len(s) + 1 /\ p + 1 \in 0 .. Len(s) + 1
    BY <1>1
  <2> QED BY <2>1, <1>1, <1>4 DEF At
<1>6. nodeNext[n] \in Cell
  BY <1>1, <1>5, AtIsCell
<1>7. listIter' \in [ListId -> Cell \cup {Null}] /\ listIter'[l] = nodeNext[n]
  BY <1>1, <1>2, <1>3, <1>6
<1> DEFINE q == [Content EXCEPT ![l] = Removed(Content[l], p)]
<1>8. q = [Content EXCEPT ![l] = Removed(Content[l], p)]
  OBVIOUS
<1>9. q[l] = Removed(s, p)
  BY <1>1
<1> HIDE DEF q
<1>10. Leaves(q) /\ Keeps(Content, q)
  BY <1>2, <1>4, <1>7, <1>8, UnlinkLeaves
<1>11. Elements(l)' = Removed(s, p)
  <2>1. Content' = q /\ l \in lists'
    BY <1>2, <1>10, LeavesContent DEF Unlink
  <2> QED BY <2>1, <1>9 DEF Content
<1>12. nodeNext[n] = TailOf(l) \/ nodeNext[n] \in ToSet(Removed(s, p))
  <2>1. CASE p = Len(s)
    BY <2>1, <1>1, <1>5
  <2>2. CASE p # Len(s)
    <3>1. p + 1 \in 1 .. Len(s) /\ p + 1 # p
      BY <2>2, <1>1
    <3>2. nodeNext[n] = s[p + 1] /\ s[p + 1] \in Node
      BY <3>1, <1>1, <1>5 DEF At
    <3> DEFINE t == Removed(s, p)
               c == s[p + 1]
    <3>3. c # s[p] /\ \E j \in DOMAIN s : s[j] = c
      <4>1. p + 1 \in DOMAIN s /\ p \in DOMAIN s
        BY <3>1, <1>1
      <4> QED BY <4>1, <3>1, <1>1 DEF Distinct
    <3>4. t = Removed(s, p) /\ c \in Node
      BY <3>2
    <3> HIDE DEF s, t, c
    <3>5. \E j \in DOMAIN t : t[j] = c
      BY <3>3, <3>4, <1>1, RemovedHas
    <3> QED BY <3>2, <3>5 DEF ToSet, t, c
  <2> QED BY <2>1, <2>2
<1>13. OnList(l)'
  BY <1>7, <1>11, <1>12 DEF OnList
<1> QED BY <1>10, <1>13

(* Whatever is done through an iterator.                                   *)
LEMMA IterateOn ==
  ASSUME ListInv, NEW l \in lists, ListIterates(l)
  PROVE  (\E q : Leaves(q) /\ Keeps(Content, q)) /\ OnList(l)'
<1>1. l \in ListId /\ listIter \in [ListId -> Cell \cup {Null}]
  BY DEF ListInv, ListTypes
<1>2. ASSUME NEW c, Iterate(l, c), c \in ToSet(Elements(l)) \cup {HeadOf(l), TailOf(l)}
      PROVE  (\E q : Leaves(q) /\ Keeps(Content, q)) /\ OnList(l)'
  <2>1. Content[l] \in Seq(Node) /\ Content[l] = Elements(l)
    BY OfAList
  <2>2. c \in Cell
    <3>1. ToSet(Elements(l)) \subseteq Node
      BY <2>1 DEF ToSet
    <3> QED BY <3>1, <1>1, <1>2 DEF Cell
  <2>3. listIter' \in [ListId -> Cell \cup {Null}] /\ listIter'[l] = c
    BY <1>1, <1>2, <2>2 DEF Iterate
  <2>4. UNCHANGED <<lists, links, nodeList, listSize>>
    BY <1>2 DEF Iterate
  <2>5. Elements(l)' = Elements(l)
    BY <2>4 DEF Elements, links
  <2>6. OnList(l)'
    BY <1>2, <2>3, <2>5 DEF OnList
  <2> QED BY <2>3, <2>4, <2>6, SameLeaves
<1>3. CASE li_head(l)
  BY <1>2, <1>3 DEF li_head
<1>4. CASE li_tail(l)
  BY <1>2, <1>4 DEF li_tail
<1>5. CASE OnList(l) /\ li_next(l)
  <2>1. nodeNext[listIter[l]] \in ToSet(Elements(l))
    BY <1>5, StepOn DEF li_next, _ln_datanode
  <2> QED BY <2>1, <1>2, <1>5 DEF li_next
<1>6. CASE OnList(l) /\ li_prev(l)
  <2>1. nodePrev[listIter[l]] \in ToSet(Elements(l))
    BY <1>6, StepOn DEF li_prev, _ln_datanode
  <2> QED BY <2>1, <1>2, <1>6 DEF li_prev
<1>7. CASE OnList(l) /\ li_remove(l)
  BY <1>7, RemoveOn
<1> QED BY <1>3, <1>4, <1>5, <1>6, <1>7 DEF ListIterates

(* The node at some place of a list goes, and its iterator does not move.  *)
LEMMA TakenLeaves ==
  ASSUME ListInv, NEW l \in lists, NEW p \in 1 .. Len(Content[l]), Unlink(l, Content[l][p]), UNCHANGED listIter
  PROVE  \E q : Leaves(q) /\ Keeps(Content, q)
<1> DEFINE q == [Content EXCEPT ![l] = Removed(Content[l], p)]
           n == Content[l][p]
<1>1. listIter' \in [ListId -> Cell \cup {Null}] /\ n = Content[l][p] /\ Unlink(l, n)
  BY DEF ListInv, ListTypes
<1>2. q = [Content EXCEPT ![l] = Removed(Content[l], p)]
  OBVIOUS
<1> HIDE DEF q, n
<1>3. Leaves(q) /\ Keeps(Content, q)
  BY <1>1, <1>2, UnlinkLeaves
<1> QED BY <1>3

(* The first node of a list, and its last, are taken off.                  *)
LEMMA ShiftLeaves ==
  ASSUME ListInv, NEW l \in lists, list_shift(l) \/ list_pop(l)
  PROVE  \E q : Leaves(q) /\ Keeps(Content, q)
<1> DEFINE s == Content[l]
<1>1. s \in Seq(Node) /\ Len(s) \in Nat /\ l \in ListId
      /\ HeadOf(l) = At(s, l, 0) /\ TailOf(l) = At(s, l, Len(s) + 1) /\ (\A i \in 1 .. Len(s) : At(s, l, i) = s[i])
      /\ \A i \in 0 .. Len(s) : nodeNext[At(s, l, i)] = At(s, l, i + 1) /\ nodePrev[At(s, l, i + 1)] = At(s, l, i)
  BY OfAList
<1>2. CASE list_shift(l)
  <2>1. nodeNext[HeadOf(l)] = At(s, l, 1) /\ 1 \in 0 .. Len(s) + 1
    <3>1. 0 \in 0 .. Len(s) /\ 1 \in 0 .. Len(s) + 1
      BY <1>1
    <3>2. nodeNext[At(s, l, 0)] = At(s, l, 0 + 1)
      BY <1>1, <3>1
    <3> QED BY <1>1, <3>1, <3>2
  <2>2. nodeNext[HeadOf(l)] \in Node /\ Unlink(l, nodeNext[HeadOf(l)]) /\ UNCHANGED listIter
    BY <1>2 DEF list_shift, _ln_datanode
  <2>3. 1 \in 1 .. Len(s)
    <3> HIDE DEF s
    <3> QED BY <1>1, <2>1, <2>2, AtIsCell
  <2>4. nodeNext[HeadOf(l)] = s[1]
    BY <1>1, <2>1, <2>3
  <2> QED BY <2>2, <2>3, <2>4, TakenLeaves
<1>3. CASE list_pop(l)
  <2>1. nodePrev[TailOf(l)] = At(s, l, Len(s)) /\ Len(s) \in 0 .. Len(s) + 1
    <3>1. Len(s) \in 0 .. Len(s) /\ Len(s) \in 0 .. Len(s) + 1
      BY <1>1
    <3> QED BY <1>1, <3>1
  <2>2. nodePrev[TailOf(l)] \in Node /\ Unlink(l, nodePrev[TailOf(l)]) /\ UNCHANGED listIter
    BY <1>3 DEF list_pop, _ln_datanode
  <2>3. Len(s) \in 1 .. Len(s)
    <3> HIDE DEF s
    <3> QED BY <1>1, <2>1, <2>2, AtIsCell
  <2>4. nodePrev[TailOf(l)] = s[Len(s)]
    BY <1>1, <2>1, <2>3
  <2> QED BY <2>2, <2>3, <2>4, TakenLeaves
<1> QED BY <1>2, <1>3

(* Every step leaves the memory with lists, and what stays on one of them  *)
(* where it was.                                                           *)
LEMMA NextLeaves ==
  ASSUME ListInv, [ListNext]_listVars
  PROVE  \E q : Leaves(q) /\ Keeps(Content, q)
<1>1. listIter \in [ListId -> Cell \cup {Null}] /\ nodeList \in [Node -> lists \cup {Null}]
  BY DEF ListInv, ListTypes, Rings, Content
<1>2. CASE UNCHANGED listVars
  BY <1>1, <1>2, SameLeaves DEF listVars
<1>3. ASSUME NEW l \in ListId, list_create(l) PROVE \E q : Leaves(q) /\ Keeps(Content, q)
  BY <1>3, CreateLeaves
<1>4. ASSUME NEW l \in lists,
             \/ ListGrows(l) \/ ListIterates(l)
             \/ list_shift(l) \/ list_pop(l) \/ list_clear(l) \/ list_free(l)
             \/ \E other \in lists : list_join(l, other)
             \/ \E new \in ListId : OnList(l) /\ list_split(l, new)
      PROVE \E q : Leaves(q) /\ Keeps(Content, q)
  <2>1. CASE ListGrows(l)
    BY <2>1, GrowLeaves
  <2>2. CASE ListIterates(l)
    BY <2>2, IterateOn
  <2>3. CASE list_shift(l) \/ list_pop(l)
    BY <2>3, ShiftLeaves
  <2>4. CASE list_clear(l)
    BY <2>4, ClearLeaves
  <2>5. CASE list_free(l)
    BY <2>5, FreeLeaves
  <2>6. ASSUME NEW other \in lists, list_join(l, other) PROVE \E q : Leaves(q) /\ Keeps(Content, q)
    BY <2>6, JoinLeaves
  <2>7. ASSUME NEW new \in ListId, OnList(l), list_split(l, new) PROVE \E q : Leaves(q) /\ Keeps(Content, q)
    BY <2>7, SplitLeaves
  <2> QED BY <1>4, <2>1, <2>2, <2>3, <2>4, <2>5, <2>6, <2>7
<1>5. ASSUME NEW n \in Node, li_position(n) PROVE \E q : Leaves(q) /\ Keeps(Content, q)
  <2>1. nodeList[n] \in ListId /\ n \in Cell
    BY <1>1, <1>5 DEF li_position, ListInv, ListTypes, Cell
  <2>2. listIter' = [listIter EXCEPT ![nodeList[n]] = n] /\ UNCHANGED <<lists, links, nodeList, listSize>>
    BY <1>5 DEF li_position, Iterate
  <2>3. listIter' \in [ListId -> Cell \cup {Null}]
    BY <1>1, <2>1, <2>2
  <2> QED BY <2>2, <2>3, SameLeaves
<1>6. ListNext \/ UNCHANGED listVars
  OBVIOUS
<1> QED BY <1>2, <1>3, <1>4, <1>5, <1>6 DEF ListNext

(* At first there is no list.                                              *)
LEMMA ListInitially ==
  ASSUME ListInit
  PROVE  ListInv
<1>1. lists = {} /\ nodeNext = [c \in Cell |-> Null] /\ nodePrev = [c \in Cell |-> Null]
      /\ nodeList = [n \in Node |-> Null] /\ listSize = [l \in ListId |-> 0] /\ listIter = [l \in ListId |-> Null]
  BY DEF ListInit
<1>2. ListTypes
  BY <1>1 DEF ListTypes
<1>3. \A l \in ListId : TailOf(l) \in Cell /\ HeadOf(l) \in Cell
  BY DEF Cell
<1>4. DOMAIN Content = {}
  BY <1>1 DEF Content
<1>5. Content \in [DOMAIN Content -> Seq(Node)]
  BY <1>1 DEF Content
<1>6. Rings(Content, nodeNext, nodePrev, nodeList)
  BY <1>1, <1>3, <1>4, <1>5 DEF Rings
<1> QED BY <1>1, <1>2, <1>6 DEF ListInv

(* Lists the memory holds are linked well.                                 *)
LEMMA InvIsLinked ==
  ASSUME ListInv
  PROVE  ListsLinked
<1> SUFFICES ASSUME NEW l \in lists
    PROVE  /\ Elements(l) = Reverse(Chain(TailOf(l), nodePrev))
           /\ nodeNext[Last(<<HeadOf(l)>> \o Elements(l))] = TailOf(l)
           /\ listSize[l] = Len(Elements(l))
           /\ ToSet(Elements(l)) = {n \in Node : nodeList[n] = l}
  BY DEF ListsLinked
<1> DEFINE s == Elements(l)
<1>1. s \in Seq(Node) /\ s = Content[l] /\ Len(s) \in Nat /\ l \in ListId /\ DOMAIN Content = lists
      /\ HeadOf(l) = At(s, l, 0) /\ TailOf(l) = At(s, l, Len(s) + 1) /\ (\A i \in 1 .. Len(s) : At(s, l, i) = s[i])
      /\ \A i \in 0 .. Len(s) : nodeNext[At(s, l, i)] = At(s, l, i + 1)
  BY OfAList
<1>2. Chain(TailOf(l), nodePrev) = Reverse(s)
  BY <1>1, RingElements DEF ListInv
<1> HIDE DEF s
<1>3. s = Reverse(Reverse(s))
  <2> DEFINE r == Reverse(s)
             t == Reverse(r)
  <2>1. r \in Seq(Node) /\ Len(r) = Len(s) /\ \A i \in 1 .. Len(s) : r[i] = s[(Len(s) - i) + 1]
    BY <1>1 DEF Reverse
  <2> HIDE DEF r
  <2>2. t \in Seq(Node) /\ Len(t) = Len(s) /\ \A i \in 1 .. Len(s) : t[i] = r[(Len(s) - i) + 1]
    BY <1>1, <2>1 DEF Reverse
  <2> HIDE DEF t
  <2>3. ASSUME NEW i \in 1 .. Len(s) PROVE t[i] = s[i]
    <3>1. (Len(s) - i) + 1 \in 1 .. Len(s) /\ (Len(s) - ((Len(s) - i) + 1)) + 1 = i
      BY <1>1
    <3> QED BY <3>1, <2>1, <2>2
  <2>4. t = s
    BY <1>1, <2>2, <2>3, SeqEqual
  <2> QED BY <2>4 DEF t, r
<1>4. nodeNext[Last(<<HeadOf(l)>> \o s)] = TailOf(l)
  <2> DEFINE t == <<HeadOf(l)>> \o s
  <2>1. Last(t) = At(s, l, Len(s))
    <3>1. Len(t) = Len(s) + 1 /\ \A i \in 1 .. Len(t) : t[i] = IF i = 1 THEN HeadOf(l) ELSE s[i - 1]
      BY <1>1
    <3> HIDE DEF t
    <3>2. Last(t) = t[Len(s) + 1]
      BY <3>1 DEF Last
    <3>3. CASE Len(s) = 0
      BY <1>1, <3>1, <3>2, <3>3
    <3>4. CASE Len(s) # 0
      <4>1. Len(s) + 1 \in 1 .. Len(t) /\ Len(s) + 1 # 1 /\ (Len(s) + 1) - 1 = Len(s) /\ Len(s) \in 1 .. Len(s)
        BY <1>1, <3>1, <3>4
      <4> QED BY <4>1, <1>1, <3>1, <3>2
    <3> QED BY <3>3, <3>4
  <2> HIDE DEF t
  <2>2. Len(s) \in 0 .. Len(s)
    BY <1>1
  <2> QED BY <1>1, <2>1, <2>2 DEF t
<1>5. listSize[l] = Len(s)
  BY <1>1 DEF ListInv
<1>6. ToSet(s) = {n \in Node : nodeList[n] = l}
  <2>1. \A n \in Node : nodeList[n] = l <=> \E i \in DOMAIN s : s[i] = n
    BY <1>1 DEF ListInv, Rings
  <2>2. \A n \in ToSet(s) : n \in Node
    BY <1>1 DEF ToSet
  <2> QED BY <2>1, <2>2 DEF ToSet
<1> QED BY <1>2, <1>3, <1>4, <1>5, <1>6 DEF s

(* The order an action keeps, in the words of the property.                *)
LEMMA KeptOrder ==
  ASSUME ListInv, ListInv', Keeps(Content, Content')
  PROVE  (\A l \in lists, a, b \in Node :
            \A k \in lists' :
              /\ {nodeList[a]', nodeList[b]'} = {k}
              /\ Before(a, b, l) \/ (nodeList[a] = k /\ nodeList[b] \in lists \ {k})
              => Before(a, b, k)')
<1>1. DOMAIN Content = lists /\ \A l \in lists : Content[l] = Elements(l)
  BY DEF Content
<1>2. DOMAIN Content' = lists' /\ \A l \in lists' : Content'[l] = Elements(l)'
  BY DEF Content
<1>3. \A l \in lists, n \in Node : nodeList[n] = l <=> n \in ToSet(Content[l])
  <2>1. \A l \in lists, n \in Node : nodeList[n] = l <=> \E i \in DOMAIN Content[l] : Content[l][i] = n
    BY <1>1 DEF ListInv, Rings
  <2> QED BY <2>1 DEF ToSet
<1>4. \A l \in lists', n \in Node : nodeList'[n] = l <=> n \in ToSet(Content'[l])
  <2>1. \A l \in lists', n \in Node : nodeList'[n] = l <=> \E i \in DOMAIN Content'[l] : Content'[l][i] = n
    BY <1>2 DEF ListInv, Rings
  <2> QED BY <2>1 DEF ToSet
<1> SUFFICES ASSUME NEW l \in lists, NEW a \in Node, NEW b \in Node, NEW k \in lists',
                    {nodeList'[a], nodeList'[b]} = {k},
                    Before(a, b, l) \/ (nodeList[a] = k /\ nodeList[b] \in lists \ {k})
             PROVE  Before(a, b, k)'
  OBVIOUS
<1>5. nodeList'[a] = k /\ nodeList'[b] = k
  OBVIOUS
<1>6. a \in ToSet(Content'[k]) /\ b \in ToSet(Content'[k])
  BY <1>4, <1>5
<1>7. Before(a, b, l) => InOrder(a, b, Content[l])
  BY <1>1 DEF Before, InOrder
<1>8. (nodeList[a] = k /\ nodeList[b] \in lists \ {k})
      => k \in DOMAIN Content /\ a \in ToSet(Content[k]) /\ \E h \in DOMAIN Content \ {k} : b \in ToSet(Content[h])
  <2> SUFFICES ASSUME nodeList[a] = k, nodeList[b] \in lists \ {k}
               PROVE  k \in DOMAIN Content /\ a \in ToSet(Content[k])
                      /\ \E h \in DOMAIN Content \ {k} : b \in ToSet(Content[h])
    OBVIOUS
  <2>1. nodeList[a] \in lists \cup {Null} /\ k \in ListId
    BY <1>1 DEF ListInv, Rings, ListTypes
  <2>2. k \in lists
    BY <2>1, ListAssumption
  <2> QED BY <1>1, <1>3, <2>2
<1>9. InOrder(a, b, Content'[k])
  BY <1>1, <1>2, <1>6, <1>7, <1>8 DEF Keeps
<1>10. Content'[k] = Elements(k)'
  BY <1>2
<1> QED BY <1>9, <1>10 DEF Before, InOrder

(* list.c:65, :355, :375, :587, :608 -- every list is one chain of its own *)
(* nodes, there and back, and its size counts them, whatever the lists,    *)
(* the nodes and the calls.                                                *)
THEOREM ListsAreLinked == ListSpec => []ListsLinked
<1>1. ListInit => ListInv
  BY ListInitially
<1>2. ListInv /\ [ListNext]_listVars => ListInv'
  BY NextLeaves, LeavesContent
<1>3. ListInv => ListsLinked
  BY InvIsLinked
<1> QED BY <1>1, <1>2, <1>3, PTL DEF ListSpec

(* list.c:283 -- whatever is put in, taken out or moved to another list,   *)
(* elements that stay keep their order, and one that comes to a list is    *)
(* behind those that were there.                                           *)
THEOREM ListOrderIsKept == ListSpec => ListOrderKept
<1>1. ListInit => ListInv
  BY ListInitially
<1>2. ListInv /\ [ListNext]_listVars => ListInv' /\ Keeps(Content, Content')
  BY NextLeaves, LeavesContent
<1>3. ListInv /\ [ListNext]_listVars =>
        [\A l \in lists, a, b \in Node :
           \A k \in lists' :
             /\ {nodeList[a]', nodeList[b]'} = {k}
             /\ Before(a, b, l) \/ (nodeList[a] = k /\ nodeList[b] \in lists \ {k})
             => Before(a, b, k)']_listVars
  BY <1>2, KeptOrder
<1> QED BY <1>1, <1>2, <1>3, PTL DEF ListSpec, ListOrderKept

(* list.c:355 -- a list that is iterated stands on one of its elements,    *)
(* whichever others are removed meanwhile.                                 *)
THEOREM IterationStaysOn == ListSpec => IterationStays
<1>1. ListInit => ListInv
  BY ListInitially
<1>2. ListInv /\ [ListNext]_listVars => ListInv'
  BY NextLeaves, LeavesContent
<1>3. ListInv /\ [ListNext]_listVars => [\A l \in lists : ListIterates(l) => OnList(l)']_listVars
  BY IterateOn
<1> QED BY <1>1, <1>2, <1>3, PTL DEF ListSpec, IterationStays

(* list.c:283, dict.c:904 -- elements keep their order, an iterator its    *)
(* place, and one of a dictionary finds an entry that is there.            *)
THEOREM ContainersKeepOrder == ListSpec /\ DictSpec => OrderIsKept
BY ListOrderIsKept, IterationStaysOn, IteratorFinds DEF OrderIsKept
-----------------------------------------------------------------------------
\* What the table has of a module, and what the stack has of a script.
Record == [state : {"Loading", "Active"}, obj : {"none", "half", "whole"}, imports : SUBSET Modules]
Frame(D) == [name : D, left : SUBSET Modules, at : D \cup {NoModule}]

(* Scripts of known modules, each one's once.                              *)
Stack(st, D) ==
  /\ st \in Seq(Frame(D))
  /\ \A j, k \in 1 .. Len(st) : st[j].name = st[k].name => j = k

\* The modules whose scripts are under way.
On(st) == {st[k].name : k \in 1 .. Len(st)}

\* The script on top, and the one at the bottom, are of known modules.
LEMMA StackTop ==
  ASSUME NEW D, NEW st, Stack(st, D), st # <<>>
  PROVE  /\ Len(st) \in Nat \ {0} /\ st[Len(st)] \in Frame(D) /\ st[Len(st)].name \in On(st)
         /\ On(st) \subseteq D /\ st[1] \in Frame(D) /\ st[1].name \in On(st)
<1>1. Len(st) \in Nat \ {0} /\ Len(st) \in 1 .. Len(st) /\ 1 \in 1 .. Len(st) /\ \A k \in 1 .. Len(st) : st[k] \in Frame(D)
  BY DEF Stack
<1>2. On(st) \subseteq D
  BY <1>1 DEF On, Frame
<1> QED BY <1>1, <1>2 DEF On

\* A stack stays one when more modules are known.
LEMMA StackWider ==
  ASSUME NEW D, NEW E, D \subseteq E, NEW st, Stack(st, D)
  PROVE  Stack(st, E)
<1>1. st \in Seq(Frame(E))
  <2>1. Frame(D) \subseteq Frame(E)
    BY DEF Frame
  <2> HIDE DEF Frame
  <2> QED BY <2>1 DEF Stack
<1> QED BY <1>1 DEF Stack

\* Without the script on top the others are what they were.
LEMMA StackFront ==
  ASSUME NEW D, NEW st, Stack(st, D), st # <<>>
  PROVE  /\ Stack(Front(st), D) /\ On(Front(st)) = On(st) \ {st[Len(st)].name}
         /\ Front(st) # <<>> => Front(st)[1] = st[1]
         /\ Front(st) = <<>> => st[Len(st)] = st[1]
<1> DEFINE N == Len(st)
           t == Front(st)
<1>1. N \in Nat \ {0} /\ st \in Seq(Frame(D)) /\ \A j, k \in 1 .. N : st[j].name = st[k].name => j = k
  BY DEF Stack
<1>2. t \in Seq(Frame(D)) /\ Len(t) = N - 1 /\ \A k \in 1 .. N - 1 : t[k] = st[k]
  BY <1>1 DEF Front
<1> HIDE DEF t, N
<1>3. \A k \in 1 .. N - 1 : k \in 1 .. N /\ k # N
  BY <1>1
<1>4. Stack(t, D)
  BY <1>1, <1>2, <1>3 DEF Stack
<1>5. On(t) = On(st) \ {st[N].name}
  <2>1. On(t) = {st[k].name : k \in 1 .. N - 1}
    BY <1>2 DEF On
  <2>2. \A k \in 1 .. N : k # N => k \in 1 .. N - 1
    BY <1>1
  <2>3. N \in 1 .. N /\ On(st) = {st[k].name : k \in 1 .. N}
    BY <1>1 DEF N, On
  <2>4. \A k \in 1 .. N - 1 : st[k].name # st[N].name
    BY <1>1, <1>3, <2>3
  <2> QED BY <1>3, <2>1, <2>2, <2>3, <2>4
<1>6. t # <<>> => t[1] = st[1]
  BY <1>1, <1>2
<1>7. t = <<>> => st[N] = st[1]
  BY <1>1, <1>2
<1> QED BY <1>4, <1>5, <1>6, <1>7 DEF t, N

\* What putting f on the stack st makes.
Pushed(st, f, t, E) ==
  /\ Stack(t, E) /\ On(t) = On(st) \cup {f.name} /\ t # <<>>
  /\ t[1].name = IF st = <<>> THEN f.name ELSE st[1].name

\* A script of a module that was not known can be put on top.
LEMMA StackPush ==
  ASSUME NEW D, NEW E, D \subseteq E, NEW st, Stack(st, E), On(st) \subseteq D,
         NEW f \in Frame(E), f.name \notin D
  PROVE  Pushed(st, f, Append(st, f), E)
<1> DEFINE N == Len(st)
           t == Append(st, f)
<1>1. N \in Nat /\ st \in Seq(Frame(E)) /\ (\A j, k \in 1 .. N : st[j].name = st[k].name => j = k)
      /\ \A k \in 1 .. N : st[k].name \in D
  BY DEF Stack, On
<1>2. t \in Seq(Frame(E)) /\ Len(t) = N + 1 /\ (\A k \in 1 .. N : t[k] = st[k]) /\ t[N + 1] = f
  BY <1>1
<1>3. st = <<>> <=> N = 0
  BY <1>1
<1> HIDE DEF t, N
<1>4. \A k \in 1 .. N + 1 : k \in 1 .. N \/ k = N + 1
  BY <1>1
<1>5. Stack(t, E)
  <2>1. \A j, k \in 1 .. N + 1 : t[j].name = t[k].name => j = k
    BY <1>1, <1>2, <1>4
  <2> QED BY <1>2, <2>1 DEF Stack
<1>6. On(t) = On(st) \cup {f.name}
  <2>1. On(st) = {st[k].name : k \in 1 .. N} /\ On(t) = {t[k].name : k \in 1 .. N + 1}
    BY <1>2 DEF On, N
  <2>2. \A k \in 1 .. N : k \in 1 .. N + 1
    BY <1>1
  <2>3. N + 1 \in 1 .. N + 1
    BY <1>1
  <2> QED BY <1>2, <1>4, <2>1, <2>2, <2>3
<1>7. t # <<>> /\ t[1].name = IF st = <<>> THEN f.name ELSE st[1].name
  <2>1. N # 0 => 1 \in 1 .. N
    BY <1>1
  <2> QED BY <1>1, <1>2, <1>3, <2>1
<1> QED BY <1>5, <1>6, <1>7 DEF t, Pushed

\* The same stack, with another name to wait for.
Rests(st, n, left) == [st EXCEPT ![Len(st)] = [@ EXCEPT !.at = n, !.left = left]]

\* What the script on top waits for makes no difference to the rest.
LEMMA StackWait ==
  ASSUME NEW D, NEW st, Stack(st, D), st # <<>>, NEW n \in D \cup {NoModule}, NEW left \in SUBSET Modules,
         NEW t, t = Rests(st, n, left)
  PROVE  Stack(t, D) /\ On(t) = On(st) /\ t # <<>> /\ t[1].name = st[1].name
<1> DEFINE N == Len(st)
<1>1. N \in Nat \ {0} /\ st \in Seq(Frame(D)) /\ (\A j, k \in 1 .. N : st[j].name = st[k].name => j = k)
      /\ \A k \in 1 .. N : st[k] \in Frame(D)
  BY DEF Stack
<1>2. t \in Seq(Frame(D)) /\ Len(t) = N /\ \A k \in 1 .. N : t[k].name = st[k].name
  <2> DEFINE f == [st[N] EXCEPT !.at = n, !.left = left]
  <2>1. st[N] \in Frame(D)
    BY <1>1
  <2>2. f \in Frame(D) /\ f.name = st[N].name
    BY <2>1 DEF Frame
  <2>3. t = [st EXCEPT ![N] = f]
    BY DEF Rests
  <2> HIDE DEF f, N
  <2> QED BY <1>1, <2>2, <2>3 DEF N
<1> HIDE DEF N
<1>3. t # <<>> /\ 1 \in 1 .. N
  BY <1>1, <1>2
<1>4. On(t) = On(st)
  BY <1>2 DEF On, N
<1> QED BY <1>1, <1>2, <1>3, <1>4 DEF Stack

(* A table in which every module that was imported is there itself.        *)
Known(md) ==
  /\ DOMAIN md \subseteq Modules /\ <<>> \in DOMAIN md
  /\ md \in [DOMAIN md -> Record]
  /\ \A n \in DOMAIN md : md[n].imports \subseteq DOMAIN md

\* No script was executed twice, and none of a module that is not known.
Counted(md, ld) ==
  /\ ld \in [Modules -> {0, 1}]
  /\ \A n \in Modules : n \notin DOMAIN md => ld[n] = 0

\* The module has been executed to its end.
Active(md, n) == n \in DOMAIN md /\ md[n].state = "Active"

\* A module that is not whole is being imported, or its load failed.
Excused(md, st, fl) == \A n \in DOMAIN md : Active(md, n) \/ n \in fl \/ n \in On(st)

\* All that is said of the table and the stack.
Sound(md, st, ld, fl) ==
  Known(md) /\ Stack(st, DOMAIN md) /\ Counted(md, ld) /\ Excused(md, st, fl)

(* What the loader waits for is at the bottom of the stack, and whole when *)
(* it is answered with.                                                    *)
RootFrame == [name |-> <<>>, left |-> {}, at |-> NoModule]
Phase(md, st, an, lo) ==
  /\ lo = "root" => /\ DOMAIN md = {<<>>}
                    /\ st # <<>> => st = <<RootFrame>>
                    /\ st = <<>> /\ an = "module" => Active(md, <<>>)
  /\ lo = "sys" => /\ Active(md, <<>>)
                   /\ st # <<>> => st[1].name = SysModule
                   /\ st = <<>> /\ an = "module" => Active(md, SysModule)
  /\ lo \in {"ready", "running"} => Active(md, <<>>) /\ Active(md, SysModule)
  /\ lo = "ready" => st = <<>>

\* Where modules are looked for.
Searched == disk \in Disks /\ loadPath \in Seq(Directories)

(* The inductive invariant.                                                *)
ModInv == Searched /\ Sound(modules, importing, loaded, failures) /\ Phase(modules, importing, answer, loader)

(* A set of numbers that is not empty has a least one.                     *)
LEMMA LeastOf ==
  ASSUME NEW S, S \subseteq Nat, S # {}
  PROVE  \E i \in S : \A j \in S : i <= j
<1> SUFFICES ASSUME \A i \in S : \E j \in S : ~(i <= j) PROVE FALSE
  OBVIOUS
<1> DEFINE A == {n \in Nat : \A i \in S : n <= i}
<1>1. 0 \in A
  OBVIOUS
<1>2. ASSUME NEW n \in Nat, n \in A PROVE n + 1 \in A
  <2> SUFFICES ASSUME NEW i \in S PROVE n + 1 <= i
    OBVIOUS
  <2>1. n <= i /\ i \in Nat
    BY <1>2
  <2>2. n # i
    BY <1>2
  <2> QED BY <2>1, <2>2
<1>3. Nat \subseteq A
  <2> HIDE DEF A
  <2> QED BY <1>1, <1>2, SetInduction
<1>4. PICK i \in S : TRUE
  OBVIOUS
<1>5. i + 1 \in A /\ i \in Nat
  BY <1>3
<1> QED BY <1>5

(* What a module imports are modules.                                      *)
LEMMA ReadsModules ==
  ASSUME Searched, NEW name \in Modules
  PROVE  _scriptloader_open_reader(name).imports \subseteq Modules
<1> DEFINE has == {i \in DOMAIN loadPath : disk[loadPath[i]][name].kind = "file"}
           k == CHOOSE i \in has : \A j \in has : i <= j
<1>1. CASE has = {}
  BY <1>1 DEF _scriptloader_open_reader, NoFile
<1>2. CASE has # {}
  <2>1. \E i \in has : \A j \in has : i <= j
    <3>1. has \subseteq Nat
      BY DEF Searched
    <3> HIDE DEF has
    <3>2. PICK i \in has : TRUE
      BY <1>2
    <3> QED BY <3>1, <3>2, LeastOf
  <2>2. k \in DOMAIN loadPath
    BY <2>1
  <2> HIDE DEF k
  <2>3. loadPath[k] \in Directories
    BY <2>2 DEF Searched
  <2>4. disk[loadPath[k]][name].imports \subseteq Modules
    BY <2>3, ModulesAssumption DEF Searched
  <2>5. _scriptloader_open_reader(name) = disk[loadPath[k]][name]
    BY <1>2 DEF _scriptloader_open_reader, k
  <2> QED BY <2>4, <2>5
<1> QED BY <1>1, <1>2

\* A module of the table that has become whole, and one that has imported another.
Finished(md, name) == [md EXCEPT ![name] = [@ EXCEPT !.state = "Active", !.obj = "whole"]]
Noted(md, name, i) == [md EXCEPT ![name].imports = @ \cup {i}]

(* A module that is known, and not whole before, is whole.                 *)
LEMMA Completed ==
  ASSUME NEW md, NEW st, NEW ld, NEW fl, Sound(md, st, ld, fl), st # <<>>,
         NEW name, name = st[Len(st)].name, NEW m2,
         m2 = Finished(md, name)
  PROVE  /\ Sound(m2, Front(st), ld, fl) /\ DOMAIN m2 = DOMAIN md /\ Active(m2, name)
         /\ \A n : Active(md, n) => Active(m2, n)
<1>1. name \in DOMAIN md
  BY StackTop DEF Sound
<1>2. md[name] \in Record
  BY <1>1 DEF Sound, Known
<1> DEFINE r == [md[name] EXCEPT !.state = "Active", !.obj = "whole"]
<1>3. r \in Record /\ r.state = "Active" /\ r.imports = md[name].imports
  BY <1>2 DEF Record
<1>4. m2 = [md EXCEPT ![name] = r]
  BY DEF Finished
<1> HIDE DEF r
<1>5. DOMAIN m2 = DOMAIN md /\ m2[name] = r /\ \A n \in DOMAIN md : n # name => m2[n] = md[n]
  BY <1>1, <1>4 DEF Sound, Known
<1>6. Known(m2)
  <2>1. m2 \in [DOMAIN m2 -> Record]
    BY <1>3, <1>4, <1>5 DEF Sound, Known
  <2> QED BY <1>1, <1>3, <1>5, <2>1 DEF Sound, Known
<1>7. \A n : Active(md, n) => Active(m2, n)
  BY <1>3, <1>5 DEF Active
<1>8. Active(m2, name)
  BY <1>1, <1>3, <1>5 DEF Active
<1>9. Stack(Front(st), DOMAIN m2) /\ On(Front(st)) = On(st) \ {name}
  BY <1>5, StackFront DEF Sound
<1>10. Excused(m2, Front(st), fl)
  BY <1>5, <1>7, <1>8, <1>9 DEF Excused, Sound
<1>11. Counted(m2, ld)
  BY <1>5 DEF Counted, Sound
<1> QED BY <1>5, <1>6, <1>7, <1>8, <1>9, <1>10, <1>11 DEF Sound

(* The script on top ends without its module being whole.                  *)
LEMMA GivenUp ==
  ASSUME NEW md, NEW st, NEW ld, NEW fl, Sound(md, st, ld, fl), st # <<>>,
         NEW name, name = st[Len(st)].name
  PROVE  Sound(md, Front(st), ld, fl \cup {name})
<1>1. Stack(Front(st), DOMAIN md) /\ On(Front(st)) = On(st) \ {name}
  BY StackFront DEF Sound
<1>2. Excused(md, Front(st), fl \cup {name})
  BY <1>1 DEF Excused, Sound
<1> QED BY <1>1, <1>2 DEF Sound

(* A module has one more that was imported.                                *)
LEMMA ImportNoted ==
  ASSUME NEW md, NEW st, NEW ld, NEW fl, Sound(md, st, ld, fl),
         NEW name \in DOMAIN md, NEW i \in DOMAIN md, NEW m2,
         m2 = Noted(md, name, i)
  PROVE  /\ Sound(m2, st, ld, fl) /\ DOMAIN m2 = DOMAIN md
         /\ \A n : Active(md, n) => Active(m2, n)
<1>2. md[name] \in Record /\ i \in Modules /\ md[name].imports \subseteq DOMAIN md
  BY DEF Sound, Known
<1> DEFINE r == [md[name] EXCEPT !.imports = @ \cup {i}]
<1>3. r \in Record /\ r.state = md[name].state /\ r.imports \subseteq DOMAIN md
  BY <1>2 DEF Record
<1>4. m2 = [md EXCEPT ![name] = r]
  BY DEF Noted
<1> HIDE DEF r
<1>5. DOMAIN m2 = DOMAIN md /\ m2[name] = r /\ \A n \in DOMAIN md : n # name => m2[n] = md[n]
  BY <1>4 DEF Sound, Known
<1>6. Known(m2)
  <2>1. m2 \in [DOMAIN m2 -> Record]
    BY <1>3, <1>4, <1>5 DEF Sound, Known
  <2> QED BY <1>3, <1>5, <2>1 DEF Sound, Known
<1>7. \A n : Active(md, n) => Active(m2, n)
  BY <1>3, <1>5 DEF Active
<1>10. Excused(m2, st, fl)
  BY <1>5, <1>7 DEF Excused, Sound
<1>11. Counted(m2, ld)
  BY <1>5 DEF Counted, Sound
<1> QED BY <1>5, <1>6, <1>7, <1>10, <1>11 DEF Sound

(* The stack changes what it waits for.                                    *)
LEMMA Waiting ==
  ASSUME NEW md, NEW st, NEW ld, NEW fl, Sound(md, st, ld, fl),
         NEW t, Stack(t, DOMAIN md), On(t) = On(st)
  PROVE  Sound(md, t, ld, fl)
BY DEF Sound, Excused

\* What is in the table counts as imported.
LEMMA InTable ==
  ASSUME Known(modules), NEW name
  PROVE  Imported(name) <=> name \in DOMAIN modules
<1>1. name \in DOMAIN modules => modules[name].state \in {"Loading", "Active"}
  BY DEF Known, Record
<1> QED BY <1>1 DEF Imported

(* What an import that begins leaves: the module is in the table, and its  *)
(* script on the stack, or it has failed.                                  *)
Begun(name, stack) ==
  /\ Sound(modules', importing', loaded', failures')
  /\ \A n : Active(modules, n) => Active(modules', n)
  /\ name \in DOMAIN modules => importing' = stack /\ answer' = "module" /\ modules' = modules
  /\ importing' # <<>> => importing'[1].name = IF stack = <<>> THEN name ELSE stack[1].name
  /\ importing' = <<>> => name \in DOMAIN modules \/ answer' = "exception"

\* One more module in the table.
LEMMA EnteredKeeps ==
  ASSUME Known(modules), NEW name \in Modules, name \notin DOMAIN modules,
         NEW obj \in {"none", "half"}, NEW imp, imp \in {{}, {<<>>}},
         Entered(name, "Loading", obj, imp)
  PROVE  /\ Known(modules') /\ DOMAIN modules' = DOMAIN modules \cup {name}
         /\ \A n \in DOMAIN modules : modules'[n] = modules[n]
<1> DEFINE D == DOMAIN modules
           r == [state |-> "Loading", obj |-> obj, imports |-> imp]
<1>1. D \subseteq Modules /\ <<>> \in D /\ modules \in [D -> Record] /\ \A n \in D : modules[n].imports \subseteq D
  BY DEF Known
<1>2. r \in Record /\ r.imports \subseteq D
  BY <1>1 DEF Record
<1>3. modules' = [n \in D \cup {name} |-> IF n = name THEN r ELSE modules[n]]
  BY DEF Entered
<1> HIDE DEF r, D
<1>4. DOMAIN modules' = D \cup {name} /\ modules'[name] = r /\ \A n \in D : modules'[n] = modules[n]
  BY <1>3 DEF D
<1>5. modules' \in [D \cup {name} -> Record]
  BY <1>1, <1>2, <1>3
<1>6. \A n \in D \cup {name} : modules'[n].imports \subseteq D \cup {name}
  BY <1>1, <1>2, <1>4
<1>7. Known(modules')
  BY <1>1, <1>4, <1>5, <1>6 DEF Known
<1> QED BY <1>4, <1>7 DEF D

(* An import, whoever asks for it, keeps what is said of the table and the *)
(* stack: a module that is known is answered with, another is entered.     *)
LEMMA ImportBegins ==
  ASSUME Searched, Sound(modules, importing, loaded, failures),
         NEW name \in Modules, NEW stack, Stack(stack, DOMAIN modules \cup {name}),
         On(stack) = On(importing), _ns_import(name, stack)
  PROVE  Begun(name, stack)
<1> DEFINE D == DOMAIN modules
           E == D \cup {name}
<1>1. Known(modules) /\ Stack(importing, D) /\ Counted(modules, loaded) /\ Excused(modules, importing, failures)
  BY DEF Sound
<1>2. On(stack) \subseteq D
  <2>1. CASE importing = <<>>
    <3>1. Len(importing) = 0
      BY <2>1
    <3>2. 1 .. 0 = {}
      OBVIOUS
    <3>3. On(importing) = {}
      BY <3>1, <3>2 DEF On
    <3> QED BY <3>3
  <2>2. CASE importing # <<>>
    BY <1>1, <2>2, StackTop
  <2> QED BY <2>1, <2>2
<1>3. CASE name \in D
  <2>1. importing' = stack /\ answer' = "module" /\ modules' = modules /\ loaded' = loaded /\ failures' = failures
    BY <1>1, <1>3, InTable DEF _ns_import
  <2>2. E = D
    BY <1>3
  <2>3. Sound(modules, stack, loaded, failures)
    BY <2>2, Waiting
  <2> QED BY <1>3, <2>1, <2>3 DEF Begun
<1>4. CASE name \notin D
  <2> DEFINE e == _scriptloader_open_reader(name)
             f == [name |-> name, left |-> e.imports, at |-> NoModule]
  <2>1. _ns_load(name, stack)
    BY <1>1, <1>4, InTable DEF _ns_import
  <2>2. f \in Frame(E) /\ f.name = name
    <3>1. e.imports \subseteq Modules
      BY ReadsModules
    <3> QED BY <3>1 DEF Frame
  <2>3. \/ /\ Entered(name, "Loading", "half", {<<>>}) /\ importing' = Append(stack, f)
           /\ loaded' = [loaded EXCEPT ![name] = @ + 1] /\ failures' = failures
        \/ /\ Entered(name, "Loading", "none", {}) /\ importing' = stack /\ answer' = "exception"
           /\ failures' = failures \cup {name} /\ loaded' = loaded
    BY <2>1 DEF _ns_load
  <2> HIDE DEF f
  <2>4. Known(modules') /\ DOMAIN modules' = E /\ \A n \in D : modules'[n] = modules[n]
    BY <1>1, <1>4, <2>3, EnteredKeeps
  <2>5. \A n : Active(modules, n) => Active(modules', n)
    BY <2>4 DEF Active
  <2>6. Counted(modules', loaded')
    <3>1. loaded[name] = 0 /\ loaded \in [Modules -> {0, 1}]
      BY <1>1, <1>4 DEF Counted
    <3>2. loaded' \in [Modules -> {0, 1}] /\ \A n \in Modules : n # name => loaded'[n] = loaded[n]
      BY <2>3, <3>1
    <3> QED BY <1>1, <2>4, <3>2 DEF Counted
  <2>7. CASE importing' = Append(stack, f) /\ failures' = failures
    <3>1. /\ Stack(importing', E) /\ On(importing') = On(stack) \cup {name} /\ importing' # <<>>
          /\ importing'[1].name = IF stack = <<>> THEN name ELSE stack[1].name
      <4>1. D \subseteq E
        OBVIOUS
      <4> HIDE DEF D, E
      <4>2. Stack(stack, E) /\ f.name \notin D
        BY <1>4, <2>2 DEF E, D
      <4>3. Pushed(stack, f, Append(stack, f), E)
        BY <1>2, <2>2, <4>1, <4>2, StackPush
      <4> QED BY <2>2, <2>7, <4>3 DEF Pushed
    <3>2. Excused(modules', importing', failures')
      BY <1>1, <2>4, <2>5, <2>7, <3>1 DEF Excused
    <3> QED BY <1>4, <2>4, <2>5, <2>6, <3>1, <3>2 DEF Begun, Sound
  <2>8. CASE importing' = stack /\ answer' = "exception" /\ failures' = failures \cup {name}
    <3>1. Excused(modules', importing', failures')
      BY <1>1, <2>4, <2>5, <2>8 DEF Excused
    <3>2. importing' # <<>> => importing'[1].name = IF stack = <<>> THEN name ELSE stack[1].name
      BY <2>8
    <3> QED BY <1>4, <2>4, <2>5, <2>6, <2>8, <3>1, <3>2 DEF Begun, Sound
  <2> QED BY <2>3, <2>7, <2>8
<1> QED BY <1>3, <1>4

\* What is not being executed by one leaves the phase as it is.
LEMMA PhaseKept ==
  ASSUME NEW md, NEW st, NEW an, NEW lo, Phase(md, st, an, lo), lo # "root",
         NEW m2, NEW s2, NEW a2, \A n : Active(md, n) => Active(m2, n),
         lo = "ready" => s2 = <<>>,
         lo = "sys" => /\ s2 # <<>> => s2[1].name = SysModule
                       /\ s2 = <<>> /\ a2 = "module" => Active(m2, SysModule)
  PROVE  Phase(m2, s2, a2, lo)
BY DEF Phase

\* The system root imports nothing while the loader waits for it.
LEMMA RootWaits ==
  ASSUME Phase(modules, importing, answer, "root"), importing # <<>>
  PROVE  Len(importing) = 1 /\ Top = RootFrame /\ Top.at = NoModule /\ Top.left = {} /\ Top.name = <<>>
<1>1. importing = <<RootFrame>>
  BY DEF Phase
<1> HIDE DEF RootFrame
<1>2. Len(importing) = 1 /\ Top = RootFrame
  BY <1>1 DEF Top
<1> QED BY <1>2 DEF RootFrame

(* A script imports a module: never the root's while the loader waits for  *)
(* it, which imports nothing.                                              *)
LEMMA ScriptImports == ModInv /\ closure_import => ModInv'
<1> SUFFICES ASSUME ModInv, closure_import PROVE ModInv'
  OBVIOUS
<1> DEFINE D == DOMAIN modules
<1>1. Searched /\ Sound(modules, importing, loaded, failures) /\ Phase(modules, importing, answer, loader)
      /\ Known(modules) /\ Stack(importing, D)
  BY DEF ModInv, Sound
<1>2. importing # <<>> /\ Searched' /\ loader' = loader
  BY <1>1 DEF closure_import, Searched
<1>3. PICK name \in Top.left : _ns_import(name, Waits(name, Top.left \ {name}))
  BY DEF closure_import
<1> DEFINE stack == Waits(name, Top.left \ {name})
<1>4. loader \notin {"root", "ready"}
  BY <1>1, <1>2, <1>3, RootWaits DEF Phase
<1>5. Top \in Frame(D)
  BY <1>1, <1>2, StackTop DEF Top
<1>6. name \in Modules /\ Top.left \ {name} \in SUBSET Modules
  BY <1>5 DEF Frame
<1>7. Stack(stack, D \cup {name}) /\ On(stack) = On(importing) /\ stack # <<>> /\ stack[1].name = importing[1].name
  <2> DEFINE E == D \cup {name}
             left == Top.left \ {name}
  <2>1. D \subseteq E /\ name \in E \cup {NoModule}
    OBVIOUS
  <2>2. stack = Rests(importing, name, left)
    BY DEF Waits, Rests
  <2> HIDE DEF D, E, left, stack
  <2>3. Stack(importing, E)
    BY <1>1, <2>1, StackWider
  <2>4. left \in SUBSET Modules
    BY <1>6 DEF left
  <2> QED BY <1>2, <2>1, <2>2, <2>3, <2>4, StackWait DEF E
<1> HIDE DEF stack
<1>8. Begun(name, stack)
  BY <1>1, <1>3, <1>6, <1>7, ImportBegins DEF stack
<1>9. importing' # <<>> /\ importing'[1].name = importing[1].name
  <2>1. importing' # <<>>
    <3>1. importing' = stack \/ importing' = Append(stack, [name |-> name, left |-> _scriptloader_open_reader(name).imports, at |-> NoModule])
      BY <1>3 DEF _ns_import, _ns_load, stack
    <3>2. stack \in Seq(Frame(D \cup {name}))
      BY <1>7 DEF Stack
    <3> QED BY <1>7, <3>1, <3>2
  <2> QED BY <1>7, <1>8, <2>1 DEF Begun
<1>10. Phase(modules', importing', answer', loader)
  <2>1. loader = "sys" => importing[1].name = SysModule
    BY <1>1, <1>2 DEF Phase
  <2> QED BY <1>1, <1>4, <1>8, <1>9, <2>1, PhaseKept DEF Begun
<1> QED BY <1>2, <1>8, <1>10 DEF ModInv, Begun

(* A script goes on with an answer, or ends with the exception.            *)
LEMMA ScriptGoesOn == ModInv /\ mod_import => ModInv'
<1> SUFFICES ASSUME ModInv, mod_import PROVE ModInv'
  OBVIOUS
<1> DEFINE D == DOMAIN modules
<1>1. Searched /\ Sound(modules, importing, loaded, failures) /\ Phase(modules, importing, answer, loader)
      /\ Known(modules) /\ Stack(importing, D)
  BY DEF ModInv, Sound
<1>2. importing # <<>> /\ Top.at # NoModule /\ Searched' /\ loader' = loader /\ loaded' = loaded
  BY <1>1 DEF mod_import, Searched
<1>3. loader \notin {"root", "ready"}
  BY <1>1, <1>2, RootWaits DEF Phase
<1>4. Top \in Frame(D) /\ Top.name \in D
  BY <1>1, <1>2, StackTop DEF Top, Frame
<1>5. Top.at \in D /\ Top.left \in SUBSET Modules
  BY <1>2, <1>4 DEF Frame
<1> DEFINE stack == Waits(NoModule, Top.left)
<1>6. Stack(stack, D) /\ On(stack) = On(importing) /\ stack # <<>> /\ stack[1].name = importing[1].name
  <2> DEFINE left == Top.left
             none == NoModule
  <2>1. none \in D \cup {NoModule}
    OBVIOUS
  <2>2. stack = Rests(importing, none, left)
    BY DEF Waits, Rests
  <2>3. left \in SUBSET Modules
    BY <1>5
  <2> HIDE DEF D, left, none, stack
  <2> QED BY <1>1, <1>2, <2>1, <2>2, <2>3, StackWait
<1> HIDE DEF stack
<1>7. loader = "sys" => importing[1].name = SysModule
  BY <1>1, <1>2 DEF Phase
<1>8. CASE /\ answer = "module" /\ modules' = [modules EXCEPT ![Top.name].imports = @ \cup {Top.at}]
           /\ importing' = stack /\ failures' = failures
  <2>1. /\ Sound(modules', importing, loaded, failures) /\ DOMAIN modules' = D
        /\ \A n : Active(modules, n) => Active(modules', n)
    <3> DEFINE nm == Top.name
               at == Top.at
    <3>1. nm \in DOMAIN modules /\ at \in DOMAIN modules /\ modules' = Noted(modules, nm, at)
      BY <1>4, <1>5, <1>8 DEF Noted
    <3> HIDE DEF nm, at
    <3> QED BY <1>1, <3>1, ImportNoted
  <2>2. Sound(modules', stack, loaded, failures)
    BY <1>6, <2>1, Waiting
  <2>3. Phase(modules', importing', answer', loader)
    BY <1>1, <1>3, <1>6, <1>7, <1>8, <2>1, PhaseKept
  <2> QED BY <1>2, <1>8, <2>2, <2>3 DEF ModInv
<1>9. CASE importing' = stack /\ modules' = modules /\ failures' = failures
  <2>2. Sound(modules, stack, loaded, failures)
    BY <1>1, <1>6, Waiting
  <2>3. Phase(modules', importing', answer', loader)
    BY <1>1, <1>3, <1>6, <1>7, <1>9, PhaseKept
  <2> QED BY <1>2, <1>9, <2>2, <2>3 DEF ModInv
<1>10. CASE /\ answer = "exception" /\ importing' = Front(importing)
            /\ failures' = failures \cup {Top.name} /\ modules' = modules /\ answer' = answer
  <2>1. Sound(modules, importing', loaded, failures')
    BY <1>1, <1>2, <1>10, GivenUp DEF Top
  <2>2. importing' # <<>> => importing'[1] = importing[1]
    BY <1>1, <1>2, <1>10, StackFront
  <2>3. Phase(modules', importing', answer', loader)
    BY <1>1, <1>3, <1>7, <1>10, <2>2, PhaseKept
  <2> QED BY <1>2, <1>10, <2>1, <2>3 DEF ModInv
<1> QED BY <1>8, <1>9, <1>10 DEF mod_import, stack, Returned

(* A script ends: if it was at the bottom, the loader is answered.         *)
LEMMA ScriptEnds == ModInv /\ mod_set => ModInv'
<1> SUFFICES ASSUME ModInv, mod_set PROVE ModInv'
  OBVIOUS
<1> DEFINE D == DOMAIN modules
           name == Top.name
<1>1. Searched /\ Sound(modules, importing, loaded, failures) /\ Phase(modules, importing, answer, loader)
      /\ Known(modules) /\ Stack(importing, D)
  BY DEF ModInv, Sound
<1>2. /\ importing # <<>> /\ Searched' /\ loader' = loader /\ loaded' = loaded
      /\ importing' = Front(importing)
  BY <1>1 DEF mod_set, Searched, Returned
<1>3. name = importing[Len(importing)].name
  BY DEF Top
<1>4. \/ /\ modules' = Finished(modules, name)
         /\ failures' = failures /\ answer' = "module"
      \/ /\ modules' = modules /\ failures' = failures \cup {name} /\ answer' = "exception"
  BY DEF mod_set, Finished
<1> HIDE DEF name
<1>5. /\ importing' # <<>> => importing'[1] = importing[1]
      /\ importing' = <<>> => name = importing[1].name
  BY <1>1, <1>2, <1>3, StackFront
<1>6. CASE /\ modules' = Finished(modules, name)
           /\ failures' = failures /\ answer' = "module"
  <2>1. /\ Sound(modules', importing', loaded, failures) /\ DOMAIN modules' = D /\ Active(modules', name)
        /\ \A n : Active(modules, n) => Active(modules', n)
    BY <1>1, <1>2, <1>3, <1>6, Completed
  <2>2. Phase(modules', importing', answer', loader)
    <3>1. CASE loader = "root"
      <4>1. importing = <<RootFrame>>
        BY <1>1, <1>2, <3>1 DEF Phase
      <4>2. importing' = <<>> /\ name = <<>>
        BY <1>2, <1>3, <4>1 DEF RootFrame, Front
      <4> QED BY <1>1, <2>1, <3>1, <4>2 DEF Phase
    <3>2. CASE loader \notin {"root", "ready"}
      <4>1. loader = "sys" => importing[1].name = SysModule
        BY <1>1, <1>2 DEF Phase
      <4> QED BY <1>1, <1>5, <2>1, <3>2, <4>1, PhaseKept
    <3> QED BY <1>1, <1>2, <3>1, <3>2 DEF Phase
  <2> QED BY <1>2, <1>6, <2>1, <2>2 DEF ModInv
<1>7. CASE modules' = modules /\ failures' = failures \cup {name} /\ answer' = "exception"
  <2>1. Sound(modules, importing', loaded, failures')
    BY <1>1, <1>2, <1>3, <1>7, GivenUp
  <2>2. Phase(modules', importing', answer', loader)
    <3>1. CASE loader = "root"
      <4>1. importing = <<RootFrame>>
        BY <1>1, <1>2, <3>1 DEF Phase
      <4>2. importing' = <<>>
        BY <1>2, <4>1 DEF Front
      <4> QED BY <1>1, <1>7, <3>1, <4>2 DEF Phase
    <3>2. CASE loader \notin {"root", "ready"}
      <4>1. loader = "sys" => importing[1].name = SysModule
        BY <1>1, <1>2 DEF Phase
      <4> QED BY <1>1, <1>5, <1>7, <3>2, <4>1, PhaseKept
    <3> QED BY <1>1, <1>2, <3>1, <3>2 DEF Phase
  <2> QED BY <1>2, <1>7, <2>1, <2>2 DEF ModInv
<1> QED BY <1>4, <1>6, <1>7

(* The loader takes an answer: only after the root is whole it imports sys,*)
(* and only after that it is ready.                                        *)
LEMMA LoaderGoesOn == ModInv /\ _scriptloader_new => ModInv'
<1> SUFFICES ASSUME ModInv, _scriptloader_new PROVE ModInv'
  OBVIOUS
<1> DEFINE D == DOMAIN modules
           sys == SysModule
           empty == <<>>
<1>1. Searched /\ Sound(modules, importing, loaded, failures) /\ Phase(modules, importing, answer, loader)
      /\ Known(modules)
  BY DEF ModInv, Sound
<1>2. importing = <<>> /\ disk' = disk
  BY DEF _scriptloader_new
<1>3. CASE /\ loader' = "failed" /\ modules' = modules /\ importing' = importing /\ loadPath' = loadPath
           /\ loaded' = loaded /\ failures' = failures
  BY <1>1, <1>2, <1>3 DEF ModInv, Phase, Searched
<1>4. CASE answer = "module" /\ loader = "root" /\ loader' = "sys" /\ _ns_import(sys, empty) /\ loadPath' = loadPath
  <2>1. D = {<<>>} /\ Active(modules, <<>>)
    BY <1>1, <1>2, <1>4 DEF Phase
  <2>2. sys \in Modules /\ sys # <<>> /\ sys \notin D
    BY <2>1, ModulesAssumption
  <2>3. Stack(empty, D \cup {sys}) /\ On(empty) = On(importing)
    <3>1. 1 .. Len(empty) = {}
      OBVIOUS
    <3>2. empty \in Seq(Frame(D \cup {sys})) /\ empty = importing
      BY <1>2
    <3> QED BY <3>1, <3>2 DEF Stack
  <2> HIDE DEF sys, empty
  <2>4. Begun(sys, empty)
    BY <1>1, <1>4, <2>2, <2>3, ImportBegins
  <2>5. Phase(modules', importing', answer', loader')
    BY <1>4, <2>1, <2>2, <2>4 DEF Phase, Begun, sys, empty
  <2> QED BY <1>1, <1>2, <1>4, <2>4, <2>5 DEF ModInv, Begun, Searched
<1>5. CASE /\ answer = "module" /\ loader = "sys" /\ loader' = "ready"
           /\ loadPath' = loadPath \o UserPath
           /\ modules' = [modules EXCEPT ![<<>>].imports = @ \cup {SysModule}]
           /\ importing' = importing /\ loaded' = loaded /\ failures' = failures
  <2>1. Active(modules, <<>>) /\ Active(modules, sys)
    BY <1>1, <1>2, <1>5 DEF Phase
  <2>2. empty \in DOMAIN modules /\ sys \in DOMAIN modules
    BY <2>1 DEF Active
  <2>3. modules' = Noted(modules, empty, sys)
    BY <1>5 DEF Noted
  <2>4. Searched'
    <3>1. UserPath \in Seq(Directories)
      <4>1. ToSet(UserPath) \subseteq Directories
        BY DEF Directories
      <4> DEFINE U == UserPath
                 A == ToSet(UserPath)
                 B == Directories
      <4>2. U \in Seq(A) /\ A \subseteq B
        BY <4>1, ModulesAssumption
      <4> HIDE DEF U, A, B
      <4>3. U \in Seq(B)
        BY <4>2
      <4> QED BY <4>3 DEF U, B
    <3> QED BY <1>1, <1>2, <1>5, <3>1 DEF Searched
  <2> HIDE DEF sys, empty
  <2>5. /\ Sound(modules', importing, loaded, failures)
        /\ \A n : Active(modules, n) => Active(modules', n)
    BY <1>1, <2>2, <2>3, ImportNoted
  <2>6. Phase(modules', importing', answer', loader')
    BY <1>2, <1>5, <2>1, <2>5 DEF Phase, sys
  <2> QED BY <1>5, <2>4, <2>5, <2>6 DEF ModInv
<1> QED BY <1>3, <1>4, <1>5 DEF _scriptloader_new

\* A program is run by an import on an empty stack.
LEMMA ProgramRuns == ModInv /\ scriptloader_run => ModInv'
<1> SUFFICES ASSUME ModInv, scriptloader_run PROVE ModInv'
  OBVIOUS
<1> DEFINE D == DOMAIN modules
           empty == <<>>
<1>1. Searched /\ Sound(modules, importing, loaded, failures) /\ Phase(modules, importing, answer, loader)
      /\ Known(modules)
  BY DEF ModInv, Sound
<1>2. importing = <<>> /\ loader = "ready" /\ Searched' /\ loader' = "running"
  BY <1>1 DEF scriptloader_run, Phase, Searched
<1>3. PICK name \in Modules \ {<<>>, SysModule} : _ns_import(name, empty)
  BY DEF scriptloader_run
<1>4. Stack(empty, D \cup {name}) /\ On(empty) = On(importing)
  <2>1. 1 .. Len(empty) = {}
    OBVIOUS
  <2>2. empty \in Seq(Frame(D \cup {name})) /\ empty = importing
    BY <1>2
  <2> QED BY <2>1, <2>2 DEF Stack
<1> HIDE DEF empty
<1>5. Begun(name, empty)
  BY <1>1, <1>3, <1>4, ImportBegins
<1>6. Phase(modules', importing', answer', loader')
  BY <1>1, <1>2, <1>5 DEF Phase, Begun
<1> QED BY <1>2, <1>5, <1>6 DEF ModInv, Begun

\* The loader begins with the import of the root.
LEMMA ModulesInitially == ModulesInit => ModInv
<1> SUFFICES ASSUME ModulesInit PROVE ModInv
  OBVIOUS
<1> DEFINE e == _scriptloader_open_reader(<<>>)
           root == <<>>
<1>1. disk \in Disks /\ loadPath = <<SysDir>> /\ loader = "root" /\ root \in Modules
  BY ModulesAssumption DEF ModulesInit, ModulesStart
<1>2. Searched
  <2>1. SysDir \in Directories
    BY DEF Directories
  <2> QED BY <1>1, <2>1 DEF Searched
<1>3. e.imports = {}
  <2> DEFINE has == {i \in DOMAIN loadPath : disk[loadPath[i]][<<>>].kind = "file"}
             k == CHOOSE i \in has : \A j \in has : i <= j
  <2>1. CASE has = {}
    BY <2>1 DEF _scriptloader_open_reader, NoFile
  <2>2. CASE has # {}
    <3>1. has = {1}
      BY <1>1, <2>2
    <3>2. k = 1
      BY <3>1
    <3>3. e = disk[SysDir][<<>>]
      <4>1. e = disk[loadPath[k]][<<>>]
        BY <2>2 DEF _scriptloader_open_reader
      <4> HIDE DEF e, k
      <4> QED BY <1>1, <3>2, <4>1
    <3> HIDE DEF e
    <3> QED BY <1>1, <3>3, ModulesAssumption
  <2> QED BY <2>1, <2>2
<1>4. DOMAIN modules = {root} /\ modules[root] \in Record /\ modules[root].imports \subseteq {root}
      /\ modules \in [{root} -> Record]
  <2>1. \/ modules = [n \in {root} |-> [state |-> "Loading", obj |-> "half", imports |-> {root}]]
        \/ modules = [n \in {root} |-> [state |-> "Loading", obj |-> "none", imports |-> {}]]
    BY DEF ModulesInit, ModulesStart
  <2> HIDE DEF root
  <2>2. /\ [state |-> "Loading", obj |-> "half", imports |-> {root}] \in Record
        /\ [state |-> "Loading", obj |-> "none", imports |-> {}] \in Record
    BY <1>1 DEF Record
  <2> QED BY <2>1, <2>2
<1>5. Known(modules)
  <2> HIDE DEF root
  <2> QED BY <1>1, <1>4 DEF Known, root
<1>6. \/ importing = <<RootFrame>> /\ loaded = [n \in Modules |-> IF n = <<>> THEN 1 ELSE 0] /\ failures = {}
      \/ importing = <<>> /\ loaded = [n \in Modules |-> 0] /\ failures = {root} /\ answer = "exception"
  BY <1>3 DEF ModulesInit, ModulesStart, RootFrame
<1>7. Counted(modules, loaded)
  BY <1>4, <1>6 DEF Counted
<1>8. Stack(importing, {root}) /\ Excused(modules, importing, failures)
  <2> DEFINE D == {root}
  <2>0. RootFrame \in Frame(D) /\ RootFrame.name = root
    BY <1>1 DEF RootFrame, Frame
  <2> HIDE DEF root, D, RootFrame
  <2>1. CASE importing = <<RootFrame>>
    <3>1. importing \in Seq(Frame(D)) /\ Len(importing) = 1 /\ importing[1] = RootFrame
      BY <2>0, <2>1
    <3>2. Stack(importing, D)
      BY <3>1 DEF Stack
    <3>3. root \in On(importing)
      BY <2>0, <3>1 DEF On
    <3> QED BY <1>4, <3>2, <3>3 DEF Excused, D
  <2>2. CASE importing = <<>> /\ failures = {root}
    <3>1. importing \in Seq(Frame(D)) /\ 1 .. Len(importing) = {}
      BY <2>2
    <3> QED BY <1>4, <2>2, <3>1 DEF Excused, Stack, D
  <2> QED BY <1>6, <2>1, <2>2
<1>9. Phase(modules, importing, answer, loader)
  BY <1>1, <1>4, <1>6 DEF Phase
<1> QED BY <1>2, <1>4, <1>5, <1>7, <1>8, <1>9 DEF ModInv, Sound

(* Of every set of modules on every disk: a module that is known is whole, *)
(* has failed or is being imported, and no script is executed twice.       *)
THEOREM ModulesInOrder == ModulesSpec => []ModInv
<1>1. ModInv /\ [ModulesNext]_moduleVars => ModInv'
  <2> SUFFICES ASSUME ModInv, [ModulesNext]_moduleVars PROVE ModInv'
    OBVIOUS
  <2>1. CASE UNCHANGED moduleVars
    BY <2>1 DEF moduleVars, ModInv, Searched
  <2>2. CASE closure_import
    BY <2>2, ScriptImports
  <2>3. CASE mod_import
    BY <2>3, ScriptGoesOn
  <2>4. CASE mod_set
    BY <2>4, ScriptEnds
  <2>5. CASE _scriptloader_new
    BY <2>5, LoaderGoesOn
  <2>6. CASE RunEnded
    BY <2>6 DEF RunEnded, ModInv, Searched, Phase
  <2>7. CASE scriptloader_run
    BY <2>7, ProgramRuns
  <2> QED BY <2>1, <2>2, <2>3, <2>4, <2>5, <2>6, <2>7 DEF ModulesNext, Imports
<1> QED BY <1>1, ModulesInitially, PTL DEF ModulesSpec

\* Which says of an import what it should.
LEMMA InvIsWhole == ModInv => ImportsAreWhole
<1> SUFFICES ASSUME ModInv PROVE ImportsAreWhole
  OBVIOUS
<1> DEFINE D == DOMAIN modules
<1>1. Known(modules) /\ Stack(importing, D) /\ Counted(modules, loaded) /\ Excused(modules, importing, failures)
      /\ Phase(modules, importing, answer, loader)
  BY DEF ModInv, Sound
<1>2. DOMAIN importing = 1 .. Len(importing)
  BY <1>1 DEF Stack
<1>3. \A m \in D : \A i \in modules[m].imports :
       modules[i].state = "Active" \/ i \in failures \/ \E k \in DOMAIN importing : importing[k].name = i
  BY <1>1, <1>2 DEF Known, Excused, Active, On
<1>4. \A m \in Modules : loaded[m] <= 1
  BY <1>1 DEF Counted
<1>5. \A j, k \in DOMAIN importing : importing[j].name = importing[k].name => j = k
  BY <1>1, <1>2 DEF Stack
<1>6. loader \in {"ready", "running"} => \A m \in {<<>>, SysModule} : modules[m].state = "Active"
  BY <1>1 DEF Phase, Active
<1> QED BY <1>3, <1>4, <1>5, <1>6 DEF ImportsAreWhole

\* How a path goes on with its next part.
Goes(r, part) == IF r.kind = "partial" THEN _pnm_resolve(r, part) ELSE Nothing

\* The walk along the parts of seq, as FoldLeft defines it, by the parts behind.
Walk(g, base, seq, n) ==
  g = [s \in SUBSET (1 .. n) |->
         IF s = {} THEN base ELSE Goes(g[s \ {Max(s)}], seq[Max(s)])]

\* The greatest of the numbers up to n that are in a set with n is n.
LEMMA GreatestIsLast ==
  ASSUME NEW n \in Nat, NEW s \in SUBSET (1 .. n), n \in s
  PROVE  Max(s) = n
<1>1. \A y \in s : n >= y /\ y \in Nat
  OBVIOUS
<1> DEFINE x == CHOOSE x \in s : \A y \in s : x >= y
<1>2. x \in s /\ x >= n
  BY <1>1
<1> HIDE DEF x
<1>3. x = n
  BY <1>1, <1>2
<1> QED BY <1>3 DEF Max, x

\* Such a walk exists: it is made from the one of a part less.
LEMMA WalkExists ==
  ASSUME NEW base, NEW seq, NEW n \in Nat
  PROVE  \E g : Walk(g, base, seq, n)
<1> DEFINE A == {k \in Nat : \E g : Walk(g, base, seq, k)}
<1>1. 0 \in A
  <2> DEFINE g == [s \in SUBSET (1 .. 0) |-> base]
  <2>1. SUBSET (1 .. 0) = {{}}
    OBVIOUS
  <2>2. g = [s \in SUBSET (1 .. 0) |-> IF s = {} THEN base ELSE Goes(g[s \ {Max(s)}], seq[Max(s)])]
    BY <2>1
  <2> QED BY <2>2 DEF Walk
<1>2. ASSUME NEW k \in Nat, k \in A PROVE k + 1 \in A
  <2>1. PICK g : Walk(g, base, seq, k)
    BY <1>2
  <2> DEFINE m == k + 1
             h == [s \in SUBSET (1 .. m) |-> IF m \in s THEN Goes(g[s \ {m}], seq[m]) ELSE g[s]]
  <2>2. m \in Nat /\ \A i \in 1 .. m : i # m => i \in 1 .. k
    OBVIOUS
  <2>3. \A i \in 1 .. k : i \in 1 .. m /\ i # m
    OBVIOUS
  <2> HIDE DEF m
  <2>4. ASSUME NEW s \in SUBSET (1 .. m)
        PROVE  h[s] = IF s = {} THEN base ELSE Goes(h[s \ {Max(s)}], seq[Max(s)])
    <3>1. CASE m \in s
      <4>1. Max(s) = m
        BY <2>2, <3>1, GreatestIsLast
      <4>2. s \ {m} \in SUBSET (1 .. m) /\ m \notin s \ {m}
        OBVIOUS
      <4>3. h[s \ {m}] = g[s \ {m}]
        BY <4>2
      <4>4. h[s] = Goes(g[s \ {m}], seq[m])
        BY <3>1
      <4> HIDE DEF h
      <4> QED BY <3>1, <4>1, <4>3, <4>4
    <3>2. CASE m \notin s
      <4>1. s \in SUBSET (1 .. k)
        BY <2>2, <3>2
      <4>2. h[s] = g[s]
        BY <3>2
      <4>3. s \ {Max(s)} \in SUBSET (1 .. m) /\ m \notin s \ {Max(s)}
        BY <3>2
      <4>4. h[s \ {Max(s)}] = g[s \ {Max(s)}]
        BY <4>3
      <4>5. g[s] = IF s = {} THEN base ELSE Goes(g[s \ {Max(s)}], seq[Max(s)])
        BY <2>1, <4>1 DEF Walk
      <4> HIDE DEF h
      <4> QED BY <4>2, <4>4, <4>5
    <3> QED BY <3>1, <3>2
  <2>5. h = [s \in SUBSET (1 .. m) |-> IF s = {} THEN base ELSE Goes(h[s \ {Max(s)}], seq[Max(s)])]
    BY <2>4
  <2>6. Walk(h, base, seq, m)
    <3> HIDE DEF h
    <3> QED BY <2>5 DEF Walk
  <2> HIDE DEF h
  <2> QED BY <2>2, <2>6 DEF m
<1>3. Nat \subseteq A
  <2> HIDE DEF A
  <2> QED BY <1>1, <1>2, SetInduction
<1> QED BY <1>3

\* One part after the other.
Steps(g, base, seq, n) ==
  /\ g[1 .. 0] = base
  /\ \A k \in 1 .. n : g[1 .. k] = Goes(g[1 .. k - 1], seq[k])

\* Which is what such a walk does.
LEMMA WalkSteps ==
  ASSUME NEW base, NEW seq, NEW n \in Nat, NEW g, Walk(g, base, seq, n)
  PROVE  Steps(g, base, seq, n)
<1>1. 1 .. 0 = {} /\ {} \in SUBSET (1 .. n)
  OBVIOUS
<1>2. g[{}] = base
  BY <1>1 DEF Walk
<1>3. ASSUME NEW k \in 1 .. n PROVE g[1 .. k] = Goes(g[1 .. k - 1], seq[k])
  <2> DEFINE s == 1 .. k
  <2>1. s \in SUBSET (1 .. n) /\ k \in s /\ s \in SUBSET (1 .. k) /\ k \in Nat
    OBVIOUS
  <2>2. s \ {k} = 1 .. k - 1
    OBVIOUS
  <2> HIDE DEF s
  <2>3. Max(s) = k
    BY <2>1, GreatestIsLast
  <2>4. g[s] = Goes(g[s \ {Max(s)}], seq[Max(s)])
    BY <2>1 DEF Walk
  <2> QED BY <2>2, <2>3, <2>4 DEF s
<1> QED BY <1>1, <1>2, <1>3 DEF Steps

\* What a path means is where the walk along all its parts ends.
LEMMA ResolvedByWalk ==
  ASSUME NEW m, NEW path, NEW n \in Nat, DOMAIN Tail(path) = 1 .. n
  PROVE  \E g : Walk(g, mod_resolve(m, path[1]), Tail(path), n) /\ Resolved(m, path) = g[1 .. n]
<1> DEFINE base == mod_resolve(m, path[1])
           seq == Tail(path)
           iter[s \in SUBSET (DOMAIN seq)] ==
             IF s = {} THEN base
             ELSE LET x == Max(s) IN IF iter[s \ {x}].kind = "partial" THEN _pnm_resolve(iter[s \ {x}], seq[x]) ELSE Nothing
<1>1. Resolved(m, path) = iter[DOMAIN seq]
  BY DEF Resolved, FoldLeft, MapThenFoldSet
<1>2. PICK h : Walk(h, base, seq, n)
  BY WalkExists
<1>3. Walk(iter, base, seq, n)
  <2>1. DOMAIN seq = 1 .. n
    OBVIOUS
  <2>2. h = [s \in SUBSET (DOMAIN seq) |->
             IF s = {} THEN base
             ELSE LET x == Max(s) IN IF h[s \ {x}].kind = "partial" THEN _pnm_resolve(h[s \ {x}], seq[x]) ELSE Nothing]
    <3> HIDE DEF base, seq
    <3> QED BY <1>2, <2>1 DEF Walk, Goes
  <2>3. iter = [s \in SUBSET (DOMAIN seq) |->
             IF s = {} THEN base
             ELSE LET x == Max(s) IN IF iter[s \ {x}].kind = "partial" THEN _pnm_resolve(iter[s \ {x}], seq[x]) ELSE Nothing]
    <3> HIDE DEF base, seq
    <3> QED BY <2>2
  <2> HIDE DEF iter, base, seq
  <2> QED BY <2>1, <2>3 DEF Walk, Goes
<1> HIDE DEF iter
<1> QED BY <1>1, <1>3

\* A name that hides the part behind the first k of the name of the module i.
Hides(m, i, k) ==
  LET j == SubSeq(i, 1, k)
  IN IF k = 0 THEN i[1] \in Attributes(m)
     ELSE j \in modules[m].imports /\ mod_resolve(j, i[k + 1]) # Nothing

\* The name so far is the beginning of the name of the module i, which is looked for.
OnTheWay(r, m, i, k) ==
  /\ r.kind = "partial" /\ r.name = SubSeq(i, 1, k)
  /\ i \in r.matches /\ r.matches \subseteq modules[m].imports

\* The first part of a module that was imported, and one more.
LEMMA FirstPart ==
  ASSUME NEW m, NEW i \in modules[m].imports, i # <<>>, i \in Seq(ToSet(i)), ~Hides(m, i, 0)
  PROVE  OnTheWay(mod_resolve(m, i[1]), m, i, 1)
<1> DEFINE matches == {x \in modules[m].imports : x # <<>> /\ x[1] = i[1]}
           part == i[1]
           S == ToSet(i)
<1>1. i \in matches
  OBVIOUS
<1>2. i[1] \notin Attributes(m)
  BY DEF Hides
<1>3. Here(m, part) = Partial(<<part>>, matches)
  BY <1>1, <1>2 DEF Here
<1>4. Partial(<<part>>, matches) # Nothing /\ Partial(<<part>>, matches).kind = "partial"
  BY DEF Partial, Nothing
<1>5. mod_resolve(m, part) = Partial(<<part>>, matches)
  BY <1>3, <1>4 DEF mod_resolve
<1>6. SubSeq(i, 1, 1) = <<part>>
  <2> DEFINE t == SubSeq(i, 1, 1)
  <2>1. Len(i) \in Nat \ {0} /\ i \in Seq(S)
    OBVIOUS
  <2> HIDE DEF S
  <2>2. t \in Seq(S) /\ Len(t) = 1 /\ t[1] = i[1]
    BY <2>1
  <2>3. part \in S
    BY <2>1
  <2> HIDE DEF t, part
  <2>4. <<part>> \in Seq(S) /\ Len(<<part>>) = 1 /\ <<part>>[1] = part
    BY <2>3
  <2>5. \A x \in 1 .. 1 : x = 1
    OBVIOUS
  <2> DEFINE u == <<part>>
  <2>6. u \in Seq(S) /\ Len(u) = 1 /\ u[1] = part
    BY <2>4
  <2> HIDE DEF u
  <2>7. \A x \in 1 .. Len(t) : t[x] = u[x]
    BY <2>2, <2>5, <2>6 DEF part
  <2>8. t = u
    BY <2>2, <2>6, <2>7, SeqEqual
  <2> QED BY <2>8 DEF t, u
<1>7. matches \subseteq modules[m].imports
  OBVIOUS
<1> HIDE DEF matches, part
<1>8. OnTheWay(Partial(<<part>>, matches), m, i, 1)
  BY <1>1, <1>6, <1>7 DEF OnTheWay, Partial
<1> QED BY <1>5, <1>8 DEF part

\* Unless it is hidden, the next part leads on.
LEMMA NextPart ==
  ASSUME NEW m, NEW i \in modules[m].imports, i # <<>>, i \in Seq(ToSet(i)),
         NEW k \in 1 .. Len(i) - 1, ~Hides(m, i, k), NEW r, OnTheWay(r, m, i, k)
  PROVE  OnTheWay(Goes(r, i[k + 1]), m, i, k + 1)
<1> DEFINE part == i[k + 1]
           j == SubSeq(i, 1, k)
           S == ToSet(i)
           name == Append(j, part)
           more == {x \in r.matches : IsPrefix(name, x)}
<1>1. k \in Nat \ {0} /\ Len(i) \in Nat /\ k + 1 \in 1 .. Len(i) /\ k + 1 \in Nat
  OBVIOUS
<1>2. j \in r.matches => mod_resolve(j, part) = Nothing
  BY <1>1 DEF Hides, OnTheWay
<1>3. Goes(r, part) = Partial(name, more)
  <2>1. Goes(r, part) = _pnm_resolve(r, part)
    BY DEF Goes, OnTheWay
  <2>2. r.name = j
    BY DEF OnTheWay
  <2> HIDE DEF j, part
  <2>3. (IF j \in r.matches THEN mod_resolve(j, part) ELSE Nothing) = Nothing
    BY <1>2
  <2> QED BY <2>1, <2>2, <2>3 DEF _pnm_resolve
<1>4. name = SubSeq(i, 1, k + 1)
  <2> DEFINE s == SubSeq(i, 1, k + 1)
  <2>1. j \in Seq(S) /\ Len(j) = k /\ \A x \in 1 .. k : j[x] = i[x]
    BY <1>1
  <2>2. s \in Seq(S) /\ Len(s) = k + 1 /\ \A x \in 1 .. k + 1 : s[x] = i[x]
    BY <1>1
  <2>3. part \in S
    BY <1>1
  <2> HIDE DEF j, s, part, S
  <2>4. name \in Seq(S) /\ Len(name) = k + 1 /\ (\A x \in 1 .. k : name[x] = j[x]) /\ name[k + 1] = part
    BY <2>1, <2>3, <1>1
  <2>5. \A x \in 1 .. k + 1 : x \in 1 .. k \/ x = k + 1
    BY <1>1
  <2>6. \A x \in 1 .. k + 1 : name[x] = s[x]
    BY <2>1, <2>2, <2>4, <2>5 DEF part
  <2> HIDE DEF name
  <2> QED BY <2>2, <2>4, <2>6, <1>1, SeqEqual DEF s
<1>5. i \in more
  <2> DEFINE l == k + 1
  <2>1. IsPrefix(SubSeq(i, 1, l), i)
    <3>1. l \in 1 .. Len(i)
      BY <1>1
    <3> HIDE DEF l
    <3>2. Len(SubSeq(i, 1, l)) = l /\ l <= Len(i) /\ l \in Nat
      BY <3>1
    <3>3. \A x \in 1 .. l : SubSeq(i, 1, l)[x] = i[x]
      BY <3>1
    <3> QED BY <3>2, <3>3 DEF IsPrefix
  <2> HIDE DEF name
  <2> QED BY <2>1, <1>4 DEF OnTheWay
<1>6. more \subseteq modules[m].imports
  BY DEF OnTheWay
<1> HIDE DEF more, name, part
<1>7. OnTheWay(Partial(name, more), m, i, k + 1)
  BY <1>4, <1>5, <1>6 DEF OnTheWay, Partial
<1> QED BY <1>3, <1>7 DEF part

\* So the whole name is gone along.
LEMMA AlongTheName ==
  ASSUME NEW m, NEW i \in modules[m].imports, i # <<>>, i \in Seq(ToSet(i)),
         \A k \in 0 .. Len(i) - 1 : ~Hides(m, i, k),
         NEW n \in Nat, n >= Len(i) - 1, NEW seq, \A k \in 1 .. Len(i) - 1 : seq[k] = i[k + 1],
         NEW g, Walk(g, mod_resolve(m, i[1]), seq, n)
  PROVE  OnTheWay(g[1 .. Len(i) - 1], m, i, Len(i))
<1> DEFINE A == {k \in Nat : k + 1 \in 1 .. Len(i) => OnTheWay(g[1 .. k], m, i, k + 1)}
           base == mod_resolve(m, i[1])
<1>1. Len(i) \in Nat \ {0}
  OBVIOUS
<1>s. Steps(g, base, seq, n)
  <2>1. Walk(g, base, seq, n)
    OBVIOUS
  <2> HIDE DEF base
  <2> QED BY <2>1, WalkSteps
<1>2. 0 \in A
  <2>1. ~Hides(m, i, 0)
    BY <1>1
  <2>2. g[1 .. 0] = mod_resolve(m, i[1])
    BY <1>s DEF Steps
  <2>3. OnTheWay(g[1 .. 0], m, i, 0 + 1)
    BY <2>1, <2>2, FirstPart
  <2> QED BY <2>3
<1>3. ASSUME NEW k \in Nat, k \in A PROVE k + 1 \in A
  <2> DEFINE l == k + 1
             p == k
  <2> SUFFICES ASSUME l + 1 \in 1 .. Len(i) PROVE OnTheWay(g[1 .. l], m, i, l + 1)
    OBVIOUS
  <2>1. l \in 1 .. Len(i) - 1 /\ l \in 0 .. Len(i) - 1 /\ l \in 1 .. Len(i) /\ l \in 1 .. n /\ l - 1 = k
    BY <1>1
  <2>2. OnTheWay(g[1 .. k], m, i, l)
    BY <1>3, <2>1
  <2> HIDE DEF l, A
  <2>3. g[1 .. l] = Goes(g[1 .. l - 1], seq[l])
    BY <1>s, <2>1 DEF Steps
  <2>4. g[1 .. l] = Goes(g[1 .. k], i[l + 1])
    BY <2>1, <2>3
  <2>5. ~Hides(m, i, l)
    BY <2>1
  <2> QED BY <2>1, <2>2, <2>4, <2>5, NextPart
<1>4. Nat \subseteq A
  <2> HIDE DEF A
  <2> QED BY <1>2, <1>3, SetInduction
<1>5. Len(i) - 1 \in A /\ (Len(i) - 1) + 1 = Len(i) /\ Len(i) \in 1 .. Len(i)
  BY <1>1, <1>4
<1> QED BY <1>5

\* An attribute of a module is what its name means there.
LEMMA AttributeHere ==
  ASSUME NEW i, NEW a \in Attributes(i)
  PROVE  mod_resolve(i, a) = Value(i, a) /\ Value(i, a) # Nothing
<1>1. Value(i, a) # Nothing
  BY DEF Value, Nothing
<1>2. Here(i, a) = Value(i, a)
  BY DEF Here
<1> QED BY <1>1, <1>2 DEF mod_resolve

(* What a name means that leads to a module that was imported.             *)
LEMMA PathsAreLed == Known(modules) => PathsLead
<1> SUFFICES ASSUME Known(modules), NEW m \in DOMAIN modules, NEW i \in modules[m].imports \ {<<>>},
                    \A k \in 0 .. Len(i) - 1 : ~Hides(m, i, k)
             PROVE  /\ \A a \in Attributes(i) : Resolved(m, Append(i, a)) = Value(i, a)
                    /\ Resolved(m, i).kind = "partial" /\ _pnm_find_mod(Resolved(m, i)) = i
  BY DEF PathsLead, Hides
<1> DEFINE S == ToSet(i)
           N == Len(i)
<1>1. i \in Seq(S) /\ i \in modules[m].imports /\ i # <<>>
  BY ModulesAssumption DEF Known, Record
<1>2. N \in Nat \ {0}
  BY <1>1
<1>3. SubSeq(i, 1, N) = i
  BY <1>1, WholeSubSeq
<1>4. ASSUME NEW a \in Attributes(i) PROVE Resolved(m, Append(i, a)) = Value(i, a)
  <2> DEFINE path == Append(i, a)
             T == S \cup {a}
             seq == Tail(path)
  <2>1. i \in Seq(T) /\ a \in T
    BY <1>1
  <2>2. path \in Seq(T) /\ Len(path) = N + 1 /\ (\A k \in 1 .. N : path[k] = i[k]) /\ path[N + 1] = a
    BY <2>1
  <2> HIDE DEF path
  <2>3. seq \in Seq(T) /\ Len(seq) = N /\ \A k \in 1 .. N : seq[k] = path[k + 1]
    BY <1>2, <2>2
  <2>4. DOMAIN seq = 1 .. N /\ path[1] = i[1]
    BY <1>2, <2>2, <2>3
  <2>5. PICK g : Walk(g, mod_resolve(m, path[1]), seq, N) /\ Resolved(m, path) = g[1 .. N]
    <3> HIDE DEF N
    <3> QED BY <1>2, <2>4, ResolvedByWalk
  <2>6. \A k \in 1 .. N - 1 : seq[k] = i[k + 1]
    BY <1>2, <2>2, <2>3
  <2> HIDE DEF seq
  <2>7. OnTheWay(g[1 .. N - 1], m, i, N)
    BY <1>1, <1>2, <2>4, <2>5, <2>6, AlongTheName
  <2>8. g[1 .. N] = Goes(g[1 .. N - 1], a)
    <3>1. N \in 1 .. N /\ seq[N] = a
      BY <1>2, <2>2, <2>3
    <3> HIDE DEF N
    <3>2. Steps(g, mod_resolve(m, path[1]), seq, N)
      BY <1>2, <2>5, WalkSteps
    <3> QED BY <3>1, <3>2 DEF Steps
  <2> DEFINE r == g[1 .. N - 1]
  <2> HIDE DEF r, N
  <2>9. r.kind = "partial" /\ r.name = i /\ i \in r.matches
    BY <1>3, <2>7 DEF OnTheWay, r
  <2>10. Goes(r, a) = mod_resolve(i, a)
    <3>1. mod_resolve(i, a) # Nothing
      BY AttributeHere
    <3> QED BY <2>9, <3>1 DEF Goes, _pnm_resolve
  <2> QED BY <2>5, <2>8, <2>10, AttributeHere DEF path, r
<1>5. Resolved(m, i).kind = "partial" /\ _pnm_find_mod(Resolved(m, i)) = i
  <2> DEFINE seq == Tail(i)
             n == N - 1
  <2>1. seq \in Seq(S) /\ Len(seq) = N - 1 /\ \A k \in 1 .. N - 1 : seq[k] = i[k + 1]
    BY <1>1, <1>2
  <2>2. DOMAIN seq = 1 .. n /\ n \in Nat /\ n >= N - 1
    BY <1>2, <2>1
  <2>3. PICK g : Walk(g, mod_resolve(m, i[1]), seq, n) /\ Resolved(m, i) = g[1 .. n]
    <3> HIDE DEF n
    <3> QED BY <2>2, ResolvedByWalk
  <2> HIDE DEF seq
  <2>4. OnTheWay(g[1 .. N - 1], m, i, N)
    BY <1>1, <2>1, <2>2, <2>3, AlongTheName
  <2> DEFINE r == g[1 .. N - 1]
  <2> HIDE DEF r, N
  <2>5. r.kind = "partial" /\ r.name = i /\ i \in r.matches
    BY <1>3, <2>4 DEF OnTheWay, r
  <2> QED BY <2>3, <2>5 DEF _pnm_find_mod, r
<1> QED BY <1>4, <1>5

(* namespace.c:383, :172 -- a module that an import answers with is whole, *)
(* but for the ones that are being imported further up or have failed, no  *)
(* script is executed twice, and the path of a module leads to it and to   *)
(* what it has, unless a module on the way hides the next part.            *)
THEOREM ImportsRight == ModulesSpec => []ImportsAreRight
<1>1. ModInv => ImportsAreRight
  BY InvIsWhole, PathsAreLed DEF ImportsAreRight, ModInv, Sound
<1> QED BY <1>1, ModulesInOrder, PTL
-----------------------------------------------------------------------------
\* A sequence, of whatever.
Listing(s) == \E S : s \in Seq(S)

\* What is longer by x at the end, what has x at place k, and what is shorter by one.
OneMore(s, x, t) ==
  /\ Listing(t) /\ Len(s) \in Nat /\ Len(t) = Len(s) + 1 /\ t[Len(s) + 1] = x
  /\ \A i \in 1 .. Len(s) : t[i] = s[i]
OneOther(s, k, x, t) ==
  /\ Listing(t) /\ Len(s) \in Nat /\ Len(t) = Len(s) /\ t[k] = x
  /\ \A i \in 1 .. Len(s) : i # k => t[i] = s[i]
OneLess(s, t) ==
  /\ Listing(t) /\ Len(s) \in Nat \ {0} /\ Len(t) = Len(s) - 1
  /\ \A i \in 1 .. Len(s) - 1 : t[i] = s[i]

LEMMA AppendsOne ==
  ASSUME NEW s, Listing(s), NEW x
  PROVE  OneMore(s, x, Append(s, x))
<1>1. PICK S : s \in Seq(S)
  BY DEF Listing
<1> DEFINE T == S \cup {x}
           t == Append(s, x)
<1>2. s \in Seq(T) /\ x \in T
  BY <1>1
<1> HIDE DEF T
<1>3. t \in Seq(T) /\ Len(t) = Len(s) + 1 /\ t[Len(s) + 1] = x /\ Len(s) \in Nat
      /\ \A i \in 1 .. Len(s) : t[i] = s[i]
  BY <1>2
<1> QED BY <1>3 DEF OneMore, Listing

LEMMA ChangesOne ==
  ASSUME NEW s, Listing(s), NEW k \in 1 .. Len(s), NEW x
  PROVE  OneOther(s, k, x, [s EXCEPT ![k] = x])
<1>1. PICK S : s \in Seq(S)
  BY DEF Listing
<1> DEFINE T == S \cup {x}
           t == [s EXCEPT ![k] = x]
<1>2. s \in Seq(T) /\ x \in T
  BY <1>1
<1> HIDE DEF T
<1>3. t \in Seq(T) /\ Len(t) = Len(s) /\ t[k] = x /\ Len(s) \in Nat
      /\ \A i \in 1 .. Len(s) : i # k => t[i] = s[i]
  BY <1>2
<1> QED BY <1>3 DEF OneOther, Listing

LEMMA DropsOne ==
  ASSUME NEW s, Listing(s), s # <<>>
  PROVE  OneLess(s, SubSeq(s, 1, Len(s) - 1))
<1>1. PICK S : s \in Seq(S)
  BY DEF Listing
<1> DEFINE n == Len(s)
           m == n - 1
           t == SubSeq(s, 1, m)
<1>2. n \in Nat \ {0} /\ m \in Nat /\ m <= n
  BY <1>1
<1>3. t \in Seq(S) /\ Len(t) = m /\ \A i \in 1 .. m : t[i] = s[i]
  <2> HIDE DEF m
  <2> QED BY <1>1, <1>2
<1> HIDE DEF t
<1> QED BY <1>2, <1>3 DEF OneLess, Listing, t
-----------------------------------------------------------------------------
(* What can be bound: a script to an object that is there and to the scope *)
(* of the function it stands in, or to none.                               *)
BoundFits(bm, sc, no) ==
  /\ bm \in [script : Functions_, self : 0 .. no, closure : 0 .. Len(sc)]
  /\ bm.closure # 0 => sc[bm.closure].script = UpOf[bm.script]

ValueFits(v, sc, no) ==
  /\ v[1] = "bound" => BoundFits(v[2], sc, no)
  /\ v[1] = "closure" => v[2] \in 1 .. Len(sc)
  /\ v[1] = "object" => v[2] \in 1 .. no

AllFit(f, sc, no) == \A n \in DOMAIN f : ValueFits(f[n], sc, no)

\* A scope made for a script, up to c scopes being there.
ScopeFits(s, c, sc, no) ==
  /\ s = [script |-> s.script, up |-> s.up, self |-> s.self, params |-> s.params,
          held |-> s.held, entered |-> s.entered, vars |-> s.vars]
  /\ s.script \in Functions_ /\ s.up \in 0 .. c - 1 /\ s.self \in 0 .. no /\ s.entered \in Nat
  /\ s.up # 0 => sc[s.up].script = UpOf[s.script]
  /\ AllFit(s.vars, sc, no) /\ AllFit(s.params, sc, no)

ScopesFit(sc, no) == Listing(sc) /\ \A c \in 1 .. Len(sc) : ScopeFits(sc[c], c, sc, no)

\* The attributes of the object o that can be called are methods of its own.
Owned(vars, o) ==
  \A n \in DOMAIN vars : vars[n][1] # "closure" /\ (vars[n][1] = "bound" => vars[n][2].self = o)

ObjectFits(ob, o, sc, no) ==
  /\ ob = [vars |-> ob.vars, constructor |-> ob.constructor, constructing |-> ob.constructing]
  /\ ob.constructor \in Functions_ /\ ob.constructing \in BOOLEAN
  /\ AllFit(ob.vars, sc, no) /\ Owned(ob.vars, o)

ObjectsFit(obs, sc) ==
  /\ Listing(obs) /\ Len(obs) \in Nat \ {0}
  /\ \A o \in 1 .. Len(obs) : ObjectFits(obs[o], o, sc, Len(obs))

ArgsFit(args, sc, no) == args = <<>> \/ (args = <<args[1]>> /\ ValueFits(args[1], sc, no))

FrameFits(f, ns, no) ==
  /\ f = [scope |-> f.scope, kind |-> f.kind, obj |-> f.obj, args |-> f.args]
  /\ f.scope \in 1 .. ns /\ (f.kind = "new" => f.obj \in 1 .. no)

FramesFit(fr, ns, no) == Listing(fr) /\ \A i \in 1 .. Len(fr) : FrameFits(fr[i], ns, no)

(* An object is under construction while the one call of its constructor   *)
(* is on the stack.                                                        *)
News(fr, o) == {i \in 1 .. Len(fr) : fr[i].kind = "new" /\ fr[i].obj = o}
Constructed(fr, obs) ==
  /\ \A i, j \in 1 .. Len(fr) : fr[i].kind = "new" /\ fr[j].kind = "new" /\ fr[i].obj = fr[j].obj => i = j
  /\ \A o \in 1 .. Len(obs) : obs[o].constructing <=> News(fr, o) # {}

(* A closure that was entered once runs once, with the parameters it was   *)
(* given.                                                                  *)
GivenTo(s, args) ==
  ParamsOf[s.script] # <<>> => s.held = "held" /\ s.params[ParamsOf[s.script][1]] = args[1]
RunsAsGiven(fr, sc) ==
  /\ \A i, j \in 1 .. Len(fr) : sc[fr[i].scope].entered = 1 /\ fr[i].scope = fr[j].scope => i = j
  /\ \A i \in 1 .. Len(fr) : sc[fr[i].scope].entered = 1 => GivenTo(sc[fr[i].scope], fr[i].args)

AllEntered(sc) == \A c \in 1 .. Len(sc) : sc[c].entered # 0

ScopesInv ==
  /\ ScopesFit(scopes, Len(objects)) /\ ObjectsFit(objects, scopes)
  /\ FramesFit(frames, Len(scopes), Len(objects))
  /\ Constructed(frames, objects) /\ RunsAsGiven(frames, scopes) /\ AllEntered(scopes)
  /\ ValueFits(acc, scopes, Len(objects))
-----------------------------------------------------------------------------
\* More scopes and more objects, the scopes that were there for the same scripts.
GrowsTo(sc, no, s2, n2) ==
  /\ Len(sc) \in Nat /\ Len(s2) \in Nat /\ no \in Nat /\ n2 \in Nat
  /\ Len(sc) <= Len(s2) /\ no <= n2
  /\ \A c \in 1 .. Len(sc) : s2[c].script = sc[c].script

\* What fits goes on to fit.
LEMMA FitsOn ==
  ASSUME NEW sc, NEW no, NEW s2, NEW n2, GrowsTo(sc, no, s2, n2)
  PROVE  /\ \A v : ValueFits(v, sc, no) => ValueFits(v, s2, n2)
         /\ \A f : AllFit(f, sc, no) => AllFit(f, s2, n2)
         /\ \A s, c : c \in 1 .. Len(sc) + 1 /\ ScopeFits(s, c, sc, no) => ScopeFits(s, c, s2, n2)
         /\ \A ob, o : ObjectFits(ob, o, sc, no) => ObjectFits(ob, o, s2, n2)
         /\ \A f : FrameFits(f, Len(sc), no) => FrameFits(f, Len(s2), n2)
<1> USE DEF GrowsTo
<1>1. ASSUME NEW bm, BoundFits(bm, sc, no) PROVE BoundFits(bm, s2, n2)
  <2>1. bm.self \in 0 .. n2 /\ bm.closure \in 0 .. Len(s2) /\ bm.closure \in 0 .. Len(sc) /\ bm.script \in Functions_
    BY <1>1 DEF BoundFits
  <2>2. bm \in [script : Functions_, self : 0 .. n2, closure : 0 .. Len(s2)]
    BY <1>1, <2>1 DEF BoundFits
  <2>3. bm.closure # 0 => bm.closure \in 1 .. Len(sc)
    BY <2>1
  <2> QED BY <1>1, <2>2, <2>3 DEF BoundFits
<1>2. ASSUME NEW v, ValueFits(v, sc, no) PROVE ValueFits(v, s2, n2)
  BY <1>1, <1>2 DEF ValueFits
<1>3. ASSUME NEW f, AllFit(f, sc, no) PROVE AllFit(f, s2, n2)
  BY <1>2, <1>3 DEF AllFit
<1>4. ASSUME NEW s, NEW c \in 1 .. Len(sc) + 1, ScopeFits(s, c, sc, no) PROVE ScopeFits(s, c, s2, n2)
  <2>1. s.up # 0 => s.up \in 1 .. Len(sc)
    BY <1>4 DEF ScopeFits
  <2>2. s.self \in 0 .. n2
    BY <1>4 DEF ScopeFits
  <2> QED BY <1>3, <1>4, <2>1, <2>2 DEF ScopeFits
<1>5. ASSUME NEW ob, NEW o, ObjectFits(ob, o, sc, no) PROVE ObjectFits(ob, o, s2, n2)
  BY <1>3, <1>5 DEF ObjectFits
<1>6. ASSUME NEW f, FrameFits(f, Len(sc), no) PROVE FrameFits(f, Len(s2), n2)
  <2>1. f.scope \in 1 .. Len(s2) /\ (f.kind = "new" => f.obj \in 1 .. n2)
    BY <1>6 DEF FrameFits
  <2> QED BY <1>6, <2>1 DEF FrameFits
<1> QED BY <1>2, <1>3, <1>4, <1>5, <1>6

\* An attribute more fits when its value does.
LEMMA PutFits ==
  ASSUME NEW new, NEW old, NEW sc, NEW no, AllFit(new, sc, no), AllFit(old, sc, no)
  PROVE  AllFit(PutAll(new, old), sc, no)
BY DEF PutAll, AllFit

LEMMA PutOneFits ==
  ASSUME NEW name, NEW v, NEW old, NEW sc, NEW no, ValueFits(v, sc, no), AllFit(old, sc, no)
  PROVE  AllFit(PutOne(name, v, old), sc, no)
<1>1. AllFit([n \in {name} |-> v], sc, no)
  BY DEF AllFit
<1> QED BY <1>1, PutFits DEF PutOne

LEMMA PutOwned ==
  ASSUME NEW new, NEW old, NEW o, Owned(new, o), Owned(old, o)
  PROVE  Owned(PutAll(new, old), o)
BY DEF PutAll, Owned

\* Whatever an object is given, it becomes its own.
LEMMA SetFits ==
  ASSUME NEW no \in Nat, ScopesFit(scopes, no), NEW o \in 1 .. no, NEW name, NEW v,
         ValueFits(v, scopes, no) \/ \E s \in Functions_ : v = BoundMethod(s, 0, 0)
  PROVE  /\ ValueFits(object_set(o, name, v), scopes, no)
         /\ object_set(o, name, v)[1] # "closure"
         /\ object_set(o, name, v)[1] = "bound" => object_set(o, name, v)[2].self = o
<1> DEFINE w == object_set(o, name, v)
<1>1. ASSUME NEW s \in Functions_ PROVE ValueFits(BoundMethod(s, o, 0), scopes, no)
  <2> DEFINE bm == [script |-> s, self |-> o, closure |-> 0]
  <2>1. Len(scopes) \in Nat
    BY DEF ScopesFit, Listing
  <2>2. bm \in [script : Functions_, self : 0 .. no, closure : 0 .. Len(scopes)] /\ bm.closure = 0
    BY <2>1
  <2> HIDE DEF bm
  <2>3. BoundFits(bm, scopes, no)
    BY <2>2 DEF BoundFits
  <2> QED BY <2>3 DEF ValueFits, BoundMethod, bm
<1>2. ASSUME NEW s PROVE BoundMethod(s, o, 0)[1] = "bound" /\ BoundMethod(s, o, 0)[2].self = o
  BY DEF BoundMethod
<1>3. CASE v[1] = "bound"
  <2>1. v[2].script \in Functions_
    BY <1>3 DEF ValueFits, BoundFits, BoundMethod
  <2>2. w = BoundMethod(v[2].script, o, 0)
    BY <1>3 DEF object_set
  <2> QED BY <1>1, <1>2, <2>1, <2>2
<1>4. CASE v[1] = "closure"
  <2>0. v[2] \in 1 .. Len(scopes)
    BY <1>4 DEF ValueFits, BoundMethod
  <2>1. scopes[v[2]].script \in Functions_
    BY <2>0 DEF ScopesFit, ScopeFits
  <2>2. w = BoundMethod(scopes[v[2]].script, o, 0)
    BY <1>4 DEF object_set
  <2> QED BY <1>1, <1>2, <2>1, <2>2
<1>5. CASE v[1] # "bound" /\ v[1] # "closure"
  <2>1. w = v
    BY <1>5 DEF object_set
  <2> QED BY <1>5, <2>1 DEF BoundMethod
<1> QED BY <1>3, <1>4, <1>5

\* The functions of a script as methods of an object.
LEMMA BindAllFits ==
  ASSUME NEW no \in Nat, ScopesFit(scopes, no), NEW o \in 1 .. no, NEW script, NEW vars,
         AllFit(vars, scopes, no), Owned(vars, o)
  PROVE  /\ AllFit(object_bind_all(o, vars, script), scopes, no)
         /\ Owned(object_bind_all(o, vars, script), o)
<1> DEFINE new == [s \in InnerOf(script) |-> object_set(o, s, BoundMethod(s, 0, 0))]
<1>1. \A s \in InnerOf(script) : s \in Functions_
  BY DEF InnerOf
<1>2. AllFit(new, scopes, no) /\ Owned(new, o)
  <2>1. ASSUME NEW s \in InnerOf(script)
        PROVE  /\ ValueFits(object_set(o, s, BoundMethod(s, 0, 0)), scopes, no)
               /\ object_set(o, s, BoundMethod(s, 0, 0))[1] # "closure"
               /\ object_set(o, s, BoundMethod(s, 0, 0))[1] = "bound" => object_set(o, s, BoundMethod(s, 0, 0))[2].self = o
    <3> DEFINE v == BoundMethod(s, 0, 0)
    <3>1. \E x \in Functions_ : v = BoundMethod(x, 0, 0)
      BY <1>1
    <3> HIDE DEF v
    <3> QED BY <3>1, SetFits DEF v
  <2> QED BY <2>1 DEF AllFit, Owned
<1> HIDE DEF new
<1> QED BY <1>2, PutFits, PutOwned DEF object_bind_all, new

\* What the scope c has for a name, when it answers what it finds further up.
Above(c, name, f) ==
  LET own == _closure_get(c, name)
      up == scopes[c].up
      above == IF up = 0 THEN {ModResolve(name)}
               ELSE IF name \in {"^", scopes[up].script} THEN {ClosureValue(up)}
               ELSE f[up]
  IN (own \ {Absent}) \cup (IF Absent \in own THEN above ELSE {})

\* The scopes are asked from the inside out, and end with the module.
LEMMA ResolveExists ==
  ASSUME ScopesInv, NEW name, NEW n \in Nat, n <= Len(scopes)
  PROVE  \E f : f = [c \in 1 .. n |-> Above(c, name, f)]
<1> DEFINE A == {k \in Nat : k <= Len(scopes) => \E f : f = [c \in 1 .. k |-> Above(c, name, f)]}
<1>0. Len(scopes) \in Nat
  BY DEF ScopesInv, ScopesFit, Listing
<1>1. 0 \in A
  <2> DEFINE f == [c \in 1 .. 0 |-> 0]
  <2>1. f = [c \in 1 .. 0 |-> Above(c, name, f)]
    OBVIOUS
  <2> QED BY <2>1
<1>2. ASSUME NEW k \in Nat, k \in A PROVE k + 1 \in A
  <2> DEFINE m == k + 1
  <2> SUFFICES ASSUME m <= Len(scopes) PROVE \E f : f = [c \in 1 .. m |-> Above(c, name, f)]
    OBVIOUS
  <2>1. PICK f : f = [c \in 1 .. k |-> Above(c, name, f)]
    BY <1>0, <1>2
  <2> DEFINE g == [c \in 1 .. m |-> IF c = m THEN Above(m, name, f) ELSE f[c]]
  <2>2. \A c \in 1 .. m : c # m => c \in 1 .. k
    OBVIOUS
  <2>3. \A c \in 1 .. k : c \in 1 .. m /\ c # m
    OBVIOUS
  <2>4. \A c \in 1 .. m : c \in 1 .. Len(scopes)
    BY <1>0
  <2>5. m \in 1 .. m
    OBVIOUS
  <2>9. m \in Nat
    OBVIOUS
  <2> HIDE DEF m
  <2>6. ASSUME NEW c \in 1 .. m PROVE Above(c, name, f) = Above(c, name, g)
    <3>0. c \in Nat /\ c <= m
      BY <2>9
    <3>9. ScopeFits(scopes[c], c, scopes, Len(objects))
      BY <2>4 DEF ScopesInv, ScopesFit
    <3>1. scopes[c].up \in 0 .. c - 1 /\ c \in Nat /\ c <= m
      BY <3>0, <3>9 DEF ScopeFits
    <3>2. scopes[c].up # 0 => scopes[c].up \in 1 .. k
      BY <3>1 DEF m
    <3>3. scopes[c].up # 0 => g[scopes[c].up] = f[scopes[c].up]
      BY <2>3, <3>2
    <3> HIDE DEF g
    <3> QED BY <3>3 DEF Above
  <2>7. \A c \in 1 .. m : g[c] = Above(c, name, g)
    <3>1. \A c \in 1 .. m : g[c] = Above(c, name, f)
      BY <2>1, <2>2, <2>5
    <3> HIDE DEF g
    <3> QED BY <2>6, <3>1
  <2>8. g = [c \in 1 .. m |-> Above(c, name, g)]
    BY <2>7
  <2> HIDE DEF g
  <2> QED BY <2>8
<1>3. Nat \subseteq A
  <2> HIDE DEF A
  <2> QED BY <1>1, <1>2, SetInduction
<1> QED BY <1>3

\* What one scope has for a name.
LEMMA GetFits ==
  ASSUME ScopesInv, NEW c \in 1 .. Len(scopes), NEW name, NEW v \in _closure_get(c, name)
  PROVE  ValueFits(v, scopes, Len(objects))
<1> DEFINE no == Len(objects)
           s == scopes[c]
<1>1. ScopeFits(s, c, scopes, no)
  BY DEF ScopesInv, ScopesFit
<1>2. ValueFits(Absent, scopes, no) /\ ValueFits(Crash, scopes, no)
  BY DEF ValueFits, Absent, Crash
<1>3. \A n \in DOMAIN s.params : ValueFits(s.params[n], scopes, no)
  BY <1>1 DEF ScopeFits, AllFit
<1>4. \A n \in DOMAIN s.vars : ValueFits(s.vars[n], scopes, no)
  BY <1>1 DEF ScopeFits, AllFit
<1>5. s.self # 0 => ValueFits(ObjectValue(s.self), scopes, no)
  <2>1. s.self # 0 => s.self \in 1 .. no
    <3>1. s.self \in 0 .. no /\ no \in Nat
      BY <1>1 DEF ScopeFits, ScopesInv, ObjectsFit
    <3> HIDE DEF s, no
    <3> QED BY <3>1
  <2> HIDE DEF s, no
  <2> QED BY <2>1 DEF ValueFits, ObjectValue
<1>6. \/ v = ObjectValue(s.self) /\ s.self # 0
      \/ name \in DOMAIN s.vars /\ v = s.vars[name]
      \/ name \in DOMAIN s.params /\ v = s.params[name]
      \/ v = Absent \/ v = Crash
  <2> HIDE DEF no
  <2> QED BY DEF _closure_get
<1> HIDE DEF s, no
<1> QED BY <1>2, <1>3, <1>4, <1>5, <1>6 DEF no

LEMMA ObjectGetFits ==
  ASSUME ScopesInv, NEW o \in 1 .. Len(objects), NEW name
  PROVE  ValueFits(object_get(o, name), scopes, Len(objects))
<1> DEFINE no == Len(objects)
<1>1. \A n \in DOMAIN objects[o].vars : ValueFits(objects[o].vars[n], scopes, no)
  BY DEF ScopesInv, ObjectsFit, ObjectFits, AllFit
<1>2. ValueFits(Absent, scopes, no) /\ ValueFits(<<"bool", objects[o].constructing>>, scopes, no)
  BY DEF ValueFits, Absent
<1> HIDE DEF no
<1> QED BY <1>1, <1>2 DEF object_get, no

\* Whatever a name turns out to mean is a value that fits.
LEMMA ResolvedFits ==
  ASSUME ScopesInv, frames # <<>>, NEW name, NEW v \in closure_resolve(name)
  PROVE  ValueFits(v, scopes, Len(objects))
<1> DEFINE no == Len(objects)
           n == Len(scopes)
           resolve[c \in 1 .. Len(scopes)] ==
             LET own == _closure_get(c, name)
                 up == scopes[c].up
                 above == IF up = 0 THEN {ModResolve(name)}
                          ELSE IF name \in {"^", scopes[up].script} THEN {ClosureValue(up)}
                          ELSE resolve[up]
             IN (own \ {Absent}) \cup (IF Absent \in own THEN above ELSE {})
<1>1. closure_resolve(name) = resolve[LastOf.scope]
  BY DEF closure_resolve
<1>2. n \in Nat
  BY DEF ScopesInv, ScopesFit, Listing
<1>3. PICK f : f = [c \in 1 .. n |-> Above(c, name, f)]
  <2> HIDE DEF n
  <2>1. n <= Len(scopes)
    BY <1>2 DEF n
  <2> QED BY <1>2, <2>1, ResolveExists
<1>4. resolve = [c \in 1 .. n |-> Above(c, name, resolve)]
  <2>1. f = [c \in 1 .. Len(scopes) |->
             LET own == _closure_get(c, name)
                 up == scopes[c].up
                 above == IF up = 0 THEN {ModResolve(name)}
                          ELSE IF name \in {"^", scopes[up].script} THEN {ClosureValue(up)}
                          ELSE f[up]
             IN (own \ {Absent}) \cup (IF Absent \in own THEN above ELSE {})]
    BY <1>3 DEF Above
  <2>2. resolve = [c \in 1 .. Len(scopes) |->
             LET own == _closure_get(c, name)
                 up == scopes[c].up
                 above == IF up = 0 THEN {ModResolve(name)}
                          ELSE IF name \in {"^", scopes[up].script} THEN {ClosureValue(up)}
                          ELSE resolve[up]
             IN (own \ {Absent}) \cup (IF Absent \in own THEN above ELSE {})]
    BY <2>1
  <2> HIDE DEF resolve
  <2> QED BY <2>2 DEF Above
<1> HIDE DEF resolve
<1> DEFINE A == {k \in Nat : \A c \in 1 .. k : c <= n => \A x \in resolve[c] : ValueFits(x, scopes, no)}
<1>5. 0 \in A
  OBVIOUS
<1>6. ASSUME NEW k \in Nat, k \in A PROVE k + 1 \in A
  <2> DEFINE m == k + 1
  <2>0. \A c \in 1 .. m : c # m => c \in 1 .. k
    OBVIOUS
  <2>1. m \in Nat
    OBVIOUS
  <2>2. ASSUME m <= n, NEW x \in resolve[m] PROVE ValueFits(x, scopes, no)
    <3>1. m \in 1 .. n /\ m \in 1 .. Len(scopes)
      BY <1>2, <2>2
    <3>2. scopes[m].up \in 0 .. m - 1
      BY <3>1 DEF ScopesInv, ScopesFit, ScopeFits
    <3>3. scopes[m].up # 0 => scopes[m].up \in 1 .. k /\ scopes[m].up \in 1 .. n
      BY <1>2, <2>2, <3>2
    <3>4. resolve[m] = Above(m, name, resolve)
      BY <1>4, <3>1
    <3> DEFINE up == scopes[m].up
    <3>5. ValueFits(ModResolve(name), scopes, no)
      <4>1. 1 \in 1 .. Len(objects)
        BY DEF ScopesInv, ObjectsFit
      <4> QED BY <4>1, ObjectGetFits DEF ModResolve
    <3> HIDE DEF m
    <3>6. \/ x \in _closure_get(m, name) \/ x = ModResolve(name)
          \/ up # 0 /\ x = ClosureValue(up)
          \/ up # 0 /\ x \in resolve[up]
      BY <2>2, <3>4 DEF Above
    <3>7. up # 0 => ValueFits(ClosureValue(up), scopes, no)
      BY <3>3 DEF ValueFits, ClosureValue
    <3>8. up # 0 => \A y \in resolve[up] : ValueFits(y, scopes, no)
      BY <1>2, <1>6, <3>3
    <3> HIDE DEF up
    <3> QED BY <3>1, <3>5, <3>6, <3>7, <3>8, GetFits
  <2> HIDE DEF m
  <2>3. \A c \in 1 .. m : c <= n => \A x \in resolve[c] : ValueFits(x, scopes, no)
    BY <1>6, <2>0, <2>2
  <2> QED BY <2>1, <2>3 DEF m
<1>7. Nat \subseteq A
  <2> HIDE DEF A
  <2> QED BY <1>5, <1>6, SetInduction
<1>8. LastOf.scope \in 1 .. n
  <2>1. Len(frames) \in 1 .. Len(frames)
    BY DEF ScopesInv, FramesFit, Listing
  <2> QED BY <2>1 DEF LastOf, ScopesInv, FramesFit, FrameFits
<1>9. n \in A
  BY <1>2, <1>7
<1> DEFINE k == LastOf.scope
<1>10. k \in 1 .. n /\ k <= n /\ v \in resolve[k]
  BY <1>1, <1>2, <1>8
<1> HIDE DEF k
<1> QED BY <1>9, <1>10

\* The scopes fit for as many more scopes and objects as there are.
LEMMA WorldGrows ==
  ASSUME NEW sc, NEW no, NEW s2, NEW n2, GrowsTo(sc, no, s2, n2)
  PROVE  /\ \A obs : Len(obs) = no /\ n2 = no /\ ObjectsFit(obs, sc) => ObjectsFit(obs, s2)
         /\ \A fr : FramesFit(fr, Len(sc), no) => FramesFit(fr, Len(s2), n2)
         /\ ScopesFit(sc, no) => \A c \in 1 .. Len(sc) : ScopeFits(sc[c], c, s2, n2)
<1>1. ASSUME NEW obs, Len(obs) = no, n2 = no, ObjectsFit(obs, sc) PROVE ObjectsFit(obs, s2)
  BY <1>1, FitsOn DEF ObjectsFit
<1>2. ASSUME NEW fr, FramesFit(fr, Len(sc), no) PROVE FramesFit(fr, Len(s2), n2)
  BY <1>2, FitsOn DEF FramesFit
<1>3. ASSUME ScopesFit(sc, no), NEW c \in 1 .. Len(sc) PROVE ScopeFits(sc[c], c, s2, n2)
  <2>1. c \in 1 .. Len(sc) + 1
    BY DEF GrowsTo
  <2>2. ScopeFits(sc[c], c, sc, no)
    BY <1>3 DEF ScopesFit
  <2> QED BY <2>1, <2>2, FitsOn
<1> QED BY <1>1, <1>2, <1>3

LEMMA ScopeChanges ==
  ASSUME NEW sc, NEW no \in Nat, ScopesFit(sc, no), NEW c \in 1 .. Len(sc), NEW s, ScopeFits(s, c, sc, no),
         s.script = sc[c].script, NEW t, t = [sc EXCEPT ![c] = s]
  PROVE  ScopesFit(t, no) /\ GrowsTo(sc, no, t, no) /\ OneOther(sc, c, s, t)
<1>1. OneOther(sc, c, s, t)
  BY ChangesOne DEF ScopesFit
<1>2. GrowsTo(sc, no, t, no)
  BY <1>1 DEF OneOther, GrowsTo
<1>3. ASSUME NEW d \in 1 .. Len(t) PROVE ScopeFits(t[d], d, t, no)
  <2>1. d \in 1 .. Len(sc) /\ d \in 1 .. Len(sc) + 1
    BY <1>1 DEF OneOther
  <2>2. ScopeFits(t[d], d, sc, no)
    BY <1>1, <2>1 DEF OneOther, ScopesFit
  <2> QED BY <1>2, <2>1, <2>2, FitsOn
<1> QED BY <1>1, <1>2, <1>3 DEF ScopesFit, OneOther

LEMMA ScopeAdded ==
  ASSUME NEW sc, NEW no \in Nat, ScopesFit(sc, no), NEW s, NEW t, t = Append(sc, s), ScopeFits(s, Len(sc) + 1, t, no)
  PROVE  ScopesFit(t, no) /\ GrowsTo(sc, no, t, no) /\ OneMore(sc, s, t)
<1>1. OneMore(sc, s, t)
  BY AppendsOne DEF ScopesFit
<1>2. GrowsTo(sc, no, t, no)
  BY <1>1 DEF OneMore, GrowsTo
<1>3. ASSUME NEW d \in 1 .. Len(t) PROVE ScopeFits(t[d], d, t, no)
  <2>1. d \in 1 .. Len(sc) \/ d = Len(sc) + 1
    BY <1>1 DEF OneMore
  <2>2. CASE d = Len(sc) + 1
    BY <1>1, <2>2 DEF OneMore
  <2>3. CASE d \in 1 .. Len(sc)
    <3>1. ScopeFits(sc[d], d, t, no)
      BY <1>2, <2>3, WorldGrows
    <3> QED BY <1>1, <2>3, <3>1 DEF OneMore
  <2> QED BY <2>1, <2>2, <2>3
<1> QED BY <1>1, <1>3, <1>2 DEF ScopesFit, OneMore

\* The arguments of a call: none, or a value that fits.
ArgsOf(args, sc, no) == args = <<>> \/ \E v : args = <<v>> /\ ValueFits(v, sc, no)

\* A closure with all its arguments has them as parameters.
LEMMA Starting ==
  ASSUME NEW s, NEW c, NEW sc, NEW no, ScopeFits(s, c, sc, no), NEW args, ArgsOf(args, sc, no), ~TooFew(s, args),
         NEW t, t = Starts(s, args)
  PROVE  ScopeFits(t, c, sc, no) /\ t.script = s.script /\ t.entered = s.entered + 1 /\ GivenTo(t, args)
<1> DEFINE P == ParamsOf[s.script]
<1>1. P \in Seq(Range(P)) /\ Len(P) \in Nat
  BY ScopesAssumption DEF ScopeFits
<1>2. CASE P = <<>>
  <2>1. t = [s EXCEPT !.entered = @ + 1]
    BY <1>2 DEF Starts
  <2>2. t = [script |-> s.script, up |-> s.up, self |-> s.self, params |-> s.params,
             held |-> s.held, entered |-> s.entered + 1, vars |-> s.vars]
    <3>1. s = [script |-> s.script, up |-> s.up, self |-> s.self, params |-> s.params,
               held |-> s.held, entered |-> s.entered, vars |-> s.vars]
      BY DEF ScopeFits
    <3> QED BY <2>1, <3>1
  <2>3. ScopeFits(t, c, sc, no)
    BY <2>2 DEF ScopeFits
  <2> QED BY <1>2, <2>2, <2>3 DEF GivenTo
<1>3. CASE P # <<>>
  <2>1. Len(P) # 0 /\ Len(args) >= Len(P)
    <3>1. Len(args) \in Nat
      BY DEF ArgsOf
    <3> QED BY <1>1, <1>3, <3>1 DEF TooFew
  <2>2. PICK v : args = <<v>> /\ ValueFits(v, sc, no)
    <3>1. args # <<>>
      BY <1>1, <2>1
    <3> QED BY <3>1 DEF ArgsOf
  <2> DEFINE ps == [n \in {P[i] : i \in DOMAIN args} |-> args[CHOOSE i \in DOMAIN args : P[i] = n]]
  <2>3. DOMAIN args = {1} /\ args[1] = v
    BY <2>2
  <2>4. DOMAIN ps = {P[1]} /\ ps[P[1]] = v
    <3>1. {P[i] : i \in DOMAIN args} = {P[1]}
      BY <2>3
    <3>2. (CHOOSE i \in DOMAIN args : P[i] = P[1]) = 1
      BY <2>3
    <3> HIDE DEF P
    <3> QED BY <2>3, <3>1, <3>2
  <2> HIDE DEF ps
  <2>5. t = [script |-> s.script, up |-> s.up, self |-> s.self, params |-> ps,
             held |-> "held", entered |-> s.entered + 1, vars |-> s.vars]
    <3>1. s = [script |-> s.script, up |-> s.up, self |-> s.self, params |-> s.params,
               held |-> s.held, entered |-> s.entered, vars |-> s.vars]
      BY DEF ScopeFits
    <3>2. t = WithParams(s, args)
      BY <1>3 DEF Starts
    <3>3. t = [s EXCEPT !.params = ps, !.held = "held", !.entered = @ + 1]
      BY <3>2 DEF WithParams, ps
    <3> QED BY <3>1, <3>3
  <2>6. AllFit(ps, sc, no)
    BY <2>2, <2>4 DEF AllFit
  <2>7. ScopeFits(t, c, sc, no)
    BY <2>5, <2>6 DEF ScopeFits
  <2> QED BY <2>3, <2>4, <2>5, <2>7 DEF GivenTo
<1> QED BY <1>2, <1>3

\* One that ends keeps what it had.
LEMMA Ending ==
  ASSUME NEW s, NEW c, NEW sc, NEW no, ScopeFits(s, c, sc, no), NEW e, e = Ended(s)
  PROVE  ScopeFits(e, c, sc, no) /\ e.script = s.script /\ e.entered = s.entered
<1>1. s = [script |-> s.script, up |-> s.up, self |-> s.self, params |-> s.params,
           held |-> s.held, entered |-> s.entered, vars |-> s.vars]
  BY DEF ScopeFits
<1>2. CASE s.held = "none"
  BY <1>2 DEF Ended
<1>3. CASE s.held # "none"
  <2>1. e = [script |-> s.script, up |-> s.up, self |-> s.self, params |-> s.params,
             held |-> "freed", entered |-> s.entered, vars |-> s.vars]
    BY <1>1, <1>3 DEF Ended
  <2> QED BY <2>1 DEF ScopeFits
<1> QED BY <1>2, <1>3

\* One that was called with too little too.
LEMMA Refusing ==
  ASSUME NEW s, NEW c, NEW sc, NEW no, ScopeFits(s, c, sc, no), NEW t, t = RefusedCall(s)
  PROVE  ScopeFits(t, c, sc, no) /\ t.script = s.script /\ t.entered = s.entered + 1
<1> DEFINE e == Ended(s)
<1>1. ScopeFits(e, c, sc, no) /\ e.script = s.script /\ e.entered = s.entered
  BY Ending
<1>2. t = [e EXCEPT !.entered = @ + 1]
  BY DEF RefusedCall
<1> HIDE DEF e
<1>3. e = [script |-> e.script, up |-> e.up, self |-> e.self, params |-> e.params,
           held |-> e.held, entered |-> e.entered, vars |-> e.vars]
  BY <1>1 DEF ScopeFits
<1>4. t = [script |-> e.script, up |-> e.up, self |-> e.self, params |-> e.params,
           held |-> e.held, entered |-> e.entered + 1, vars |-> e.vars]
  BY <1>2, <1>3
<1>5. e.entered + 1 \in Nat
  BY <1>1 DEF ScopeFits
<1>6. ScopeFits(t, c, sc, no)
  BY <1>1, <1>4, <1>5 DEF ScopeFits
<1> QED BY <1>1, <1>4, <1>6
-----------------------------------------------------------------------------
(* A call finds the scopes in order: those that are there were entered,    *)
(* and one that was made for it was not.                                   *)
CanRun(c, made, no) ==
  /\ no \in Nat /\ ScopesFit(made, no) /\ GrowsTo(scopes, Len(objects), made, no) /\ c \in 1 .. Len(made)
  /\ FramesFit(frames, Len(scopes), Len(objects)) /\ RunsAsGiven(frames, made)
  /\ c <= Len(scopes) <=> made[c].entered # 0
  /\ \A d \in 1 .. Len(made) : d # c => made[d].entered # 0

\* What a call leaves.
Executed(no, kind, o) ==
  /\ ScopesFit(scopes', no) /\ GrowsTo(scopes, Len(objects), scopes', no)
  /\ AllEntered(scopes') /\ RunsAsGiven(frames', scopes') /\ FramesFit(frames', Len(scopes'), no)
  /\ ValueFits(acc', scopes', no)

LEMMA Executes ==
  ASSUME NEW c, NEW made, NEW no, CanRun(c, made, no), NEW args, ArgsOf(args, made, no),
         NEW kind, NEW o, kind = "new" => o \in 1 .. no,
         closure_execute(c, made, kind, o, args)
  PROVE  \/ c <= Len(scopes) /\ Gone
         \/ Executed(no, kind, o)
<1>0. no \in Nat /\ ScopesFit(made, no) /\ GrowsTo(scopes, Len(objects), made, no) /\ c \in 1 .. Len(made)
      /\ FramesFit(frames, Len(scopes), Len(objects)) /\ ScopeFits(made[c], c, made, no)
      /\ Len(scopes) \in Nat /\ Len(made) \in Nat
  BY DEF CanRun, ScopesFit, GrowsTo
<1>1. FramesFit(frames, Len(made), no)
  BY <1>0, WorldGrows
<1>2. \A i \in 1 .. Len(frames) : frames[i].scope \in 1 .. Len(scopes)
  BY <1>0 DEF FramesFit, FrameFits
<1>3. ASSUME NEW s, ScopeFits(s, c, made, no), s.script = made[c].script, s.entered = made[c].entered + 1,
             scopes' = [made EXCEPT ![c] = s]
      PROVE  /\ ScopesFit(scopes', no) /\ GrowsTo(scopes, Len(objects), scopes', no) /\ AllEntered(scopes')
             /\ FramesFit(frames, Len(scopes'), no) /\ RunsAsGiven(frames, scopes') /\ OneOther(made, c, s, scopes')
             /\ s.entered = 1 => \A i \in 1 .. Len(frames) : frames[i].scope # c
  <2>1. ScopesFit(scopes', no) /\ GrowsTo(made, no, scopes', no) /\ OneOther(made, c, s, scopes')
    BY <1>0, <1>3, ScopeChanges
  <2>2. GrowsTo(scopes, Len(objects), scopes', no)
    BY <1>0, <2>1 DEF GrowsTo
  <2>3. made[c].entered \in Nat
    BY <1>0 DEF ScopeFits
  <2>4. AllEntered(scopes')
    <3>1. \A d \in 1 .. Len(made) : d # c => made[d].entered # 0
      BY DEF CanRun
    <3>2. s.entered # 0
      BY <1>3, <2>3
    <3> QED BY <2>1, <3>1, <3>2 DEF AllEntered, OneOther
  <2>5. s.entered = 1 => \A i \in 1 .. Len(frames) : frames[i].scope # c
    <3>1. s.entered = 1 => ~(c <= Len(scopes))
      BY <1>3, <2>3 DEF CanRun
    <3> QED BY <1>2, <3>1
  <2>6. RunsAsGiven(frames, scopes')
    <3>1. \A i \in 1 .. Len(frames) : scopes'[frames[i].scope].entered = 1 =>
            frames[i].scope # c /\ scopes'[frames[i].scope] = made[frames[i].scope]
      <4>1. \A i \in 1 .. Len(frames) : frames[i].scope \in 1 .. Len(made)
        BY <1>0, <1>2 DEF GrowsTo
      <4> QED BY <2>1, <2>5, <4>1 DEF OneOther
    <3> QED BY <3>1 DEF RunsAsGiven, CanRun
  <2>7. FramesFit(frames, Len(scopes'), no)
    BY <1>1, <2>1 DEF OneOther
  <2> QED BY <2>1, <2>2, <2>4, <2>5, <2>6, <2>7
<1>4. CASE /\ TooFew(made[c], args) /\ acc' = Raised("ErrorArgCount")
           /\ scopes' = [made EXCEPT ![c] = RefusedCall(@)] /\ frames' = frames
  <2> DEFINE s == RefusedCall(made[c])
  <2>1. scopes' = [made EXCEPT ![c] = s]
    BY <1>4
  <2>2. ScopeFits(s, c, made, no) /\ s.script = made[c].script /\ s.entered = made[c].entered + 1
    <3> DEFINE m == made[c]
    <3>1. s = RefusedCall(m) /\ ScopeFits(m, c, made, no)
      BY <1>0
    <3> HIDE DEF s, m
    <3>2. ScopeFits(s, c, made, no) /\ s.script = m.script /\ s.entered = m.entered + 1
      BY <3>1, Refusing
    <3> QED BY <3>2 DEF m
  <2> HIDE DEF s
  <2>3. ValueFits(acc', scopes', no)
    BY <1>4 DEF ValueFits, Raised
  <2> QED BY <1>3, <1>4, <2>1, <2>2, <2>3 DEF Executed
<1>5. CASE /\ ~TooFew(made[c], args) /\ acc' = Absent
           /\ scopes' = [made EXCEPT ![c] = Starts(@, args)]
           /\ frames' = Append(frames, [scope |-> c, kind |-> kind, obj |-> o, args |-> args])
  <2> DEFINE s == Starts(made[c], args)
             f == [scope |-> c, kind |-> kind, obj |-> o, args |-> args]
  <2>1. scopes' = [made EXCEPT ![c] = s] /\ frames' = Append(frames, f)
    BY <1>0, <1>5
  <2>2. ScopeFits(s, c, made, no) /\ s.script = made[c].script /\ s.entered = made[c].entered + 1 /\ GivenTo(s, args)
    BY <1>0, <1>5, Starting
  <2>3. f.scope = c /\ f.args = args /\ FrameFits(f, Len(made), no)
    BY <1>0 DEF FrameFits
  <2> HIDE DEF s, f
  <2>4. /\ ScopesFit(scopes', no) /\ GrowsTo(scopes, Len(objects), scopes', no) /\ AllEntered(scopes')
        /\ FramesFit(frames, Len(scopes'), no) /\ RunsAsGiven(frames, scopes') /\ OneOther(made, c, s, scopes')
        /\ s.entered = 1 => \A i \in 1 .. Len(frames) : frames[i].scope # c
    BY <1>3, <2>1, <2>2
  <2>5. OneMore(frames, f, frames')
    BY <1>0, <2>1, AppendsOne DEF FramesFit
  <2>6. Len(scopes') = Len(made) /\ scopes'[c] = s
    BY <2>4 DEF OneOther
  <2>7. \A i \in 1 .. Len(frames') : i \in 1 .. Len(frames) \/ i = Len(frames) + 1
    BY <2>5 DEF OneMore
  <2>8. FramesFit(frames', Len(scopes'), no)
    BY <2>3, <2>4, <2>5, <2>6, <2>7 DEF FramesFit, OneMore
  <2>9. RunsAsGiven(frames', scopes')
    <3>1. frames'[Len(frames) + 1] = f /\ \A i \in 1 .. Len(frames) : frames'[i] = frames[i]
      BY <2>5 DEF OneMore
    <3>2. \A i, j \in 1 .. Len(frames') :
            scopes'[frames'[i].scope].entered = 1 /\ frames'[i].scope = frames'[j].scope => i = j
      BY <2>3, <2>4, <2>6, <2>7, <3>1 DEF RunsAsGiven
    <3>3. \A i \in 1 .. Len(frames') :
            scopes'[frames'[i].scope].entered = 1 => GivenTo(scopes'[frames'[i].scope], frames'[i].args)
      BY <2>2, <2>3, <2>4, <2>6, <2>7, <3>1 DEF RunsAsGiven
    <3> QED BY <3>2, <3>3 DEF RunsAsGiven
  <2>10. ValueFits(acc', scopes', no)
    BY <1>5 DEF ValueFits, Absent
  <2> QED BY <2>4, <2>8, <2>9, <2>10 DEF Executed
<1> QED BY <1>4, <1>5 DEF closure_execute

(* The closure s of a script is made for a call, t are the scopes with it, *)
(* in a world of no objects.                                               *)
IsMadeFor(no, script, self, up, s, t) ==
  /\ no \in Nat /\ ScopesFit(scopes, no) /\ script \in Functions_ /\ self \in 0 .. no
  /\ up \in 0 .. Len(scopes) /\ (up # 0 => scopes[up].script = UpOf[script])
  /\ s = closure_create(script, up, self) /\ t = Append(scopes, s)
MadeFor(no, script, s, t) ==
  /\ ScopesFit(t, no) /\ GrowsTo(scopes, no, t, no) /\ OneMore(scopes, s, t)
  /\ s.entered = 0 /\ s.script = script

\* A closure that was made for a call fits behind the ones that are there.
LEMMA MakingFits ==
  ASSUME NEW no, NEW script, NEW self, NEW up, NEW s, NEW t, IsMadeFor(no, script, self, up, s, t)
  PROVE  MadeFor(no, script, s, t)
<1> SUFFICES ASSUME no \in Nat, ScopesFit(scopes, no), script \in Functions_, self \in 0 .. no,
                    up \in 0 .. Len(scopes), up # 0 => scopes[up].script = UpOf[script],
                    s = closure_create(script, up, self), t = Append(scopes, s)
             PROVE  /\ ScopesFit(t, no) /\ GrowsTo(scopes, no, t, no) /\ OneMore(scopes, s, t)
                    /\ s.entered = 0 /\ s.script = script
  BY DEF IsMadeFor, MadeFor
<1> DEFINE n == Len(scopes) + 1
           vars == _closure_create_closure_reducer(script, self, n)
<1>0. Len(scopes) \in Nat /\ n \in Nat
  BY DEF ScopesFit, Listing
<1>1. s = [script |-> script, up |-> up, self |-> self, params |-> NoValues, held |-> "none", entered |-> 0,
           vars |-> vars]
  BY DEF closure_create
<1>2. OneMore(scopes, s, t)
  BY AppendsOne DEF ScopesFit
<1> HIDE DEF vars
<1>3. s.entered = 0 /\ s.script = script /\ s.up = up /\ s.self = self /\ s.params = NoValues /\ s.vars = vars
  BY <1>1
<1>4. t[n] = s /\ Len(t) = n /\ n \in 1 .. Len(t) /\ \A c \in 1 .. Len(scopes) : t[c] = scopes[c]
  <2> HIDE DEF vars
  <2> QED BY <1>0, <1>2 DEF OneMore
<1>5. AllFit(vars, t, no)
  <2>1. ASSUME NEW k \in InnerOf(script) PROVE ValueFits(BoundMethod(k, self, n), t, no)
    <3> DEFINE bm == [script |-> k, self |-> self, closure |-> n]
    <3>1. k \in Functions_ /\ UpOf[k] = script
      BY <2>1 DEF InnerOf
    <3>2. n \in 0 .. Len(t)
      BY <1>0, <1>4
    <3>3. bm \in [script : Functions_, self : 0 .. no, closure : 0 .. Len(t)] /\ bm.closure = n /\ bm.script = k
      <4> HIDE DEF n
      <4> QED BY <3>1, <3>2
    <3> HIDE DEF bm
    <3>4. BoundFits(bm, t, no)
      <4> HIDE DEF n
      <4> QED BY <1>3, <1>4, <3>1, <3>3 DEF BoundFits
    <3> QED BY <3>4 DEF ValueFits, BoundMethod, bm
  <2> HIDE DEF n
  <2> QED BY <2>1 DEF AllFit, _closure_create_closure_reducer, vars
<1>6. AllFit(NoValues, t, no)
  BY DEF AllFit, NoValues
<1>7. up # 0 => t[up].script = UpOf[script]
  <2>1. up # 0 => up \in 1 .. Len(scopes)
    BY <1>0
  <2> QED BY <1>4, <2>1
<1>8. up \in 0 .. n - 1
  BY <1>0
<1>9. ScopeFits(s, Len(scopes) + 1, t, no)
  <2>1. s = [script |-> s.script, up |-> s.up, self |-> s.self, params |-> s.params,
             held |-> s.held, entered |-> s.entered, vars |-> s.vars]
    BY <1>1
  <2>2. s.entered \in Nat
    BY <1>3
  <2> HIDE DEF n
  <2>3. ScopeFits(s, n, t, no)
    BY <2>1, <2>2, <1>3, <1>5, <1>6, <1>7, <1>8 DEF ScopeFits
  <2> QED BY <2>3 DEF n
<1>10. ScopesFit(t, no) /\ GrowsTo(scopes, no, t, no)
  BY <1>9, ScopeAdded
<1> QED BY <1>2, <1>3, <1>10

\* The scopes go on to fit when there are more objects.
LEMMA MoreObjects ==
  ASSUME ScopesInv, NEW no \in Nat, Len(objects) <= no
  PROVE  ScopesFit(scopes, no) /\ GrowsTo(scopes, Len(objects), scopes, no)
<1>1. GrowsTo(scopes, Len(objects), scopes, no)
  BY DEF ScopesInv, ScopesFit, ObjectsFit, Listing, GrowsTo
<1> QED BY <1>1, WorldGrows DEF ScopesInv, ScopesFit

\* A call of what was just made.
LEMMA MadeIsCallable ==
  ASSUME ScopesInv, NEW no \in Nat, Len(objects) <= no, NEW script \in Functions_, NEW self \in 0 .. no,
         NEW up \in 0 .. Len(scopes), up # 0 => scopes[up].script = UpOf[script],
         NEW s, s = closure_create(script, up, self), NEW t, t = Append(scopes, s)
  PROVE  CanRun(Len(scopes) + 1, t, no) /\ t[Len(scopes) + 1] = s
<1> DEFINE n == Len(scopes) + 1
<1>0. ScopesFit(scopes, no) /\ GrowsTo(scopes, Len(objects), scopes, no) /\ Len(scopes) \in Nat
  BY MoreObjects DEF GrowsTo
<1>1. ScopesFit(t, no) /\ GrowsTo(scopes, no, t, no) /\ OneMore(scopes, s, t) /\ s.entered = 0
  <2>1. IsMadeFor(no, script, self, up, s, t)
    BY <1>0 DEF IsMadeFor
  <2>2. MadeFor(no, script, s, t)
    BY <2>1, MakingFits
  <2> QED BY <2>2 DEF MadeFor
<1>2. Len(t) = n /\ t[n] = s /\ \A c \in 1 .. Len(scopes) : t[c] = scopes[c]
  BY <1>1 DEF OneMore
<1>3. n \in 1 .. Len(t) /\ ~(n <= Len(scopes)) /\ \A d \in 1 .. Len(t) : d # n => d \in 1 .. Len(scopes)
  BY <1>0, <1>2
<1>4. GrowsTo(scopes, Len(objects), t, no)
  BY <1>0, <1>1 DEF GrowsTo
<1>5. RunsAsGiven(frames, t)
  <2>1. \A i \in 1 .. Len(frames) : t[frames[i].scope] = scopes[frames[i].scope]
    BY <1>2 DEF ScopesInv, FramesFit, FrameFits
  <2> QED BY <2>1 DEF RunsAsGiven, ScopesInv
<1>6. FramesFit(frames, Len(scopes), Len(objects)) /\ \A d \in 1 .. Len(scopes) : scopes[d].entered # 0
  BY DEF ScopesInv, AllEntered
<1> HIDE DEF n
<1>7. CanRun(n, t, no)
  BY <1>1, <1>2, <1>3, <1>4, <1>5, <1>6 DEF CanRun
<1> QED BY <1>2, <1>7 DEF n

\* A call of what is there.
LEMMA ThereIsCallable ==
  ASSUME ScopesInv, NEW c \in 1 .. Len(scopes)
  PROVE  CanRun(c, scopes, Len(objects))
<1>1. Len(objects) \in Nat /\ Len(scopes) \in Nat /\ ScopesFit(scopes, Len(objects))
  BY DEF ScopesInv, ObjectsFit, ScopesFit, Listing
<1>2. GrowsTo(scopes, Len(objects), scopes, Len(objects))
  BY <1>1 DEF GrowsTo
<1>3. FramesFit(frames, Len(scopes), Len(objects)) /\ RunsAsGiven(frames, scopes) /\ \A d \in 1 .. Len(scopes) : scopes[d].entered # 0
  BY DEF ScopesInv, AllEntered
<1>4. c <= Len(scopes)
  BY <1>1
<1> QED BY <1>1, <1>2, <1>3, <1>4 DEF CanRun

\* What is at hand can be passed.
LEMMA AtHandPassed ==
  ASSUME ScopesInv, NEW args \in Argument, NEW made, NEW no, GrowsTo(scopes, Len(objects), made, no)
  PROVE  ArgsOf(args, made, no)
<1>1. ValueFits(acc, made, no)
  BY FitsOn DEF ScopesInv
<1> QED BY <1>1 DEF Argument, ArgsOf

\* What is at hand and can be constructed has a script.
LEMMA ScriptIsThere ==
  ASSUME ScopesInv, acc[1] \in {"object", "closure", "bound"}
  PROVE  ScriptOf(acc) \in Functions_
<1>1. CASE acc[1] = "object"
  <2>1. acc[2] \in 1 .. Len(objects) /\ ScriptOf(acc) = objects[acc[2]].constructor
    BY <1>1 DEF ScopesInv, ValueFits, ScriptOf
  <2> QED BY <2>1 DEF ScopesInv, ObjectsFit, ObjectFits
<1>2. CASE acc[1] = "closure"
  <2>1. acc[2] \in 1 .. Len(scopes) /\ ScriptOf(acc) = scopes[acc[2]].script
    BY <1>2 DEF ScopesInv, ValueFits, ScriptOf
  <2> QED BY <2>1 DEF ScopesInv, ScopesFit, ScopeFits
<1>3. CASE acc[1] = "bound"
  <2>1. BoundFits(acc[2], scopes, Len(objects)) /\ ScriptOf(acc) = acc[2].script
    BY <1>3 DEF ScopesInv, ValueFits, ScriptOf
  <2> QED BY <2>1 DEF BoundFits
<1> QED BY <1>1, <1>2, <1>3

\* Of a frame that runs.
LEMMA LastIsThere ==
  ASSUME ScopesInv, frames # <<>>
  PROVE  /\ Len(frames) \in Nat \ {0} /\ Len(frames) \in 1 .. Len(frames) /\ LastOf = frames[Len(frames)]
         /\ LastOf.scope \in 1 .. Len(scopes) /\ scopes[LastOf.scope].self \in 0 .. Len(objects)
         /\ LastOf.kind = "new" => LastOf.obj \in 1 .. Len(objects)
<1>1. Len(frames) \in Nat \ {0} /\ Len(frames) \in 1 .. Len(frames)
  BY DEF ScopesInv, FramesFit, Listing
<1>2. LastOf.scope \in 1 .. Len(scopes) /\ (LastOf.kind = "new" => LastOf.obj \in 1 .. Len(objects))
  BY <1>1 DEF LastOf, ScopesInv, FramesFit, FrameFits
<1>3. scopes[LastOf.scope].self \in 0 .. Len(objects)
  BY <1>2 DEF ScopesInv, ScopesFit, ScopeFits
<1> QED BY <1>1, <1>2, <1>3 DEF LastOf

\* Only what is at hand changes.
LEMMA AccChanges ==
  ASSUME ScopesInv, UNCHANGED <<scopes, objects, frames>>, ValueFits(acc', scopes, Len(objects))
  PROVE  ScopesInv'
BY DEF ScopesInv

LEMMA PlainFits ==
  ASSUME NEW sc, NEW no
  PROVE  ValueFits(Absent, sc, no) /\ \A code : ValueFits(Raised(code), sc, no)
BY DEF ValueFits, Absent, Raised

LEMMA GoneKeeps ==
  ASSUME ScopesInv, Gone
  PROVE  ScopesInv'
BY DEF ScopesInv, Gone

LEMMA GetNameKeeps ==
  ASSUME ScopesInv, GetName
  PROVE  ScopesInv'
<1>0. PICK name \in NamesRead : \E value \in closure_resolve(name) :
        \/ value = Crash /\ Gone
        \/ /\ value # Crash /\ acc' = (IF value = Absent THEN Raised("ErrorName") ELSE value)
           /\ UNCHANGED <<scopes, objects, frames, crashed>>
  BY DEF GetName
<1>1. PICK value \in closure_resolve(name) :
        \/ value = Crash /\ Gone
        \/ /\ value # Crash /\ acc' = (IF value = Absent THEN Raised("ErrorName") ELSE value)
           /\ UNCHANGED <<scopes, objects, frames, crashed>>
  BY <1>0
<1>2. frames # <<>>
  BY DEF GetName, Runs
<1>3. ValueFits(value, scopes, Len(objects))
  BY <1>2, ResolvedFits
<1>4. CASE value # Crash /\ acc' = (IF value = Absent THEN Raised("ErrorName") ELSE value)
           /\ UNCHANGED <<scopes, objects, frames, crashed>>
  <2>1. ValueFits(acc', scopes, Len(objects))
    BY <1>3, <1>4, PlainFits
  <2> QED BY <1>4, <2>1, AccChanges
<1> QED BY <1>1, <1>4, GoneKeeps

\* A scope that is there gets another name, or another value for one.
LEMMA NameSet ==
  ASSUME NEW s, NEW c, NEW sc, NEW no, ScopeFits(s, c, sc, no), NEW vs, AllFit(vs, sc, no),
         NEW t, t = [s EXCEPT !.vars = vs]
  PROVE  /\ ScopeFits(t, c, sc, no) /\ t.script = s.script /\ t.entered = s.entered
         /\ t.held = s.held /\ t.params = s.params
<1>1. s = [script |-> s.script, up |-> s.up, self |-> s.self, params |-> s.params,
           held |-> s.held, entered |-> s.entered, vars |-> s.vars]
  BY DEF ScopeFits
<1>2. t = [script |-> s.script, up |-> s.up, self |-> s.self, params |-> s.params,
           held |-> s.held, entered |-> s.entered, vars |-> vs]
  BY <1>1
<1>3. ScopeFits(t, c, sc, no)
  BY <1>2 DEF ScopeFits
<1> QED BY <1>2, <1>3

LEMMA SetKeeps ==
  ASSUME ScopesInv, closure_set
  PROVE  ScopesInv'
<1> DEFINE c == LastOf.scope
           no == Len(objects)
<1>1. PICK name \in NamesSet : scopes' = [scopes EXCEPT ![c].vars = PutOne(name, acc, @)]
  BY DEF closure_set
<1>2. c \in 1 .. Len(scopes) /\ no \in Nat /\ ScopesFit(scopes, no)
  BY LastIsThere DEF closure_set, Runs, ScopesInv, ObjectsFit
<1> DEFINE m == scopes[c]
           vs == PutOne(name, acc, m.vars)
           s == [m EXCEPT !.vars = vs]
<1>3. scopes' = [scopes EXCEPT ![c] = s]
  BY <1>1
<1>4. ScopeFits(m, c, scopes, no)
  BY <1>2 DEF ScopesFit
<1>5. AllFit(vs, scopes, no)
  BY <1>4, PutOneFits DEF ScopesInv, ScopeFits
<1>6. ScopeFits(s, c, scopes, no) /\ s.script = m.script /\ s.entered = m.entered /\ s.held = m.held /\ s.params = m.params
  <2>1. s = [m EXCEPT !.vars = vs]
    OBVIOUS
  <2> HIDE DEF s, vs, m, c, no
  <2> QED BY <1>4, <1>5, <2>1, NameSet
<1> HIDE DEF s, vs, no, c
<1>7. ScopesFit(scopes', no) /\ GrowsTo(scopes, no, scopes', no) /\ OneOther(scopes, c, s, scopes')
  BY <1>2, <1>3, <1>6, ScopeChanges
<1>8. Len(scopes') = Len(scopes) /\ scopes'[c] = s /\ \A d \in 1 .. Len(scopes) : d # c => scopes'[d] = scopes[d]
  BY <1>7 DEF OneOther
<1>9. \A d \in 1 .. Len(scopes) : /\ scopes'[d].entered = scopes[d].entered /\ scopes'[d].script = scopes[d].script
                                  /\ scopes'[d].held = scopes[d].held /\ scopes'[d].params = scopes[d].params
  BY <1>6, <1>8
<1>10. objects' = objects /\ frames' = frames /\ acc' = Absent
  BY DEF closure_set
<1>11. ObjectsFit(objects, scopes') /\ FramesFit(frames, Len(scopes'), no)
  BY <1>7, WorldGrows DEF ScopesInv, no
<1>12. RunsAsGiven(frames, scopes')
  <2>1. \A i \in 1 .. Len(frames) : frames[i].scope \in 1 .. Len(scopes)
    BY DEF ScopesInv, FramesFit, FrameFits
  <2> QED BY <1>9, <2>1 DEF RunsAsGiven, GivenTo, ScopesInv
<1>13. AllEntered(scopes')
  BY <1>8, <1>9 DEF AllEntered, ScopesInv
<1> QED BY <1>7, <1>10, <1>11, <1>12, <1>13, PlainFits DEF ScopesInv, no

LEMMA GetAttributeKeeps ==
  ASSUME ScopesInv, GetAttribute
  PROVE  ScopesInv'
<1>1. PICK name : acc' = object_get(acc[2], name)
  BY DEF GetAttribute
<1>2. acc[2] \in 1 .. Len(objects)
  BY DEF GetAttribute, ScopesInv, ValueFits
<1>3. ValueFits(acc', scopes, Len(objects))
  BY <1>1, <1>2, ObjectGetFits
<1> QED BY <1>3, AccChanges DEF GetAttribute

\* An object that is there gets other attributes.
LEMMA AttributesSet ==
  ASSUME ScopesInv, NEW o \in 1 .. Len(objects), NEW vs, AllFit(vs, scopes, Len(objects)), Owned(vs, o),
         NEW obs, obs = [objects EXCEPT ![o].vars = vs]
  PROVE  ObjectsFit(obs, scopes) /\ Len(obs) = Len(objects) /\ \A fr : Constructed(fr, objects) => Constructed(fr, obs)
<1> DEFINE m == objects[o]
           no == Len(objects)
           b == [m EXCEPT !.vars = vs]
<1>1. obs = [objects EXCEPT ![o] = b]
  OBVIOUS
<1>2. Listing(objects) /\ no \in Nat \ {0} /\ ObjectFits(m, o, scopes, no)
  BY DEF ScopesInv, ObjectsFit
<1>3. b = [vars |-> vs, constructor |-> m.constructor, constructing |-> m.constructing]
  <2>1. m = [vars |-> m.vars, constructor |-> m.constructor, constructing |-> m.constructing]
    BY <1>2 DEF ObjectFits
  <2> HIDE DEF m
  <2> QED BY <2>1
<1> HIDE DEF b, m, no
<1>4. ObjectFits(b, o, scopes, no)
  BY <1>2, <1>3 DEF ObjectFits, no
<1>5. OneOther(objects, o, b, obs)
  <2>1. OneOther(objects, o, b, [objects EXCEPT ![o] = b])
    BY <1>2, ChangesOne
  <2> QED BY <1>1, <2>1
<1>6. Len(obs) = no /\ Listing(obs) /\ obs[o] = b /\ \A d \in 1 .. no : d # o => obs[d] = objects[d]
  BY <1>5 DEF OneOther, no
<1>7. ObjectsFit(obs, scopes)
  BY <1>2, <1>4, <1>6 DEF ObjectsFit, ScopesInv, no
<1>8. \A d \in 1 .. no : obs[d].constructing = objects[d].constructing
  BY <1>3, <1>6 DEF m
<1> QED BY <1>6, <1>7, <1>8 DEF Constructed, no

LEMMA SetAttributeKeeps ==
  ASSUME ScopesInv, SetAttribute
  PROVE  ScopesInv'
<1> DEFINE o == scopes[LastOf.scope].self
           no == Len(objects)
<1>1. PICK name \in NamesSet : objects' = [objects EXCEPT ![o].vars = PutOne(name, object_set(o, name, acc), @)]
  BY DEF SetAttribute
<1>2. o \in 1 .. no /\ no \in Nat /\ ScopesFit(scopes, no)
  <2>1. o \in 0 .. no /\ o # 0 /\ no \in Nat /\ ScopesFit(scopes, no)
    BY LastIsThere DEF SetAttribute, Runs, ScopesInv, ObjectsFit
  <2> HIDE DEF o, no
  <2> QED BY <2>1
<1> DEFINE w == object_set(o, name, acc)
           vs == PutOne(name, w, objects[o].vars)
<1>3. ValueFits(w, scopes, no) /\ w[1] # "closure" /\ (w[1] = "bound" => w[2].self = o)
  <2>1. ValueFits(acc, scopes, no)
    BY DEF ScopesInv
  <2> HIDE DEF o, no
  <2> QED BY <1>2, <2>1, SetFits
<1>4. AllFit(objects[o].vars, scopes, no) /\ Owned(objects[o].vars, o)
  BY <1>2 DEF ScopesInv, ObjectsFit, ObjectFits
<1> HIDE DEF w
<1>5. AllFit(vs, scopes, no)
  BY <1>3, <1>4, PutOneFits
<1>6. Owned(vs, o)
  <2>1. Owned([n \in {name} |-> w], o)
    BY <1>3 DEF Owned
  <2> QED BY <1>4, <2>1, PutOwned DEF PutOne
<1>7. objects' = [objects EXCEPT ![o].vars = vs]
  BY <1>1 DEF w
<1> HIDE DEF vs, o
<1>8. ObjectsFit(objects', scopes) /\ Len(objects') = no /\ \A fr : Constructed(fr, objects) => Constructed(fr, objects')
  BY <1>2, <1>5, <1>6, <1>7, AttributesSet
<1>9. scopes' = scopes /\ frames' = frames /\ acc' = Absent
  BY DEF SetAttribute
<1> QED BY <1>8, <1>9, PlainFits DEF ScopesInv

\* A call that makes no object leaves the objects as they are constructed.
LEMMA CallKeepsConstructed ==
  ASSUME ScopesInv, NEW c, NEW made, NEW args, NEW obs, Constructed(frames, obs), NEW o,
         closure_execute(c, made, "call", o, args)
  PROVE  Constructed(frames', obs)
<1> DEFINE f == [scope |-> c, kind |-> "call", obj |-> o, args |-> args]
<1>0. frames' = frames \/ frames' = Append(frames, f)
  BY DEF closure_execute, Gone
<1>1. f.kind = "call"
  OBVIOUS
<1> HIDE DEF f
<1>2. CASE frames' = frames
  BY <1>2
<1>3. CASE frames' = Append(frames, f)
  <2>1. OneMore(frames, f, frames')
    BY <1>3, AppendsOne DEF ScopesInv, FramesFit
  <2>2. \A i \in 1 .. Len(frames') : frames'[i].kind = "new" => i \in 1 .. Len(frames) /\ frames'[i] = frames[i]
    BY <1>1, <2>1 DEF OneMore
  <2>3. \A i \in 1 .. Len(frames) : i \in 1 .. Len(frames') /\ frames'[i] = frames[i]
    BY <2>1 DEF OneMore
  <2>4. \A p : News(frames', p) = News(frames, p)
    BY <2>2, <2>3 DEF News
  <2> QED BY <2>2, <2>4 DEF Constructed
<1> QED BY <1>0, <1>2, <1>3

\* A call of no constructor, the objects staying as many as they are.
LEMMA CallKeeps ==
  ASSUME ScopesInv, NEW c, NEW made, CanRun(c, made, Len(objects)), NEW args, ArgsOf(args, made, Len(objects)),
         NEW o, closure_execute(c, made, "call", o, args), c <= Len(scopes) => objects' = objects,
         Len(objects') = Len(objects), ObjectsFit(objects', scopes), Constructed(frames, objects')
  PROVE  ScopesInv'
<1> DEFINE no == Len(objects)
<1>1. \/ c <= Len(scopes) /\ Gone
      \/ Executed(no, "call", o)
  <2>1. "call" = "new" => o \in 1 .. no
    OBVIOUS
  <2> HIDE DEF no
  <2> DEFINE k == "call"
  <2>2. k = "new" => o \in 1 .. no
    BY <2>1
  <2>3. closure_execute(c, made, k, o, args) /\ CanRun(c, made, no) /\ ArgsOf(args, made, no)
    BY DEF no
  <2> HIDE DEF k
  <2>4. \/ c <= Len(scopes) /\ Gone
        \/ Executed(no, k, o)
    BY <2>2, <2>3, Executes
  <2> QED BY <2>4 DEF k
<1>2. CASE c <= Len(scopes) /\ Gone
  BY <1>2, GoneKeeps
<1>3. CASE Executed(no, "call", o)
  <2>1. Constructed(frames', objects')
    BY CallKeepsConstructed
  <2>2. ObjectsFit(objects', scopes')
    BY <1>3, WorldGrows DEF Executed
  <2> QED BY <1>3, <2>1, <2>2 DEF Executed, ScopesInv
<1> QED BY <1>1, <1>2, <1>3

\* A call of a method: its closure is made for it.
LEMMA BoundCallKeeps ==
  ASSUME ScopesInv, NEW bm, BoundFits(bm, scopes, Len(objects)), NEW args \in Argument, bound_method_execute(bm, args, "call"),
         Len(objects') = Len(objects), ObjectsFit(objects', scopes), Constructed(frames, objects')
  PROVE  ScopesInv'
<1> DEFINE no == Len(objects)
           n == Len(scopes) + 1
           s == closure_create(bm.script, bm.closure, bm.self)
           t == Append(scopes, s)
<1>0. Len(scopes) \in Nat /\ no \in Nat
  BY DEF ScopesInv, ScopesFit, ObjectsFit, Listing
<1>1. closure_execute(n, t, "call", bm.self, args)
  BY DEF bound_method_execute, bound_method_get_closure
<1>2. bm.script \in Functions_ /\ bm.self \in 0 .. no /\ bm.closure \in 0 .. Len(scopes)
      /\ (bm.closure # 0 => scopes[bm.closure].script = UpOf[bm.script])
  BY DEF BoundFits
<1>3. CanRun(n, t, no)
  <2> DEFINE script == bm.script
             up == bm.closure
             self == bm.self
  <2>1. script \in Functions_ /\ self \in 0 .. no /\ up \in 0 .. Len(scopes)
        /\ (up # 0 => scopes[up].script = UpOf[script])
        /\ s = closure_create(script, up, self) /\ t = Append(scopes, s) /\ no \in Nat /\ Len(objects) <= no
    BY <1>0, <1>2
  <2> HIDE DEF script, up, self, s, t, no
  <2>2. CanRun(Len(scopes) + 1, t, no)
    BY <2>1, MadeIsCallable
  <2> QED BY <2>2
<1> HIDE DEF s, t
<1>4. ArgsOf(args, t, no)
  BY <1>3, AtHandPassed DEF CanRun
<1>5. ~(n <= Len(scopes))
  BY <1>0
<1> DEFINE o == bm.self
<1>6. closure_execute(n, t, "call", o, args) /\ (n <= Len(scopes) => objects' = objects)
  BY <1>1, <1>5
<1> HIDE DEF n, o
<1> QED BY <1>3, <1>4, <1>6, CallKeeps

LEMMA ConstructedNow ==
  ASSUME ScopesInv
  PROVE  ObjectsFit(objects, scopes) /\ Constructed(frames, objects)
BY DEF ScopesInv

LEMMA CallValueKeeps ==
  ASSUME ScopesInv, CallValue
  PROVE  ScopesInv'
<1>1. objects' = objects
  BY DEF CallValue
<1>2. PICK args \in Argument :
        \/ acc[1] = "bound" /\ bound_method_execute(acc[2], args, "call")
        \/ acc[1] = "closure" /\ closure_execute(acc[2], scopes, "call", 0, args)
  BY DEF CallValue
<1>3. CASE acc[1] = "bound" /\ bound_method_execute(acc[2], args, "call")
  <2> DEFINE bm == acc[2]
  <2>1. BoundFits(bm, scopes, Len(objects)) /\ bound_method_execute(bm, args, "call")
    BY <1>3 DEF ScopesInv, ValueFits
  <2> HIDE DEF bm
  <2> QED BY <1>1, <2>1, BoundCallKeeps, ConstructedNow
<1>4. CASE acc[1] = "closure" /\ closure_execute(acc[2], scopes, "call", 0, args)
  <2> DEFINE c == acc[2]
             o == 0
  <2>1. c \in 1 .. Len(scopes) /\ closure_execute(c, scopes, "call", o, args)
    BY <1>4 DEF ScopesInv, ValueFits
  <2> HIDE DEF c, o
  <2>2. CanRun(c, scopes, Len(objects))
    BY <2>1, ThereIsCallable
  <2>3. ArgsOf(args, scopes, Len(objects))
    BY <2>2, AtHandPassed DEF CanRun
  <2> QED BY <1>1, <2>1, <2>2, <2>3, CallKeeps, ConstructedNow
<1> QED BY <1>2, <1>3, <1>4

LEMMA SetupKeeps ==
  ASSUME ScopesInv, _instruction_setup_constructor
  PROVE  ScopesInv'
<1> DEFINE o == scopes[LastOf.scope].self
           script == ScriptOf(acc)
           no == Len(objects)
           vs == object_bind_all(o, objects[o].vars, script)
           bm == [script |-> script, self |-> o, closure |-> 0]
<1>1. objects' = [objects EXCEPT ![o].vars = object_bind_all(o, @, script)]
  BY DEF _instruction_setup_constructor
<1>2. PICK args \in Argument : bound_method_execute(bm, args, "call")
  BY DEF _instruction_setup_constructor
<1>3. o \in 1 .. no /\ no \in Nat /\ ScopesFit(scopes, no) /\ Len(scopes) \in Nat
  <2>1. o \in 0 .. no /\ o # 0 /\ no \in Nat /\ ScopesFit(scopes, no) /\ Len(scopes) \in Nat
    BY LastIsThere DEF _instruction_setup_constructor, Runs, ScopesInv, ObjectsFit, ScopesFit, Listing
  <2> HIDE DEF o, no
  <2> QED BY <2>1
<1>4. script \in Functions_
  BY ScriptIsThere DEF _instruction_setup_constructor
<1>5. BoundFits(bm, scopes, no)
  <2> HIDE DEF o, script, no
  <2>1. bm \in [script : Functions_, self : 0 .. no, closure : 0 .. Len(scopes)] /\ bm.closure = 0
    BY <1>3, <1>4
  <2> QED BY <2>1 DEF BoundFits
<1>6. AllFit(objects[o].vars, scopes, no) /\ Owned(objects[o].vars, o)
  BY <1>3 DEF ScopesInv, ObjectsFit, ObjectFits
<1>7. AllFit(vs, scopes, no) /\ Owned(vs, o)
  <2> DEFINE old == objects[o].vars
  <2> HIDE DEF o, no, script, old
  <2> QED BY <1>3, <1>6, BindAllFits DEF old
<1>8. objects' = [objects EXCEPT ![o].vars = vs]
  BY <1>1
<1> HIDE DEF vs, o, bm
<1>9. ObjectsFit(objects', scopes) /\ Len(objects') = no /\ Constructed(frames, objects')
  BY <1>3, <1>7, <1>8, AttributesSet, ConstructedNow
<1> QED BY <1>2, <1>5, <1>9, BoundCallKeeps

\* The objects obs are the ones that are there, and one that a call with these arguments makes.
Newly(script, closure, args, obs) ==
  obs = Append(objects, [_object_new(script) EXCEPT !.constructing = ~TooFew(closure, args)])

\* One object more, under construction if its constructor runs.
LEMMA ObjectAdded ==
  ASSUME ScopesInv, NEW script \in Functions_, NEW closure, NEW args,
         NEW obs, Newly(script, closure, args, obs), NEW s2, GrowsTo(scopes, Len(objects) + 1, s2, Len(objects) + 1)
  PROVE  /\ ObjectsFit(obs, s2) /\ Len(obs) = Len(objects) + 1 
         /\ obs[Len(objects) + 1].constructing <=> ~TooFew(closure, args)
         /\ \A i \in 1 .. Len(objects) : obs[i] = objects[i]
<1> DEFINE no == Len(objects)
           n == no + 1
           runs == ~TooFew(closure, args)
           vs == object_bind_all(n, NoValues, script)
           b == [vars |-> vs, constructor |-> script, constructing |-> runs]
<1>0. no \in Nat \ {0} /\ n \in Nat /\ n \in 1 .. n /\ no <= n /\ Listing(objects)
  BY DEF ScopesInv, ObjectsFit
<1>1. obs = Append(objects, b)
  BY DEF _object_new, Newly
<1>2. OneMore(objects, b, obs)
  <2>1. OneMore(objects, b, Append(objects, b))
    BY <1>0, AppendsOne
  <2> QED BY <1>1, <2>1
<1>3. ScopesFit(scopes, n) /\ GrowsTo(scopes, no, scopes, n)
  <2> HIDE DEF n
  <2>1. Len(objects) <= n /\ n \in Nat
    BY <1>0
  <2> QED BY <2>1, MoreObjects
<1>4. AllFit(vs, scopes, n) /\ Owned(vs, n)
  <2>1. AllFit(NoValues, scopes, n) /\ Owned(NoValues, n)
    BY DEF AllFit, Owned, NoValues
  <2> HIDE DEF n
  <2> QED BY <1>0, <1>3, <2>1, BindAllFits
<1> HIDE DEF vs
<1>14. runs \in BOOLEAN
  BY DEF TooFew
<1> HIDE DEF runs
<1>5. b.vars = vs /\ b.constructor = script /\ b.constructing = runs
      /\ b = [vars |-> b.vars, constructor |-> b.constructor, constructing |-> b.constructing]
  OBVIOUS
<1> HIDE DEF b
<1>6. GrowsTo(scopes, n, s2, n) /\ GrowsTo(scopes, no, s2, n)
  BY <1>0 DEF GrowsTo
<1> HIDE DEF n
<1>7. ObjectFits(b, n, s2, n)
  <2>1. ObjectFits(b, n, scopes, n)
    BY <1>4, <1>5, <1>14 DEF ObjectFits
  <2> QED BY <1>6, <2>1, FitsOn
<1>8. \A o \in 1 .. no : ObjectFits(objects[o], o, s2, n)
  <2>1. \A o \in 1 .. no : ObjectFits(objects[o], o, scopes, no)
    BY DEF ScopesInv, ObjectsFit
  <2> HIDE DEF no
  <2> QED BY <1>6, <2>1, FitsOn
<1>9. Listing(obs) /\ Len(obs) = n /\ obs[n] = b /\ \A i \in 1 .. no : obs[i] = objects[i]
  BY <1>2 DEF OneMore, n
<1>10. \A i \in 1 .. n : i \in 1 .. no \/ i = n
  BY <1>0 DEF n
<1>11. \A i \in 1 .. n : ObjectFits(obs[i], i, s2, n)
  <2> HIDE DEF no
  <2> QED BY <1>7, <1>8, <1>9, <1>10
<1>12. n \in Nat \ {0}
  BY <1>0 DEF n
<1>13. ObjectsFit(obs, s2)
  BY <1>9, <1>11, <1>12 DEF ObjectsFit
<1> QED BY <1>5, <1>9, <1>13 DEF n, runs

LEMMA CreateKeeps ==
  ASSUME ScopesInv, script_create_object
  PROVE  ScopesInv'
<1> DEFINE script == ScriptOf(acc)
           no == Len(objects)
           o == no + 1
           s == closure_create(script, 0, o)
           t == Append(scopes, s)
           n == Len(scopes) + 1
<1>1. PICK args \in Argument :
        /\ objects' = Append(objects, [_object_new(script) EXCEPT !.constructing = ~TooFew(s, args)])
        /\ closure_execute(n, t, "new", o, args)
  BY DEF script_create_object
<1>2. script \in Functions_
  BY ScriptIsThere DEF script_create_object
<1>0. Len(scopes) \in Nat /\ no \in Nat /\ o \in Nat /\ no <= o /\ o \in 1 .. o /\ o \in 0 .. o /\ ~(n <= Len(scopes))
      /\ 0 \in 0 .. Len(scopes)
  BY DEF ScopesInv, ScopesFit, ObjectsFit, Listing
<1> DEFINE runs == ~TooFew(s, args)
<1>3. CanRun(n, t, o) /\ t[n] = s
  <2> DEFINE up == 0
  <2>1. up \in 0 .. Len(scopes) /\ s = closure_create(script, up, o) /\ t = Append(scopes, s) /\ up = 0
    BY <1>0
  <2> HIDE DEF up, script, s, t, o
  <2>2. CanRun(Len(scopes) + 1, t, o) /\ t[Len(scopes) + 1] = s
    BY <1>0, <1>2, <2>1, MadeIsCallable
  <2> QED BY <2>2
<1>4. ArgsOf(args, t, o)
  <2>1. GrowsTo(scopes, no, t, o)
    BY <1>3 DEF CanRun
  <2> HIDE DEF s, t, o
  <2> QED BY <2>1, AtHandPassed
<1>6. Newly(script, s, args, objects')
  BY <1>1 DEF Newly
<1>7. closure_execute(n, t, "new", o, args)
  BY <1>1
<1> DEFINE f == [scope |-> n, kind |-> "new", obj |-> o, args |-> args]
<1>8. (runs /\ frames' = Append(frames, f)) \/ (~runs /\ frames' = frames)
  <2> DEFINE gg == f
             rr == runs
             tt == t
             nn == n
  <2>1. tt[nn] = s /\ rr = ~TooFew(s, args) /\ gg = [scope |-> nn, kind |-> "new", obj |-> o, args |-> args]
        /\ closure_execute(nn, tt, "new", o, args) /\ ~(nn <= Len(scopes))
    BY <1>0, <1>3, <1>7
  <2> HIDE DEF gg, rr, tt, nn, s
  <2>2. (rr /\ frames' = Append(frames, gg)) \/ (~rr /\ frames' = frames)
    BY <2>1 DEF closure_execute
  <2> QED BY <2>2 DEF gg, rr
<1>9. f.kind = "new" /\ f.obj = o
  OBVIOUS
<1> HIDE DEF runs, f, s, t, script
<1>10. Executed(o, "new", o)
  <2> DEFINE k == "new"
  <2>1. k = "new" => o \in 1 .. o
    BY <1>0
  <2>2. closure_execute(n, t, k, o, args)
    BY <1>7
  <2> HIDE DEF k, o, n
  <2>3. \/ n <= Len(scopes) /\ Gone
        \/ Executed(o, k, o)
    BY <1>3, <1>4, <2>1, <2>2, Executes
  <2> QED BY <1>0, <2>3 DEF k
<1>11. ObjectsFit(objects', scopes') /\ Len(objects') = o /\ (objects'[o].constructing <=> runs)
       /\ \A i \in 1 .. no : objects'[i] = objects[i]
  <2>1. GrowsTo(scopes, no + 1, scopes', no + 1)
    BY <1>0, <1>10 DEF Executed, GrowsTo
  <2> QED BY <1>2, <1>6, <2>1, ObjectAdded DEF runs
<1> HIDE DEF n
<1>12. Constructed(frames', objects')
  <2>1. Constructed(frames, objects)
    BY DEF ScopesInv
  <2>2. \A i \in 1 .. Len(frames) : frames[i].kind = "new" => frames[i].obj \in 1 .. no
    BY DEF ScopesInv, FramesFit, FrameFits
  <2>3. \A i \in 1 .. Len(frames) : ~(frames[i].kind = "new" /\ frames[i].obj = o)
    BY <1>0, <2>2
  <2>4. \A p \in 1 .. o : (p \in 1 .. no /\ p # o) \/ p = o
    BY <1>0
  <2> HIDE DEF o, no
  <2>5. CASE ~runs /\ frames' = frames
    <3>1. News(frames, o) = {}
      BY <2>3 DEF News
    <3>2. \A p \in 1 .. o : objects'[p].constructing <=> News(frames, p) # {}
      BY <1>11, <2>1, <2>4, <2>5, <3>1 DEF Constructed, no
    <3> QED BY <1>11, <2>1, <2>5, <3>2 DEF Constructed
  <2>6. CASE runs /\ frames' = Append(frames, f)
    <3>1. OneMore(frames, f, frames')
      BY <2>6, AppendsOne DEF ScopesInv, FramesFit
    <3> DEFINE z == Len(frames) + 1
    <3>2. frames'[z] = f /\ z \in 1 .. Len(frames') /\ (\A i \in 1 .. Len(frames') : i \in 1 .. Len(frames) \/ i = z)
          /\ \A i \in 1 .. Len(frames) : i \in 1 .. Len(frames') /\ frames'[i] = frames[i]
      BY <3>1 DEF OneMore
    <3> HIDE DEF z
    <3>3. \A i, j \in 1 .. Len(frames') : frames'[i].kind = "new" /\ frames'[j].kind = "new" /\ frames'[i].obj = frames'[j].obj => i = j
      BY <1>9, <2>1, <2>3, <3>2 DEF Constructed
    <3>4. z \in News(frames', o)
      BY <1>9, <3>2 DEF News
    <3>5. ASSUME NEW p, p # o PROVE News(frames', p) = News(frames, p)
      BY <1>9, <3>2, <3>5 DEF News
    <3>6. \A p \in 1 .. o : objects'[p].constructing <=> News(frames', p) # {}
      BY <1>11, <2>1, <2>4, <2>6, <3>4, <3>5 DEF Constructed, no
    <3> QED BY <1>11, <3>3, <3>6 DEF Constructed
  <2> QED BY <1>8, <2>5, <2>6
<1> QED BY <1>10, <1>11, <1>12 DEF Executed, ScopesInv

\* A constructor that has ended leaves its object complete; other calls leave all objects.
Completes(obs, f) ==
  obs = IF f.kind = "new" THEN [objects EXCEPT ![f.obj].constructing = FALSE] ELSE objects

LEMMA Completing ==
  ASSUME ScopesInv, frames # <<>>, NEW obs, Completes(obs, LastOf), NEW fr, OneLess(frames, fr)
  PROVE  ObjectsFit(obs, scopes) /\ Len(obs) = Len(objects) /\ Constructed(fr, obs)
<1> DEFINE n == Len(frames)
           f == LastOf
           no == Len(objects)
<1>1. n \in Nat \ {0} /\ n \in 1 .. n /\ f = frames[n] /\ (f.kind = "new" => f.obj \in 1 .. no)
  BY LastIsThere
<1>2. ObjectsFit(objects, scopes) /\ Constructed(frames, objects)
  BY ConstructedNow
<1>3. Len(fr) = n - 1 /\ \A i \in 1 .. Len(fr) : fr[i] = frames[i] /\ i \in 1 .. n /\ i # n
  BY <1>1 DEF OneLess
<1>4. \A i \in 1 .. n : i \in 1 .. Len(fr) \/ i = n
  BY <1>1, <1>3
<1> HIDE DEF n, f, no
<1>5. \A i, j \in 1 .. Len(fr) : fr[i].kind = "new" /\ fr[j].kind = "new" /\ fr[i].obj = fr[j].obj => i = j
  BY <1>2, <1>3 DEF Constructed, n
<1>6. \A o : ~(f.kind = "new" /\ f.obj = o) => News(fr, o) = News(frames, o)
  BY <1>1, <1>3, <1>4 DEF News, n
<1>7. CASE f.kind # "new"
  <2>1. obs = objects
    BY <1>7 DEF Completes, f
  <2> QED BY <1>2, <1>5, <1>6, <1>7, <2>1 DEF Constructed
<1>8. CASE f.kind = "new"
  <2> DEFINE o == f.obj
             m == objects[o]
             b == [m EXCEPT !.constructing = FALSE]
  <2>1. o \in 1 .. no /\ Listing(objects) /\ ObjectFits(m, o, scopes, no)
    BY <1>1, <1>2, <1>8 DEF ObjectsFit, no
  <2>2. obs = [objects EXCEPT ![o] = b]
    BY <1>8 DEF Completes, f
  <2> HIDE DEF o, m
  <2>3. b = [vars |-> m.vars, constructor |-> m.constructor, constructing |-> FALSE]
    <3>1. m = [vars |-> m.vars, constructor |-> m.constructor, constructing |-> m.constructing]
      BY <2>1 DEF ObjectFits
    <3> DEFINE z == FALSE
    <3>2. b = [m EXCEPT !.constructing = z]
      OBVIOUS
    <3> HIDE DEF z, b
    <3>3. b = [vars |-> m.vars, constructor |-> m.constructor, constructing |-> z]
      BY <3>1, <3>2
    <3> QED BY <3>3 DEF z
  <2> HIDE DEF b
  <2>4. ObjectFits(b, o, scopes, no) /\ b.constructing = FALSE
    BY <2>1, <2>3 DEF ObjectFits
  <2>5. OneOther(objects, o, b, obs)
    <3>1. OneOther(objects, o, b, [objects EXCEPT ![o] = b])
      BY <2>1, ChangesOne DEF no
    <3> QED BY <2>2, <3>1
  <2>6. Listing(obs) /\ Len(obs) = no /\ obs[o] = b /\ \A i \in 1 .. no : i # o => obs[i] = objects[i]
    BY <2>5 DEF OneOther, no
  <2>7. ObjectsFit(obs, scopes)
    BY <1>2, <2>4, <2>6 DEF ObjectsFit, no
  <2>8. News(fr, o) = {}
    <3>1. \A i \in 1 .. Len(fr) : ~(fr[i].kind = "new" /\ fr[i].obj = o)
      BY <1>1, <1>2, <1>3, <1>8 DEF Constructed, n, o
    <3> QED BY <3>1 DEF News
  <2>9. \A p \in 1 .. no : obs[p].constructing <=> News(fr, p) # {}
    <3>1. \A p \in 1 .. no : p # o => obs[p].constructing = objects[p].constructing /\ News(fr, p) = News(frames, p)
      BY <1>6, <2>6 DEF o
    <3>2. \A p \in 1 .. no : objects[p].constructing <=> News(frames, p) # {}
      BY <1>2 DEF Constructed, no
    <3> QED BY <2>4, <2>6, <2>8, <3>1, <3>2
  <2> QED BY <1>5, <2>6, <2>7, <2>9 DEF Constructed, no
<1> QED BY <1>7, <1>8

LEMMA YieldKeeps ==
  ASSUME ScopesInv, closure_yield
  PROVE  ScopesInv'
<1> DEFINE c == LastOf.scope
           no == Len(objects)
           n == Len(frames)
<1>1. CASE FreedTwice(c) /\ Gone
  BY <1>1, GoneKeeps
<1>2. ASSUME NEW value \in {acc, Raised("ErrorThrown")},
             scopes' = [scopes EXCEPT ![LastOf.scope] = Ended(@)],
             frames' = SubSeq(frames, 1, Len(frames) - 1),
             objects' = IF LastOf.kind = "new" THEN [objects EXCEPT ![LastOf.obj].constructing = FALSE] ELSE objects,
             acc' = IF LastOf.kind = "new" /\ value[1] # "exception" THEN ObjectValue(LastOf.obj) ELSE value
      PROVE  ScopesInv'
  <2>0. frames # <<>>
    BY DEF closure_yield, Runs
  <2>1. n \in Nat \ {0} /\ n \in 1 .. n /\ LastOf = frames[n] /\ c \in 1 .. Len(scopes)
        /\ (LastOf.kind = "new" => LastOf.obj \in 1 .. no)
    BY <2>0, LastIsThere
  <2>2. no \in Nat /\ ScopesFit(scopes, no) /\ ScopeFits(scopes[c], c, scopes, no) /\ Len(scopes) \in Nat
    BY <2>1 DEF ScopesInv, ObjectsFit, ScopesFit, Listing
  <2> DEFINE s == Ended(scopes[c])
  <2>3. scopes' = [scopes EXCEPT ![c] = s]
    BY <1>2
  <2>4. ScopeFits(s, c, scopes, no) /\ s.script = scopes[c].script /\ s.entered = scopes[c].entered
    BY <2>2, Ending
  <2> HIDE DEF s
  <2>5. OneLess(frames, frames')
    <3>1. OneLess(frames, SubSeq(frames, 1, Len(frames) - 1))
      BY <2>0, DropsOne DEF ScopesInv, FramesFit
    <3> QED BY <1>2, <3>1
  <2>6. ObjectsFit(objects', scopes) /\ Len(objects') = no /\ Constructed(frames', objects')
    <3>1. Completes(objects', LastOf)
      BY <1>2 DEF Completes
    <3> QED BY <2>0, <2>5, <3>1, Completing
  <2> HIDE DEF c, no, n
  <2>7. ScopesFit(scopes', no) /\ GrowsTo(scopes, no, scopes', no) /\ OneOther(scopes, c, s, scopes')
    BY <2>1, <2>2, <2>3, <2>4, ScopeChanges
  <2>8. Len(scopes') = Len(scopes) /\ scopes'[c] = s /\ \A d \in 1 .. Len(scopes) : d # c => scopes'[d] = scopes[d]
    BY <2>7 DEF OneOther
  <2>9. AllEntered(scopes')
    BY <2>4, <2>8 DEF AllEntered, ScopesInv
  <2>10. Len(frames') = n - 1 /\ Listing(frames')
         /\ \A i \in 1 .. Len(frames') : frames'[i] = frames[i] /\ i \in 1 .. n /\ i # n
    BY <2>1, <2>5 DEF OneLess, n
  <2>11. FramesFit(frames, Len(scopes'), no)
    BY <2>7, WorldGrows DEF ScopesInv, no
  <2>12. FramesFit(frames', Len(scopes'), no)
    BY <2>10, <2>11 DEF FramesFit, n
  <2>13. RunsAsGiven(frames', scopes')
    <3>1. \A i \in 1 .. n : frames[i].scope \in 1 .. Len(scopes)
      BY DEF ScopesInv, FramesFit, FrameFits, n
    <3>2. \A i \in 1 .. n : scopes'[frames[i].scope].entered = scopes[frames[i].scope].entered
      BY <2>4, <2>8, <3>1
    <3>3. \A i, j \in 1 .. n : scopes[frames[i].scope].entered = 1 /\ frames[i].scope = frames[j].scope => i = j
      BY DEF ScopesInv, RunsAsGiven, n
    <3>4. frames[n].scope = c
      BY <2>1 DEF c
    <3>5. \A i \in 1 .. n : i # n /\ scopes[frames[i].scope].entered = 1 => frames[i].scope # c
      BY <2>1, <3>3, <3>4
    <3>6. \A i \in 1 .. n : i # n /\ scopes[frames[i].scope].entered = 1 => scopes'[frames[i].scope] = scopes[frames[i].scope]
      BY <2>8, <3>1, <3>5
    <3>7. \A i \in 1 .. n : scopes[frames[i].scope].entered = 1 => GivenTo(scopes[frames[i].scope], frames[i].args)
      BY DEF ScopesInv, RunsAsGiven, n
    <3>8. \A i, j \in 1 .. Len(frames') :
            scopes'[frames'[i].scope].entered = 1 /\ frames'[i].scope = frames'[j].scope => i = j
      BY <2>10, <3>2, <3>3
    <3>9. \A i \in 1 .. Len(frames') :
            scopes'[frames'[i].scope].entered = 1 => GivenTo(scopes'[frames'[i].scope], frames'[i].args)
      BY <2>10, <3>2, <3>6, <3>7
    <3> QED BY <3>8, <3>9 DEF RunsAsGiven
  <2>14. ValueFits(acc', scopes, no)
    <3>1. ValueFits(value, scopes, no)
      BY <1>2, PlainFits DEF ScopesInv, no
    <3>2. LastOf.kind = "new" => ValueFits(ObjectValue(LastOf.obj), scopes, no)
      BY <2>1 DEF ValueFits, ObjectValue
    <3> QED BY <1>2, <3>1, <3>2
  <2>15. ValueFits(acc', scopes', no) /\ ObjectsFit(objects', scopes')
    BY <2>6, <2>7, <2>14, FitsOn, WorldGrows
  <2> QED BY <2>6, <2>7, <2>9, <2>12, <2>13, <2>15 DEF ScopesInv, no
<1> QED BY <1>1, <1>2 DEF closure_yield

LEMMA ScopesNextKeeps ==
  ASSUME ScopesInv, ScopesNext \/ UNCHANGED scopeVars
  PROVE  ScopesInv'
<1>1. CASE UNCHANGED scopeVars
  BY <1>1 DEF ScopesInv, scopeVars
<1> QED BY <1>1, GetNameKeeps, SetKeeps, GetAttributeKeeps, SetAttributeKeeps, CallValueKeeps, CreateKeeps,
           SetupKeeps, YieldKeeps DEF ScopesNext
-----------------------------------------------------------------------------
\* At first the module runs.
LEMMA ScopesBegin ==
  ASSUME ScopesInit
  PROVE  ScopesInv
<1> DEFINE vs == [s \in InnerOf("main") |-> BoundMethod(s, 1, 0)]
           ws == _closure_create_closure_reducer("main", 1, 1)
           b == [vars |-> vs, constructor |-> "main", constructing |-> TRUE]
           s == [script |-> "main", up |-> 0, self |-> 1, params |-> NoValues, held |-> "none", entered |-> 1,
                 vars |-> ws]
           f == [scope |-> 1, kind |-> "new", obj |-> 1, args |-> <<>>]
<1>1. objects = <<b>> /\ scopes = <<s>> /\ frames = <<f>> /\ acc = Absent
  BY DEF ScopesInit
<1>2. "main" \in Functions_ /\ ParamsOf["main"] = <<>>
  BY ScopesAssumption
<1>3. ASSUME NEW k \in InnerOf("main"), NEW c \in {0, 1} PROVE ValueFits(BoundMethod(k, 1, c), scopes, 1)
  <2> DEFINE bm == [script |-> k, self |-> 1, closure |-> c]
  <2>1. Len(scopes) = 1 /\ scopes[1] = s /\ s.script = "main"
    BY <1>1
  <2>2. k \in Functions_ /\ UpOf[k] = "main"
    BY DEF InnerOf
  <2>3. bm \in [script : Functions_, self : 0 .. 1, closure : 0 .. 1] /\ bm.closure = c /\ bm.script = k
    BY <2>2
  <2> HIDE DEF bm, s
  <2>4. BoundFits(bm, scopes, 1)
    BY <2>1, <2>2, <2>3 DEF BoundFits
  <2> QED BY <2>4 DEF ValueFits, BoundMethod, bm
<1>4. AllFit(vs, scopes, 1) /\ AllFit(ws, scopes, 1) /\ AllFit(NoValues, scopes, 1)
  BY <1>3 DEF AllFit, _closure_create_closure_reducer, NoValues
<1>5. Owned(vs, 1)
  BY DEF Owned, BoundMethod
<1> HIDE DEF vs, ws
<1>6. ObjectFits(b, 1, scopes, 1) /\ b.constructing
  BY <1>2, <1>4, <1>5 DEF ObjectFits
<1>7. ScopeFits(s, 1, scopes, 1) /\ s.entered = 1 /\ s.script = "main"
  BY <1>2, <1>4 DEF ScopeFits
<1>8. FrameFits(f, 1, 1) /\ f.kind = "new" /\ f.obj = 1 /\ f.scope = 1
  BY DEF FrameFits
<1> HIDE DEF b, s, f
<1>9. ASSUME NEW x PROVE Listing(<<x>>) /\ Len(<<x>>) = 1 /\ <<x>>[1] = x
  <2>1. <<x>> \in Seq({x})
    OBVIOUS
  <2> QED BY <2>1 DEF Listing
<1>10. /\ Listing(objects) /\ Len(objects) = 1 /\ objects[1] = b /\ Listing(scopes) /\ Len(scopes) = 1 /\ scopes[1] = s
       /\ Listing(frames) /\ Len(frames) = 1 /\ frames[1] = f
  BY <1>1, <1>9
<1>11. 1 .. 1 = {1}
  OBVIOUS
<1>12. ScopesFit(scopes, 1) /\ AllEntered(scopes)
  BY <1>7, <1>10, <1>11 DEF ScopesFit, AllEntered
<1>13. ObjectsFit(objects, scopes)
  BY <1>6, <1>10, <1>11 DEF ObjectsFit
<1>14. FramesFit(frames, 1, 1)
  BY <1>8, <1>10, <1>11 DEF FramesFit
<1>15. Constructed(frames, objects)
  BY <1>6, <1>8, <1>10, <1>11 DEF Constructed, News
<1>16. RunsAsGiven(frames, scopes)
  BY <1>2, <1>7, <1>8, <1>10, <1>11 DEF RunsAsGiven, GivenTo
<1> QED BY <1>1, <1>10, <1>12, <1>13, <1>14, <1>15, <1>16, PlainFits DEF ScopesInv

\* What a team wants of scopes and objects.
LEMMA ScopesAreRight ==
  ASSUME ScopesInv
  PROVE  ScopesHold
<1>0. Listing(scopes) /\ Listing(objects) /\ Listing(frames)
  BY DEF ScopesInv, ScopesFit, ObjectsFit, FramesFit
<1>1. DOMAIN scopes = 1 .. Len(scopes) /\ DOMAIN objects = 1 .. Len(objects) /\ DOMAIN frames = 1 .. Len(frames)
  BY <1>0 DEF Listing
<1>2. ScopesNest
  BY <1>1 DEF ScopesNest, ScopesInv, ScopesFit, ScopeFits
<1>3. MethodsAreBound
  <2>1. \A o \in 1 .. Len(objects) : Owned(objects[o].vars, o)
    BY DEF ScopesInv, ObjectsFit, ObjectFits
  <2> QED BY <1>1, <2>1 DEF MethodsAreBound, Owned
<1>4. ConstructingWhileRuns
  <2>1. \A o : News(frames, o) # {} <=> \E i \in 1 .. Len(frames) : frames[i].kind = "new" /\ frames[i].obj = o
    BY DEF News
  <2> QED BY <1>1, <2>1 DEF ConstructingWhileRuns, ScopesInv, Constructed
<1>5. ParamsAreOwn
  BY <1>1 DEF ParamsAreOwn, ScopesInv, RunsAsGiven, GivenTo
<1> QED BY <1>2, <1>3, <1>4, <1>5 DEF ScopesHold

(* closure.c:313, object.c:345, boundmethod.c:90 -- a function runs in     *)
(* the scope it was defined in and for the object it was bound to, an      *)
(* object is under construction while its constructor runs, parameters are *)
(* those of one call: whatever the functions of the module, how they stand *)
(* in each other, and what they do.                                        *)
THEOREM ScopesAlwaysHold == ScopesSpec => []ScopesHold
<1>1. ScopesInv /\ [ScopesNext]_scopeVars => ScopesInv'
  BY ScopesNextKeeps
<1> QED BY <1>1, ScopesBegin, ScopesAreRight, PTL DEF ScopesSpec

-----------------------------------------------------------------------------
\* The places of the calls of a method in a sequence of calls.
Places(s, name) == {i \in DOMAIN s : s[i][1] = name}

\* The sequence s is a sequence of calls: that many, of these methods.
CallsIn(s) == \E S : s \in Seq(S)

\* A method is called after the calls s, and what t says then.
Calling(s, name, arg, t) == CallsIn(s) /\ Places(s, name) = {} /\ t = s \o _object_call_attribute(name, arg)
CalledThen(s, name, arg, t) ==
  /\ CallsIn(t) /\ (\A n : n # name => Places(t, n) = Places(s, n))
  /\ IF Callable(name) THEN Len(t) \in DOMAIN t /\ Places(t, name) = {Len(t)} /\ t[Len(t)] = <<name, arg>>
     ELSE Places(t, name) = {}

\* One call more, or none.
LEMMA OneCallMore ==
  ASSUME NEW s, NEW name, NEW arg, NEW t, Calling(s, name, arg, t)
  PROVE  CalledThen(s, name, arg, t)
<1> SUFFICES ASSUME CallsIn(s), Places(s, name) = {}, t = s \o _object_call_attribute(name, arg)
             PROVE  /\ CallsIn(t) /\ (\A n : n # name => Places(t, n) = Places(s, n))
                    /\ IF Callable(name) THEN Len(t) \in DOMAIN t /\ Places(t, name) = {Len(t)} /\ t[Len(t)] = <<name, arg>>
                       ELSE Places(t, name) = {}
  BY DEF Calling, CalledThen
<1> DEFINE x == <<name, arg>>
<1>1. PICK S : s \in Seq(S)
  BY DEF CallsIn
<1>2. CASE ~Callable(name)
  <2>1. t = s
    BY <1>1, <1>2 DEF _object_call_attribute
  <2> QED BY <1>2, <2>1
<1>3. CASE Callable(name)
  <2>1. x[1] = name
    OBVIOUS
  <2>2. t = s \o <<x>>
    BY <1>3 DEF _object_call_attribute
  <2> HIDE DEF x
  <2> DEFINE T == S \cup {x}
             m == Len(s) + 1
  <2>3. s \in Seq(T) /\ x \in T
    BY <1>1
  <2> HIDE DEF T
  <2>4. t \in Seq(T) /\ Len(t) = m /\ t[m] = x /\ m \in Nat /\ m \in 1 .. m /\ DOMAIN t = 1 .. m
        /\ DOMAIN s = 1 .. Len(s) /\ \A i \in 1 .. Len(s) : t[i] = s[i]
    BY <2>2, <2>3
  <2>5. \A i \in 1 .. m : i \in 1 .. Len(s) \/ i = m
    BY <2>4
  <2>6. \A i \in 1 .. Len(s) : i \in 1 .. m
    BY <2>4
  <2> HIDE DEF m
  <2>7. \A n : n # name => Places(t, n) = Places(s, n)
    BY <2>1, <2>4, <2>5, <2>6 DEF Places
  <2>8. Places(s, name) = {} => Places(t, name) = {m}
    BY <2>1, <2>4, <2>5 DEF Places
  <2> QED BY <1>3, <2>4, <2>7, <2>8 DEF CallsIn, x
<1> QED BY <1>2, <1>3

\* What has been called is what the operation calls.
HandlersInv ==
  /\ handlers \in [HandlerNames -> Outcomes]
  /\ handlerDid = "enter" => handled = _object_call_attribute("__enter__", NoData)
  /\ ContextIsLeft

LEMMA HandlersBegin ==
  ASSUME HandlersInit
  PROVE  HandlersInv
BY DEF HandlersInit, HandlersInv, ContextIsLeft

LEMMA LeaveKeeps ==
  ASSUME HandlersInv, object_ctx_leave
  PROVE  HandlersInv'
<1> DEFINE A == _object_call_attribute("__enter__", NoData)
<1>1. PICK arg \in {<<"exception", "body">>, <<"value", NoData>>} :
       /\ handlerDid' = IF IsThrown(arg) THEN "leave after exception" ELSE "leave"
       /\ handled' = handled \o (IF IsThrown(arg) THEN _object_call_attribute("__catch__", arg) ELSE <<>>)
                             \o _object_call_attribute("__exit__", PassedOn(arg))
  BY DEF object_ctx_leave
<1>2. handled = A /\ handlers' = handlers /\ handlerGot' = MethodGives("__exit__") /\ handlers \in [HandlerNames -> Outcomes]
  BY DEF object_ctx_leave, HandlersInv
<1> DEFINE threw == handlerDid' = "leave after exception"
           B == A \o (IF IsThrown(arg) THEN _object_call_attribute("__catch__", arg) ELSE <<>>)
           C == B \o _object_call_attribute("__exit__", PassedOn(arg))
<1>3. (threw <=> IsThrown(arg)) /\ handlerDid' \in {"leave", "leave after exception"} /\ handlerDid' # "enter"
  BY <1>1
<1>4. CallsIn(A) /\ Places(A, "__catch__") = {} /\ Places(A, "__exit__") = {}
  <2> DEFINE E == <<>>
             n == "__enter__"
             d == NoData
  <2>1. CallsIn(E) /\ (\A x : Places(E, x) = {}) /\ n # "__catch__" /\ n # "__exit__"
    <3>1. E \in Seq({})
      OBVIOUS
    <3> QED BY <3>1 DEF CallsIn, Places
  <2>2. A = E \o _object_call_attribute(n, d)
    <3>1. A \in Seq({<<n, d>>})
      BY DEF _object_call_attribute
    <3> HIDE DEF A
    <3>2. E \o A = A
      BY <3>1
    <3> QED BY <3>2 DEF A
  <2> HIDE DEF E, n, d, A
  <2>3. Calling(E, n, d, A)
    BY <2>1, <2>2 DEF Calling
  <2>4. CalledThen(E, n, d, A)
    BY <2>3, OneCallMore
  <2> QED BY <2>1, <2>4 DEF CalledThen
<1> HIDE DEF A
<1>5. /\ CallsIn(B) /\ Places(B, "__exit__") = {}
      /\ IF threw /\ Callable("__catch__") THEN \E i \in DOMAIN B : Places(B, "__catch__") = {i} ELSE Places(B, "__catch__") = {}
  <2> DEFINE n == "__catch__"
             x == "__exit__"
  <2>1. n # x /\ Places(A, n) = {} /\ Places(A, x) = {}
    BY <1>4
  <2>2. CASE ~threw
    <3>1. B = A
      <4>1. B = A \o <<>>
        BY <1>3, <2>2
      <4>2. A \o <<>> = A
        BY <1>4 DEF CallsIn
      <4> QED BY <4>1, <4>2
    <3> QED BY <1>4, <2>2, <3>1
  <2>3. CASE threw
    <3>1. B = A \o _object_call_attribute(n, arg)
      BY <1>3, <2>3
    <3> HIDE DEF n, x, B
    <3>2. CallsIn(B) /\ Places(B, x) = {}
          /\ (IF Callable(n) THEN Len(B) \in DOMAIN B /\ Places(B, n) = {Len(B)} ELSE Places(B, n) = {})
      <4>1. Calling(A, n, arg, B)
        BY <1>4, <2>1, <3>1 DEF Calling
      <4>2. CalledThen(A, n, arg, B)
        BY <4>1, OneCallMore
      <4> QED BY <2>1, <4>2 DEF CalledThen
    <3> QED BY <2>3, <3>2 DEF n, x
  <2> QED BY <2>2, <2>3
<1> HIDE DEF B
<1>6. /\ Places(C, "__catch__") = Places(B, "__catch__")
      /\ IF Callable("__exit__") THEN Len(C) \in DOMAIN C /\ Places(C, "__exit__") = {Len(C)} /\ C[Len(C)] = <<"__exit__", PassedOn(arg)>>
         ELSE Places(C, "__exit__") = {}
  <2> DEFINE n == "__exit__"
             c == "__catch__"
             a == PassedOn(arg)
  <2>1. n # c /\ Places(B, n) = {} /\ C = B \o _object_call_attribute(n, a)
    BY <1>5
  <2> HIDE DEF n, c, a, C
  <2>2. /\ Places(C, c) = Places(B, c)
        /\ IF Callable(n) THEN Len(C) \in DOMAIN C /\ Places(C, n) = {Len(C)} /\ C[Len(C)] = <<n, a>>
           ELSE Places(C, n) = {}
    <3>1. Calling(B, n, a, C)
      BY <1>5, <2>1 DEF Calling
    <3>2. CalledThen(B, n, a, C)
      BY <3>1, OneCallMore
    <3> QED BY <2>1, <3>2 DEF CalledThen
  <2> QED BY <2>2 DEF n, c, a
<1>7. handled' = C
  BY <1>1, <1>2 DEF B
<1> HIDE DEF C
<1>8. /\ (IsThrown(PassedOn(arg)) <=> IsThrown(arg))
      /\ (IsThrown(arg) => (PassedOn(arg)[2] = "__catch__" <=> handlers["__catch__"] = "throws"))
  <2>1. handlers["__catch__"] \in Outcomes
    BY <1>2 DEF HandlerNames
  <2>2. IsThrown(MethodGives("__catch__")) <=> handlers["__catch__"] = "throws"
    BY <2>1 DEF IsThrown, MethodGives, Outcomes
  <2>3. handlers["__catch__"] = "throws" => MethodGives("__catch__") = <<"exception", "__catch__">>
    BY DEF MethodGives
  <2>4. IsThrown(arg) => arg[2] = "body"
    BY DEF IsThrown
  <2>5. CASE handlers["__catch__"] = "throws"
    BY <2>2, <2>3, <2>5 DEF PassedOn, IsThrown
  <2>6. CASE handlers["__catch__"] # "throws"
    BY <2>2, <2>4, <2>6 DEF PassedOn
  <2> QED BY <2>5, <2>6
<1>9. handlers["__exit__"] = "throws" => IsThrown(handlerGot')
  BY <1>2 DEF MethodGives, IsThrown
<1>10. ContextIsLeft'
  <2>1. Callable("__exit__")' <=> Callable("__exit__")
    BY <1>2 DEF Callable
  <2>2. Callable("__catch__")' <=> Callable("__catch__")
    BY <1>2 DEF Callable
  <2>3. CallsOf("__exit__")' = Places(C, "__exit__") /\ CallsOf("__catch__")' = Places(C, "__catch__")
    BY <1>7 DEF CallsOf, Places
  <2>4. IF Callable("__exit__") THEN CalledOnce("__exit__")' ELSE NeverCalled("__exit__")'
    BY <1>6, <1>7, <2>3 DEF CalledOnce, NeverCalled
  <2>5. \A i : Places(C, "__catch__") = {i} => i \in DOMAIN C
    BY DEF Places
  <2>6. IF threw /\ Callable("__catch__") THEN CalledOnce("__catch__")' ELSE NeverCalled("__catch__")'
    BY <1>5, <1>6, <1>7, <2>3, <2>5 DEF CalledOnce, NeverCalled
  <2>7. Callable("__exit__") => handled'[Len(handled')] = <<"__exit__", PassedOn(arg)>>
    BY <1>6, <1>7
  <2>8. Callable("__exit__") =>
            /\ handled'[Len(handled')][1] = "__exit__"
            /\ (IsThrown(handled'[Len(handled')][2]) <=> threw)
            /\ (threw => (handled'[Len(handled')][2][2] = "__catch__" <=> handlers'["__catch__"] = "throws"))
    <3> DEFINE l == handled'[Len(handled')]
               p == PassedOn(arg)
    <3> SUFFICES ASSUME Callable("__exit__")
                 PROVE  /\ l[1] = "__exit__" /\ (IsThrown(l[2]) <=> threw)
                        /\ (threw => (l[2][2] = "__catch__" <=> handlers'["__catch__"] = "throws"))
      OBVIOUS
    <3>1. l = <<"__exit__", p>>
      BY <2>7
    <3> HIDE DEF l, p
    <3>2. l[1] = "__exit__" /\ l[2] = p
      BY <3>1
    <3>3. (IsThrown(p) <=> IsThrown(arg)) /\ (IsThrown(arg) => (p[2] = "__catch__" <=> handlers["__catch__"] = "throws"))
      BY <1>8 DEF p
    <3> QED BY <1>2, <1>3, <3>2, <3>3
  <2> QED BY <1>2, <1>9, <2>1, <2>2, <2>4, <2>6, <2>8 DEF ContextIsLeft, IsThrown
<1> QED BY <1>2, <1>3, <1>10 DEF HandlersInv

LEMMA HandlersNextKeeps ==
  ASSUME HandlersInv, HandlersNext \/ UNCHANGED handlerVars
  PROVE  HandlersInv'
<1>1. CASE UNCHANGED handlerVars
  BY <1>1 DEF HandlersInv, handlerVars, ContextIsLeft, CalledOnce, NeverCalled, CallsOf, Callable, _object_call_attribute, IsThrown
<1>2. CASE object_ctx_enter
  BY <1>2 DEF HandlersInv, object_ctx_enter, ContextIsLeft, Callable, _object_call_attribute
<1>3. CASE object_call
  BY <1>3 DEF HandlersInv, object_call, ContextIsLeft
<1>4. CASE object_cmp
  BY <1>4 DEF HandlersInv, object_cmp, ContextIsLeft
<1> QED BY <1>1, <1>2, <1>3, <1>4, LeaveKeeps DEF HandlersNext

(* object.c:345 -- a context that was entered is left once, and its        *)
(* handlers are told what happened, whatever they are and do.              *)
THEOREM ContextsAreLeft == HandlersSpec => []ContextIsLeft
<1>1. HandlersInv /\ [HandlersNext]_handlerVars => HandlersInv'
  BY HandlersNextKeeps
<1>2. HandlersInv => ContextIsLeft
  BY DEF HandlersInv
<1> QED BY <1>1, <1>2, HandlersBegin, PTL DEF HandlersSpec

(* closure.c:313, object.c:345, boundmethod.c:90 -- calls are in place,    *)
(* those of the language and those of its protocols.                       *)
THEOREM CallsInPlace == ScopesSpec /\ HandlersSpec => []CallsAreInPlace
<1>1. ScopesHold /\ ContextIsLeft => CallsAreInPlace
  BY DEF CallsAreInPlace
<1> QED BY <1>1, ScopesAlwaysHold, ContextsAreLeft, PTL
=============================================================================
