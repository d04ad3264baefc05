------------------------------- MODULE Induction -------------------------------
(***************************************************************************)
(* Induction over numbers and definitions by recursion, in the form the    *)
(* proofs of the other modules cite: about a set or a function, and not    *)
(* about an operator; and what they say of sequences.                      *)
(***************************************************************************)
EXTENDS Integers, SequencesExt, FiniteSetTheorems, SequenceTheorems, TLAPS

(* A set that holds zero, and with every number its successor, holds them  *)
(* all: else the numbers up to one it lacks would fit into one place less. *)
LEMMA SetInduction ==
  ASSUME NEW A, 0 \in A, \A n \in Nat : n \in A => n + 1 \in A
  PROVE  Nat \subseteq A
<1> SUFFICES ASSUME NEW m \in Nat, m \notin A PROVE FALSE
  OBVIOUS
<1> DEFINE S == {i \in 0 .. m : i \notin A}
           T == S \ {m}
           pred == [i \in S |-> i - 1]
<1>1. IsFiniteSet(S) /\ Cardinality(S) \in Nat
  <2>1. IsFiniteSet(0 .. m)
    BY FS_Interval
  <2> QED BY <2>1, FS_Subset, FS_CardinalityType
<1>2. m \in S
  OBVIOUS
<1>3. IsFiniteSet(T) /\ Cardinality(T) = Cardinality(S) - 1
  BY <1>1, <1>2, FS_RemoveElement
<1>4. pred \in [S -> T]
  <2> SUFFICES ASSUME NEW i \in S PROVE i - 1 \in T
    OBVIOUS
  <2>1. i # 0 /\ i \in Nat
    OBVIOUS
  <2>2. i - 1 \in 0 .. m /\ i - 1 # m
    BY <2>1
  <2>3. i - 1 \notin A
    <3> SUFFICES ASSUME i - 1 \in A PROVE FALSE
      OBVIOUS
    <3>1. i - 1 \in Nat /\ (i - 1) + 1 = i
      BY <2>1
    <3>2. i \in A
      BY <3>1
    <3> QED BY <3>2
  <2> QED BY <2>2, <2>3
<1>5. PICK x, y \in S : x # y /\ pred[x] = pred[y]
  <2> HIDE DEF S, T, pred
  <2>1. Cardinality(T) < Cardinality(S)
    BY <1>1, <1>3
  <2> QED BY <1>1, <1>3, <1>4, <2>1, FS_PigeonHole
<1> QED BY <1>5

(* A first value and a step make a function of the numbers.                *)
Recurs(f, a, step) == f[0] = a /\ \A n \in Nat : f[n + 1] = step[<<n, f[n]>>]

(* There is such a function.                                               *)
LEMMA RecursionExists ==
  ASSUME NEW S, NEW a \in S, NEW step \in [Nat \X S -> S]
  PROVE  \E f \in [Nat -> S] : Recurs(f, a, step)
<1> DEFINE Starts(g, n) == /\ g \in [0 .. n -> S] /\ g[0] = a
                           /\ \A i \in 0 .. n - 1 : g[i + 1] = step[<<i, g[i]>>]
           A == {n \in Nat : \E g : Starts(g, n)}
<1>1. Nat \subseteq A
  <2>1. 0 \in A
    <3>1. Starts([i \in 0 .. 0 |-> a], 0)
      OBVIOUS
    <3> QED BY <3>1
  <2>2. ASSUME NEW n \in Nat, n \in A PROVE n + 1 \in A
    <3>1. PICK g : Starts(g, n)
      BY <2>2
    <3> DEFINE h == [i \in 0 .. n + 1 |-> IF i <= n THEN g[i] ELSE step[<<n, g[n]>>]]
    <3>2. g[n] \in S /\ step[<<n, g[n]>>] \in S
      BY <3>1
    <3>3. h \in [0 .. n + 1 -> S] /\ h[0] = a
      BY <3>1, <3>2
    <3>4. ASSUME NEW i \in 0 .. (n + 1) - 1 PROVE h[i + 1] = step[<<i, h[i]>>]
      <4>1. CASE i = n
        BY <4>1
      <4>2. CASE i # n
        <5>1. i \in 0 .. n - 1 /\ i + 1 \in 0 .. n /\ i \in 0 .. n
          BY <4>2, <3>4
        <5> QED BY <5>1, <3>1
      <4> QED BY <4>1, <4>2
    <3>5. Starts(h, n + 1)
      BY <3>3, <3>4
    <3>6. n + 1 \in Nat
      OBVIOUS
    <3> HIDE DEF Starts, h
    <3> QED BY <3>5, <3>6
  <2> HIDE DEF A
  <2> QED BY <2>1, <2>2, SetInduction
<1>2. ASSUME NEW n \in Nat, NEW m \in Nat, NEW g, NEW h, Starts(g, n), Starts(h, m)
      PROVE  \A i \in Nat : i <= n /\ i <= m => g[i] = h[i]
  <2> DEFINE B == {i \in Nat : i <= n /\ i <= m => g[i] = h[i]}
  <2>1. 0 \in B
    BY <1>2
  <2>2. ASSUME NEW i \in Nat, i \in B PROVE i + 1 \in B
    <3> SUFFICES ASSUME i + 1 <= n, i + 1 <= m PROVE g[i + 1] = h[i + 1]
      OBVIOUS
    <3>1. i \in 0 .. n - 1 /\ i \in 0 .. m - 1 /\ g[i] = h[i]
      BY <2>2
    <3> QED BY <3>1, <1>2
  <2>3. Nat \subseteq B
    <3> HIDE DEF B
    <3> QED BY <2>1, <2>2, SetInduction
  <2> QED BY <2>3
<1> DEFINE G(n) == CHOOSE g : Starts(g, n)
           f == [n \in Nat |-> G(n)[n]]
<1>3. \A n \in Nat : Starts(G(n), n)
  BY <1>1
<1>4. f \in [Nat -> S]
  BY <1>3
<1>5. f[0] = a
  BY <1>3
<1>6. ASSUME NEW n \in Nat PROVE f[n + 1] = step[<<n, f[n]>>]
  <2>1. Starts(G(n), n) /\ Starts(G(n + 1), n + 1)
    <3>1. n + 1 \in Nat
      OBVIOUS
    <3> HIDE DEF Starts, G
    <3> QED BY <3>1, <1>3
  <2>2. G(n)[n] = G(n + 1)[n]
    <3> HIDE DEF Starts, G
    <3> QED BY <2>1, <1>2
  <2>3. G(n + 1)[n + 1] = step[<<n, G(n + 1)[n]>>]
    <3> HIDE DEF G
    <3> QED BY <2>1
  <2> HIDE DEF Starts, G
  <2> QED BY <2>2, <2>3
<1>7. Recurs(f, a, step)
  BY <1>5, <1>6 DEF Recurs
<1> QED BY <1>4, <1>7
-----------------------------------------------------------------------------
(* A function of the numbers from 1 is a sequence.                         *)
LEMMA SequenceOf ==
  ASSUME NEW S, NEW n \in Nat, NEW f \in [1 .. n -> S]
  PROVE  f \in Seq(S) /\ Len(f) = n /\ DOMAIN f = 1 .. n
OBVIOUS

(* What is behind the first n elements.                                    *)
LEMMA Behind ==
  ASSUME NEW S, NEW s \in Seq(S), NEW n \in Nat, n <= Len(s)
  PROVE  LET b == SubSeq(s, n + 1, Len(s))
         IN /\ b \in Seq(S) /\ Len(b) = Len(s) - n
            /\ \A i \in 1 .. Len(s) - n : b[i] = s[n + i]
<1> DEFINE m == Len(s)
           b == SubSeq(s, n + 1, m)
<1>1. m \in Nat /\ n + 1 \in 1 .. m + 1 /\ m \in n .. m
  OBVIOUS
<1> HIDE DEF m
<1>2. b = [i \in 1 .. m - n |-> s[n + i]]
  <2>1. (m - (n + 1)) + 1 = m - n
    BY <1>1
  <2>2. \A i \in 1 .. m - n : i + (n + 1) - 1 = n + i
    BY <1>1
  <2> QED BY <1>1, <2>1, <2>2
<1>3. \A i \in 1 .. m - n : s[n + i] \in S
  <2> SUFFICES ASSUME NEW i \in 1 .. m - n PROVE s[n + i] \in S
    OBVIOUS
  <2>1. n + i \in 1 .. m
    BY <1>1
  <2> QED BY <2>1 DEF m
<1> HIDE DEF b
<1>4. m - n \in Nat
  BY <1>1 DEF m
<1> DEFINE k == m - n
<1>5. b \in [1 .. k -> S]
  BY <1>2, <1>3
<1>6. b \in Seq(S) /\ Len(b) = k
  <2> HIDE DEF k
  <2> QED BY <1>4, <1>5, SequenceOf DEF k
<1> QED BY <1>2, <1>6 DEF b, m

(* A sequence without its element p.                                       *)
LEMMA RemovedAt ==
  ASSUME NEW S, NEW s \in Seq(S), NEW p \in 1 .. Len(s)
  PROVE  /\ RemoveAt(s, p) \in Seq(S) /\ Len(RemoveAt(s, p)) = Len(s) - 1
         /\ \A i \in 1 .. Len(s) - 1 : RemoveAt(s, p)[i] = s[IF i < p THEN i ELSE i + 1]
<1> DEFINE head == SubSeq(s, 1, p - 1)
           tail == SubSeq(s, p + 1, Len(s))
<1>1. Len(s) \in Nat /\ p \in Nat /\ p >= 1 /\ p <= Len(s)
  OBVIOUS
<1>2. head \in Seq(S) /\ Len(head) = p - 1 /\ \A i \in 1 .. p - 1 : head[i] = s[i]
  BY <1>1
<1>3. tail \in Seq(S) /\ Len(tail) = Len(s) - p /\ \A i \in 1 .. Len(s) - p : tail[i] = s[p + i]
  BY <1>1
<1>4. RemoveAt(s, p) = head \o tail
  BY DEF RemoveAt
<1> HIDE DEF head, tail
<1>5. /\ head \o tail \in Seq(S) /\ Len(head \o tail) = Len(s) - 1
      /\ \A i \in 1 .. Len(s) - 1 :
           (head \o tail)[i] = IF i <= Len(head) THEN head[i] ELSE tail[i - Len(head)]
  <2>1. Len(head) + Len(tail) = Len(s) - 1
    BY <1>1, <1>2, <1>3
  <2>a. head \in Seq(S) /\ tail \in Seq(S)
    BY <1>2, <1>3
  <2>b. head \o tail \in Seq(S)
    BY <2>a
  <2>c. Len(head \o tail) = Len(head) + Len(tail)
    BY <2>a
  <2>2. head \o tail \in Seq(S) /\ Len(head \o tail) = Len(s) - 1
    BY <2>1, <2>b, <2>c
  <2>3. \A i \in 1 .. Len(head) + Len(tail) :
           (head \o tail)[i] = IF i <= Len(head) THEN head[i] ELSE tail[i - Len(head)]
    BY <1>2, <1>3
  <2> QED BY <2>1, <2>2, <2>3
<1>6. ASSUME NEW i \in 1 .. Len(s) - 1 PROVE (head \o tail)[i] = s[IF i < p THEN i ELSE i + 1]
  <2>1. CASE i < p
    <3>1. i \in 1 .. p - 1 /\ i <= Len(head)
      BY <2>1, <1>1, <1>2
    <3> QED BY <2>1, <3>1, <1>2, <1>5
  <2>2. CASE ~(i < p)
    <3>1. i - (p - 1) \in 1 .. Len(s) - p /\ p + (i - (p - 1)) = i + 1 /\ ~(i <= Len(head))
      BY <2>2, <1>1, <1>2
    <3>2. (head \o tail)[i] = tail[i - (p - 1)]
      BY <3>1, <1>2, <1>5
    <3> QED BY <2>2, <3>1, <3>2, <1>3
  <2> QED BY <2>1, <2>2
<1> QED BY <1>4, <1>5, <1>6

(* The elements of s are those of the first n sequences of ss: element k   *)
(* is element col[k] of sequence row[k], and each has one place in s.      *)
Unfolds(ss, n, s, row, col) ==
  /\ row \in [1 .. Len(s) -> Nat] /\ col \in [1 .. Len(s) -> Nat]
  /\ \A k \in 1 .. Len(s) :
       /\ row[k] \in 1 .. n /\ col[k] \in 1 .. Len(ss[row[k]])
       /\ s[k] = ss[row[k]][col[k]]
  /\ \A b \in 1 .. n : \A i \in 1 .. Len(ss[b]) :
       \E k \in 1 .. Len(s) : row[k] = b /\ col[k] = i
  /\ \A j, k \in 1 .. Len(s) : row[j] = row[k] /\ col[j] = col[k] => j = k

(* With one more sequence appended its elements are listed as well.        *)
LEMMA OneMoreUnfolds ==
  ASSUME NEW S, NEW ss \in Seq(Seq(S)), NEW n \in Nat, n + 1 \in 1 .. Len(ss),
         NEW s \in Seq(S), NEW row, NEW col, Unfolds(ss, n, s, row, col)
  PROVE  /\ s \o ss[n + 1] \in Seq(S)
         /\ \E r, c : Unfolds(ss, n + 1, s \o ss[n + 1], r, c)
<1> DEFINE t == ss[n + 1]
           u == s \o t
           r == [k \in 1 .. Len(u) |-> IF k <= Len(s) THEN row[k] ELSE n + 1]
           c == [k \in 1 .. Len(u) |-> IF k <= Len(s) THEN col[k] ELSE k - Len(s)]
<1>1. t \in Seq(S) /\ Len(s) \in Nat /\ Len(t) \in Nat
  OBVIOUS
<1>2. u \in Seq(S) /\ Len(u) = Len(s) + Len(t)
  <2> HIDE DEF t
  <2> QED BY <1>1
<1>3. \A k \in 1 .. Len(u) : u[k] = IF k <= Len(s) THEN s[k] ELSE t[k - Len(s)]
  <2> HIDE DEF t
  <2> QED BY <1>1
<1> HIDE DEF u
<1>4. row \in [1 .. Len(s) -> Nat] /\ col \in [1 .. Len(s) -> Nat]
  BY DEF Unfolds
<1>5. ASSUME NEW k \in 1 .. Len(u)
      PROVE  \/ k \in 1 .. Len(s) /\ r[k] = row[k] /\ c[k] = col[k] /\ u[k] = s[k]
             \/ /\ k \in Len(s) + 1 .. Len(u) /\ r[k] = n + 1 /\ c[k] = k - Len(s)
                /\ c[k] \in 1 .. Len(t) /\ u[k] = t[c[k]]
  BY <1>1, <1>2, <1>3
<1>6. r \in [1 .. Len(u) -> Nat] /\ c \in [1 .. Len(u) -> Nat]
  <2>1. \A k \in 1 .. Len(u) : r[k] \in Nat /\ c[k] \in Nat
    <3> TAKE k \in 1 .. Len(u)
    <3>1. CASE k \in 1 .. Len(s) /\ r[k] = row[k] /\ c[k] = col[k]
      BY <3>1, <1>4
    <3>2. CASE r[k] = n + 1 /\ c[k] \in 1 .. Len(t)
      BY <3>2
    <3> QED BY <3>1, <3>2, <1>5
  <2> QED BY <2>1
<1>7. ASSUME NEW k \in 1 .. Len(s) PROVE k \in 1 .. Len(u) /\ r[k] = row[k] /\ c[k] = col[k]
  BY <1>1, <1>2
<1>8. ASSUME NEW i \in 1 .. Len(t)
      PROVE  Len(s) + i \in 1 .. Len(u) /\ r[Len(s) + i] = n + 1 /\ c[Len(s) + i] = i
  BY <1>1, <1>2
<1> HIDE DEF r, c
<1>9. ASSUME NEW k \in 1 .. Len(u)
      PROVE  r[k] \in 1 .. n + 1 /\ c[k] \in 1 .. Len(ss[r[k]]) /\ u[k] = ss[r[k]][c[k]]
  <2>1. CASE k \in 1 .. Len(s) /\ r[k] = row[k] /\ c[k] = col[k] /\ u[k] = s[k]
    BY <2>1 DEF Unfolds
  <2>2. CASE /\ k \in Len(s) + 1 .. Len(u) /\ r[k] = n + 1 /\ c[k] = k - Len(s)
             /\ c[k] \in 1 .. Len(t) /\ u[k] = t[c[k]]
    BY <2>2
  <2> QED BY <2>1, <2>2, <1>5
<1>10. ASSUME NEW b \in 1 .. n + 1, NEW i \in 1 .. Len(ss[b])
       PROVE  \E k \in 1 .. Len(u) : r[k] = b /\ c[k] = i
  <2>1. CASE b = n + 1
    <3>1. i \in 1 .. Len(t)
      BY <2>1
    <3> QED BY <3>1, <2>1, <1>8
  <2>2. CASE b # n + 1
    <3>1. b \in 1 .. n
      BY <2>2
    <3>2. PICK k \in 1 .. Len(s) : row[k] = b /\ col[k] = i
      BY <3>1 DEF Unfolds
    <3> QED BY <3>2, <1>7
  <2> QED BY <2>1, <2>2
<1>11. ASSUME NEW j \in 1 .. Len(u), NEW k \in 1 .. Len(u), r[j] = r[k], c[j] = c[k]
       PROVE  j = k
  <2>1. \A h \in 1 .. Len(s) : row[h] # n + 1
    BY DEF Unfolds
  <2>2. CASE j \in 1 .. Len(s) /\ k \in 1 .. Len(s)
    BY <2>2, <1>7, <1>11 DEF Unfolds
  <2>3. CASE j \in Len(s) + 1 .. Len(u) /\ k \in Len(s) + 1 .. Len(u)
    <3>0. ASSUME NEW h \in 1 .. Len(u), h \in Len(s) + 1 .. Len(u) PROVE c[h] = h - Len(s)
      <4>1. h \notin 1 .. Len(s)
        BY <3>0, <1>1
      <4> QED BY <4>1, <1>5
    <3>1. c[j] = j - Len(s) /\ c[k] = k - Len(s)
      BY <2>3, <3>0
    <3> QED BY <2>3, <3>1, <1>1, <1>11
  <2>4. CASE \/ j \in 1 .. Len(s) /\ k \in Len(s) + 1 .. Len(u)
             \/ k \in 1 .. Len(s) /\ j \in Len(s) + 1 .. Len(u)
    BY <2>1, <2>4, <1>1, <1>5, <1>11
  <2> QED BY <2>2, <2>3, <2>4, <1>1, <1>2
<1>12. Unfolds(ss, n + 1, u, r, c)
  BY <1>6, <1>9, <1>10, <1>11 DEF Unfolds
<1> QED BY <1>2, <1>12 DEF u

(* The sequences of a sequence, one behind the other.                      *)
LEMMA FlattenUnfolds ==
  ASSUME NEW S, NEW ss \in Seq(Seq(S))
  PROVE  /\ FlattenSeq(ss) \in Seq(S)
         /\ \E row, col : Unfolds(ss, Len(ss), FlattenSeq(ss), row, col)
<1>1. CASE ss = <<>>
  <2>1. FlattenSeq(ss) = <<>> /\ Len(ss) = 0
    BY <1>1 DEF FlattenSeq
  <2>2. Unfolds(ss, 0, <<>>, [k \in 1 .. 0 |-> 0], [k \in 1 .. 0 |-> 0])
    BY DEF Unfolds
  <2> QED BY <2>1, <2>2
<1>2. CASE ss # <<>>
  <2> DEFINE flatten[i \in 1 .. Len(ss)] == IF i = 1 THEN ss[i] ELSE flatten[i - 1] \o ss[i]
             more == [x \in Nat \X Seq(S) |->
                        IF x[1] + 1 \in 1 .. Len(ss) THEN x[2] \o ss[x[1] + 1] ELSE x[2]]
  <2>1. Len(ss) \in Nat \ {0} /\ FlattenSeq(ss) = flatten[Len(ss)]
    BY <1>2 DEF FlattenSeq
  <2>2. more \in [Nat \X Seq(S) -> Seq(S)]
    <3> SUFFICES ASSUME NEW x \in Nat \X Seq(S), x[1] + 1 \in 1 .. Len(ss)
                 PROVE  x[2] \o ss[x[1] + 1] \in Seq(S)
      OBVIOUS
    <3>1. x[2] \in Seq(S) /\ ss[x[1] + 1] \in Seq(S)
      OBVIOUS
    <3> QED BY <3>1
  <2>3. PICK f \in [Nat -> Seq(S)] : f[0] = <<>> /\ \A n \in Nat : f[n + 1] = more[<<n, f[n]>>]
    <3>1. <<>> \in Seq(S)
      OBVIOUS
    <3>2. \E f \in [Nat -> Seq(S)] : Recurs(f, <<>>, more)
      <4> HIDE DEF more
      <4> QED BY <2>2, <3>1, RecursionExists
    <3> QED BY <3>2 DEF Recurs
  <2>4. ASSUME NEW n \in Nat, n + 1 \in 1 .. Len(ss) PROVE f[n + 1] = f[n] \o ss[n + 1]
    BY <2>3, <2>4
  <2>5. f[1] = ss[1]
    <3>1. ss[1] \in Seq(S)
      BY <2>1
    <3>2. f[1] = <<>> \o ss[1]
      <4>1. 0 \in Nat /\ 0 + 1 \in 1 .. Len(ss) /\ 0 + 1 = 1
        BY <2>1
      <4>2. f[0 + 1] = f[0] \o ss[0 + 1]
        BY <4>1, <2>4
      <4> QED BY <4>1, <4>2, <2>3
    <3> QED BY <3>1, <3>2, ConcatEmptySeq
  <2>6. flatten = [i \in 1 .. Len(ss) |-> IF i = 1 THEN ss[i] ELSE flatten[i - 1] \o ss[i]]
    <3> DEFINE g == [i \in 1 .. Len(ss) |-> f[i]]
    <3>1. ASSUME NEW i \in 1 .. Len(ss)
          PROVE  g[i] = IF i = 1 THEN ss[i] ELSE g[i - 1] \o ss[i]
      <4>1. CASE i = 1
        BY <4>1, <2>5
      <4>2. CASE i # 1
        <5>1. i - 1 \in Nat /\ (i - 1) + 1 = i /\ i - 1 \in 1 .. Len(ss)
          BY <4>2, <2>1
        <5>2. f[i] = f[i - 1] \o ss[i]
          BY <5>1, <2>4
        <5> QED BY <4>2, <5>1, <5>2
      <4> QED BY <4>1, <4>2
    <3>2. g = [i \in 1 .. Len(ss) |-> IF i = 1 THEN ss[i] ELSE g[i - 1] \o ss[i]]
      BY <3>1
    <3> HIDE DEF g
    <3> QED BY <3>2
  <2> DEFINE A == {n \in Nat : n + 1 \in 1 .. Len(ss) =>
                     /\ flatten[n + 1] \in Seq(S)
                     /\ \E row, col : Unfolds(ss, n + 1, flatten[n + 1], row, col)}
  <2> HIDE DEF flatten
  <2>7. 0 \in A
    <3>1. Unfolds(ss, 0, <<>>, [k \in 1 .. 0 |-> 0], [k \in 1 .. 0 |-> 0])
      BY DEF Unfolds
    <3>2. flatten[1] = <<>> \o ss[1] /\ ss[1] \in Seq(S)
      <4>1. flatten[1] = ss[1] /\ ss[1] \in Seq(S)
        BY <2>1, <2>6
      <4> QED BY <4>1, ConcatEmptySeq
    <3>3. /\ <<>> \o ss[0 + 1] \in Seq(S)
          /\ \E r, c : Unfolds(ss, 0 + 1, <<>> \o ss[0 + 1], r, c)
      <4>1. 0 + 1 \in 1 .. Len(ss) /\ <<>> \in Seq(S) /\ 0 \in Nat
        BY <2>1
      <4> QED BY <4>1, <3>1, OneMoreUnfolds
    <3> QED BY <3>2, <3>3
  <2>8. ASSUME NEW n \in Nat, n \in A PROVE n + 1 \in A
    <3> SUFFICES ASSUME (n + 1) + 1 \in 1 .. Len(ss)
                 PROVE  /\ flatten[(n + 1) + 1] \in Seq(S)
                        /\ \E row, col : Unfolds(ss, (n + 1) + 1, flatten[(n + 1) + 1], row, col)
      OBVIOUS
    <3>1. n + 1 \in 1 .. Len(ss) /\ n + 1 \in Nat
      OBVIOUS
    <3>2. PICK row, col : Unfolds(ss, n + 1, flatten[n + 1], row, col)
      BY <2>8, <3>1
    <3>3. flatten[n + 1] \in Seq(S)
      BY <2>8, <3>1
    <3>4. flatten[(n + 1) + 1] = flatten[n + 1] \o ss[(n + 1) + 1]
      <4>1. (n + 1) + 1 # 1 /\ ((n + 1) + 1) - 1 = n + 1 /\ (n + 1) + 1 \in 1 .. Len(ss)
        BY <3>1
      <4> QED BY <4>1, <2>6
    <3> DEFINE m == n + 1
    <3> HIDE DEF A
    <3>5. m \in Nat /\ m + 1 \in 1 .. Len(ss) /\ Unfolds(ss, m, flatten[m], row, col)
      BY <3>1, <3>2
    <3>6. flatten[m] \in Seq(S) /\ flatten[m + 1] = flatten[m] \o ss[m + 1]
      BY <3>3, <3>4
    <3>7. /\ flatten[m] \o ss[m + 1] \in Seq(S)
          /\ \E r, c : Unfolds(ss, m + 1, flatten[m] \o ss[m + 1], r, c)
      <4> HIDE DEF m
      <4> QED BY <3>5, <3>6, OneMoreUnfolds
    <3>8. \E r, c : Unfolds(ss, m + 1, flatten[m + 1], r, c)
      <4> HIDE DEF m
      <4> QED BY <3>6, <3>7
    <3>9. flatten[m + 1] \in Seq(S)
      <4> HIDE DEF m
      <4> QED BY <3>6, <3>7
    <3> QED BY <3>8, <3>9
  <2>9. Nat \subseteq A
    <3> HIDE DEF A
    <3> QED BY <2>7, <2>8, SetInduction
  <2>10. Len(ss) - 1 \in A /\ (Len(ss) - 1) + 1 = Len(ss) /\ Len(ss) \in 1 .. Len(ss)
    <3> HIDE DEF A
    <3> QED BY <2>1, <2>9
  <2> QED BY <2>1, <2>10
<1> QED BY <1>1, <1>2
=============================================================================
