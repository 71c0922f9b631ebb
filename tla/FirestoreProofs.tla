-------------------------- MODULE FirestoreProofs --------------------------
(***************************************************************************)
(* Facts about the operators of Firestore, for the proofs about the modules *)
(* that extend it: induction on natural numbers (by the least counter-      *)
(* example), functions defined by recursion on the length of a sequence,    *)
(* and what the sequences of reads, handlers and writes contain after a     *)
(* step of the SDK.                                                          *)
(***************************************************************************)
EXTENDS Firestore, TLAPS, NaturalsInduction, WellFoundedInduction

InSeq(s, x) == \E i \in 1..Len(s) : s[i] = x

(* Every nonempty set of natural numbers has a least member. *)
LEMMA LeastNat ==
    ASSUME NEW X \in SUBSET Nat, X # {}
    PROVE  \E n \in X : \A m \in X : n <= m
<1>1. \A x, y \in Nat : y < x => <<y, x>> \in OpToRel(<, Nat)
  BY DEF OpToRel
<1>2. \E R : IsWellFoundedOn(R, Nat) /\ \A x, y \in Nat : y < x => <<y, x>> \in R
  BY <1>1, NatLessThanWellFounded, Zenon
<1>3. PICK R : IsWellFoundedOn(R, Nat) /\ \A x, y \in Nat : y < x => <<y, x>> \in R
  BY ONLY <1>2
<1>4. \E x \in X : \A y \in X : ~(<<y, x>> \in R)
  BY <1>3, WFMin
<1>5. PICK n \in X : \A y \in X : ~(<<y, n>> \in R)
  BY <1>4
<1>6. \A m \in X : n <= m
  <2> SUFFICES ASSUME NEW m \in X PROVE n <= m
    OBVIOUS
  <2>1. n \in Nat /\ m \in Nat
    OBVIOUS
  <2>2. ~(m < n)
    BY <1>3, <1>5, <2>1
  <2>3. QED
    BY <2>1, <2>2
<1>7. QED
  BY <1>6

(* Every nonempty set of numbers up to n has a greatest member. *)
LEMMA Greatest ==
    ASSUME NEW n \in Nat, NEW X \in SUBSET (1..n), X # {}
    PROVE  \E k \in X : \A m \in X : m <= k
<1> DEFINE Y == {j \in Nat : j \in 0..n /\ n - j \in X}
<1>1. Y \in SUBSET Nat /\ Y # {}
  <2>1. PICK x \in X : TRUE
    OBVIOUS
  <2>2. n - x \in 0..n /\ n - (n - x) = x
    OBVIOUS
  <2>3. n - x \in Y
    BY <2>2
  <2>4. QED
    BY <2>3
<1>2. PICK j \in Y : \A m \in Y : j <= m
  <2> HIDE DEF Y
  <2>1. QED
    BY <1>1, LeastNat
<1>3. n - j \in X
  OBVIOUS
<1>4. ASSUME NEW m \in X PROVE m <= n - j
  <2>1. n - m \in 0..n /\ n - (n - m) = m
    OBVIOUS
  <2>2. n - m \in Y
    BY <2>1
  <2>3. j <= n - m /\ j \in Nat
    BY <1>2, <2>2
  <2>4. QED
    BY <2>3
<1>5. QED
  BY <1>3, <1>4

(* Induction up to n: X contains 0 and, with each number below n, the next. *)
LEMMA UpTo ==
    ASSUME NEW n \in Nat, NEW X, 0 \in X,
           \A i \in 1..n : i - 1 \in X => i \in X
    PROVE  0..n \subseteq X
<1> SUFFICES ASSUME NEW j \in 0..n, j \notin X PROVE FALSE
  OBVIOUS
<1> DEFINE Y == {i \in Nat : i \in 0..n /\ i \notin X}
<1>1. Y \in SUBSET Nat /\ Y # {}
  OBVIOUS
<1>2. PICK k \in Y : \A m \in Y : k <= m
  <2> HIDE DEF Y
  <2>1. QED
  BY <1>1, LeastNat
<1>3. k # 0 /\ k \in 1..n /\ k \notin X
  OBVIOUS
<1>4. k - 1 \in X
  BY <1>2, <1>3
<1>5. QED
  BY <1>3, <1>4

(* A function may be defined by recursion up to n; g[i] is its i-th step. *)
Steps(f, n, S, x, g) ==
    f \in [0..n -> S] /\ f[0] = x /\ \A i \in 1..n : f[i] = g[i][f[i - 1]]

LEMMA Recursion ==
    ASSUME NEW n \in Nat, NEW S, NEW x \in S, NEW g \in [1..n -> [S -> S]]
    PROVE  \E f : Steps(f, n, S, x, g)
<1> DEFINE P(m) == \E f \in [0..m -> S] : f[0] = x /\ \A i \in 1..m : f[i] = g[i][f[i - 1]]
           X == {m \in 0..n : P(m)}
<1>1. 0 \in X
  <2> DEFINE h == [i \in 0..0 |-> x]
  <2>1. h \in [0..0 -> S] /\ h[0] = x /\ \A i \in 1..0 : h[i] = g[i][h[i - 1]]
    OBVIOUS
  <2> HIDE DEF h
  <2>2. P(0)
    BY <2>1
  <2>3. QED
    BY <2>2
<1>2. ASSUME NEW i \in 1..n, i - 1 \in X PROVE i \in X
  <2>1. PICK f \in [0..(i - 1) -> S] : f[0] = x /\ \A j \in 1..(i - 1) : f[j] = g[j][f[j - 1]]
    BY <1>2
  <2> DEFINE h == [j \in 0..i |-> IF j = i THEN g[i][f[i - 1]] ELSE f[j]]
  <2>2. f[i - 1] \in S /\ g[i][f[i - 1]] \in S
    BY <2>1
  <2>3. h \in [0..i -> S]
    BY <2>1, <2>2
  <2>4. h[0] = x
    BY <2>1
  <2>5. ASSUME NEW j \in 1..i PROVE h[j] = g[j][h[j - 1]]
    <3>1. h[j - 1] = f[j - 1]
      OBVIOUS
    <3>2. CASE j = i
      BY <3>1, <3>2
    <3>3. CASE j # i
      <4>1. j \in 1..(i - 1)
        BY <3>3
      <4>2. h[j] = f[j]
        BY <3>3
      <4>3. QED
        BY <2>1, <3>1, <4>1, <4>2
    <3>4. QED
      BY <3>2, <3>3
  <2>6. P(i)
    <3> HIDE DEF h
    <3>1. QED
      BY <2>3, <2>4, <2>5
  <2> HIDE DEF P
  <2>7. QED
    BY <2>6
<1>3. n \in X
  <2> HIDE DEF X
  <2>1. 0..n \subseteq X
    BY <1>1, <1>2, UpTo
  <2>2. QED
    BY <2>1
<1>4. QED
  BY <1>3 DEF Steps

(* The elements of a sequence with one more at its end. *)
LEMMA AppendElements ==
    ASSUME NEW S, NEW s \in Seq(S), NEW e \in S
    PROVE  /\ Append(s, e) \in Seq(S)
           /\ \A x : InSeq(Append(s, e), x) <=> InSeq(s, x) \/ x = e
<1>1. /\ Append(s, e) \in Seq(S) /\ Len(Append(s, e)) = Len(s) + 1 /\ Len(s) \in Nat
      /\ \A i \in 1..Len(s) : Append(s, e)[i] = s[i]
      /\ Append(s, e)[Len(s) + 1] = e
  OBVIOUS
<1>2. QED
  BY <1>1 DEF InSeq

(* The recursion that Among stands for. *)
Selected(q, Ds, f) ==
    /\ f[0] = <<>> /\ Among(q, Ds) = f[Len(q)]
    /\ \A i \in 1..Len(q) :
           f[i] = IF q[i].docs \in Ds THEN Append(f[i - 1], q[i]) ELSE f[i - 1]

LEMMA AmongUnfolds ==
    ASSUME NEW S, NEW q \in Seq(S), NEW Ds
    PROVE  \E f : Selected(q, Ds, f)
<1> DEFINE n == Len(q)
           f == CHOOSE f : f = [i \in 0..Len(q) |->
                    IF i = 0 THEN <<>>
                    ELSE IF q[i].docs \in Ds THEN Append(f[i - 1], q[i]) ELSE f[i - 1]]
           g == [i \in 1..n |-> [s \in Seq(S) |->
                    IF q[i].docs \in Ds THEN Append(s, q[i]) ELSE s]]
<1>1. n \in Nat /\ <<>> \in Seq(S) /\ g \in [1..n -> [Seq(S) -> Seq(S)]]
  OBVIOUS
<1>2. \E h \in [0..n -> Seq(S)] : h[0] = <<>> /\ \A i \in 1..n : h[i] = g[i][h[i - 1]]
  <2> DEFINE T == Seq(S)
             x == <<>>
  <2>0. n \in Nat /\ x \in T /\ g \in [1..n -> [T -> T]]
    BY <1>1
  <2> HIDE DEF n, g, T, x
  <2>1. \E h : Steps(h, n, T, x, g)
    BY <2>0, Recursion
  <2>2. QED
    BY <2>1 DEF Steps, T, x
<1>3. \E h : h = [i \in 0..Len(q) |->
                    IF i = 0 THEN <<>>
                    ELSE IF q[i].docs \in Ds THEN Append(h[i - 1], q[i]) ELSE h[i - 1]]
  <2>1. PICK h \in [0..n -> Seq(S)] : h[0] = <<>> /\ \A i \in 1..n : h[i] = g[i][h[i - 1]]
    BY <1>2
  <2>2. ASSUME NEW i \in 1..n
        PROVE  h[i] = IF q[i].docs \in Ds THEN Append(h[i - 1], q[i]) ELSE h[i - 1]
    <3>1. h[i - 1] \in Seq(S)
      OBVIOUS
    <3>2. g[i] = [s \in Seq(S) |-> IF q[i].docs \in Ds THEN Append(s, q[i]) ELSE s]
      OBVIOUS
    <3>3. g[i][h[i - 1]] = IF q[i].docs \in Ds THEN Append(h[i - 1], q[i]) ELSE h[i - 1]
      BY <3>1, <3>2
    <3>4. QED
      BY <2>1, <3>3
  <2>3. h = [i \in 0..Len(q) |->
                    IF i = 0 THEN <<>>
                    ELSE IF q[i].docs \in Ds THEN Append(h[i - 1], q[i]) ELSE h[i - 1]]
    <3>1. h = [i \in 0..Len(q) |-> h[i]]
      OBVIOUS
    <3>2. \A i \in 0..Len(q) : h[i] = IF i = 0 THEN <<>>
                    ELSE IF q[i].docs \in Ds THEN Append(h[i - 1], q[i]) ELSE h[i - 1]
      <4> SUFFICES ASSUME NEW i \in 0..Len(q)
                   PROVE  h[i] = IF i = 0 THEN <<>>
                              ELSE IF q[i].docs \in Ds THEN Append(h[i - 1], q[i]) ELSE h[i - 1]
        OBVIOUS
      <4>1. CASE i = 0
        BY <2>1, <4>1
      <4>2. CASE i \in 1..n
        <5>1. i # 0
          BY <4>2
        <5>2. QED
          BY <2>2, <4>2, <5>1
      <4>3. QED
        BY <1>1, <4>1, <4>2
    <3>3. QED
      BY <3>1, <3>2
  <2>4. QED
    BY <2>3
<1>4. f = [i \in 0..Len(q) |->
                    IF i = 0 THEN <<>>
                    ELSE IF q[i].docs \in Ds THEN Append(f[i - 1], q[i]) ELSE f[i - 1]]
  BY <1>3
<1>5. Among(q, Ds) = f[Len(q)]
  BY DEF Among
<1> HIDE DEF f, g
<1>6. /\ f[0] = <<>>
      /\ \A i \in 1..n : f[i] = IF q[i].docs \in Ds THEN Append(f[i - 1], q[i]) ELSE f[i - 1]
  <2>1. 0 \in 0..Len(q) /\ \A i \in 1..n : i \in 0..Len(q) /\ i # 0
    BY <1>1
  <2>2. f[0] = <<>>
    BY <1>4, <2>1
  <2>3. ASSUME NEW i \in 1..n
        PROVE  f[i] = IF q[i].docs \in Ds THEN Append(f[i - 1], q[i]) ELSE f[i - 1]
    BY <1>4, <2>1
  <2>4. QED
    BY <2>2, <2>3
<1>7. QED
  BY <1>5, <1>6 DEF Selected

(* Among selects: it keeps the reads of the given queries and no others, in  *)
(* their order.                                                              *)
LEMMA AmongElements ==
    ASSUME NEW S, NEW q \in Seq(S), NEW Ds
    PROVE  /\ Among(q, Ds) \in Seq(S)
           /\ \A x : InSeq(Among(q, Ds), x) <=> InSeq(q, x) /\ x.docs \in Ds
<1> DEFINE n == Len(q)
<1>1. n \in Nat
  OBVIOUS
<1>2. PICK f : Selected(q, Ds, f)
  BY AmongUnfolds
<1>5. Among(q, Ds) = f[Len(q)]
  BY <1>2 DEF Selected
<1>6. /\ f[0] = <<>>
      /\ \A i \in 1..n : f[i] = IF q[i].docs \in Ds THEN Append(f[i - 1], q[i]) ELSE f[i - 1]
  BY <1>2 DEF Selected
<1> DEFINE Good(i) == /\ f[i] \in Seq(S)
                      /\ \A x : InSeq(f[i], x) <=> (\E j \in 1..i : q[j] = x) /\ x.docs \in Ds
           X == {i \in 0..n : Good(i)}
<1>7. Good(0)
  BY <1>6 DEF InSeq
<1>8. ASSUME NEW i \in 1..n, Good(i - 1) PROVE Good(i)
  <2>1. q[i] \in S /\ f[i - 1] \in Seq(S)
    BY <1>8
  <2>2. \A x : (\E j \in 1..i : q[j] = x) <=> (\E j \in 1..(i - 1) : q[j] = x) \/ q[i] = x
    BY <1>1
  <2>3. CASE q[i].docs \in Ds
    <3>1. f[i] = Append(f[i - 1], q[i])
      BY <1>6, <2>3
    <3>2. f[i] \in Seq(S) /\ \A x : InSeq(f[i], x) <=> InSeq(f[i - 1], x) \/ x = q[i]
      BY <2>1, <3>1, AppendElements
    <3>3. QED
      BY <1>8, <2>2, <2>3, <3>2
  <2>4. CASE q[i].docs \notin Ds
    BY <1>6, <1>8, <2>2, <2>4
  <2>5. QED
    BY <2>3, <2>4
<1>9. n \in X
  <2>1. 0 \in X /\ \A i \in 1..n : i - 1 \in X => i \in X
    <3> HIDE DEF Good
    <3>1. QED
      BY <1>1, <1>7, <1>8
  <2> HIDE DEF X
  <2>2. 0..n \subseteq X
    BY <1>1, <2>1, UpTo
  <2>3. QED
    BY <1>1, <2>2
<1>10. QED
  BY <1>5, <1>9 DEF InSeq

(* Two reads that Among keeps were there in the same order. *)
InOrder(s, k, l, q) == \E i, j \in 1..Len(q) : i < j /\ q[i] = s[k] /\ q[j] = s[l]

LEMMA AmongOrder ==
    ASSUME NEW S, NEW q \in Seq(S), NEW Ds
    PROVE  \A k, l \in 1..Len(Among(q, Ds)) : k < l => InOrder(Among(q, Ds), k, l, q)
<1> DEFINE n == Len(q)
           Before(i, k, l) == \E a, b \in 1..i : a < b /\ q[a] = k /\ q[b] = l
<1>1. n \in Nat
  OBVIOUS
<1>2. PICK f : Selected(q, Ds, f)
  BY AmongUnfolds
<1>3. /\ f[0] = <<>> /\ Among(q, Ds) = f[n]
      /\ \A i \in 1..n : f[i] = IF q[i].docs \in Ds THEN Append(f[i - 1], q[i]) ELSE f[i - 1]
  BY <1>2 DEF Selected
<1> DEFINE Good(i) == /\ f[i] \in Seq(S)
                      /\ \A k \in 1..Len(f[i]) : \E a \in 1..i : q[a] = f[i][k]
                      /\ \A k, l \in 1..Len(f[i]) : k < l => Before(i, f[i][k], f[i][l])
           X == {i \in 0..n : Good(i)}
<1>4. Good(0)
  <2>1. f[0] \in Seq(S) /\ Len(f[0]) = 0
    BY <1>3
  <2>2. QED
    BY <2>1
<1>5. ASSUME NEW i \in 1..n, Good(i - 1) PROVE Good(i)
  <2>1. q[i] \in S /\ f[i - 1] \in Seq(S) /\ Len(f[i - 1]) \in Nat
    BY <1>5
  <2>2. \A x, y : Before(i - 1, x, y) => Before(i, x, y)
    BY <1>1
  <2>3. CASE q[i].docs \notin Ds
    <3>1. f[i] = f[i - 1]
      BY <1>3, <2>3
    <3>2. \A k \in 1..Len(f[i]) : \E a \in 1..i : q[a] = f[i][k]
      BY <1>5, <3>1
    <3>3. \A k, l \in 1..Len(f[i]) : k < l => Before(i, f[i][k], f[i][l])
      <4> HIDE DEF Before
      <4>1. QED
        BY <1>5, <2>2, <3>1
    <3> HIDE DEF Before
    <3>4. QED
      BY <2>1, <3>1, <3>2, <3>3
  <2>4. CASE q[i].docs \in Ds
    <3>1. f[i] = Append(f[i - 1], q[i])
      BY <1>3, <2>4
    <3>2. /\ f[i] \in Seq(S) /\ Len(f[i]) = Len(f[i - 1]) + 1
          /\ \A k \in 1..Len(f[i - 1]) : f[i][k] = f[i - 1][k]
          /\ f[i][Len(f[i - 1]) + 1] = q[i]
      BY <2>1, <3>1
    <3>3. ASSUME NEW k \in 1..Len(f[i]) PROVE \E a \in 1..i : q[a] = f[i][k]
      <4>1. CASE k = Len(f[i - 1]) + 1
        BY <3>2, <4>1
      <4>2. CASE k \in 1..Len(f[i - 1])
        BY <1>5, <3>2, <4>2
      <4>3. QED
        BY <2>1, <3>2, <4>1, <4>2
    <3>4. ASSUME NEW k \in 1..Len(f[i]), NEW l \in 1..Len(f[i]), k < l
          PROVE  Before(i, f[i][k], f[i][l])
      <4>1. k \in 1..Len(f[i - 1])
        BY <2>1, <3>2, <3>4
      <4>2. CASE l \in 1..Len(f[i - 1])
        <5>1. Before(i - 1, f[i - 1][k], f[i - 1][l])
          BY <1>5, <3>4, <4>1, <4>2
        <5>2. QED
          BY <2>2, <3>2, <4>1, <4>2, <5>1
      <4>3. CASE l = Len(f[i - 1]) + 1
        <5>1. PICK a \in 1..(i - 1) : q[a] = f[i - 1][k]
          BY <1>5, <4>1
        <5>2. a \in 1..i /\ i \in 1..i /\ a < i /\ q[a] = f[i][k] /\ q[i] = f[i][l]
          BY <3>2, <4>1, <4>3, <5>1
        <5>3. QED
          BY <5>2
      <4>4. QED
        BY <2>1, <3>2, <4>2, <4>3
    <3> HIDE DEF Before
    <3>5. QED
      BY <3>2, <3>3, <3>4
  <2>5. QED
    BY <2>3, <2>4
<1>6. Good(n)
  <2> HIDE DEF Good
  <2>1. 0 \in X /\ \A i \in 1..n : i - 1 \in X => i \in X
    BY <1>1, <1>4, <1>5
  <2> HIDE DEF X
  <2>2. 0..n \subseteq X
    BY <1>1, <2>1, UpTo
  <2>3. n \in X
    BY <1>1, <2>2
  <2>4. QED
    BY <2>3 DEF X
<1>7. QED
  BY <1>3, <1>6 DEF InOrder

(* The recursion that LocalView stands for: pending writes that keep a       *)
(* document within S are applied one after the other.                        *)
Overlaid(c, d, base, S, v) ==
    /\ v \in [0..Len(queue[c][user[c]]) -> S]
    /\ v[0] = base /\ LocalView(c, d, base) = v[Len(queue[c][user[c]])]
    /\ \A i \in 1..Len(queue[c][user[c]]) :
           v[i] = IF queue[c][user[c]][i].doc = d THEN Apply(queue[c][user[c]][i], v[i - 1])
                  ELSE v[i - 1]

LEMMA LocalViewUnfolds ==
    ASSUME NEW c, NEW d, NEW S, NEW base \in S, Len(queue[c][user[c]]) \in Nat,
           \A i \in 1..Len(queue[c][user[c]]), x \in S :
               queue[c][user[c]][i].doc = d => Apply(queue[c][user[c]][i], x) \in S
    PROVE  \E v : Overlaid(c, d, base, S, v)
<1> DEFINE q == queue[c][user[c]]
           n == Len(q)
           v == CHOOSE v : v = [i \in 0..Len(q) |->
                    IF i = 0 THEN base
                    ELSE IF q[i].doc = d THEN Apply(q[i], v[i - 1]) ELSE v[i - 1]]
           g == [i \in 1..n |-> [x \in S |-> IF q[i].doc = d THEN Apply(q[i], x) ELSE x]]
<1>1. n \in Nat /\ g \in [1..n -> [S -> S]]
  OBVIOUS
<1>2. PICK h \in [0..n -> S] : h[0] = base /\ \A i \in 1..n : h[i] = g[i][h[i - 1]]
  <2> DEFINE T == S
             x == base
  <2>1. n \in Nat /\ x \in T /\ g \in [1..n -> [T -> T]]
    BY <1>1
  <2> HIDE DEF n, g, v, q, T, x
  <2>2. \E h : Steps(h, n, T, x, g)
    BY <2>1, Recursion
  <2>3. QED
    BY <2>2 DEF Steps, T, x
<1>3. ASSUME NEW i \in 1..n
      PROVE  h[i] = IF q[i].doc = d THEN Apply(q[i], h[i - 1]) ELSE h[i - 1]
  <2>1. h[i - 1] \in S
    BY <1>1
  <2>2. g[i] = [x \in S |-> IF q[i].doc = d THEN Apply(q[i], x) ELSE x]
    OBVIOUS
  <2>3. g[i][h[i - 1]] = IF q[i].doc = d THEN Apply(q[i], h[i - 1]) ELSE h[i - 1]
    BY <2>1, <2>2
  <2>4. QED
    BY <1>2, <2>3
<1>4. h = [i \in 0..Len(q) |->
              IF i = 0 THEN base
              ELSE IF q[i].doc = d THEN Apply(q[i], h[i - 1]) ELSE h[i - 1]]
  <2> HIDE DEF g
  <2>1. h = [i \in 0..Len(q) |-> h[i]]
    OBVIOUS
  <2>2. ASSUME NEW i \in 0..Len(q)
        PROVE  h[i] = IF i = 0 THEN base
                   ELSE IF q[i].doc = d THEN Apply(q[i], h[i - 1]) ELSE h[i - 1]
    <3>1. CASE i = 0
      BY <1>2, <3>1
    <3>2. CASE i \in 1..n
      <4>1. i # 0
        BY <3>2
      <4>2. QED
        BY <1>3, <3>2, <4>1
    <3>3. QED
      BY <1>1, <3>1, <3>2
  <2>3. QED
    BY <2>1, <2>2
<1>5. v = [i \in 0..Len(q) |->
              IF i = 0 THEN base
              ELSE IF q[i].doc = d THEN Apply(q[i], v[i - 1]) ELSE v[i - 1]]
  BY <1>4
<1>6. LocalView(c, d, base) = v[Len(q)]
  BY DEF LocalView
<1> HIDE DEF v
<1>7. /\ v[0] = base
      /\ \A i \in 1..n : v[i] = IF q[i].doc = d THEN Apply(q[i], v[i - 1]) ELSE v[i - 1]
  <2>1. v[0] = base
    BY <1>1, <1>5
  <2>2. ASSUME NEW i \in 1..n
        PROVE  v[i] = IF q[i].doc = d THEN Apply(q[i], v[i - 1]) ELSE v[i - 1]
    <3>1. i \in 0..Len(q) /\ i # 0
      BY <1>1
    <3>2. QED
      BY <1>5, <3>1
  <2>3. QED
    BY <2>1, <2>2
<1> DEFINE X == {i \in 0..n : v[i] \in S}
<1>8. 0 \in X /\ \A i \in 1..n : i - 1 \in X => i \in X
  BY <1>1, <1>7
<1>9. 0..n \subseteq X
  <2> HIDE DEF X, n
  <2>1. QED
    BY <1>1, <1>8, UpTo
<1>10. v \in [0..n -> S]
  <2>1. \A i \in 0..n : v[i] \in S
    BY <1>9
  <2>2. v = [i \in 0..n |-> v[i]]
    BY <1>5
  <2>3. QED
    BY <2>1, <2>2
<1>11. QED
  BY <1>6, <1>7, <1>10 DEF Overlaid

(* Pending writes that keep a document within S keep its local view there. *)
LEMMA LocalViewIn ==
    ASSUME NEW c, NEW d, NEW S, NEW base \in S, Len(queue[c][user[c]]) \in Nat,
           \A i \in 1..Len(queue[c][user[c]]), x \in S :
               queue[c][user[c]][i].doc = d => Apply(queue[c][user[c]][i], x) \in S
    PROVE  LocalView(c, d, base) \in S
<1>1. PICK v : Overlaid(c, d, base, S, v)
  BY LocalViewUnfolds
<1>2. QED
  BY <1>1 DEF Overlaid

(* A document that is written is shown as one of S, if the writes leave one  *)
(* of S, whatever was there before.                                          *)
LEMMA LocalViewWritten ==
    ASSUME NEW c, NEW d, NEW S, NEW T, S \subseteq T, NEW base \in T,
           Len(queue[c][user[c]]) \in Nat,
           NEW k \in 1..Len(queue[c][user[c]]), queue[c][user[c]][k].doc = d,
           \A i \in 1..Len(queue[c][user[c]]), x \in T :
               queue[c][user[c]][i].doc = d => Apply(queue[c][user[c]][i], x) \in S
    PROVE  LocalView(c, d, base) \in S
<1> DEFINE n == Len(queue[c][user[c]])
<1>1. PICK v : Overlaid(c, d, base, T, v)
  BY LocalViewUnfolds
<1> DEFINE X == {i \in 0..n : i < k \/ v[i] \in S}
<1>2. 0 \in X
  OBVIOUS
<1>3. ASSUME NEW i \in 1..n, i - 1 \in X PROVE i \in X
  <2>0. i - 1 \in 0..n
    OBVIOUS
  <2>1. /\ v[i] = IF queue[c][user[c]][i].doc = d THEN Apply(queue[c][user[c]][i], v[i - 1])
                  ELSE v[i - 1]
        /\ v[i - 1] \in T
    BY <1>1, <2>0 DEF Overlaid
  <2>2. CASE queue[c][user[c]][i].doc = d
    BY <2>1, <2>2
  <2>3. CASE queue[c][user[c]][i].doc # d
    BY <1>3, <2>1, <2>3
  <2>4. QED
    BY <2>2, <2>3
<1>4. n \in X
  <2> HIDE DEF X, n
  <2>1. n \in Nat
    BY DEF n
  <2>2. 0..n \subseteq X
    BY <1>2, <1>3, <2>1, UpTo
  <2>3. QED
    BY <2>1, <2>2
<1>5. QED
  BY <1>1, <1>4 DEF Overlaid

(* A document is shown as the last write that replaces it leaves it. *)
LEMMA LocalViewLast ==
    ASSUME NEW c, NEW d, NEW S, NEW base \in S, Len(queue[c][user[c]]) \in Nat,
           \A i \in 1..Len(queue[c][user[c]]), x \in S :
               queue[c][user[c]][i].doc = d => Apply(queue[c][user[c]][i], x) \in S,
           NEW k \in 1..Len(queue[c][user[c]]), queue[c][user[c]][k].doc = d,
           \A x \in S : Apply(queue[c][user[c]][k], x) = queue[c][user[c]][k].data,
           \A i \in 1..Len(queue[c][user[c]]) : queue[c][user[c]][i].doc = d => i <= k
    PROVE  LocalView(c, d, base) = queue[c][user[c]][k].data
<1> DEFINE n == Len(queue[c][user[c]])
<1>1. PICK v : Overlaid(c, d, base, S, v)
  BY LocalViewUnfolds
<1> DEFINE X == {i \in 0..n : i < k \/ v[i] = queue[c][user[c]][k].data}
<1>2. 0 \in X
  OBVIOUS
<1>3. ASSUME NEW i \in 1..n, i - 1 \in X PROVE i \in X
  <2>1. v[i] = IF queue[c][user[c]][i].doc = d THEN Apply(queue[c][user[c]][i], v[i - 1])
               ELSE v[i - 1]
    BY <1>1 DEF Overlaid
  <2>2. CASE i < k
    BY <2>2
  <2>3. CASE i = k
    <3>1. i - 1 \in 0..n
      OBVIOUS
    <3>2. v[i - 1] \in S
      BY <1>1, <3>1 DEF Overlaid
    <3>3. QED
      BY <2>1, <2>3, <3>2
  <2>4. CASE i > k
    <3>1. queue[c][user[c]][i].doc # d /\ ~(i - 1 < k)
      BY <2>4
    <3>2. QED
      BY <1>3, <2>1, <3>1
  <2>5. QED
    BY <2>2, <2>3, <2>4
<1>4. n \in X
  <2> HIDE DEF X, n
  <2>1. n \in Nat
    BY DEF n
  <2>2. 0..n \subseteq X
    BY <1>2, <1>3, <2>1, UpTo
  <2>3. QED
    BY <2>1, <2>2
<1>5. QED
  BY <1>1, <1>4 DEF Overlaid

(* One that is not written is shown as it is. *)
LEMMA LocalViewUnwritten ==
    ASSUME NEW c, NEW d, NEW base, Len(queue[c][user[c]]) \in Nat,
           \A i \in 1..Len(queue[c][user[c]]) : queue[c][user[c]][i].doc # d
    PROVE  LocalView(c, d, base) = base
<1> DEFINE S == {base}
<1>1. base \in S /\ \A i \in 1..Len(queue[c][user[c]]), x \in S :
          queue[c][user[c]][i].doc = d => Apply(queue[c][user[c]][i], x) \in S
  OBVIOUS
<1>2. LocalView(c, d, base) \in S
  <2> HIDE DEF S
  <2>1. QED
    BY <1>1, LocalViewIn
<1>3. QED
  BY <1>2

(* With nothing pending, clients see what they were sent. *)
LEMMA LocalViewEmpty ==
    ASSUME NEW c, NEW d, NEW base, queue[c][user[c]] = <<>>
    PROVE  LocalView(c, d, base) = base
<1> DEFINE S == {base}
<1>1. /\ base \in S /\ Len(queue[c][user[c]]) \in Nat
      /\ \A i \in 1..Len(queue[c][user[c]]), x \in S :
             queue[c][user[c]][i].doc = d => Apply(queue[c][user[c]][i], x) \in S
  OBVIOUS
<1>2. LocalView(c, d, base) \in S
  <2> HIDE DEF S
  <2>1. QED
    BY <1>1, LocalViewIn
<1>3. QED
  BY <1>2

-----------------------------------------------------------------------------
(* What a sequence and another one after it contain. *)
LEMMA ConcatElements ==
    ASSUME NEW S, NEW s \in Seq(S), NEW t \in Seq(S)
    PROVE  /\ s \o t \in Seq(S)
           /\ Len(s) \in Nat /\ Len(t) \in Nat
           /\ Len(s \o t) = Len(s) + Len(t)
           /\ \A i \in 1..Len(s) : (s \o t)[i] = s[i]
           /\ \A i \in 1..Len(t) : (s \o t)[Len(s) + i] = t[i]
           /\ \A i \in (Len(s) + 1)..Len(s \o t) : i - Len(s) \in 1..Len(t) /\ (s \o t)[i] = t[i - Len(s)]
  OBVIOUS

(* What a sequence contains without its head. *)
LEMMA TailElements ==
    ASSUME NEW S, NEW s \in Seq(S), s # <<>>
    PROVE  /\ Tail(s) \in Seq(S) /\ Head(s) \in S /\ Head(s) = s[1]
           /\ Len(s) \in Nat /\ 1 \in 1..Len(s) /\ Len(Tail(s)) = Len(s) - 1
           /\ \A i \in 1..Len(Tail(s)) : i + 1 \in 1..Len(s) /\ Tail(s)[i] = s[i + 1]
  OBVIOUS

(* One queue changes at a time. *)
LEMMA QueueUpdate ==
    ASSUME NEW W, queue \in [Clients -> [Users -> Seq(W)]], NEW c \in Clients, user[c] \in Users,
           NEW q \in Seq(W), queue' = [queue EXCEPT ![c][user[c]] = q]
    PROVE  /\ queue' \in [Clients -> [Users -> Seq(W)]] /\ queue'[c][user[c]] = q
           /\ \A e \in Clients, u \in Users : e # c \/ u # user[c] => queue'[e][u] = queue[e][u]
  OBVIOUS

(* Resolve: the reads of D leave reads[c], those of other queries stay, and  *)
(* each one that leaves has its handler at the end of calls[c].              *)
Resolved(R, C, c, D, ok, docs) ==
    /\ reads' \in [Clients -> Seq(R)] /\ calls' \in [Clients -> Seq(C)]
    /\ \A e \in Clients : e # c => reads'[e] = reads[e] /\ calls'[e] = calls[e]
    /\ \A x : InSeq(reads'[c], x) <=> InSeq(reads[c], x) /\ x.docs # D
    /\ Len(calls[c]) \in Nat /\ Len(calls'[c]) \in Nat /\ Len(calls[c]) <= Len(calls'[c])
    /\ \A i \in 1..Len(calls[c]) : calls'[c][i] = calls[c][i]
    /\ \A i \in (Len(calls[c]) + 1)..Len(calls'[c]) :
           \E r \in R : /\ InSeq(reads[c], r) /\ r.docs = D
                        /\ calls'[c][i] = ReadCall(r.tag, r.one \in ok, docs)
    /\ \A r : InSeq(reads[c], r) /\ r.docs = D =>
           InSeq(calls'[c], ReadCall(r.tag, r.one \in ok, docs))

LEMMA ResolveEffect ==
    ASSUME NEW R, NEW C, NEW c \in Clients, NEW D, NEW ok, NEW docs,
           reads \in [Clients -> Seq(R)], calls \in [Clients -> Seq(C)],
           Resolve(c, D, ok, docs),
           \A r \in R : r.docs = D => ReadCall(r.tag, r.one \in ok, docs) \in C
    PROVE  Resolved(R, C, c, D, ok, docs)
<1> DEFINE ready == Among(reads[c], {D})
           new == [i \in 1..Len(ready) |-> ReadCall(ready[i].tag, ready[i].one \in ok, docs)]
           rest == Among(reads[c], Queries(c) \ {D})
<1>1. /\ reads[c] \in Seq(R) /\ calls[c] \in Seq(C)
      /\ reads' = [reads EXCEPT ![c] = rest] /\ calls' = [calls EXCEPT ![c] = @ \o new]
  BY DEF Resolve
<1>2. /\ ready \in Seq(R) /\ \A x : InSeq(ready, x) <=> InSeq(reads[c], x) /\ x.docs = D
  BY <1>1, AmongElements
<1>3. /\ rest \in Seq(R) /\ \A x : InSeq(rest, x) <=> InSeq(reads[c], x) /\ x.docs # D
  <2>1. \A x : InSeq(reads[c], x) => x.docs \in Queries(c)
    BY DEF Queries, InSeq
  <2>2. /\ rest \in Seq(R)
        /\ \A x : InSeq(rest, x) <=> InSeq(reads[c], x) /\ x.docs \in Queries(c) \ {D}
    BY <1>1, AmongElements
  <2>3. QED
    BY <2>1, <2>2
<1> HIDE DEF ready, rest
<1>4. \A i \in 1..Len(ready) : ready[i] \in R /\ InSeq(reads[c], ready[i]) /\ ready[i].docs = D
  <2>1. \A i \in 1..Len(ready) : InSeq(ready, ready[i])
    BY DEF InSeq
  <2>2. QED
    BY <1>2, <2>1
<1>5. new \in Seq(C) /\ Len(new) = Len(ready)
  BY <1>2, <1>4
<1>6. \A i \in 1..Len(new) : new[i] = ReadCall(ready[i].tag, ready[i].one \in ok, docs)
  BY <1>5
<1> HIDE DEF new
<1>7. /\ calls'[c] = calls[c] \o new /\ reads'[c] = rest
      /\ reads' \in [Clients -> Seq(R)]
      /\ \A e \in Clients : e # c => reads'[e] = reads[e] /\ calls'[e] = calls[e]
  BY <1>1, <1>3
<1>8. calls' \in [Clients -> Seq(C)]
  BY <1>1, <1>5
<1>9. /\ Len(calls[c]) \in Nat /\ Len(calls'[c]) \in Nat /\ Len(calls[c]) <= Len(calls'[c])
      /\ \A i \in 1..Len(calls[c]) : calls'[c][i] = calls[c][i]
      /\ \A i \in 1..Len(new) : Len(calls[c]) + i \in 1..Len(calls'[c])
                                /\ calls'[c][Len(calls[c]) + i] = new[i]
      /\ \A i \in (Len(calls[c]) + 1)..Len(calls'[c]) :
             i - Len(calls[c]) \in 1..Len(new) /\ calls'[c][i] = new[i - Len(calls[c])]
  BY <1>1, <1>5, <1>7, ConcatElements
<1>10. ASSUME NEW i \in (Len(calls[c]) + 1)..Len(calls'[c])
       PROVE  \E r \in R : /\ InSeq(reads[c], r) /\ r.docs = D
                           /\ calls'[c][i] = ReadCall(r.tag, r.one \in ok, docs)
  <2> DEFINE j == i - Len(calls[c])
  <2>1. j \in 1..Len(ready) /\ calls'[c][i] = new[j]
    BY <1>5, <1>9
  <2> HIDE DEF j
  <2>2. calls'[c][i] = ReadCall(ready[j].tag, ready[j].one \in ok, docs)
    BY <1>5, <1>6, <2>1
  <2>3. QED
    BY <1>4, <2>1, <2>2
<1>11. ASSUME NEW r, InSeq(reads[c], r), r.docs = D
       PROVE  InSeq(calls'[c], ReadCall(r.tag, r.one \in ok, docs))
  <2>1. PICK i \in 1..Len(ready) : ready[i] = r
    BY <1>2, <1>11 DEF InSeq
  <2>2. QED
    BY <1>5, <1>6, <1>9, <2>1 DEF InSeq
<1>12. QED
  BY <1>3, <1>7, <1>8, <1>9, <1>10, <1>11 DEF Resolved

(* The order of reads is the order of their handlers, and of those that stay. *)
LEMMA ResolveOrder ==
    ASSUME NEW R, NEW C, NEW c \in Clients, NEW D, NEW ok, NEW docs,
           reads \in [Clients -> Seq(R)], calls \in [Clients -> Seq(C)],
           Resolve(c, D, ok, docs),
           \A r \in R : r.docs = D => ReadCall(r.tag, r.one \in ok, docs) \in C
    PROVE  /\ \A k, l \in 1..Len(reads'[c]) : k < l => InOrder(reads'[c], k, l, reads[c])
           /\ \A k, l \in (Len(calls[c]) + 1)..Len(calls'[c]) : k < l =>
                  \E i, j \in 1..Len(reads[c]) :
                      /\ i < j
                      /\ calls'[c][k] = ReadCall(reads[c][i].tag, reads[c][i].one \in ok, docs)
                      /\ calls'[c][l] = ReadCall(reads[c][j].tag, reads[c][j].one \in ok, docs)
<1> DEFINE ready == Among(reads[c], {D})
           new == [i \in 1..Len(ready) |-> ReadCall(ready[i].tag, ready[i].one \in ok, docs)]
           rest == Among(reads[c], Queries(c) \ {D})
<1>1. /\ reads[c] \in Seq(R) /\ calls[c] \in Seq(C)
      /\ reads'[c] = rest /\ calls'[c] = calls[c] \o new
  BY DEF Resolve
<1>2. \A k, l \in 1..Len(rest) : k < l => InOrder(rest, k, l, reads[c])
  BY <1>1, AmongOrder
<1>3. /\ ready \in Seq(R) /\ \A k \in 1..Len(ready) : ready[k] \in R /\ ready[k].docs = D
  <2>1. ready \in Seq(R) /\ \A x : InSeq(ready, x) <=> InSeq(reads[c], x) /\ x.docs = D
    BY <1>1, AmongElements
  <2> HIDE DEF ready
  <2>2. \A k \in 1..Len(ready) : InSeq(ready, ready[k])
    BY DEF InSeq
  <2>3. QED
    BY <2>1, <2>2
<1>4. \A k, l \in 1..Len(ready) : k < l => InOrder(ready, k, l, reads[c])
  BY <1>1, AmongOrder
<1> HIDE DEF ready, rest
<1>5. new \in Seq(C) /\ Len(new) = Len(ready) /\ Len(ready) \in Nat
  BY <1>3
<1>6. \A i \in 1..Len(ready) : new[i] = ReadCall(ready[i].tag, ready[i].one \in ok, docs)
  OBVIOUS
<1> HIDE DEF new
<1>7. /\ Len(calls[c]) \in Nat
      /\ \A i \in (Len(calls[c]) + 1)..Len(calls'[c]) :
             i - Len(calls[c]) \in 1..Len(new) /\ calls'[c][i] = new[i - Len(calls[c])]
  BY <1>1, <1>5, ConcatElements
<1>8. ASSUME NEW k \in (Len(calls[c]) + 1)..Len(calls'[c]),
             NEW l \in (Len(calls[c]) + 1)..Len(calls'[c]), k < l
      PROVE  \E i, j \in 1..Len(reads[c]) :
                 /\ i < j
                 /\ calls'[c][k] = ReadCall(reads[c][i].tag, reads[c][i].one \in ok, docs)
                 /\ calls'[c][l] = ReadCall(reads[c][j].tag, reads[c][j].one \in ok, docs)
  <2> DEFINE a == k - Len(calls[c])
             b == l - Len(calls[c])
  <2>1. /\ a \in 1..Len(ready) /\ b \in 1..Len(ready) /\ a < b
        /\ calls'[c][k] = new[a] /\ calls'[c][l] = new[b]
    BY <1>5, <1>7, <1>8
  <2> HIDE DEF a, b
  <2>2. PICK i, j \in 1..Len(reads[c]) : i < j /\ reads[c][i] = ready[a] /\ reads[c][j] = ready[b]
    BY <1>4, <2>1 DEF InOrder
  <2>3. QED
    BY <1>6, <2>1, <2>2
<1>9. QED
  BY <1>1, <1>2, <1>8

(* The handler of a read that leaves comes after the ones that were there. *)
Later(c, D, ok, docs) ==
    \A r : InSeq(reads[c], r) /\ r.docs = D =>
        \E i \in (Len(calls[c]) + 1)..Len(calls'[c]) :
            calls'[c][i] = ReadCall(r.tag, r.one \in ok, docs)

LEMMA ResolveLater ==
    ASSUME NEW R, NEW C, NEW c \in Clients, NEW D, NEW ok, NEW docs,
           reads \in [Clients -> Seq(R)], calls \in [Clients -> Seq(C)],
           Resolve(c, D, ok, docs),
           \A r \in R : r.docs = D => ReadCall(r.tag, r.one \in ok, docs) \in C
    PROVE  Later(c, D, ok, docs)
<1> DEFINE ready == Among(reads[c], {D})
           new == [i \in 1..Len(ready) |-> ReadCall(ready[i].tag, ready[i].one \in ok, docs)]
<1>1. reads[c] \in Seq(R) /\ calls[c] \in Seq(C) /\ calls'[c] = calls[c] \o new
  BY DEF Resolve
<1>2. ready \in Seq(R) /\ \A x : InSeq(ready, x) <=> InSeq(reads[c], x) /\ x.docs = D
  BY <1>1, AmongElements
<1> HIDE DEF ready
<1>3. \A i \in 1..Len(ready) : ready[i] \in R /\ ready[i].docs = D
  <2>1. \A i \in 1..Len(ready) : InSeq(ready, ready[i])
    BY DEF InSeq
  <2>2. QED
    BY <1>2, <2>1
<1>4. new \in Seq(C) /\ Len(new) = Len(ready) /\ Len(ready) \in Nat
  BY <1>2, <1>3
<1>5. \A i \in 1..Len(ready) : new[i] = ReadCall(ready[i].tag, ready[i].one \in ok, docs)
  OBVIOUS
<1> HIDE DEF new
<1>6. /\ Len(calls[c]) \in Nat /\ Len(calls'[c]) = Len(calls[c]) + Len(new)
      /\ \A i \in 1..Len(new) : calls'[c][Len(calls[c]) + i] = new[i]
  <2>1. calls[c] \in Seq(C) /\ new \in Seq(C)
    BY <1>1, <1>4
  <2>2. /\ Len(calls[c]) \in Nat /\ Len(calls[c] \o new) = Len(calls[c]) + Len(new)
        /\ \A i \in 1..Len(new) : (calls[c] \o new)[Len(calls[c]) + i] = new[i]
    BY <2>1, ConcatElements
  <2>3. QED
    BY <1>1, <2>2
<1>7. ASSUME NEW r, InSeq(reads[c], r), r.docs = D
      PROVE  \E i \in (Len(calls[c]) + 1)..Len(calls'[c]) :
                 calls'[c][i] = ReadCall(r.tag, r.one \in ok, docs)
  <2>1. PICK k \in 1..Len(ready) : ready[k] = r
    BY <1>2, <1>7 DEF InSeq
  <2>2. /\ Len(calls[c]) + k \in (Len(calls[c]) + 1)..Len(calls'[c])
        /\ calls'[c][Len(calls[c]) + k] = ReadCall(r.tag, r.one \in ok, docs)
    BY <1>4, <1>5, <1>6, <2>1
  <2>3. QED
    BY <2>2
<1>8. QED
  BY <1>7 DEF Later
=============================================================================
