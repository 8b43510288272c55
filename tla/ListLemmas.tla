----------------------------- MODULE ListLemmas -----------------------------
(***************************************************************************)
(* Facts about numbers and sequences of every length that the proofs of    *)
(* the queues and lists of the kernel share.                               *)
(***************************************************************************)
EXTENDS Lists, SequencesExt, SequenceTheorems, FiniteSetTheorems, WellFoundedInduction, TLAPS

(* A non-empty set of naturals has a minimum. *)
LEMMA MinOfNaturals ==
  ASSUME NEW N \in SUBSET Nat, N # {}
  PROVE  Min(N) \in N /\ \A j \in N : Min(N) <= j
<1> DEFINE R == OpToRel(<, Nat)
<1>1. IsWellFoundedOn(R, Nat)
  BY NatLessThanWellFounded
<1>2. \A i, j \in Nat : <<i, j>> \in R <=> i < j
  BY DEF OpToRel
<1> HIDE DEF R
<1>3. PICK m \in N : \A j \in N : ~(<<j, m>> \in R)
  BY <1>1, WFMin, Zenon
<1>4. ASSUME NEW j \in N PROVE m <= j
  <2>1. ~(<<j, m>> \in R) /\ j \in Nat /\ m \in Nat
    BY <1>3
  <2>2. ~(j < m)
    BY <2>1, <1>2
  <2> QED
    BY <2>1, <2>2
<1> QED
  BY <1>4 DEF Min

(* InsertAt puts one element at its place and moves the rest up. *)
LEMMA InsertAtElements ==
  ASSUME NEW S, NEW q \in Seq(S), NEW e \in S, NEW k \in 1 .. Len(q) + 1
  PROVE  /\ InsertAt(q, k, e) \in Seq(S)
         /\ Len(InsertAt(q, k, e)) = Len(q) + 1
         /\ \A i \in 1 .. Len(q) + 1 :
               InsertAt(q, k, e)[i] =
                 IF i < k THEN q[i] ELSE IF i = k THEN e ELSE q[i - 1]
<1> DEFINE a == SubSeq(q, 1, k - 1)
           b == SubSeq(q, k, Len(q))
           c == a \o <<e>>
<1>1. a \in Seq(S) /\ Len(a) = k - 1 /\ \A i \in 1 .. k - 1 : a[i] = q[i]
  OBVIOUS
<1>2. b \in Seq(S) /\ Len(b) = Len(q) + 1 - k
      /\ \A i \in 1 .. Len(q) + 1 - k : b[i] = q[i + k - 1]
  OBVIOUS
<1> HIDE DEF a, b
<1>3. c \in Seq(S) /\ Len(c) = k /\ \A i \in 1 .. k : c[i] = IF i < k THEN q[i] ELSE e
  BY <1>1
<1>4. InsertAt(q, k, e) = c \o b
  BY DEF InsertAt, a, b
<1> HIDE DEF c
<1>5. /\ c \o b \in Seq(S)
      /\ Len(c \o b) = Len(c) + Len(b)
      /\ \A i \in 1 .. Len(c) + Len(b) : (c \o b)[i] =
            IF i <= Len(c) THEN c[i] ELSE b[i - Len(c)]
  BY <1>2, <1>3, ConcatProperties
<1>6. Len(c) + Len(b) = Len(q) + 1
  BY <1>2, <1>3
<1>7. ASSUME NEW i \in 1 .. Len(q) + 1
      PROVE  (c \o b)[i] = IF i < k THEN q[i] ELSE IF i = k THEN e ELSE q[i - 1]
  <2>1. CASE i <= k
    BY <2>1, <1>3, <1>5, <1>6
  <2>2. CASE i > k
    <3>1. i - k \in 1 .. Len(q) + 1 - k /\ (c \o b)[i] = b[i - k]
      BY <2>2, <1>2, <1>3, <1>5, <1>6
    <3>2. b[i - k] = q[(i - k) + k - 1]
      BY <3>1, <1>2
    <3>3. (i - k) + k - 1 = i - 1
      OBVIOUS
    <3> QED
      BY <2>2, <3>1, <3>2, <3>3
  <2>3. i <= k \/ i > k
    OBVIOUS
  <2> QED
    BY <2>1, <2>2, <2>3, Zenon
<1> QED
  BY <1>4, <1>5, <1>6, <1>7

-----------------------------------------------------------------------------
(* Lists. *)

(* Induction over the naturals, with a set in the place of a predicate.      *)
LEMMA SetInduction ==
  ASSUME NEW B, 0 \in B, \A n \in Nat : n \in B => n + 1 \in B
  PROVE  Nat \subseteq B
<1> SUFFICES ASSUME ~(Nat \subseteq B) PROVE FALSE
  OBVIOUS
<1> DEFINE R == OpToRel(<, Nat)
           bad == {n \in Nat : n \notin B}
<1>1. IsWellFoundedOn(R, Nat)
  BY NatLessThanWellFounded
<1>2. \A i, j \in Nat : <<i, j>> \in R <=> i < j
  BY DEF OpToRel
<1>3. bad \subseteq Nat /\ bad # {}
  OBVIOUS
<1> HIDE DEF R, bad
<1>4. PICK m \in bad : \A j \in bad : ~(<<j, m>> \in R)
  BY <1>1, <1>3, WFMin, Zenon
<1>5. m \in Nat /\ m \notin B /\ m # 0
  BY <1>4 DEF bad
<1>6. m - 1 \in Nat /\ (m - 1) + 1 = m /\ m - 1 < m
  BY <1>5
<1>7. m - 1 \notin bad
  BY <1>2, <1>4, <1>5, <1>6
<1>8. m - 1 \in B
  BY <1>6, <1>7 DEF bad
<1> QED
  BY <1>5, <1>6, <1>8

(* Nothing is on a list twice; nothing of K is. *)
Once(list) == \A i, j \in 1 .. Len(list) : list[i] = list[j] => i = j
OnceAmong(list, K) ==
    \A i, j \in 1 .. Len(list) : list[i] \in K /\ list[i] = list[j] => i = j

(* What is on a list. *)
LEMMA ListElements ==
  ASSUME NEW S, NEW q \in Seq(S)
  PROVE  /\ \A x : x \in ToSet(q) <=> \E i \in 1 .. Len(q) : q[i] = x
         /\ ToSet(q) \subseteq S
  BY LenProperties DEF ToSet

(* A list that names nothing twice is as long as it has elements. *)
LEMMA OnceCounts ==
  ASSUME NEW S, NEW q \in Seq(S), Once(q)
  PROVE  Cardinality(ToSet(q)) = Len(q)
<1>1. Len(q) \in Nat /\ q \in [1 .. Len(q) -> ToSet(q)] /\ DOMAIN q = 1 .. Len(q)
  BY ListElements, LenProperties DEF ToSet
<1>2. q \in Bijection(1 .. Len(q), ToSet(q))
  BY <1>1, ListElements DEF Once, Bijection, Injection, Surjection, IsInjective
<1>3. ExistsBijection(1 .. Len(q), ToSet(q))
  BY <1>2 DEF ExistsBijection
<1> QED
  BY <1>1, <1>3, FS_CountingElements

(* Linking at the end of a list. *)
LEMMA AppendLists ==
  ASSUME NEW S, NEW q \in Seq(S), NEW x \in S
  PROVE  /\ Append(q, x) \in Seq(S)
         /\ ToSet(Append(q, x)) = ToSet(q) \cup {x}
         /\ Once(q) /\ x \notin ToSet(q) => Once(Append(q, x))
<1> DEFINE a == Append(q, x)
<1>1. /\ a \in Seq(S)
      /\ Len(a) = Len(q) + 1
      /\ \A i \in 1 .. Len(q) : a[i] = q[i]
      /\ a[Len(q) + 1] = x
      /\ Len(q) \in Nat
  BY AppendProperties, LenProperties
<1> HIDE DEF a
<1>2. \A i \in 1 .. Len(a) : i \in 1 .. Len(q) \/ i = Len(q) + 1
  BY <1>1
<1>3. \A i \in 1 .. Len(q) : i \in 1 .. Len(a)
  BY <1>1
<1>4. Len(q) + 1 \in 1 .. Len(a)
  BY <1>1
<1>5. \A y : y \in ToSet(a) <=> y \in ToSet(q) \/ y = x
  <2>1. \A y : y \in ToSet(a) <=> \E i \in 1 .. Len(a) : a[i] = y
    BY <1>1, ListElements
  <2>2. \A y : y \in ToSet(q) <=> \E i \in 1 .. Len(q) : q[i] = y
    BY ListElements
  <2> QED
    BY <2>1, <2>2, <1>1, <1>2, <1>3, <1>4
<1>6. ASSUME Once(q), x \notin ToSet(q) PROVE Once(a)
  <2>1. \A i \in 1 .. Len(q) : q[i] # x
    BY <1>6, ListElements
  <2> QED
    BY <2>1, <1>6, <1>1, <1>2 DEF Once
<1> QED
  BY <1>1, <1>5, <1>6 DEF a

(* Unlinking the first of a list. *)
LEMMA TailLists ==
  ASSUME NEW S, NEW q \in Seq(S), q # <<>>, Once(q)
  PROVE  /\ Head(q) \in ToSet(q)
         /\ Tail(q) \in Seq(S)
         /\ ToSet(Tail(q)) = ToSet(q) \ {Head(q)}
         /\ Once(Tail(q))
<1> DEFINE a == Tail(q)
<1>1. /\ a \in Seq(S)
      /\ Len(a) = Len(q) - 1
      /\ \A i \in 1 .. Len(a) : a[i] = q[i + 1]
      /\ Head(q) = q[1]
      /\ Len(q) \in Nat \ {0}
  BY HeadTailProperties, LenProperties, EmptySeq
<1> HIDE DEF a
<1>2. 1 \in 1 .. Len(q) /\ \A i \in 1 .. Len(a) : i + 1 \in 1 .. Len(q) /\ i + 1 # 1
  BY <1>1
<1>3. \A i \in 1 .. Len(q) : i # 1 => i - 1 \in 1 .. Len(a) /\ (i - 1) + 1 = i
  BY <1>1
<1>4. \A y : y \in ToSet(a) <=> \E i \in 1 .. Len(a) : a[i] = y
  BY <1>1, ListElements
<1>5. \A y : y \in ToSet(q) <=> \E i \in 1 .. Len(q) : q[i] = y
  BY ListElements
<1>6. ASSUME NEW y PROVE y \in ToSet(a) <=> y \in ToSet(q) /\ y # q[1]
  <2>1. ASSUME y \in ToSet(a) PROVE y \in ToSet(q) /\ y # q[1]
    <3>1. PICK i \in 1 .. Len(a) : a[i] = y
      BY <1>4, <2>1
    <3>2. q[i + 1] = y /\ i + 1 \in 1 .. Len(q) /\ i + 1 # 1
      BY <3>1, <1>1, <1>2
    <3> QED
      BY <3>2, <1>2, <1>5 DEF Once
  <2>2. ASSUME y \in ToSet(q), y # q[1] PROVE y \in ToSet(a)
    <3>1. PICK i \in 1 .. Len(q) : q[i] = y
      BY <1>5, <2>2
    <3>2. i - 1 \in 1 .. Len(a) /\ (i - 1) + 1 = i
      BY <3>1, <2>2, <1>3
    <3>3. a[i - 1] = q[(i - 1) + 1]
      BY <3>2, <1>1
    <3> QED
      BY <3>1, <3>2, <3>3, <1>4
  <2> QED
    BY <2>1, <2>2
<1>7. Once(a)
  <2>1. ASSUME NEW i \in 1 .. Len(a), NEW j \in 1 .. Len(a), a[i] = a[j] PROVE i = j
    <3>1. q[i + 1] = q[j + 1] /\ i + 1 \in 1 .. Len(q) /\ j + 1 \in 1 .. Len(q)
      BY <2>1, <1>1, <1>2
    <3>2. i + 1 = j + 1
      BY <3>1 DEF Once
    <3> QED
      BY <3>2
  <2> QED
    BY <2>1 DEF Once
<1>8. Head(q) \in ToSet(q)
  BY <1>1, <1>2, <1>5
<1> QED
  BY <1>1, <1>6, <1>7, <1>8 DEF a

(* The recursion of Only() is well founded.                                  *)
LEMMA OnlyUnfolds ==
  ASSUME NEW S, NEW q \in Seq(S), NEW K
  PROVE  \E f : /\ f = [i \in 0 .. Len(q) |->
                          IF i = 0 THEN <<>>
                          ELSE IF q[i] \in K THEN Append(f[i - 1], q[i]) ELSE f[i - 1]]
                /\ Only(q, K) = f[Len(q)]
<1> DEFINE Is(f, n) == f = [i \in 0 .. n |->
                              IF i = 0 THEN <<>>
                              ELSE IF q[i] \in K THEN Append(f[i - 1], q[i]) ELSE f[i - 1]]
           B == {n \in Nat : \E f : Is(f, n)}
<1>1. 0 \in B
  <2> DEFINE f == [i \in 0 .. 0 |-> <<>>]
  <2>1. Is(f, 0)
    OBVIOUS
  <2> QED
    BY <2>1
<1>2. ASSUME NEW n \in Nat, n \in B PROVE n + 1 \in B
  <2>1. PICK f : Is(f, n)
    BY <1>2
  <2> DEFINE next == IF q[n + 1] \in K THEN Append(f[n], q[n + 1]) ELSE f[n]
             g == [i \in 0 .. n + 1 |-> IF i = n + 1 THEN next ELSE f[i]]
             h == [i \in 0 .. n + 1 |->
                     IF i = 0 THEN <<>>
                     ELSE IF q[i] \in K THEN Append(g[i - 1], q[i]) ELSE g[i - 1]]
  <2>2. ASSUME NEW i \in 0 .. n + 1 PROVE g[i] = h[i]
    <3>1. CASE i = 0
      <4>1. f[0] = <<>>
        BY <2>1
      <4> QED
        BY <3>1, <4>1
    <3>2. CASE i # 0 /\ i # n + 1
      <4>1. i \in 0 .. n /\ i - 1 \in 0 .. n + 1 /\ i - 1 # n + 1
        BY <3>2
      <4>2. f[i] = IF q[i] \in K THEN Append(f[i - 1], q[i]) ELSE f[i - 1]
        BY <2>1, <3>2, <4>1
      <4>3. g[i - 1] = f[i - 1] /\ g[i] = f[i]
        BY <3>2, <4>1
      <4> QED
        BY <3>2, <4>2, <4>3
    <3>3. CASE i = n + 1
      <4>1. i - 1 = n /\ n \in 0 .. n + 1 /\ n # n + 1
        BY <3>3
      <4>2. g[i - 1] = f[n]
        BY <4>1
      <4> QED
        BY <3>3, <4>2
    <3> QED
      BY <3>1, <3>2, <3>3
  <2>3. g = h
    BY <2>2
  <2> HIDE DEF g
  <2>4. Is(g, n + 1)
    BY <2>3
  <2> QED
    BY SMTT(30), <2>4
<1> HIDE DEF B
<1>3. Len(q) \in B
  BY <1>1, <1>2, SetInduction, LenProperties
<1>4. \E f : Is(f, Len(q))
  BY <1>3 DEF B
<1> QED
  BY <1>4 DEF Only

(* What Only() keeps: exactly what is in K and was on the list.              *)
LEMMA OnlyLists ==
  ASSUME NEW S, NEW q \in Seq(S), NEW K
  PROVE  /\ Only(q, K) \in Seq(S)
         /\ ToSet(Only(q, K)) = ToSet(q) \cap K
         /\ OnceAmong(q, K) => Once(Only(q, K))
         /\ Once(q) => Once(Only(q, K))
<1>1. PICK f : /\ f = [i \in 0 .. Len(q) |->
                         IF i = 0 THEN <<>>
                         ELSE IF q[i] \in K THEN Append(f[i - 1], q[i]) ELSE f[i - 1]]
               /\ Only(q, K) = f[Len(q)]
  BY OnlyUnfolds
<1>2. f[0] = <<>> /\ Len(q) \in Nat
  BY <1>1, LenProperties
<1>3. \A i \in 1 .. Len(q) :
         f[i] = IF q[i] \in K THEN Append(f[i - 1], q[i]) ELSE f[i - 1]
  <2> TAKE i \in 1 .. Len(q)
  <2>1. i \in 0 .. Len(q) /\ i # 0
    BY <1>2
  <2>2. f[i] = IF i = 0 THEN <<>>
               ELSE IF q[i] \in K THEN Append(f[i - 1], q[i]) ELSE f[i - 1]
    BY <1>1, <2>1
  <2> QED
    BY <2>1, <2>2
<1> DEFINE Fine(n) == /\ f[n] \in Seq(S)
                      /\ \A x : x \in ToSet(f[n])
                                  <=> x \in K /\ \E j \in 1 .. n : q[j] = x
                      /\ OnceAmong(q, K) => Once(f[n])
           B == {n \in Nat : n <= Len(q) => Fine(n)}
<1>4. 0 \in B
  <2>1. f[0] \in Seq(S) /\ Len(f[0]) = 0
    BY <1>2, EmptySeq
  <2>2. \A x : x \notin ToSet(f[0])
    BY <2>1, ListElements
  <2> QED
    BY <2>1, <2>2 DEF Once
<1>5. ASSUME NEW n \in Nat, n \in B PROVE n + 1 \in B
  <2> SUFFICES ASSUME n + 1 <= Len(q) PROVE Fine(n + 1)
    OBVIOUS
  <2>1. n + 1 \in 1 .. Len(q) /\ (n + 1) - 1 = n /\ n <= Len(q)
    BY <1>2
  <2>2. Fine(n)
    BY <1>5, <2>1
  <2>3. f[n + 1] = IF q[n + 1] \in K THEN Append(f[n], q[n + 1]) ELSE f[n]
    BY <1>3, <2>1
  <2>4. q[n + 1] \in S
    BY <2>1, ElementOfSeq
  <2>5. \A x : (\E j \in 1 .. n + 1 : q[j] = x) <=> (\E j \in 1 .. n : q[j] = x) \/ q[n + 1] = x
    <3>1. \A j \in 1 .. n + 1 : j \in 1 .. n \/ j = n + 1
      OBVIOUS
    <3>2. n + 1 \in 1 .. n + 1 /\ \A j \in 1 .. n : j \in 1 .. n + 1
      OBVIOUS
    <3> QED
      BY <3>1, <3>2, Zenon
  <2>6. CASE q[n + 1] \notin K
    <3>1. f[n + 1] = f[n]
      BY <2>3, <2>6
    <3>2. ASSUME NEW x PROVE x \in ToSet(f[n + 1]) <=> x \in K /\ \E j \in 1 .. n + 1 : q[j] = x
      <4>1. x \in ToSet(f[n + 1]) <=> x \in K /\ \E j \in 1 .. n : q[j] = x
        BY <2>2, <3>1
      <4>2. (\E j \in 1 .. n + 1 : q[j] = x) <=> (\E j \in 1 .. n : q[j] = x) \/ q[n + 1] = x
        BY <2>5
      <4> QED
        BY <4>1, <4>2, <2>6, Zenon
    <3> QED
      BY <2>2, <3>1, <3>2
  <2>7. CASE q[n + 1] \in K
    <3>1. f[n + 1] = Append(f[n], q[n + 1])
      BY <2>3, <2>7
    <3>2. /\ f[n + 1] \in Seq(S)
          /\ ToSet(f[n + 1]) = ToSet(f[n]) \cup {q[n + 1]}
          /\ Once(f[n]) /\ q[n + 1] \notin ToSet(f[n]) => Once(f[n + 1])
      BY <2>2, <2>4, <3>1, AppendLists
    <3>3. ASSUME NEW x PROVE x \in ToSet(f[n + 1]) <=> x \in K /\ \E j \in 1 .. n + 1 : q[j] = x
      <4>1. x \in ToSet(f[n + 1]) <=> (x \in K /\ \E j \in 1 .. n : q[j] = x) \/ x = q[n + 1]
        BY <2>2, <3>2
      <4>2. (\E j \in 1 .. n + 1 : q[j] = x) <=> (\E j \in 1 .. n : q[j] = x) \/ q[n + 1] = x
        BY <2>5
      <4> QED
        BY <4>1, <4>2, <2>7, Zenon
    <3>4. ASSUME OnceAmong(q, K) PROVE q[n + 1] \notin ToSet(f[n])
      <4>1. \A j \in 1 .. n : j \in 1 .. Len(q) /\ j # n + 1
        BY <2>1
      <4>2. \A j \in 1 .. n : q[j] # q[n + 1]
        BY <4>1, <3>4, <2>1, <2>7 DEF OnceAmong
      <4> QED
        BY <4>2, <2>2
    <3> QED
      BY <2>2, <3>2, <3>3, <3>4
  <2> QED
    BY <2>6, <2>7
<1> HIDE DEF Fine
<1>6. Len(q) \in B
  <2>1. \A n \in Nat : n \in B => n + 1 \in B
    BY <1>5
  <2> HIDE DEF B
  <2> QED
    BY <1>2, <1>4, <2>1, SetInduction
<1>7. Fine(Len(q))
  BY <1>2, <1>6
<1>8. \A x : x \in ToSet(q) <=> \E j \in 1 .. Len(q) : q[j] = x
  BY ListElements
<1>9. Once(q) => OnceAmong(q, K)
  BY DEF Once, OnceAmong
<1> QED
  BY <1>1, <1>7, <1>8, <1>9 DEF Fine

(* Linking one list behind another. *)
LEMMA ConcatLists ==
  ASSUME NEW S, NEW q \in Seq(S), NEW r \in Seq(S)
  PROVE  /\ q \o r \in Seq(S)
         /\ ToSet(q \o r) = ToSet(q) \cup ToSet(r)
         /\ Once(q) /\ Once(r) /\ ToSet(q) \cap ToSet(r) = {} => Once(q \o r)
<1> DEFINE a == q \o r
<1>1. /\ a \in Seq(S)
      /\ Len(a) = Len(q) + Len(r)
      /\ \A i \in 1 .. Len(q) + Len(r) : a[i] = IF i <= Len(q) THEN q[i] ELSE r[i - Len(q)]
      /\ Len(q) \in Nat /\ Len(r) \in Nat
  BY ConcatProperties, LenProperties
<1> HIDE DEF a
<1>2. \A i \in 1 .. Len(a) :
         \/ i \in 1 .. Len(q) /\ a[i] = q[i]
         \/ i - Len(q) \in 1 .. Len(r) /\ a[i] = r[i - Len(q)]
  BY <1>1
<1>3. \A i \in 1 .. Len(q) : i \in 1 .. Len(a) /\ a[i] = q[i]
  BY <1>1
<1>4. \A i \in 1 .. Len(r) : i + Len(q) \in 1 .. Len(a) /\ a[i + Len(q)] = r[i]
  <2> TAKE i \in 1 .. Len(r)
  <2>1. i + Len(q) \in 1 .. Len(q) + Len(r) /\ ~(i + Len(q) <= Len(q)) /\ (i + Len(q)) - Len(q) = i
    BY <1>1
  <2> QED
    BY <1>1, <2>1
<1>5. \A y : y \in ToSet(a) <=> \E i \in 1 .. Len(a) : a[i] = y
  BY <1>1, ListElements
<1>6. \A y : y \in ToSet(q) <=> \E i \in 1 .. Len(q) : q[i] = y
  BY ListElements
<1>7. \A y : y \in ToSet(r) <=> \E i \in 1 .. Len(r) : r[i] = y
  BY ListElements
<1>8. \A y : y \in ToSet(a) <=> y \in ToSet(q) \/ y \in ToSet(r)
  BY ZenonT(30), <1>2, <1>3, <1>4, <1>5, <1>6, <1>7
<1>9. ASSUME Once(q), Once(r), ToSet(q) \cap ToSet(r) = {} PROVE Once(a)
  <2>1. \A i \in 1 .. Len(q), j \in 1 .. Len(r) : q[i] # r[j]
    BY <1>6, <1>7, <1>9
  <2>2. ASSUME NEW i \in 1 .. Len(a), NEW j \in 1 .. Len(a), a[i] = a[j] PROVE i = j
    <3>1. CASE i \in 1 .. Len(q) /\ a[i] = q[i] /\ j \in 1 .. Len(q) /\ a[j] = q[j]
      BY <3>1, <2>2, <1>9 DEF Once
    <3>2. CASE /\ i - Len(q) \in 1 .. Len(r) /\ a[i] = r[i - Len(q)]
               /\ j - Len(q) \in 1 .. Len(r) /\ a[j] = r[j - Len(q)]
      <4>1. i - Len(q) = j - Len(q)
        BY <3>2, <2>2, <1>9 DEF Once
      <4> QED
        BY <4>1, <1>1
    <3> QED
      BY <3>1, <3>2, <2>1, <2>2, <1>2
  <2> QED
    BY <2>2 DEF Once
<1> QED
  BY <1>1, <1>8, <1>9 DEF a

(* A list of S that only names things of T is a list of T.                   *)
LEMMA SeqOfSubset ==
  ASSUME NEW S, NEW T, NEW q \in Seq(S), ToSet(q) \subseteq T
  PROVE  q \in Seq(T)
<1>1. Len(q) \in Nat /\ q \in [1 .. Len(q) -> S]
  BY LenProperties
<1>2. \A i \in 1 .. Len(q) : q[i] \in T
  BY ListElements
<1> QED
  BY <1>1, <1>2

(* A bounded non-empty set of naturals has a maximum. *)
LEMMA MaxOfNaturals ==
  ASSUME NEW N \in SUBSET Nat, N # {}, NEW b \in Nat, \A j \in N : j <= b
  PROVE  Max(N) \in N /\ \A j \in N : j <= Max(N)
<1> DEFINE M == {b - j : j \in N}
<1>1. M \in SUBSET Nat /\ M # {}
  <2>1. \A j \in N : b - j \in Nat
    OBVIOUS
  <2> QED
    BY <2>1
<1>2. Min(M) \in M /\ \A i \in M : Min(M) <= i
  BY <1>1, MinOfNaturals
<1>3. PICK m \in N : Min(M) = b - m
  BY <1>2
<1>4. ASSUME NEW j \in N PROVE m >= j
  <2>1. b - m <= b - j
    BY <1>2, <1>3
  <2> QED
    BY <2>1
<1>5. \E k \in N : \A j \in N : k >= j
  BY <1>4
<1>6. Max(N) \in N /\ \A j \in N : Max(N) >= j
  BY <1>5, Zenon DEF Max
<1> QED
  BY <1>6

-----------------------------------------------------------------------------
(* Ordered lists: any two elements, as they follow each other, are in R. *)
Ordered(list, R) == \A i, j \in 1 .. Len(list) : i < j => <<list[i], list[j]>> \in R

(* Appending what may follow everything there is. *)
LEMMA AppendOrdered ==
  ASSUME NEW S, NEW q \in Seq(S), NEW x \in S, NEW R, Ordered(q, R),
         \A y \in ToSet(q) : <<y, x>> \in R
  PROVE  Ordered(Append(q, x), R)
<1> DEFINE a == Append(q, x)
<1>1. /\ Len(a) = Len(q) + 1
      /\ \A i \in 1 .. Len(q) : a[i] = q[i]
      /\ a[Len(q) + 1] = x
      /\ Len(q) \in Nat
  BY AppendProperties, LenProperties
<1>2. \A i \in 1 .. Len(q) : q[i] \in ToSet(q)
  BY ListElements
<1> HIDE DEF a
<1>3. ASSUME NEW i \in 1 .. Len(a), NEW j \in 1 .. Len(a), i < j
      PROVE  <<a[i], a[j]>> \in R
  <2>1. i \in 1 .. Len(q) /\ (j \in 1 .. Len(q) \/ j = Len(q) + 1)
    BY <1>1, <1>3
  <2> QED
    BY <1>1, <1>2, <1>3, <2>1 DEF Ordered
<1> QED
  BY <1>3 DEF Ordered, a

(* Taking the first off a list leaves the rest in order. *)
LEMMA TailOrdered ==
  ASSUME NEW S, NEW q \in Seq(S), q # <<>>, NEW R, Ordered(q, R)
  PROVE  Ordered(Tail(q), R)
<1> DEFINE a == Tail(q)
<1>1. /\ Len(a) = Len(q) - 1
      /\ \A i \in 1 .. Len(a) : a[i] = q[i + 1]
      /\ Len(q) \in Nat \ {0}
  BY HeadTailProperties, LenProperties, EmptySeq
<1> HIDE DEF a
<1>2. ASSUME NEW i \in 1 .. Len(a), NEW j \in 1 .. Len(a), i < j
      PROVE  <<a[i], a[j]>> \in R
  <2>1. i + 1 \in 1 .. Len(q) /\ j + 1 \in 1 .. Len(q) /\ i + 1 < j + 1
    BY <1>1, <1>2
  <2> QED
    BY <1>1, <2>1 DEF Ordered
<1> QED
  BY <1>2 DEF Ordered, a

(* So does unlinking any of them. *)
LEMMA OnlyOrdered ==
  ASSUME NEW S, NEW q \in Seq(S), NEW K, NEW R, Ordered(q, R)
  PROVE  Ordered(Only(q, K), R)
<1>1. PICK f : /\ f = [i \in 0 .. Len(q) |->
                         IF i = 0 THEN <<>>
                         ELSE IF q[i] \in K THEN Append(f[i - 1], q[i]) ELSE f[i - 1]]
               /\ Only(q, K) = f[Len(q)]
  BY OnlyUnfolds
<1>2. f[0] = <<>> /\ Len(q) \in Nat
  BY <1>1, LenProperties
<1>3. \A i \in 1 .. Len(q) :
         f[i] = IF q[i] \in K THEN Append(f[i - 1], q[i]) ELSE f[i - 1]
  <2> TAKE i \in 1 .. Len(q)
  <2>1. i \in 0 .. Len(q) /\ i # 0
    BY <1>2
  <2>2. f[i] = IF i = 0 THEN <<>>
               ELSE IF q[i] \in K THEN Append(f[i - 1], q[i]) ELSE f[i - 1]
    BY <1>1, <2>1
  <2> QED
    BY <2>1, <2>2
<1> DEFINE Fine(n) == /\ f[n] \in Seq(S)
                      /\ \A x \in ToSet(f[n]) : \E j \in 1 .. n : q[j] = x
                      /\ Ordered(f[n], R)
           B == {n \in Nat : n <= Len(q) => Fine(n)}
<1>4. 0 \in B
  <2>1. f[0] \in Seq(S) /\ Len(f[0]) = 0
    BY <1>2, EmptySeq
  <2>2. \A x : x \notin ToSet(f[0])
    BY <2>1, ListElements
  <2> QED
    BY <2>1, <2>2 DEF Ordered
<1>5. ASSUME NEW n \in Nat, n \in B PROVE n + 1 \in B
  <2> SUFFICES ASSUME n + 1 <= Len(q) PROVE Fine(n + 1)
    OBVIOUS
  <2>1. n + 1 \in 1 .. Len(q) /\ (n + 1) - 1 = n /\ n <= Len(q)
    BY <1>2
  <2>2. Fine(n)
    BY <1>5, <2>1
  <2>3. f[n + 1] = IF q[n + 1] \in K THEN Append(f[n], q[n + 1]) ELSE f[n]
    BY <1>3, <2>1
  <2>4. q[n + 1] \in S
    BY <2>1, ElementOfSeq
  <2>5. n + 1 \in 1 .. n + 1 /\ \A j \in 1 .. n : j \in 1 .. n + 1 /\ j < n + 1
          /\ j \in 1 .. Len(q)
    BY <2>1
  <2>6. CASE q[n + 1] \notin K
    BY <2>2, <2>3, <2>5, <2>6
  <2>7. CASE q[n + 1] \in K
    <3>1. f[n + 1] = Append(f[n], q[n + 1])
      BY <2>3, <2>7
    <3>2. f[n + 1] \in Seq(S) /\ ToSet(f[n + 1]) = ToSet(f[n]) \cup {q[n + 1]}
      BY <2>2, <2>4, <3>1, AppendLists
    <3>3. \A x \in ToSet(f[n]) : <<x, q[n + 1]>> \in R
      BY <2>1, <2>2, <2>5 DEF Ordered
    <3>4. Ordered(f[n + 1], R)
      BY <2>2, <2>4, <3>1, <3>3, AppendOrdered
    <3> QED
      BY <2>2, <2>5, <3>2, <3>4
  <2> QED
    BY <2>6, <2>7
<1> HIDE DEF Fine
<1>6. Len(q) \in B
  <2>1. \A n \in Nat : n \in B => n + 1 \in B
    BY <1>5
  <2> HIDE DEF B
  <2> QED
    BY <1>2, <1>4, <2>1, SetInduction
<1> QED
  BY <1>1, <1>2, <1>6 DEF Fine

(* Inserting x behind what precedes it and before what follows it. *)
LEMMA InsertAtOrdered ==
  ASSUME NEW S, NEW q \in Seq(S), NEW x \in S, NEW k \in 1 .. Len(q) + 1,
         NEW R, Ordered(q, R),
         \A i \in 1 .. Len(q) : IF i < k THEN <<q[i], x>> \in R ELSE <<x, q[i]>> \in R
  PROVE  /\ Ordered(InsertAt(q, k, x), R)
         /\ ToSet(InsertAt(q, k, x)) = ToSet(q) \cup {x}
<1> DEFINE a == InsertAt(q, k, x)
           old(i) == IF i < k THEN i ELSE i - 1
<1>1. /\ a \in Seq(S)
      /\ Len(a) = Len(q) + 1
      /\ \A i \in 1 .. Len(q) + 1 :
            a[i] = IF i < k THEN q[i] ELSE IF i = k THEN x ELSE q[i - 1]
      /\ Len(q) \in Nat
  BY InsertAtElements, LenProperties
<1> HIDE DEF a
<1>2. a[k] = x /\ k \in 1 .. Len(a)
  BY <1>1
<1>3. \A i \in 1 .. Len(a) : i # k => old(i) \in 1 .. Len(q) /\ a[i] = q[old(i)]
  BY <1>1
<1>4. ASSUME NEW i \in 1 .. Len(a), NEW j \in 1 .. Len(a), i < j
      PROVE  <<a[i], a[j]>> \in R
  <2>1. CASE i = k
    <3>1. j # k /\ ~(old(j) < k)
      BY <1>4, <2>1, <1>1
    <3> QED
      BY <2>1, <3>1, <1>2, <1>3
  <2>2. CASE j = k
    <3>1. i # k /\ old(i) < k
      BY <1>4, <2>2
    <3> QED
      BY <2>2, <3>1, <1>2, <1>3
  <2>3. CASE i # k /\ j # k
    <3>1. old(i) < old(j)
      BY <1>4, <2>3
    <3> QED
      BY <2>3, <3>1, <1>3 DEF Ordered
  <2> QED
    BY <2>1, <2>2, <2>3
<1>5. ASSUME NEW y PROVE y \in ToSet(a) <=> y \in ToSet(q) \/ y = x
  <2>1. y \in ToSet(a) <=> \E i \in 1 .. Len(a) : a[i] = y
    BY <1>1, ListElements
  <2>2. y \in ToSet(q) <=> \E i \in 1 .. Len(q) : q[i] = y
    BY ListElements
  <2>3. ASSUME NEW i \in 1 .. Len(q) PROVE \E j \in 1 .. Len(a) : a[j] = q[i]
    <3>1. CASE i < k
      <4>1. i \in 1 .. Len(a) /\ a[i] = q[i]
        BY <3>1, <1>1
      <4> QED
        BY <4>1
    <3>2. CASE ~(i < k)
      <4>1. i + 1 \in 1 .. Len(a) /\ a[i + 1] = q[(i + 1) - 1] /\ (i + 1) - 1 = i
        BY <3>2, <1>1
      <4> QED
        BY <4>1
    <3> QED
      BY <3>1, <3>2
  <2> QED
    BY <1>2, <1>3, <2>1, <2>2, <2>3
<1> QED
  BY <1>4, <1>5 DEF Ordered, a

=============================================================================
