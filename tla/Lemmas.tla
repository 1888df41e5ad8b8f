------------------------------- MODULE Lemmas -------------------------------
(***************************************************************************)
(* What the proofs need of data: induction over the numbers, as a fact     *)
(* about sets of numbers, the existence of the functions that the models   *)
(* define by recursion, and lists as sequences without repetition.         *)
(***************************************************************************)
EXTENDS Integers, SequencesExt, SequenceTheorems, TLAPS, WellFoundedInduction

(* The order of the natural numbers has no infinite descent. *)
LEMMA LessIsWellFounded ==
  \E R : IsWellFoundedOn(R, Nat) /\ \A x, y \in Nat : x < y => <<x, y>> \in R
<1>1. \A x, y \in Nat : x < y => <<x, y>> \in OpToRel(<, Nat)
  BY DEF OpToRel
<1> QED BY <1>1, NatLessThanWellFounded, Zenon

(* Every set of numbers has a least one. *)
LEMMA LeastNumber ==
  ASSUME NEW S \in SUBSET Nat, S # {}
  PROVE  \E m \in S : \A n \in S : m <= n
<1>1. PICK R : IsWellFoundedOn(R, Nat) /\ \A x, y \in Nat : x < y => <<x, y>> \in R
  BY LessIsWellFounded
<1>2. IsWellFoundedOn(R, Nat) /\ S \subseteq Nat /\ S # {}
  BY <1>1
<1>3. \E x \in S : \A y \in S : <<y, x>> \notin R
  BY <1>2, WFMin, Zenon
<1>4. \E x \in S : \A y \in S : ~ (y < x)
  BY <1>1, <1>3, Zenon
<1> QED BY <1>4

(* A set with 0 and, with a number, the next one holds all of them. *)
LEMMA Induction ==
  ASSUME NEW S, 0 \in S, \A n \in S \cap Nat : n + 1 \in S
  PROVE  Nat \subseteq S
<1> SUFFICES ASSUME Nat \ S # {} PROVE FALSE
  OBVIOUS
<1> DEFINE T == Nat \ S
<1>1. T \in SUBSET Nat /\ T # {}
  OBVIOUS
<1> HIDE DEF T
<1>2. PICK m \in T : \A n \in T : m <= n
  BY <1>1, LeastNumber
<1>3. m \in Nat \ {0} /\ m \notin S /\ m - 1 \in Nat
  BY <1>2 DEF T
<1>4. m - 1 \in S
  BY <1>2, <1>3 DEF T
<1>5. (m - 1) + 1 \in S
  BY <1>3, <1>4
<1> QED BY <1>3, <1>5

(* Every way down through below, from any place of A, ends. *)
Founded(A, below) ==
  \A B \in SUBSET A : (\A a \in B : \E b \in below[a] : b \in B) => B = {}

(* f is, on the places C, what the recursion says. *)
Obeys(f, C, below, step) ==
  \A a \in C : below[a] \subseteq C /\ f[a] = step[a][[b \in below[a] |-> f[b]]]

(* A function whose value at a place is a step from its values below exists. *)
LEMMA TreeRecursion ==
  ASSUME NEW A, NEW V, NEW below, NEW step, Founded(A, below),
         \A a \in A : below[a] \subseteq A,
         \A a \in A : \A v \in [below[a] -> V] : step[a][v] \in V
  PROVE  \E f \in [A -> V] : Obeys(f, A, below, step)
<1> DEFINE Solution(f, C) == f \in [C -> V] /\ Obeys(f, C, below, step)
           K == {a \in A : \E C \in SUBSET A : \E f : a \in C /\ Solution(f, C)}
           Has(a, v) == \E C \in SUBSET A : \E f : a \in C /\ Solution(f, C) /\ f[a] = v
           g == [a \in K |-> CHOOSE v : Has(a, v)]
<1>1. ASSUME NEW C \in SUBSET A, NEW D \in SUBSET A, NEW f, NEW h,
             Solution(f, C), Solution(h, D)
      PROVE  \A a \in C \cap D : f[a] = h[a]
  <2> DEFINE B == {a \in C \cap D : f[a] # h[a]}
  <2>1. \A a \in B : \E b \in below[a] : b \in B
    <3> SUFFICES ASSUME NEW a \in B, \A b \in below[a] : b \notin B
                 PROVE  FALSE
      OBVIOUS
    <3>1. \A b \in below[a] : f[b] = h[b]
      BY <1>1 DEF Obeys
    <3>2. [b \in below[a] |-> f[b]] = [b \in below[a] |-> h[b]]
      BY <3>1
    <3> QED BY <1>1, <3>2 DEF Obeys
  <2>2. B \in SUBSET A
    OBVIOUS
  <2> HIDE DEF B
  <2>3. B = {}
    BY <2>1, <2>2 DEF Founded
  <2> QED BY <2>3 DEF B
<1>2. ASSUME NEW C \in SUBSET A, NEW f, Solution(f, C)
      PROVE  C \subseteq K /\ \A a \in C : g[a] = f[a]
  <2>1. C \subseteq K
    BY <1>2
  <2> SUFFICES ASSUME NEW a \in C PROVE g[a] = f[a]
    BY <2>1
  <2>2. Has(a, f[a])
    BY <1>2
  <2>3. Has(a, g[a])
    BY <2>1, <2>2
  <2> QED BY <1>1, <1>2, <2>3
<1> HIDE DEF g
<1>3. Solution(g, K)
  <2>1. ASSUME NEW a \in K
        PROVE  /\ g[a] \in V /\ below[a] \subseteq K
               /\ g[a] = step[a][[b \in below[a] |-> g[b]]]
    <3>0. PICK C \in SUBSET A : \E f : a \in C /\ Solution(f, C)
      OBVIOUS
    <3>1. PICK f : a \in C /\ Solution(f, C)
      BY <3>0
    <3>2. C \subseteq K /\ \A b \in C : g[b] = f[b]
      BY <1>2, <3>1
    <3> HIDE DEF K
    <3>3. below[a] \subseteq C /\ f[a] = step[a][[b \in below[a] |-> f[b]]]
      BY <3>1 DEF Obeys
    <3>4. [b \in below[a] |-> g[b]] = [b \in below[a] |-> f[b]]
      BY <3>2, <3>3
    <3> QED BY <3>1, <3>2, <3>3, <3>4
  <2>2. g \in [K -> V]
    BY <2>1 DEF g
  <2> HIDE DEF K
  <2> QED BY <2>1, <2>2 DEF Obeys
<1>4. K = A
  <2>1. \A a \in A \ K : \E b \in below[a] : b \in A \ K
    <3> SUFFICES ASSUME NEW a \in A \ K, below[a] \subseteq K
                 PROVE  FALSE
      OBVIOUS
    <3> DEFINE h == [x \in K \cup {a} |->
                       IF x = a THEN step[a][[b \in below[a] |-> g[b]]] ELSE g[x]]
    <3>1. /\ K \in SUBSET A /\ a \notin K
          /\ \A x \in K : below[x] \subseteq K
      BY <1>3 DEF Obeys
    <3>2. \A x \in K \cup {a} : below[x] \subseteq K
      BY <3>1
    <3>3. step[a][[b \in below[a] |-> g[b]]] \in V
      <4>1. [b \in below[a] |-> g[b]] \in [below[a] -> V]
        BY <1>3
      <4> QED BY <4>1
    <3>4. h \in [K \cup {a} -> V]
      BY <1>3, <3>3
    <3>5. \A x \in K \cup {a} : [b \in below[x] |-> h[b]] = [b \in below[x] |-> g[b]]
      BY <3>1, <3>2
    <3>6. ASSUME NEW x \in K \cup {a}
          PROVE  h[x] = step[x][[b \in below[x] |-> h[b]]]
      <4>1. CASE x = a
        BY <3>5, <4>1
      <4>2. CASE x # a
        <5>1. x \in K /\ g[x] = step[x][[b \in below[x] |-> g[b]]]
          BY <1>3, <4>2 DEF Obeys
        <5> QED BY <3>5, <4>2, <5>1
      <4> QED BY <4>1, <4>2
    <3> HIDE DEF h
    <3>7. Solution(h, K \cup {a})
      BY <3>2, <3>4, <3>6 DEF Obeys
    <3>8. K \cup {a} \in SUBSET A /\ a \in K \cup {a}
      OBVIOUS
    <3>9. a \in K
      BY <3>7, <3>8
    <3> QED BY <3>9
  <2>2. A \ K \in SUBSET A /\ K \subseteq A
    OBVIOUS
  <2> HIDE DEF K
  <2>3. A \ K = {}
    BY <2>1, <2>2 DEF Founded
  <2> QED BY <2>2, <2>3
<1> HIDE DEF K, Solution
<1>5. Solution(g, A)
  BY <1>3, <1>4
<1> QED BY <1>5 DEF Solution

----------------------------------------------------------------------------
(* The recursions with one place below each place, as along a list. *)

(* pre leads from every place of A down to one of Z. *)
Grounded(A, Z, pre) ==
  \A B \in SUBSET (A \ Z) : (\A a \in B : pre[a] \in B) => B = {}

(* Counting down ends at zero. *)
LEMMA NumbersGrounded ==
  ASSUME NEW N \in SUBSET Nat, NEW pre, \A n \in N \ {0} : pre[n] = n - 1
  PROVE  Grounded(N, {0}, pre)
<1> SUFFICES ASSUME NEW B \in SUBSET (N \ {0}), \A a \in B : pre[a] \in B, B # {}
             PROVE  FALSE
  BY DEF Grounded
<1>1. PICK m \in B : \A n \in B : m <= n
  BY LeastNumber
<1> QED BY <1>1

(* f solves the recursion on the places C. *)
Solves(f, C, Z, pre, base, step) ==
  \A a \in C : IF a \in Z THEN f[a] = base[a]
               ELSE pre[a] \in C /\ f[a] = step[a][f[pre[a]]]

(* A function with the value base at the places of Z and, elsewhere, one    *)
(* that is a step from its value at the place before, exists.               *)
LEMMA Recursion ==
  ASSUME NEW A, NEW V, NEW Z, NEW pre, NEW base, NEW step,
         \A a \in A \cap Z : base[a] \in V,
         \A a \in A \ Z : pre[a] \in A /\ (\A v \in V : step[a][v] \in V),
         Grounded(A, Z, pre)
  PROVE  \E f \in [A -> V] : Solves(f, A, Z, pre, base, step)
<1> DEFINE below == [a \in A |-> IF a \in Z THEN {} ELSE {pre[a]}]
           down == [a \in A |-> [v \in [below[a] -> V] |->
                      IF a \in Z THEN base[a] ELSE step[a][v[pre[a]]]]]
<1>1. \A a \in A : below[a] = IF a \in Z THEN {} ELSE {pre[a]}
  OBVIOUS
<1>2. \A a \in A : \A v \in [below[a] -> V] :
        down[a][v] = IF a \in Z THEN base[a] ELSE step[a][v[pre[a]]]
  OBVIOUS
<1> HIDE DEF below, down
<1>3. \A a \in A : below[a] \subseteq A
  BY <1>1
<1>4. ASSUME NEW a \in A, NEW v \in [below[a] -> V] PROVE down[a][v] \in V
  <2>1. CASE a \in Z
    BY <1>2, <2>1
  <2>2. CASE a \notin Z
    <3>1. v[pre[a]] \in V
      BY <1>1, <2>2
    <3> QED BY <1>2, <2>2, <3>1
  <2> QED BY <2>1, <2>2
<1>5. Founded(A, below)
  <2> SUFFICES ASSUME NEW B \in SUBSET A, \A a \in B : \E b \in below[a] : b \in B
               PROVE  B = {}
    BY DEF Founded
  <2>1. \A a \in B : a \notin Z /\ pre[a] \in B
    BY <1>1
  <2>2. B \in SUBSET (A \ Z)
    BY <2>1
  <2> QED BY <2>1, <2>2 DEF Grounded
<1>6. PICK f \in [A -> V] : Obeys(f, A, below, down)
  BY <1>3, <1>4, <1>5, TreeRecursion
<1>7. ASSUME NEW a \in A
      PROVE  IF a \in Z THEN f[a] = base[a]
             ELSE pre[a] \in A /\ f[a] = step[a][f[pre[a]]]
  <2> DEFINE v == [b \in below[a] |-> f[b]]
  <2>1. v \in [below[a] -> V]
    BY <1>3
  <2>2. f[a] = down[a][v]
    BY <1>6 DEF Obeys
  <2>3. a \notin Z => v[pre[a]] = f[pre[a]]
    BY <1>1
  <2> HIDE DEF v
  <2> QED BY <1>2, <2>1, <2>2, <2>3
<1> QED BY <1>7 DEF Solves

(* The greatest of 1 .. k is k, and of a set of numbers it is one of them.  *)
LEMMA MaxIs ==
  ASSUME NEW n \in Nat, NEW I \in SUBSET (1 .. n), I # {}
  PROVE  /\ Max(I) \in I /\ \A i \in I : i <= Max(I)
<1> DEFINE far == {n - i : i \in I}
<1>1. far \in SUBSET Nat /\ far # {}
  <2>1. \A i \in I : n - i \in Nat
    OBVIOUS
  <2> QED BY <2>1
<1>2. PICK m \in far : \A k \in far : m <= k
  <2> HIDE DEF far
  <2> QED BY <1>1, LeastNumber
<1>3. \A i \in I : i <= n - m
  BY <1>2
<1>4. n - m \in I
  BY <1>2
<1>5. \E x \in I : \A y \in I : x >= y
  BY <1>3, <1>4
<1> QED BY <1>5 DEF Max

(* FoldLeft is defined by recursion on the set of the places that are left, *)
(* from which the last one is taken.  Such a function exists.               *)
Folds(g, n, base, step) ==
  \A s \in SUBSET (1 .. n) :
    g[s] = IF s = {} THEN base ELSE step[Max(s)][g[s \ {Max(s)}]]

(* A fold over 1 .. n whose steps stay in V. *)
LEMMA FoldExists ==
  ASSUME NEW n \in Nat, NEW V, NEW base \in V, NEW step,
         \A i \in 1 .. n : \A v \in V : step[i][v] \in V
  PROVE  \E g \in [SUBSET (1 .. n) -> V] : Folds(g, n, base, step)
<1> DEFINE A == SUBSET (1 .. n)
           pre == [s \in A |-> s \ {Max(s)}]
           first == [s \in A |-> base]
           next == [s \in A |-> step[Max(s)]]
<1>1. \A s \in A : pre[s] = s \ {Max(s)} /\ first[s] = base /\ next[s] = step[Max(s)]
  OBVIOUS
<1>2. \A s \in A \ {{}} : pre[s] \in A /\ (\A v \in V : next[s][v] \in V)
  <2> TAKE s \in A \ {{}}
  <2>1. Max(s) \in s
    BY MaxIs
  <2> QED BY <1>1, <2>1
<1> HIDE DEF pre, first, next
<1>3. Grounded(A, {{}}, pre)
  <2> SUFFICES ASSUME NEW B \in SUBSET (A \ {{}}), \A s \in B : pre[s] \in B, B # {}
               PROVE  FALSE
    BY DEF Grounded
  <2> DEFINE bounds == {m \in 0 .. n : \E s \in B : s \subseteq 1 .. m}
  <2>1. n \in bounds
    OBVIOUS
  <2>2. PICK m \in bounds : \A k \in bounds : m <= k
    <3>1. bounds \in SUBSET Nat /\ bounds # {}
      <4>1. 0 .. n \subseteq Nat
        OBVIOUS
      <4> QED BY <2>1, <4>1
    <3> HIDE DEF bounds
    <3> QED BY <3>1, LeastNumber
  <2>3. PICK s \in B : s \subseteq 1 .. m
    OBVIOUS
  <2>4. Max(s) \in s /\ \A i \in s : i <= Max(s)
    BY MaxIs
  <2>5. m \in 1 .. n
    BY <2>3, <2>4
  <2>6. pre[s] \subseteq 1 .. (m - 1)
    <3>1. pre[s] = s \ {Max(s)}
      BY <1>1
    <3>2. \A i \in s \ {Max(s)} : i \in 1 .. m - 1
      <4> TAKE i \in s \ {Max(s)}
      <4>1. i <= Max(s) /\ Max(s) \in 1 .. m /\ i \in 1 .. m /\ i # Max(s)
        BY <2>3, <2>4
      <4> HIDE DEF bounds
      <4> QED BY <2>5, <4>1
    <3> QED BY <3>1, <3>2
  <2>7. m - 1 \in bounds
    <3>1. pre[s] \in B /\ m - 1 \in 0 .. n
      BY <2>5
    <3> QED BY <2>6, <3>1
  <2>8. m <= m - 1
    BY <2>2, <2>7
  <2> QED BY <2>5, <2>8
<1>4. PICK g \in [A -> V] : Solves(g, A, {{}}, pre, first, next)
  <2>1. \A s \in A \cap {{}} : first[s] \in V
    BY <1>1
  <2> HIDE DEF A
  <2> QED BY <1>2, <1>3, <2>1, Recursion
<1>5. \A s \in A : g[s] = IF s = {} THEN base ELSE step[Max(s)][g[s \ {Max(s)}]]
  BY <1>1, <1>4 DEF Solves
<1> QED BY <1>5 DEF Folds

(* The value at 1 .. k + 1 is a step from that at 1 .. k. *)
Climbs(g, n, step) == \A k \in 0 .. n - 1 : g[1 .. k + 1] = step[k + 1][g[1 .. k]]

(* A function that takes these steps as long as its values are in V has     *)
(* them in V.                                                               *)
LEMMA FoldPrefix ==
  ASSUME NEW n \in Nat, NEW V, NEW base \in V, NEW step, NEW g,
         \A i \in 1 .. n : \A v \in V : step[i][v] \in V,
         g[{}] = base,
         \A s \in (SUBSET (1 .. n)) \ {{}} :
           g[s \ {Max(s)}] \in V => g[s] = step[Max(s)][g[s \ {Max(s)}]]
  PROVE  (\A k \in 0 .. n : g[1 .. k] \in V) /\ Climbs(g, n, step)
<1>1. ASSUME NEW k \in 0 .. n - 1, g[1 .. k] \in V
      PROVE  g[1 .. k + 1] = step[k + 1][g[1 .. k]] /\ g[1 .. k + 1] \in V
  <2> DEFINE s == 1 .. k + 1
  <2>1. s \in (SUBSET (1 .. n)) \ {{}}
    <3>1. s \in SUBSET (1 .. n) /\ 1 \in s
      OBVIOUS
    <3> QED BY <3>1
  <2>2. Max(s) \in s /\ \A i \in s : i <= Max(s)
    BY <2>1, MaxIs
  <2>3. Max(s) = k + 1
    BY <2>2
  <2>4. s \ {k + 1} = 1 .. k
    OBVIOUS
  <2>5. k + 1 \in 1 .. n
    OBVIOUS
  <2> HIDE DEF s
  <2>6. g[s] = step[k + 1][g[1 .. k]] /\ g[s] \in V
    BY <1>1, <2>1, <2>3, <2>4, <2>5
  <2> QED BY <2>6 DEF s
<1>2. \A k \in 0 .. n : g[1 .. k] \in V
  <2> DEFINE N == {k \in Nat : k <= n => g[1 .. k] \in V}
  <2>1. 0 \in N
    <3>1. 1 .. 0 = {}
      OBVIOUS
    <3> QED BY <3>1
  <2>2. \A k \in N \cap Nat : k + 1 \in N
    <3> SUFFICES ASSUME NEW k \in N \cap Nat, k + 1 <= n PROVE g[1 .. k + 1] \in V
      OBVIOUS
    <3>1. g[1 .. k] \in V /\ k \in 0 .. n - 1
      OBVIOUS
    <3> QED BY <1>1, <3>1
  <2> HIDE DEF N
  <2>3. Nat \subseteq N
    BY <2>1, <2>2, Induction
  <2> QED BY <2>3 DEF N
<1>3. \A k \in 0 .. n - 1 : k \in 0 .. n
  OBVIOUS
<1> QED BY <1>1, <1>2, <1>3 DEF Climbs

(***************************************************************************)
(* Sequences without repetition: what is linked, unlinked and looked up.   *)
(***************************************************************************)

(* The least of a set of numbers is one of them. *)
LEMMA MinIsIn ==
  ASSUME NEW I \in SUBSET Nat, I # {}
  PROVE  Min(I) \in I
<1>1. \E m \in I : \A n \in I : m <= n
  BY LeastNumber
<1> QED BY <1>1 DEF Min

(* The members of a sequence are of its type. *)
LEMMA MembersIn ==
  ASSUME NEW T, NEW s \in Seq(T)
  PROVE  ToSet(s) \subseteq T
BY DEF ToSet

(* The members of sequences put together. *)
LEMMA MembersConcat ==
  ASSUME NEW T, NEW s \in Seq(T), NEW r \in Seq(T)
  PROVE  s \o r \in Seq(T) /\ ToSet(s \o r) = ToSet(s) \cup ToSet(r)
<1>1. /\ s \o r \in Seq(T) /\ Len(s \o r) = Len(s) + Len(r)
      /\ \A i \in 1 .. Len(s) + Len(r) :
           (s \o r)[i] = IF i <= Len(s) THEN s[i] ELSE r[i - Len(s)]
  BY ConcatProperties
<1>2. /\ DOMAIN s = 1 .. Len(s) /\ DOMAIN r = 1 .. Len(r)
      /\ DOMAIN (s \o r) = 1 .. Len(s) + Len(r)
      /\ Len(s) \in Nat /\ Len(r) \in Nat
  BY <1>1, LenProperties
<1>3. \A i \in DOMAIN s : i \in DOMAIN (s \o r) /\ (s \o r)[i] = s[i]
  BY <1>1, <1>2
<1>4. \A i \in DOMAIN r :
        Len(s) + i \in DOMAIN (s \o r) /\ (s \o r)[Len(s) + i] = r[i]
  BY <1>1, <1>2
<1>5. \A i \in DOMAIN (s \o r) :
        \/ i \in DOMAIN s /\ (s \o r)[i] = s[i]
        \/ i - Len(s) \in DOMAIN r /\ (s \o r)[i] = r[i - Len(s)]
  BY <1>1, <1>2
<1>6. ToSet(s) \cup ToSet(r) \subseteq ToSet(s \o r)
  BY <1>3, <1>4 DEF ToSet
<1>7. ToSet(s \o r) \subseteq ToSet(s) \cup ToSet(r)
  BY <1>5 DEF ToSet
<1> QED BY <1>1, <1>6, <1>7

(* A sequence of one, and of two. *)
LEMMA MembersOne ==
  ASSUME NEW T, NEW a \in T, NEW b \in T
  PROVE  /\ <<a>> \in Seq(T) /\ ToSet(<<a>>) = {a}
         /\ <<a, b>> \in Seq(T) /\ ToSet(<<a, b>>) = {a, b}
<1>1. <<a>> \in Seq(T) /\ DOMAIN <<a>> = {1} /\ <<a>>[1] = a
  OBVIOUS
<1>2. <<a, b>> \in Seq(T) /\ DOMAIN <<a, b>> = {1, 2} /\ <<a, b>>[1] = a /\ <<a, b>>[2] = b
  OBVIOUS
<1> QED BY <1>1, <1>2 DEF ToSet

(* The members of a pair, under any name. *)
LEMMA MembersOfPair ==
  ASSUME NEW T, NEW a \in T, NEW b \in T, NEW s, s = <<a, b>>
  PROVE  s \in Seq(T) /\ ToSet(s) = {a, b}
BY MembersOne

(* A new element put in front. *)
LEMMA PutInFront ==
  ASSUME NEW T, NEW s \in Seq(T), NEW a \in T, IsInjective(s), a \notin ToSet(s)
  PROVE  /\ <<a>> \o s \in Seq(T) /\ IsInjective(<<a>> \o s)
         /\ ToSet(<<a>> \o s) = ToSet(s) \cup {a}
<1>1. <<a>> \in Seq(T) /\ ToSet(<<a>>) = {a} /\ Len(<<a>>) = 1 /\ <<a>>[1] = a
  BY MembersOne
<1>2. /\ <<a>> \o s \in Seq(T) /\ Len(<<a>> \o s) = 1 + Len(s)
      /\ \A i \in 1 .. 1 + Len(s) : (<<a>> \o s)[i] = IF i <= 1 THEN <<a>>[i] ELSE s[i - 1]
  BY <1>1, ConcatProperties
<1>3. DOMAIN s = 1 .. Len(s) /\ Len(s) \in Nat /\ DOMAIN (<<a>> \o s) = 1 .. 1 + Len(s)
  BY <1>2, LenProperties
<1>4. IsInjective(<<a>> \o s)
  <2>1. \A i \in 1 .. 1 + Len(s) :
          \/ i = 1 /\ (<<a>> \o s)[i] = a
          \/ i - 1 \in DOMAIN s /\ (<<a>> \o s)[i] = s[i - 1]
    <3> SUFFICES ASSUME NEW i \in 1 .. 1 + Len(s)
                 PROVE  \/ i = 1 /\ (<<a>> \o s)[i] = a
                        \/ i - 1 \in DOMAIN s /\ (<<a>> \o s)[i] = s[i - 1]
      OBVIOUS
    <3>1. CASE i = 1
      BY <1>1, <1>2, <3>1
    <3>2. CASE i # 1
      <4>1. ~ (i <= 1) /\ i - 1 \in 1 .. Len(s)
        BY <1>3, <3>2
      <4> QED BY <1>2, <1>3, <4>1
    <3> QED BY <3>1, <3>2
  <2>2. \A i \in DOMAIN s : s[i] # a
    BY DEF ToSet
  <2> QED BY <1>3, <2>1, <2>2 DEF IsInjective
<1>5. ToSet(<<a>> \o s) = {a} \cup ToSet(s)
  <2> DEFINE one == <<a>>
  <2>1. one \in Seq(T) /\ ToSet(one) = {a}
    BY <1>1
  <2> HIDE DEF one
  <2>2. ToSet(one \o s) = ToSet(one) \cup ToSet(s)
    BY <2>1, MembersConcat
  <2> QED BY <2>1, <2>2 DEF one
<1> QED BY <1>2, <1>4, <1>5

(* One element taken out. *)
LEMMA TakeOut ==
  ASSUME NEW T, NEW s \in Seq(T), NEW a, IsInjective(s)
  PROVE  /\ RemoveFirst(s, a) \in Seq(T) /\ IsInjective(RemoveFirst(s, a))
         /\ ToSet(RemoveFirst(s, a)) = ToSet(s) \ {a}
<1> DEFINE I == {i \in 1 .. Len(s) : s[i] = a}
<1>1. DOMAIN s = 1 .. Len(s) /\ Len(s) \in Nat /\ I \in SUBSET Nat
  BY LenProperties
<1>2. CASE I = {}
  <2>1. RemoveFirst(s, a) = s
    BY <1>2 DEF RemoveFirst
  <2> QED BY <1>1, <1>2, <2>1 DEF ToSet
<1>3. CASE I # {}
  <2> DEFINE m == Min(I)
             n == Len(s)
             p == SubSeq(s, 1, m - 1)
             q == SubSeq(s, m + 1, n)
             r == p \o q
  <2>1. m \in 1 .. n /\ s[m] = a
    <3>1. Min(I) \in I
      BY <1>1, <1>3, MinIsIn
    <3> QED BY <3>1
  <2>2. RemoveFirst(s, a) = r
    <3>1. SelectInSeq(s, LAMBDA v : v = a) = Min(I)
      BY <1>3 DEF SelectInSeq
    <3>2. \E i \in 1 .. Len(s) : s[i] = a
      BY <1>3
    <3> QED BY <3>1, <3>2 DEF RemoveFirst, RemoveAt
  <2> HIDE DEF m
  <2>3. /\ p \in Seq(T) /\ Len(p) = m - 1 /\ \A i \in 1 .. m - 1 : p[i] = s[i]
    BY <1>1, <2>1, SubSeqProperties
  <2>4. /\ q \in Seq(T) /\ Len(q) = n - m /\ \A i \in 1 .. n - m : q[i] = s[m + i]
    <3>1. /\ n \in Nat /\ m + 1 \in 1 .. n + 1 /\ n \in (m + 1) - 1 .. n
          /\ n - (m + 1) + 1 = n - m
      BY <1>1, <2>1
    <3>2. /\ q \in Seq(T) /\ Len(q) = n - (m + 1) + 1
          /\ \A i \in 1 .. n - (m + 1) + 1 : q[i] = s[(m + 1) + i - 1]
      BY <3>1, SubSeqProperties
    <3>3. \A i \in 1 .. n - m : (m + 1) + i - 1 = m + i
      BY <1>1, <2>1
    <3> QED BY <3>1, <3>2, <3>3
  <2> HIDE DEF p, q
  <2>5. /\ r \in Seq(T) /\ Len(r) = n - 1
        /\ \A i \in 1 .. n - 1 : r[i] = IF i <= m - 1 THEN p[i] ELSE q[i - (m - 1)]
    <3>1. Len(p) + Len(q) = n - 1
      BY <1>1, <2>1, <2>3, <2>4
    <3> QED BY <2>3, <2>4, <3>1, ConcatProperties
  <2> HIDE DEF r
  <2>6. DOMAIN r = 1 .. n - 1
    BY <2>5, LenProperties
  <2>7. \A i \in 1 .. n - 1 : r[i] = IF i < m THEN s[i] ELSE s[i + 1]
    BY <1>1, <2>1, <2>3, <2>4, <2>5
  <2>8. IsInjective(r)
    <3> SUFFICES ASSUME NEW i \in DOMAIN r, NEW j \in DOMAIN r, r[i] = r[j]
                 PROVE  i = j
      BY DEF IsInjective
    <3> DEFINE up(k) == IF k < m THEN k ELSE k + 1
    <3>1. up(i) \in DOMAIN s /\ up(j) \in DOMAIN s
      BY <1>1, <2>1, <2>6
    <3>2. r[i] = s[up(i)] /\ r[j] = s[up(j)]
      BY <2>6, <2>7
    <3>3. up(i) = up(j)
      BY <3>1, <3>2 DEF IsInjective
    <3> QED BY <1>1, <2>1, <2>6, <3>3
  <2>9. \A x : x \in ToSet(r) => x \in ToSet(s) /\ x # a
    <3> SUFFICES ASSUME NEW i \in DOMAIN r PROVE r[i] \in ToSet(s) /\ r[i] # a
      BY DEF ToSet
    <3>1. PICK j \in DOMAIN s : r[i] = s[j] /\ j # m
      BY <1>1, <2>1, <2>6, <2>7
    <3> QED BY <1>1, <2>1, <3>1 DEF ToSet, IsInjective
  <2>10. \A x : x \in ToSet(s) /\ x # a => x \in ToSet(r)
    <3> SUFFICES ASSUME NEW j \in DOMAIN s, s[j] # a PROVE s[j] \in ToSet(r)
      BY DEF ToSet
    <3>1. \E i \in DOMAIN r : r[i] = s[j]
      <4>1. CASE j < m
        BY <1>1, <2>1, <2>6, <2>7, <4>1
      <4>2. CASE j > m
        <5>1. j - 1 \in DOMAIN r /\ r[j - 1] = s[j]
          BY <1>1, <2>1, <2>6, <2>7, <4>2
        <5> QED BY <5>1
      <4>3. j # m
        BY <2>1
      <4> QED BY <1>1, <2>1, <4>1, <4>2, <4>3
    <3> QED BY <3>1 DEF ToSet
  <2> QED BY <2>2, <2>5, <2>8, <2>9, <2>10
<1> QED BY <1>2, <1>3

----------------------------------------------------------------------------
=============================================================================
