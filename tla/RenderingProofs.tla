---------------------------- MODULE RenderingProofs -------------------------
(***************************************************************************)
(* Lemmas about the texts of crontabs and files: what the operators of      *)
(* Rendering, and the jobs of Deployment made of them, read, keep and       *)
(* write, and what they need to know of sequences, minima and recursive     *)
(* functions.  Induction is by the least counterexample.                    *)
(***************************************************************************)
EXTENDS Deployment, FiniteSetTheorems, TLAPS

-----------------------------------------------------------------------------
\* Least and greatest numbers.

(***************************************************************************)
(* A set of natural numbers that is not empty has a least element: the      *)
(* intervals from 0 to its elements have a smallest one.                    *)
(***************************************************************************)
LEMMA Least ==
  ASSUME NEW T, T \subseteq Nat, T # {}
  PROVE  \E n \in T : \A m \in T : n <= m
<1> DEFINE Initials == {0..n : n \in T}
<1>1. Initials # {} /\ Initials \subseteq FiniteSubsetsOf(Nat)
  <2>1. ASSUME NEW n \in T PROVE 0..n \in FiniteSubsetsOf(Nat)
    <3>1. IsFiniteSet(0..n)
      BY FS_Interval
    <3>2. QED
      BY <3>1 DEF FiniteSubsetsOf
  <2>2. QED
    BY <2>1
<1>2. PICK I \in Initials :
          \A J \in Initials : <<J, I>> \notin StrictSubsetOrdering(Nat)
  <2> HIDE DEF Initials
  <2>1. QED
    BY <1>1, WFMin, FS_StrictSubsetOrderingWellFounded
<1>3. PICK n \in T : I = 0..n
  OBVIOUS
<1>4. ASSUME NEW m \in T, m < n PROVE FALSE
  <2>1. 0..m \in Initials /\ 0..m \subseteq 0..n /\ n \in 0..n /\ n \notin 0..m
        /\ 0..n \subseteq Nat
    BY <1>4
  <2>2. <<0..m, 0..n>> \in StrictSubsetOrdering(Nat)
    BY <2>1 DEF StrictSubsetOrdering
  <2>3. QED
    BY <1>2, <1>3, <2>1, <2>2
<1>5. QED
  BY <1>3, <1>4

LEMMA MinOf ==
  ASSUME NEW T, T \subseteq Nat, T # {}
  PROVE  Min(T) \in T /\ \A m \in T : Min(T) <= m
BY Least DEF Min

LEMMA MaxOf ==
  ASSUME NEW n \in Nat, NEW T, T \subseteq 0..n, T # {}
  PROVE  Max(T) \in T /\ \A m \in T : Max(T) >= m
<1>1. PICK k \in {n - m : m \in T} : \A j \in {n - m : m \in T} : k <= j
  <2>1. {n - m : m \in T} \subseteq Nat
    OBVIOUS
  <2>2. QED
    BY <2>1, Least
<1>2. PICK m \in T : k = n - m
  OBVIOUS
<1>3. \A j \in T : m >= j
  <2>1. ASSUME NEW j \in T PROVE m >= j
    <3>1. k <= n - j
      BY <1>1
    <3>2. QED
      BY <1>2, <3>1
  <2>2. QED
    BY <2>1
<1>4. QED
  BY <1>3 DEF Max

-----------------------------------------------------------------------------
\* Concatenation.

\* both is s followed by t.
Joins(both, s, t) ==
    /\ Len(both) = Len(s) + Len(t)
    /\ \A i \in 1..Len(s) : i \in DOMAIN both /\ both[i] = s[i]
    /\ \A i \in Len(s) + 1..Len(both) : both[i] = t[i - Len(s)]
    /\ \A i \in 1..Len(t) : Len(s) + i \in DOMAIN both /\ both[Len(s) + i] = t[i]

LEMMA Joined ==
  ASSUME NEW S, NEW s \in Seq(S), NEW t \in Seq(S)
  PROVE  s \o t \in Seq(S) /\ Joins(s \o t, s, t)
BY DEF Joins

-----------------------------------------------------------------------------
\* FlattenSeq.

\* f[i] is what the first i sequences give.
Flattening(f, seqs) ==
    /\ f[1] = seqs[1]
    /\ \A i \in 2..Len(seqs) : f[i] = f[i - 1] \o seqs[i]
    /\ FlattenSeq(seqs) = f[Len(seqs)]

(***************************************************************************)
(* FlattenSeq joins the first one, two, three, ... of the sequences.        *)
(***************************************************************************)
LEMMA FlattenJoins ==
  ASSUME NEW S, NEW seqs \in Seq(Seq(S)), seqs # <<>>
  PROVE  \E f \in [1..Len(seqs) -> Seq(S)] : Flattening(f, seqs)
<1> DEFINE n == Len(seqs)
           Unfolds(f, m) == f = [i \in 1..m |-> IF i = 1 THEN seqs[i] ELSE f[i - 1] \o seqs[i]]
<1>1. n \in Nat \ {0}
  OBVIOUS
<1>2. \A m \in Nat : \E f : Unfolds(f, m)
  <2> DEFINE Bad == {m \in Nat : ~ \E f : Unfolds(f, m)}
  <2>1. SUFFICES ASSUME Bad # {} PROVE FALSE
    OBVIOUS
  <2>2. PICK m \in Bad : \A k \in Bad : m <= k
    <3>1. Bad \subseteq Nat
      OBVIOUS
    <3> HIDE DEF Bad
    <3>2. QED
      BY <2>1, <3>1, Least
  <2>3. CASE m = 0
    <3>1. Unfolds(<<>>, 0)
      OBVIOUS
    <3>2. QED
      BY <2>3, <3>1
  <2>4. CASE m # 0
    <3>1. m - 1 \in Nat /\ m - 1 \notin Bad
      <4>1. m \in Nat /\ m - 1 \in Nat /\ ~(m <= m - 1)
        BY <2>4
      <4> HIDE DEF Bad
      <4>2. QED
        BY <2>2, <4>1
    <3>2. PICK f : Unfolds(f, m - 1)
      BY <3>1
    <3> DEFINE g == [i \in 1..m |-> IF i = 1 THEN seqs[i]
                                   ELSE IF i = m THEN f[m - 1] \o seqs[m] ELSE f[i]]
    <3>3. \A i \in 1..m - 1 : g[i] = f[i]
      BY <3>1, <3>2
    <3>4. ASSUME NEW i \in 1..m
          PROVE  g[i] = IF i = 1 THEN seqs[i] ELSE g[i - 1] \o seqs[i]
      <4>1. CASE i = 1
        BY <4>1
      <4>2. CASE i # 1 /\ i = m
        <5>1. i - 1 \in 1..m - 1
          BY <3>1, <4>2
        <5>2. QED
          BY <3>3, <4>2, <5>1
      <4>3. CASE i # 1 /\ i # m
        <5>1. i - 1 \in 1..m - 1 /\ i \in 1..m - 1
          BY <3>1, <4>3
        <5>2. f[i] = f[i - 1] \o seqs[i]
          BY <3>2, <4>3, <5>1
        <5>3. QED
          BY <3>3, <4>3, <5>1, <5>2
      <4>4. QED
        BY <4>1, <4>2, <4>3
    <3>5. Unfolds(g, m)
      <4>1. g = [i \in 1..m |-> g[i]]
        OBVIOUS
      <4> HIDE DEF g
      <4>2. QED
        BY <3>4, <4>1
    <3>6. QED
      BY <3>5
  <2>5. QED
    BY <2>3, <2>4
<1>3. PICK f : Unfolds(f, n) /\ FlattenSeq(seqs) = f[n]
  <2>1. \E f : Unfolds(f, n)
    BY <1>1, <1>2
  <2>2. Unfolds(CHOOSE f : Unfolds(f, n), n)
    BY <2>1
  <2>3. FlattenSeq(seqs) = (CHOOSE f : Unfolds(f, n))[n]
    BY <1>1 DEF FlattenSeq
  <2>4. QED
    BY <2>2, <2>3
<1>4. /\ f = [i \in 1..n |-> f[i]]
      /\ f[1] = seqs[1]
      /\ \A i \in 2..n : f[i] = f[i - 1] \o seqs[i]
  <2>1. f = [i \in 1..n |-> IF i = 1 THEN seqs[i] ELSE f[i - 1] \o seqs[i]]
    BY <1>3
  <2> DEFINE Joint(i) == IF i = 1 THEN seqs[i] ELSE f[i - 1] \o seqs[i]
  <2>2. f = [i \in 1..n |-> Joint(i)]
    BY <2>1
  <2>3. f = [i \in 1..n |-> f[i]] /\ \A i \in 1..n : f[i] = Joint(i)
    <3> HIDE DEF Joint
    <3>1. QED
      BY <2>2
  <2>4. 1 \in 1..n /\ \A i \in 2..n : i \in 1..n /\ i # 1
    BY <1>1
  <2>5. QED
    BY <2>3, <2>4
<1>5. \A i \in 1..n : f[i] \in Seq(S)
  <2> DEFINE Bad == {i \in 1..n : f[i] \notin Seq(S)}
  <2>1. SUFFICES ASSUME Bad # {} PROVE FALSE
    OBVIOUS
  <2>2. PICK i \in Bad : \A k \in Bad : i <= k
    <3>1. Bad \subseteq Nat
      OBVIOUS
    <3> HIDE DEF Bad
    <3>2. QED
      BY <2>1, <3>1, Least
  <2>3. seqs[i] \in Seq(S) /\ i \in 1..n /\ f[i] \notin Seq(S)
    OBVIOUS
  <2>4. i \in 2..n
    BY <1>4, <2>3
  <2>5. i - 1 \in 1..n /\ ~(i <= i - 1)
    BY <2>4
  <2>6. f[i - 1] \in Seq(S)
    BY <2>2, <2>5
  <2>7. f[i] = f[i - 1] \o seqs[i]
    BY <1>4, <2>4
  <2>8. QED
    BY <2>3, <2>6, <2>7
<1>6. f \in [1..n -> Seq(S)]
  BY <1>4, <1>5
<1>7. QED
  BY <1>3, <1>4, <1>6 DEF Flattening

(***************************************************************************)
(* The result consists of the elements of the sequences, and of all of      *)
(* them.                                                                    *)
(***************************************************************************)
LEMMA FlattenFacts ==
  ASSUME NEW S, NEW seqs \in Seq(Seq(S))
  PROVE  /\ FlattenSeq(seqs) \in Seq(S)
         /\ \A i \in DOMAIN seqs : \A j \in DOMAIN seqs[i] :
               \E k \in DOMAIN FlattenSeq(seqs) : FlattenSeq(seqs)[k] = seqs[i][j]
<1>1. CASE seqs = <<>>
  <2>1. FlattenSeq(seqs) = <<>>
    BY <1>1 DEF FlattenSeq
  <2>2. DOMAIN seqs = {}
    BY <1>1
  <2>3. <<>> \in Seq(S)
    OBVIOUS
  <2>4. QED
    BY <2>1, <2>2, <2>3
<1>2. CASE seqs # <<>>
  <2>1. PICK f \in [1..Len(seqs) -> Seq(S)] : Flattening(f, seqs)
    BY <1>2, FlattenJoins
  <2> DEFINE N == Len(seqs)
             Holds(n) == \A i \in 1..n : \A j \in DOMAIN seqs[i] :
                            \E k \in DOMAIN f[n] : f[n][k] = seqs[i][j]
  <2>2. N \in Nat \ {0} /\ DOMAIN seqs = 1..N /\ \A i \in 1..N : seqs[i] \in Seq(S)
    BY <1>2
  <2>3. \A n \in 1..N : Holds(n)
    <3> DEFINE Bad == {n \in 1..N : ~Holds(n)}
    <3>1. SUFFICES ASSUME Bad # {} PROVE FALSE
      <4> HIDE DEF Holds
      <4>1. CASE Bad = {}
        BY <4>1
      <4>2. QED
        BY <4>1
    <3>2. PICK n \in Bad : \A k \in Bad : n <= k
      <4>1. Bad \subseteq Nat
        OBVIOUS
      <4> HIDE DEF Bad
      <4>2. QED
        BY <3>1, <4>1, Least
    <3>3. n \in 1..N /\ ~Holds(n)
      OBVIOUS
    <3>4. n \in 2..N
      <4>1. Holds(1)
        BY <2>1 DEF Flattening
      <4>2. n # 1
        BY <3>3, <4>1
      <4>3. QED
        BY <2>2, <3>3, <4>2
    <3>5. n - 1 \in 1..N /\ Holds(n - 1)
      <4>1. n - 1 \in 1..N /\ ~(n <= n - 1)
        BY <2>2, <3>4
      <4>2. n - 1 \notin Bad
        BY <3>2, <4>1
      <4>3. QED
        BY <4>1, <4>2
    <3>6. f[n] = f[n - 1] \o seqs[n]
      BY <2>1, <3>4 DEF Flattening
    <3>7. f[n - 1] \in Seq(S) /\ seqs[n] \in Seq(S)
      BY <2>2, <3>3, <3>5
    <3>8. ASSUME NEW i \in 1..n, NEW j \in DOMAIN seqs[i]
          PROVE  \E k \in DOMAIN f[n] : f[n][k] = seqs[i][j]
      <4>1. CASE i = n
        <5> DEFINE k == Len(f[n - 1]) + j
        <5>1. k \in DOMAIN f[n] /\ f[n][k] = seqs[n][j]
          <6>1. j \in 1..Len(seqs[n])
            BY <3>7, <4>1
          <6>2. Joins(f[n], f[n - 1], seqs[n])
            BY <3>6, <3>7, Joined
          <6>3. QED
            BY <3>7, <6>1, <6>2 DEF Joins
        <5>2. QED
          BY <4>1, <5>1
      <4>2. CASE i # n
        <5>1. i \in 1..(n - 1)
          BY <3>3, <4>2
        <5>2. PICK k \in DOMAIN f[n - 1] : f[n - 1][k] = seqs[i][j]
          BY <3>5, <5>1
        <5>3. k \in DOMAIN f[n] /\ f[n][k] = f[n - 1][k]
          <6>1. k \in 1..Len(f[n - 1])
            BY <3>7
          <6>2. Joins(f[n], f[n - 1], seqs[n])
            BY <3>6, <3>7, Joined
          <6>3. QED
            BY <3>7, <6>1, <6>2 DEF Joins
        <5>4. QED
          BY <5>2, <5>3
      <4>3. QED
        BY <4>1, <4>2
    <3>9. QED
      BY <3>3, <3>8
  <2>4. QED
    BY SMTT(60), <2>1, <2>2, <2>3 DEF Flattening
<1>3. QED
  BY <1>1, <1>2

(***************************************************************************)
(* SetToSeq lists the elements of a finite set.                             *)
(***************************************************************************)
LEMMA SetToSeqFacts ==
  ASSUME NEW S, IsFiniteSet(S)
  PROVE  /\ SetToSeq(S) \in Seq(S)
         /\ \A x \in S : \E i \in DOMAIN SetToSeq(S) : SetToSeq(S)[i] = x
<1> DEFINE n == Cardinality(S)
           Lists(f) == f \in [1..n -> S] /\ IsInjective(f)
<1>1. n \in Nat /\ \E f : Lists(f)
  BY FS_CardinalityType DEF ExistsBijection, Bijection, Injection
<1>2. Lists(SetToSeq(S))
  <2>1. SetToSeq(S) = CHOOSE f \in [1..n -> S] : IsInjective(f)
    BY DEF SetToSeq
  <2>2. QED
    BY <1>1, <2>1
<1>3. IsFiniteSet(1..n) /\ Cardinality(1..n) = Cardinality(S)
  <2>1. IsFiniteSet(1..n) /\ Cardinality(1..n) = IF 1 > n THEN 0 ELSE n - 1 + 1
    BY <1>1, FS_Interval
  <2>2. QED
    BY <1>1, <2>1
<1>4. SetToSeq(S) \in Injection(1..n, S)
  BY <1>2 DEF Injection
<1>5. SetToSeq(S) \in Surjection(1..n, S)
  BY <1>3, <1>4, FS_Injection
<1>6. QED
  BY <1>1, <1>2, <1>5 DEF Surjection

-----------------------------------------------------------------------------
\* Putting lines in the place of others.

\* The elements a..b of seq give way to those of put.
Replaced(new, seq, a, b, put) ==
    /\ Len(new) = (a - 1) + Len(put) + (Len(seq) - b)
    /\ \A i \in 1..a - 1 : new[i] = seq[i]
    /\ \A i \in a..a - 1 + Len(put) : new[i] = put[i - (a - 1)]
    /\ \A i \in a + Len(put)..Len(new) :
          new[i] = seq[i - (a - 1 + Len(put)) + b]

LEMMA ReplacedBetween ==
  ASSUME NEW S, NEW seq \in Seq(S), NEW put \in Seq(S), NEW a \in Int, NEW b \in Int,
         1 <= a, a <= b + 1, b <= Len(seq)
  PROVE  LET new == SubSeq(seq, 1, a - 1) \o put \o SubSeq(seq, b + 1, Len(seq))
         IN  new \in Seq(S) /\ Replaced(new, seq, a, b, put)
<1> DEFINE front == SubSeq(seq, 1, a - 1)
           back == SubSeq(seq, b + 1, Len(seq))
<1>1. /\ front \in Seq(S) /\ Len(front) = a - 1
      /\ \A i \in 1..a - 1 : front[i] = seq[i]
  OBVIOUS
<1>2. /\ back \in Seq(S) /\ Len(back) = Len(seq) - b
      /\ \A i \in 1..Len(seq) - b : back[i] = seq[b + i]
  OBVIOUS
<1> HIDE DEF front, back
<1> DEFINE new == (front \o put) \o back
           most == front \o put
<1>2a. /\ most \in Seq(S) /\ Len(most) = (a - 1) + Len(put)
       /\ \A i \in 1..a - 1 : most[i] = seq[i]
       /\ \A i \in a..a - 1 + Len(put) : most[i] = put[i - (a - 1)]
  <2>1. most \in Seq(S) /\ Joins(most, front, put)
    BY <1>1, Joined
  <2> HIDE DEF most
  <2>2. \A i \in a..a - 1 + Len(put) : i \in Len(front) + 1..Len(most)
    BY <1>1, <2>1 DEF Joins
  <2>3. QED
    BY <1>1, <2>1, <2>2 DEF Joins
<1> HIDE DEF most
<1>3. /\ new \in Seq(S) /\ Len(new) = Len(most) + Len(back)
      /\ \A i \in 1..Len(most) : new[i] = most[i]
      /\ \A i \in Len(most) + 1..Len(new) : new[i] = back[i - Len(most)]
  <2>1. new = most \o back
    BY DEF most
  <2>2. new \in Seq(S) /\ Joins(new, most, back)
    BY <1>2, <1>2a, <2>1, Joined
  <2> HIDE DEF new
  <2>3. QED
    BY <2>2 DEF Joins
<1> HIDE DEF new
<1>4. /\ \A i \in 1..a - 1 : new[i] = seq[i]
      /\ \A i \in a..a - 1 + Len(put) : new[i] = put[i - (a - 1)]
  <2>1. Len(put) \in Nat
    OBVIOUS
  <2>2. /\ \A i \in 1..a - 1 : i \in 1..Len(most)
        /\ \A i \in a..a - 1 + Len(put) : i \in 1..Len(most)
    BY <1>2a, <2>1
  <2>3. QED
    BY <1>2a, <1>3, <2>2
<1>5. ASSUME NEW i \in a + Len(put)..Len(new)
      PROVE  new[i] = seq[i - (a - 1 + Len(put)) + b]
  <2> DEFINE k == i - (a - 1 + Len(put))
  <2>1. k \in 1..Len(seq) - b /\ new[i] = back[k]
    <3>1. Len(put) \in Nat /\ Len(seq) \in Nat
      OBVIOUS
    <3>2. QED
      BY <1>2, <1>2a, <1>3, <3>1
  <2>2. b + k = k + b
    BY <2>1
  <2>3. QED
    BY <1>2, <2>1, <2>2
<1>6. Replaced(new, seq, a, b, put)
  BY <1>2, <1>2a, <1>3, <1>4, <1>5 DEF Replaced
<1>7. QED
  BY <1>3, <1>6 DEF front, back, new

LEMMA ReplacedAtEnd ==
  ASSUME NEW S, NEW seq \in Seq(S), NEW put \in Seq(S)
  PROVE  /\ seq \o put \in Seq(S)
         /\ Replaced(seq \o put, seq, Len(seq) + 1, Len(seq), put)
BY DEF Replaced

-----------------------------------------------------------------------------
\* Parts.

LEMMA PartOf ==
  ASSUME NEW S, NEW seq \in Seq(S), NEW a \in Int, NEW b \in Int, 1 <= a, b <= Len(seq),
         NEW H, \A i \in a..b : seq[i] \in H
  PROVE  SubSeq(seq, a, b) \in Seq(H)
<1>1. Len(SubSeq(seq, a, b)) \in Nat /\ DOMAIN SubSeq(seq, a, b) = 1..Len(SubSeq(seq, a, b))
  OBVIOUS
<1>2. \A i \in 1..Len(SubSeq(seq, a, b)) : SubSeq(seq, a, b)[i] \in H
  <2>1. ASSUME NEW i \in 1..Len(SubSeq(seq, a, b)) PROVE SubSeq(seq, a, b)[i] \in H
    <3>1. a + i - 1 \in a..b /\ SubSeq(seq, a, b)[i] = seq[a + i - 1]
      OBVIOUS
    <3>2. QED
      BY <3>1
  <2>2. QED
    BY <2>1
<1>3. QED
  BY <1>1, <1>2

-----------------------------------------------------------------------------
\* Order.

Increasing(q) == \A i, j \in DOMAIN q : i < j => q[i] < q[j]

\* q lists the set S of numbers in order.
InOrderOf(q, S) ==
    /\ q \in Seq(S) /\ Increasing(q)
    /\ \A x \in S : \E n \in DOMAIN q : q[n] = x

\* g takes S to T and keeps the order.
KeepsOrder(g, S, T) ==
    /\ g \in [S -> T]
    /\ \A x, y \in S : x < y => g[x] < g[y]
    /\ \A y \in T : \E x \in S : g[x] = y

(***************************************************************************)
(* What lists a set in order corresponds, place by place, to what lists its *)
(* image in order.                                                          *)
(***************************************************************************)
LEMMA SameOrder ==
  ASSUME NEW S \in SUBSET Nat, NEW T \in SUBSET Nat, NEW g, KeepsOrder(g, S, T),
         NEW q, InOrderOf(q, S), NEW r, InOrderOf(r, T)
  PROVE  DOMAIN q = DOMAIN r /\ \A n \in DOMAIN q : r[n] = g[q[n]]
<1> DEFINE Fits(n) == n \in DOMAIN q /\ n \in DOMAIN r /\ r[n] = g[q[n]]
           Bad == {n \in Nat : (n \in DOMAIN q \/ n \in DOMAIN r) /\ ~Fits(n)}
<1>1. /\ Len(q) \in Nat /\ DOMAIN q = 1..Len(q) /\ \A n \in DOMAIN q : q[n] \in S
      /\ Len(r) \in Nat /\ DOMAIN r = 1..Len(r) /\ \A n \in DOMAIN r : r[n] \in T
      /\ \A x \in S : g[x] \in T
      /\ \A x \in S : x \in Nat /\ \A y \in T : y \in Nat
  BY DEF InOrderOf, KeepsOrder
<1>2. ASSUME Bad # {} PROVE FALSE
  <2>1. PICK n \in Bad : \A m \in Bad : n <= m
    <3>1. Bad \subseteq Nat
      OBVIOUS
    <3> HIDE DEF Bad
    <3>2. QED
      BY <1>2, <3>1, Least
  <2>2. n \in Nat /\ (n \in DOMAIN q \/ n \in DOMAIN r) /\ ~Fits(n) /\ 1 <= n
    BY <1>1
  <2>3. ASSUME NEW m \in 1..(n - 1) PROVE Fits(m)
    <3>1. m \in Nat /\ ~(n <= m) /\ (m \in DOMAIN q \/ m \in DOMAIN r)
      BY <1>1, <2>2
    <3>2. m \notin Bad
      BY <2>1, <3>1
    <3>3. QED
      BY <3>1, <3>2
  <2>4. ASSUME n \in DOMAIN q PROVE n \in DOMAIN r /\ r[n] <= g[q[n]]
    <3>1. g[q[n]] \in T /\ q[n] \in S
      BY <1>1, <2>4
    <3>2. PICK k \in DOMAIN r : r[k] = g[q[n]]
      BY <3>1 DEF InOrderOf
    <3>3. ~(k < n)
      <4>1. SUFFICES ASSUME k < n PROVE FALSE
        OBVIOUS
      <4>2. k \in 1..(n - 1)
        BY <1>1, <2>2, <4>1
      <4>3. k \in DOMAIN q /\ r[k] = g[q[k]]
        BY <2>3, <4>2
      <4>4. q[k] < q[n] /\ q[k] \in S
        BY <1>1, <2>4, <4>1, <4>3 DEF InOrderOf, Increasing
      <4>5. g[q[k]] < g[q[n]]
        BY <3>1, <4>4 DEF KeepsOrder
      <4>6. g[q[n]] < g[q[n]] /\ g[q[n]] \in Nat
        BY <1>1, <3>1, <3>2, <4>3, <4>5
      <4>7. QED
        BY <4>6
    <3>4. n \in DOMAIN r
      BY <1>1, <2>2, <3>3
    <3>5. r[n] <= r[k]
      <4>1. k = n \/ n < k
        BY <1>1, <2>2, <3>3
      <4>2. r[n] \in Nat /\ r[k] \in Nat
        BY <1>1, <3>4
      <4>3. QED
        BY <3>4, <4>1, <4>2 DEF InOrderOf, Increasing
    <3>6. QED
      BY <3>2, <3>4, <3>5
  <2>5. ASSUME n \in DOMAIN r PROVE n \in DOMAIN q /\ g[q[n]] <= r[n]
    <3>1. r[n] \in T
      BY <1>1, <2>5
    <3>2. PICK x \in S : g[x] = r[n]
      BY <3>1 DEF KeepsOrder
    <3>3. PICK k \in DOMAIN q : q[k] = x
      BY DEF InOrderOf
    <3>4. ~(k < n)
      <4>1. SUFFICES ASSUME k < n PROVE FALSE
        OBVIOUS
      <4>2. k \in 1..(n - 1)
        BY <1>1, <2>2, <4>1
      <4>3. k \in DOMAIN r /\ r[k] = r[n]
        BY <2>3, <3>2, <3>3, <4>2
      <4>4. r[k] < r[n]
        BY <2>5, <4>1, <4>3 DEF InOrderOf, Increasing
      <4>5. r[n] < r[n] /\ r[n] \in Nat
        BY <1>1, <3>1, <4>3, <4>4
      <4>6. QED
        BY <4>5
    <3>5. n \in DOMAIN q
      BY <1>1, <2>2, <3>4
    <3>6. k = n \/ q[n] < q[k]
      BY <1>1, <2>2, <3>4, <3>5 DEF InOrderOf, Increasing
    <3>7. k = n \/ g[q[n]] < g[q[k]]
      BY <1>1, <3>5, <3>6 DEF KeepsOrder
    <3>8. g[q[n]] \in Nat /\ r[n] \in Nat
      BY <1>1, <3>1, <3>5
    <3>9. QED
      BY <3>2, <3>3, <3>5, <3>7, <3>8
  <2>6. n \in DOMAIN q /\ n \in DOMAIN r /\ r[n] = g[q[n]]
    <3>1. n \in DOMAIN q /\ n \in DOMAIN r /\ r[n] <= g[q[n]] /\ g[q[n]] <= r[n]
      BY <2>2, <2>4, <2>5
    <3>2. g[q[n]] \in Nat /\ r[n] \in Nat
      BY <1>1, <3>1
    <3>3. QED
      BY <3>1, <3>2
  <2>7. QED
    BY <2>2, <2>6
<1>3. \A n \in Nat : n \in DOMAIN q \/ n \in DOMAIN r => Fits(n)
  BY <1>2
<1>4. \A n : n \in DOMAIN q \/ n \in DOMAIN r => Fits(n)
  <2>1. \A n : n \in DOMAIN q \/ n \in DOMAIN r => n \in Nat
    BY <1>1
  <2> HIDE DEF Fits
  <2>2. QED
    BY <1>3, <2>1
<1>5. QED
  BY <1>4

-----------------------------------------------------------------------------
\* Where FlattenSeq puts things.

\* The elements of seqs[n] follow the first at[n] elements of all.
Places(at, all, seqs) ==
    /\ at[1] = 0 /\ at[Len(seqs) + 1] = Len(all)
    /\ \A n \in 1..Len(seqs) :
          /\ at[n + 1] = at[n] + Len(seqs[n])
          /\ \A o \in 1..Len(seqs[n]) : all[at[n] + o] = seqs[n][o]
    /\ \A m, n \in 1..Len(seqs) + 1 : m <= n => at[m] <= at[n]
    /\ \A k \in 1..Len(all) : \E n \in 1..Len(seqs) : at[n] < k /\ k <= at[n + 1]

LEMMA FlattenPlaces ==
  ASSUME NEW S, NEW seqs \in Seq(Seq(S))
  PROVE  \E at \in [1..Len(seqs) + 1 -> Nat] : Places(at, FlattenSeq(seqs), seqs)
<1> DEFINE N == Len(seqs)
<1>1. N \in Nat /\ DOMAIN seqs = 1..N /\ \A i \in 1..N : seqs[i] \in Seq(S)
  OBVIOUS
<1>2. CASE seqs = <<>>
  <2>1. FlattenSeq(seqs) = <<>> /\ N = 0
    BY <1>2 DEF FlattenSeq
  <2> DEFINE at == [n \in 1..1 |-> 0]
  <2>2. at \in [1..N + 1 -> Nat] /\ Places(at, FlattenSeq(seqs), seqs)
    BY <2>1 DEF Places
  <2>3. QED
    BY <2>2
<1>3. CASE seqs # <<>>
  <2>1. PICK f \in [1..N -> Seq(S)] : Flattening(f, seqs)
    BY <1>3, FlattenJoins
  <2> DEFINE at == [n \in 1..N + 1 |-> IF n = 1 THEN 0 ELSE Len(f[n - 1])]
             Fit(m) == /\ at[m + 1] = at[m] + Len(seqs[m])
                       /\ \A n \in 1..m : at[n] <= at[m + 1]
                       /\ \A n \in 1..m : \A o \in 1..Len(seqs[n]) :
                             at[n] + o \in 1..Len(f[m]) /\ f[m][at[n] + o] = seqs[n][o]
                       /\ \A k \in 1..Len(f[m]) :
                             \E n \in 1..m : at[n] < k /\ k <= at[n + 1]
  <2>2. N \in Nat \ {0} /\ \A m \in 1..N : f[m] \in Seq(S) /\ Len(f[m]) \in Nat
    <3>1. N \in Nat \ {0}
      BY <1>3
    <3>2. ASSUME NEW m \in 1..N PROVE f[m] \in Seq(S) /\ Len(f[m]) \in Nat
      <4>1. f[m] \in Seq(S)
        OBVIOUS
      <4> HIDE DEF at, Fit
      <4>2. QED
        BY <4>1
    <3>3. QED
      BY <3>1, <3>2
  <2>3. at[1] = 0 /\ at \in [1..N + 1 -> Nat] /\ \A n \in 1..N : at[n + 1] = Len(f[n])
    <3> HIDE DEF N, Fit
    <3>1. QED
      BY <2>2
  <2> HIDE DEF at
  <2>3a. N + 1 \in Nat /\ \A n \in 1..N + 1 : at[n] \in Nat
    <3> HIDE DEF N
    <3>1. QED
      BY <2>2, <2>3
  <2>4. \A m \in 1..N : Fit(m)
    <3> DEFINE Bad == {m \in 1..N : ~Fit(m)}
    <3>1. SUFFICES ASSUME Bad # {} PROVE FALSE
      OBVIOUS
    <3>2. \E m \in Bad : \A k \in Bad : m <= k
      <4>1. Bad \subseteq Nat
        OBVIOUS
      <4> HIDE DEF Bad
      <4>2. QED
        BY <3>1, <4>1, Least
    <3>3. PICK m : /\ m \in 1..N /\ ~Fit(m)
                   /\ \A k \in 1..N : ~Fit(k) => m <= k
      <4> HIDE DEF Fit
      <4>1. QED
        BY <3>2
    <3> HIDE DEF Bad, N
    <3>4. CASE m = 1
      <4>1. f[1] = seqs[1] /\ at[2] = Len(f[1]) /\ at[1] = 0 /\ Len(f[1]) \in Nat
        BY <2>1, <2>2, <2>3 DEF Flattening
      <4>2. Fit(1)
        <5>1. \A n \in 1..1 : n = 1
          OBVIOUS
        <5>2. \A o \in 1..Len(seqs[1]) : at[1] + o = o
          BY <4>1
        <5>3. QED
          BY <4>1, <5>1, <5>2
      <4>3. QED
        BY <3>3, <3>4, <4>2
    <3>5. CASE m # 1
      <4>1. m - 1 \in 1..N /\ ~(m <= m - 1) /\ m \in 2..N
        BY <2>2, <3>3, <3>5
      <4>2. Fit(m - 1)
        <5> HIDE DEF Fit
        <5>1. QED
          BY <3>3, <4>1
      <4>3. f[m] = f[m - 1] \o seqs[m] /\ f[m - 1] \in Seq(S) /\ seqs[m] \in Seq(S)
        <5>1. f[m] = f[m - 1] \o seqs[m]
          BY <2>1, <4>1 DEF Flattening, N
        <5>2. f[m - 1] \in Seq(S) /\ seqs[m] \in Seq(S)
          BY <1>1, <2>2, <3>3, <4>1
        <5>3. QED
          BY <5>1, <5>2
      <4>4. Joins(f[m], f[m - 1], seqs[m])
        BY <4>3, Joined
      <4>5. at[m] = Len(f[m - 1]) /\ at[m + 1] = Len(f[m]) /\ (m - 1) + 1 = m
        BY <2>3, <3>3, <4>1
      <4>6. at[m + 1] = at[m] + Len(seqs[m])
        BY <4>4, <4>5 DEF Joins
      <4>7. Len(f[m - 1]) \in Nat /\ Len(f[m]) \in Nat /\ Len(seqs[m]) \in Nat
            /\ Len(f[m]) = Len(f[m - 1]) + Len(seqs[m])
        <5>1. Len(f[m - 1]) \in Nat /\ Len(f[m]) \in Nat
          BY <2>2, <3>3, <4>1
        <5>2. Len(seqs[m]) \in Nat
          BY <4>3
        <5>3. QED
          BY <4>4, <5>1, <5>2 DEF Joins
      <4>7b. /\ \A i \in 1..Len(f[m - 1]) : f[m][i] = f[m - 1][i]
             /\ \A i \in 1..Len(seqs[m]) : f[m][Len(f[m - 1]) + i] = seqs[m][i]
        <5> HIDE DEF Fit
        <5>1. QED
          BY <4>4 DEF Joins
      <4>7a. m \in Nat /\ 1 <= m /\ at[m] \in Nat /\ at[m + 1] \in Nat
             /\ \A n \in 1..m : at[n] \in Nat
        BY <2>2, <2>3a, <3>3
      <4>7c. PICK x \in Nat, y \in Nat, z \in Nat :
                /\ x = Len(f[m - 1]) /\ y = Len(f[m]) /\ z = Len(seqs[m])
                /\ y = x + z /\ at[m] = x /\ at[m + 1] = y
        BY <4>5, <4>7
      <4>7d. y = x + z /\ z = Len(seqs[m])
        BY <4>7c
      <4>7e. y = Len(f[m])
        BY <4>7c
      <4>8. ASSUME NEW n \in 1..m PROVE at[n] <= at[m + 1]
        <5>1. CASE n = m
          BY <4>6, <4>7, <4>7a, <5>1
        <5>2. CASE n # m
          <6>1. n \in 1..(m - 1) /\ at[n] \in Nat
            BY <2>2, <2>3a, <3>3, <5>2
          <6>2. at[n] <= at[m]
            BY <4>2, <4>5, <6>1
          <6>3. QED
            BY <4>6, <4>7, <4>7a, <6>1, <6>2
        <5>3. QED
          BY <5>1, <5>2
      <4>9. ASSUME NEW n \in 1..m, NEW o \in 1..Len(seqs[n])
            PROVE  at[n] + o \in 1..Len(f[m]) /\ f[m][at[n] + o] = seqs[n][o]
        <5>1. CASE n = m
          <6>1. o \in 1..Len(seqs[m])
            BY <5>1
          <6>2. Len(f[m - 1]) + o \in 1..Len(f[m]) /\ f[m][Len(f[m - 1]) + o] = seqs[m][o]
            <7>1. o \in 1..z /\ x + o \in 1..y
              BY <4>7d, <6>1
            <7>2. QED
              BY <4>7b, <4>7c, <6>1, <7>1
          <6>3. QED
            BY <4>5, <5>1, <6>2
        <5>2. CASE n # m
          <6>1. n \in 1..(m - 1)
            BY <3>3, <5>2
          <6>2. at[n] + o \in 1..Len(f[m - 1]) /\ f[m - 1][at[n] + o] = seqs[n][o]
            BY <4>2, <6>1
          <6>3. QED
            <7>1. at[n] + o \in 1..x
              BY <4>7c, <6>2
            <7>1a. at[n] + o \in 1..y
              BY <4>7d, <7>1
            <7>2. QED
              BY <4>7b, <4>7c, <6>2, <7>1, <7>1a
        <5>3. QED
          BY <5>1, <5>2
      <4>10. ASSUME NEW k \in 1..Len(f[m])
             PROVE  \E n \in 1..m : at[n] < k /\ k <= at[n + 1]
        <5>1. CASE k <= Len(f[m - 1])
          <6>1. PICK n \in 1..(m - 1) : at[n] < k /\ k <= at[n + 1]
            BY <4>2, <4>7, <5>1
          <6>2. n \in 1..m
            BY <3>3
          <6>3. QED
            BY <6>1, <6>2
        <5>2. CASE ~(k <= Len(f[m - 1]))
          <6>1. at[m] < k /\ k <= at[m + 1] /\ m \in 1..m
            <7>1. k \in 1..y /\ x < k
              <8>1. k \in 1..y
                BY <4>7e
              <8>2. ~(k <= x)
                BY <4>7c, <5>2
              <8>3. QED
                BY <8>1, <8>2
            <7>2. at[m] < k /\ k <= at[m + 1]
              <8>1. at[m] = x /\ at[m + 1] = y
                BY <4>7c
              <8>2. x < k /\ k <= y
                BY <7>1
              <8>3. QED
                BY <8>1, <8>2, Zenon
            <7>3. QED
              BY <4>7a, <7>2
          <6>2. QED
            BY <6>1
        <5>3. QED
          BY <5>1, <5>2
      <4>11. Fit(m)
        BY <4>6, <4>8, <4>9, <4>10
      <4>12. QED
        BY <3>3, <4>11
    <3>6. QED
      BY <3>4, <3>5
  <2>5. FlattenSeq(seqs) = f[N] /\ N \in 1..N
    BY <2>1, <2>2 DEF Flattening
  <2>6. ASSUME NEW m \in 1..N + 1, NEW n \in 1..N + 1, m <= n PROVE at[m] <= at[n]
    <3>1. CASE m = n
      BY SMTT(60), <2>3, <3>1
    <3>2. CASE m # n
      <4>1. n - 1 \in 1..N /\ m \in 1..(n - 1) /\ (n - 1) + 1 = n
        BY <2>2, <2>6, <3>2
      <4>2. Fit(n - 1)
        BY <2>4, <4>1
      <4>3. QED
        BY <4>1, <4>2
    <3>3. QED
      BY <3>1, <3>2
  <2>7. Places(at, f[N], seqs)
    <3>1. Fit(N)
      BY <2>4, <2>5
    <3>2. \A n \in 1..N : Fit(n)
      BY <2>4
    <3>3. at[N + 1] = Len(f[N])
      BY <2>3, <2>5
    <3>4. QED
      BY <2>3, <2>6, <3>1, <3>2, <3>3 DEF Places
  <2>8. QED
    BY <2>3, <2>5, <2>7
<1>4. QED
  BY <1>2, <1>3

-----------------------------------------------------------------------------
\* Choosing from a sequence.

\* f[n] is what Chosen has taken from the first n elements.
Choosing(f, seq, S) ==
    /\ f[0] = <<>>
    /\ \A n \in 1..Len(seq) :
          f[n] = IF seq[n] \in S THEN Append(f[n - 1], seq[n]) ELSE f[n - 1]
    /\ Chosen(seq, S) = f[Len(seq)]

(***************************************************************************)
(* Chosen goes through the sequence and keeps what is in the set.           *)
(***************************************************************************)
LEMMA ChosenGoesThrough ==
  ASSUME NEW A, NEW seq \in Seq(A), NEW S
  PROVE  \E f \in [0..Len(seq) -> Seq(A \cap S)] : Choosing(f, seq, S)
<1> DEFINE N == Len(seq)
           Goes(f, m) == f = [n \in 0..m |->
                                IF n = 0 THEN <<>>
                                ELSE IF seq[n] \in S THEN Append(f[n - 1], seq[n])
                                ELSE f[n - 1]]
<1>1. N \in Nat
  OBVIOUS
<1>2. \A m \in Nat : \E f : Goes(f, m)
  <2> DEFINE Bad == {m \in Nat : ~ \E f : Goes(f, m)}
  <2>1. SUFFICES ASSUME Bad # {} PROVE FALSE
    OBVIOUS
  <2>2. PICK m \in Bad : \A k \in Bad : m <= k
    <3>1. Bad \subseteq Nat
      OBVIOUS
    <3> HIDE DEF Bad
    <3>2. QED
      BY <2>1, <3>1, Least
  <2>3. CASE m = 0
    <3> DEFINE g == [n \in 0..0 |-> <<>>]
    <3>1. Goes(g, 0)
      OBVIOUS
    <3>2. QED
      BY <2>3, <3>1
  <2>4. CASE m # 0
    <3>1. m - 1 \in Nat /\ m - 1 \notin Bad
      <4>1. m \in Nat /\ m - 1 \in Nat /\ ~(m <= m - 1)
        BY <2>4
      <4> HIDE DEF Bad
      <4>2. QED
        BY <2>2, <4>1
    <3>2. PICK f : Goes(f, m - 1)
      BY <3>1
    <3> DEFINE step(n, h) == IF n = 0 THEN <<>>
                             ELSE IF seq[n] \in S THEN Append(h[n - 1], seq[n])
                             ELSE h[n - 1]
               g == [n \in 0..m |-> IF n = m THEN step(m, f) ELSE f[n]]
    <3>3. \A n \in 0..m - 1 : g[n] = f[n] /\ f[n] = step(n, f)
      <4>1. f = [n \in 0..m - 1 |-> step(n, f)]
        BY <3>2
      <4>2. \A n \in 0..m - 1 : f[n] = step(n, f)
        <5> HIDE DEF step, g
        <5>1. QED
          BY <4>1
      <4>3. \A n \in 0..m - 1 : g[n] = f[n]
        <5> HIDE DEF step
        <5>1. QED
          BY <3>1
      <4>4. QED
        BY <4>2, <4>3
    <3>4. \A n \in 0..m : n # 0 => n - 1 \in 0..m - 1 /\ g[n - 1] = f[n - 1]
      BY <3>1, <3>3
    <3>5. ASSUME NEW n \in 0..m PROVE g[n] = step(n, g)
      <4>1. step(n, g) = step(n, f)
        BY <3>4
      <4>2. n = m \/ n \in 0..m - 1
        BY <3>1
      <4>3. g[n] = step(n, f)
        <5> HIDE DEF step
        <5>1. CASE n = m
          BY <5>1
        <5>2. CASE n \in 0..m - 1
          BY <3>3, <5>2
        <5>3. QED
          BY <4>2, <5>1, <5>2
      <4>4. QED
        BY <4>1, <4>3
    <3>6. Goes(g, m)
      <4>1. g = [n \in 0..m |-> g[n]]
        OBVIOUS
      <4>2. [n \in 0..m |-> g[n]] = [n \in 0..m |-> step(n, g)]
        BY <3>5
      <4>3. g = [n \in 0..m |-> step(n, g)]
        BY <4>1, <4>2
      <4>4. QED
        BY <4>3
    <3>7. QED
      BY <3>6
  <2>5. QED
    BY <2>3, <2>4
<1>3. PICK f : Goes(f, N) /\ Chosen(seq, S) = f[N]
  <2>1. \E f : Goes(f, N)
    BY <1>1, <1>2
  <2>2. Goes(CHOOSE f : Goes(f, N), N)
    BY <2>1
  <2>3. Chosen(seq, S) = (CHOOSE f : Goes(f, N))[N]
    BY DEF Chosen
  <2>4. QED
    BY <2>2, <2>3
<1> DEFINE step(n) == IF n = 0 THEN <<>>
                      ELSE IF seq[n] \in S THEN Append(f[n - 1], seq[n])
                      ELSE f[n - 1]
<1>4. f = [n \in 0..N |-> f[n]] /\ \A n \in 0..N : f[n] = step(n)
  <2>1. f = [n \in 0..N |-> step(n)]
    BY <1>3
  <2> HIDE DEF step
  <2>2. QED
    BY <2>1
<1>5. /\ f[0] = <<>>
      /\ \A n \in 1..N : f[n] = IF seq[n] \in S THEN Append(f[n - 1], seq[n]) ELSE f[n - 1]
  <2>1. 0 \in 0..N /\ \A n \in 1..N : n \in 0..N /\ n # 0
    BY <1>1
  <2>2. QED
    BY <1>4, <2>1
<1> HIDE DEF step
<1>6. \A n \in 0..N : f[n] \in Seq(A \cap S)
  <2>0. PICK B : B = A \cap S
    OBVIOUS
  <2> DEFINE Bad == {n \in 0..N : f[n] \notin Seq(B)}
  <2>1. SUFFICES ASSUME Bad # {} PROVE FALSE
    BY <2>0
  <2>2. PICK n \in Bad : \A k \in Bad : n <= k
    <3>1. Bad \subseteq Nat
      OBVIOUS
    <3> HIDE DEF Bad
    <3>2. QED
      BY <2>1, <3>1, Least
  <2>3. n \in 0..N /\ f[n] \notin Seq(B)
    OBVIOUS
  <2>4. n \in 1..N
    <3>1. <<>> \in Seq(B)
      OBVIOUS
    <3>2. n # 0
      BY <1>5, <2>3, <3>1
    <3>3. QED
      BY <1>1, <2>3, <3>2
  <2>5. n - 1 \in 0..N /\ ~(n <= n - 1) /\ seq[n] \in A
    BY <2>4
  <2>6. f[n - 1] \in Seq(B)
    BY <2>2, <2>5
  <2>7. seq[n] \in S => Append(f[n - 1], seq[n]) \in Seq(B)
    BY <2>0, <2>5, <2>6
  <2>8. QED
    BY <1>5, <2>3, <2>4, <2>6, <2>7
<1>7. f \in [0..N -> Seq(A \cap S)]
  BY <1>4, <1>6
<1>8. Chosen(seq, S) = f[N]
  BY <1>3
<1>9. QED
  BY <1>5, <1>7, <1>8 DEF Choosing

(***************************************************************************)
(* What is chosen are elements of both, no more than there are, and every   *)
(* element that is wanted is among them.                                    *)
(***************************************************************************)
LEMMA ChosenFacts ==
  ASSUME NEW A, NEW seq \in Seq(A), NEW S
  PROVE  /\ Chosen(seq, S) \in Seq(A \cap S)
         /\ Len(Chosen(seq, S)) <= Len(seq)
         /\ \A i \in DOMAIN seq : seq[i] \in S =>
               \E j \in DOMAIN Chosen(seq, S) : Chosen(seq, S)[j] = seq[i]
<1>1. PICK f \in [0..Len(seq) -> Seq(A \cap S)] : Choosing(f, seq, S)
  BY ChosenGoesThrough
<1> DEFINE N == Len(seq)
<1> DEFINE Keeps(n) == /\ Len(f[n]) <= n
                       /\ \A i \in 1..n : seq[i] \in S =>
                             \E j \in DOMAIN f[n] : f[n][j] = seq[i]
<1>2. \A n \in 0..N : Keeps(n)
  <2> DEFINE Bad == {n \in 0..N : ~Keeps(n)}
  <2>1. SUFFICES ASSUME Bad # {} PROVE FALSE
    OBVIOUS
  <2>2. PICK n \in Bad : \A k \in Bad : n <= k
    <3>1. Bad \subseteq Nat
      OBVIOUS
    <3> HIDE DEF Bad
    <3>2. QED
      BY <2>1, <3>1, Least
  <2>3. n \in 0..N /\ ~Keeps(n)
    OBVIOUS
  <2>4. n \in 1..N
    <3>1. Keeps(0)
      BY <1>1 DEF Choosing
    <3>2. QED
      BY <2>3, <3>1
  <2>5. n - 1 \in 0..N /\ Keeps(n - 1)
    <3>1. n - 1 \in 0..N /\ ~(n <= n - 1)
      BY <2>4
    <3>2. n - 1 \notin Bad
      BY <2>2, <3>1
    <3>3. QED
      BY <3>1, <3>2
  <2>6. f[n - 1] \in Seq(A \cap S) /\ f[n] \in Seq(A \cap S) /\ seq[n] \in A
    BY <2>3, <2>4, <2>5
  <2>7. f[n] = IF seq[n] \in S THEN Append(f[n - 1], seq[n]) ELSE f[n - 1]
    BY <1>1, <2>4 DEF Choosing
  <2>8. CASE seq[n] \in S
    <3>1. /\ Len(f[n]) = Len(f[n - 1]) + 1
          /\ f[n][Len(f[n])] = seq[n]
          /\ \A j \in DOMAIN f[n - 1] : j \in DOMAIN f[n] /\ f[n][j] = f[n - 1][j]
          /\ Len(f[n]) \in DOMAIN f[n]
      BY <2>6, <2>7, <2>8
    <3>2. \A i \in 1..n : i = n \/ i \in 1..n - 1
      BY <2>4
    <3>3. QED
      BY <2>3, <2>4, <2>5, <2>6, <3>1, <3>2
  <2>9. CASE seq[n] \notin S
    <3>1. f[n] = f[n - 1] /\ \A i \in 1..n : seq[i] \in S => i \in 1..n - 1
      BY <2>4, <2>7, <2>9
    <3>2. QED
      BY <2>3, <2>4, <2>5, <2>6, <3>1
  <2>10. QED
    BY <2>8, <2>9
<1>3. Keeps(N)
  BY <1>2
<1>4. QED
  BY SMTT(60), <1>1, <1>3 DEF Choosing

-----------------------------------------------------------------------------
\* Texts.

Texts == Seq(Lines)

LEMMA SlugsFinite == IsFiniteSet(Slugs) /\ Slugs \subseteq Words
<1>1. TaskOrder \in Seq(Words)
  BY DeploymentAssumption
<1>2. TaskOrder \in Surjection(1..Len(TaskOrder), Slugs)
  BY <1>1 DEF Slugs, Surjection
<1>3. QED
  BY <1>1, <1>2, FS_NatSurjection DEF ExistsSurjection, Slugs

LEMMA LineType ==
  ASSUME NEW mark \in Marks, NEW slug \in Words, NEW task \in Words, NEW rev \in Words,
         mark \in {"begin", "member"} => slug \in Slugs /\ rev \in Revs
  PROVE  Line(mark, slug, task, rev) \in Lines
<1> DEFINE line == Line(mark, slug, task, rev)
<1>1. /\ line \in [mark : Marks, slug : Words, task : Words, rev : Words]
      /\ line.mark = mark /\ line.slug = slug /\ line.task = task /\ line.rev = rev
  BY DEF Line
<1> HIDE DEF line
<1>2. line \in Lines
  BY <1>1 DEF Lines, Identifies
<1>3. QED
  BY <1>1, <1>2 DEF line

LEMMA MarkerTypes ==
  /\ BlockBegin \in Lines /\ BlockBegin.mark = "block_begin"
  /\ BlockEnd \in Lines /\ BlockEnd.mark = "block_end"
  /\ Notice \in Lines /\ Notice.mark = "notice"
  /\ \A s \in Words : Plain(s) \in Lines /\ Plain(s).mark = "plain"
<1>1. "" \in Words
  BY DeploymentAssumption
<1>2. /\ BlockBegin \in Lines /\ BlockEnd \in Lines /\ Notice \in Lines
      /\ \A s \in Words : Plain(s) \in Lines
  BY <1>1, LineType DEF BlockBegin, BlockEnd, Notice, Plain, Marks
<1>3. QED
  BY <1>2 DEF BlockBegin, BlockEnd, Notice, Plain, Line

\* What the lines of a rendered artefact may be.
LineOf(line, s) ==
    /\ line.mark \notin {"block_begin", "block_end"}
    /\ Identifies(line) => line.slug = s /\ line.task = s

LEMMA RenderedText ==
  ASSUME NEW s \in Slugs, NEW rev \in Revs
  PROVE  /\ RenderArtefact(s, rev) \in Texts
         /\ RenderArtefact(s, rev) # <<>>
         /\ \A i \in DOMAIN RenderArtefact(s, rev) : LineOf(RenderArtefact(s, rev)[i], s)
<1> DEFINE a == Artefact(s, rev)
           begin == Line("begin", a.slug, a.task, a.rev)
           member == Line("member", a.slug, a.task, a.rev)
           entry == Entry(a)
           end == EndMarker(a.slug)
           shebang == Line("shebang", "", "", "")
           IsOf(line) == line \in Lines /\ LineOf(line, s)
<1>1. /\ a.slug = s /\ a.task = s /\ a.rev = rev
      /\ s \in Words /\ rev \in Words /\ "" \in Words
  BY SlugsFinite, DeploymentAssumption DEF Artefact
<1>2. IsOf(begin) /\ IsOf(member) /\ IsOf(entry) /\ IsOf(end) /\ IsOf(shebang)
  <2> HIDE DEF a
  <2>1. begin \in Lines /\ member \in Lines /\ shebang \in Lines
    BY <1>1, LineType DEF Marks
  <2>2. entry \in Lines /\ end \in Lines
    BY <1>1, LineType DEF Marks, Entry, EndMarker
  <2>3. LineOf(begin, s) /\ LineOf(member, s) /\ LineOf(shebang, s)
    BY <1>1 DEF LineOf, Identifies, Line
  <2>4. LineOf(entry, s) /\ LineOf(end, s)
    BY <1>1 DEF LineOf, Identifies, Line, Entry, EndMarker
  <2>5. QED
    BY <2>1, <2>2, <2>3, <2>4
<1>2a. IsOf(Notice)
  BY MarkerTypes DEF LineOf, Identifies
<1> HIDE DEF begin, member, entry, end, shebang
<1>3. Deploys[rev].shape \in Shapes
  BY DeploymentAssumption
<1>4. CASE Deploys[rev].shape = "region"
  <2>1. RenderArtefact(s, rev) = <<begin, entry, end>>
    BY <1>4 DEF RenderArtefact, RenderRegion, begin, entry, end
  <2>2. QED
    BY <1>2, <1>2a, <2>1 DEF Texts
<1>5. CASE Deploys[rev].shape = "block"
  <2>1. RenderArtefact(s, rev) = <<member, entry>>
    BY <1>5 DEF RenderArtefact, RenderMember, member, entry
  <2>2. QED
    BY <1>2, <1>2a, <2>1 DEF Texts
<1>6. CASE Deploys[rev].shape = "cron.d"
  <2>1. RenderArtefact(s, rev) = <<begin, Notice, entry, end>>
    BY <1>6 DEF RenderArtefact, RenderCronD, begin, entry, end
  <2>2. QED
    BY <1>2, <1>2a, <2>1 DEF Texts
<1>7. CASE Deploys[rev].shape = "run-parts"
  <2>1. RenderArtefact(s, rev) = <<shebang>> \o <<begin, Notice, entry, end>>
    BY <1>7 DEF RenderArtefact, RenderRunParts, RenderCronD, begin, entry, end, shebang
  <2> DEFINE front == <<shebang>>
             back == <<begin, Notice, entry, end>>
  <2>2. front \in Seq(Lines) /\ back \in Seq(Lines) /\ Len(front) = 1 /\ Len(back) = 4
    BY <1>2, <1>2a
  <2>3. /\ \A i \in 1..Len(front) : LineOf(front[i], s)
        /\ \A i \in 1..Len(back) : LineOf(back[i], s)
    BY <1>2, <1>2a
  <2> HIDE DEF front, back
  <2>4. front \o back \in Seq(Lines) /\ Joins(front \o back, front, back)
    BY <2>2, Joined
  <2>5. \A i \in 1..5 : LineOf((front \o back)[i], s)
    <3>1. \A i \in 1..5 : i \in 1..Len(front) \/ (i \in Len(front) + 1..Len(front \o back)
                                               /\ i - Len(front) \in 1..Len(back))
      BY <2>2, <2>4 DEF Joins
    <3>2. QED
      BY <2>3, <2>4, <3>1 DEF Joins
  <2>6. DOMAIN (front \o back) = 1..5
    BY <2>2, <2>4 DEF Joins
  <2>7. RenderArtefact(s, rev) = front \o back
    BY <2>1 DEF front, back
  <2>8. front \o back # <<>>
    BY <2>6
  <2>9. QED
    BY <2>4, <2>5, <2>6, <2>7, <2>8 DEF Texts
<1>8. QED
  BY <1>3, <1>4, <1>5, <1>6, <1>7 DEF Shapes

-----------------------------------------------------------------------------
\* Positions in a text.

LEMMA AtFacts ==
  ASSUME NEW text \in Texts, NEW marks
  PROVE  /\ At(text, marks) \subseteq 1..Len(text)
         /\ At(text, marks) \subseteq Nat /\ At(text, marks) \subseteq 0..Len(text)
         /\ DOMAIN text = 1..Len(text) /\ Len(text) \in Nat
         /\ \A i \in DOMAIN text : text[i] \in Lines
BY DEF At, Texts

LEMMA RegionFacts ==
  ASSUME NEW text \in Texts, NEW r \in FindManagedRegions(text)
  PROVE  /\ r.start \in DOMAIN text /\ text[r.start].mark = "begin"
         /\ r.slug = text[r.start].slug /\ r.task = text[r.start].task
         /\ r.slug \in Slugs
         /\ RegionsReadable(text) => r.stop \in DOMAIN text /\ r.start < r.stop
<1>1. PICK i \in At(text, {"begin"}) :
          r = [slug |-> text[i].slug, task |-> text[i].task, start |-> i,
               stop |-> Min(Following(text, i))]
  BY DEF FindManagedRegions
<1>2. i \in DOMAIN text /\ text[i].mark = "begin" /\ text[i] \in Lines
  BY AtFacts DEF At
<1>3. text[i].slug \in Slugs
  BY <1>2 DEF Lines, Identifies
<1>4. ASSUME RegionsReadable(text) PROVE r.stop \in DOMAIN text /\ i < r.stop
  <2>1. Following(text, i) # {} /\ Following(text, i) \subseteq Nat
    BY <1>4, AtFacts DEF RegionsReadable, Closed, Following
  <2>2. Min(Following(text, i)) \in Following(text, i)
    BY <2>1, MinOf
  <2>3. QED
    BY <1>1, <2>2 DEF Following, At
<1>5. QED
  BY <1>1, <1>2, <1>3, <1>4

LEMMA BeginsARegion ==
  ASSUME NEW text \in Texts, NEW i \in DOMAIN text, text[i].mark = "begin"
  PROVE  \E r \in FindManagedRegions(text) :
            r.start = i /\ r.slug = text[i].slug /\ r.task = text[i].task
<1> DEFINE r == [slug |-> text[i].slug, task |-> text[i].task, start |-> i,
                 stop |-> Min(Following(text, i))]
<1>1. r \in FindManagedRegions(text)
  BY DEF FindManagedRegions, At
<1>2. r.start = i /\ r.slug = text[i].slug /\ r.task = text[i].task
  OBVIOUS
<1> HIDE DEF r
<1>3. QED
  BY <1>1, <1>2

\* The first of some pieces is the one with the least start.
LEMMA FirstOfFacts ==
  ASSUME NEW pieces, pieces # {}, \A r \in pieces : r.start \in Nat
  PROVE  FirstOf(pieces) \in pieces
<1> DEFINE starts == {r.start : r \in pieces}
<1>1. PICK n \in starts : \A m \in starts : n <= m
  BY Least
<1>2. \E r \in pieces : \A q \in pieces : r.start <= q.start
  BY <1>1
<1>3. QED
  BY <1>2 DEF FirstOf

LEMMA RegionOfFacts ==
  ASSUME NEW text \in Texts, NEW slug, HasRegion(text, slug)
  PROVE  RegionOf(text, slug) \in FindManagedRegions(text)
<1> DEFINE mine == {r \in FindManagedRegions(text) : r.slug = slug}
           starts == {r.start : r \in mine}
<1>1. mine # {} /\ \A r \in mine : r.start \in Nat
  BY RegionFacts, AtFacts DEF HasRegion
<1>2. PICK n \in starts : \A m \in starts : n <= m
  BY <1>1, Least
<1>3. \E r \in FindManagedRegions(text) :
          /\ r.slug = slug
          /\ \A q \in FindManagedRegions(text) : q.slug = slug => r.start <= q.start
  BY <1>2
<1>4. QED
  BY <1>3 DEF RegionOf

LEMMA BlockFacts ==
  ASSUME NEW text \in Texts, HasBlock(text), BlockClosed(text)
  PROVE  LET b == BlockBounds(text)
         IN  /\ b.start \in DOMAIN text /\ b.stop \in DOMAIN text /\ b.start < b.stop
             /\ \A i \in DOMAIN text : text[i].mark = "block_begin" <=> i = b.start
             /\ \A i \in DOMAIN text : text[i].mark = "block_end" => i <= b.stop
             /\ text[b.stop].mark = "block_end"
<1> DEFINE begins == At(text, {"block_begin"})
           ends == At(text, {"block_end"})
<1>1. /\ begins # {} /\ begins \subseteq Nat /\ begins \subseteq 1..Len(text)
      /\ ends # {} /\ ends \subseteq Nat /\ ends \subseteq 0..Len(text)
      /\ Len(text) \in Nat
  BY AtFacts DEF HasBlock, BlockClosed
<1>2. Min(begins) \in begins /\ Max(ends) \in ends /\ \A j \in ends : Max(ends) >= j
  BY <1>1, MinOf, MaxOf
<1>3. PICK x : begins = {x}
  <2>1. IsFiniteSet(begins)
    <3>1. IsFiniteSet(1..Len(text))
      BY <1>1, FS_Interval
    <3>2. begins \in SUBSET (1..Len(text))
      BY <1>1
    <3> HIDE DEF begins
    <3>3. QED
      BY <3>1, <3>2, FS_Subset
  <2>2. Cardinality(begins) \in Nat /\ Cardinality(begins) <= 1 /\ Cardinality(begins) # 0
    BY <1>1, <2>1, FS_CardinalityType, FS_EmptySet DEF BlockClosed
  <2>3. Cardinality(begins) = 1
    BY <2>2
  <2>4. QED
    BY <2>1, <2>3, FS_Singleton
<1>4. x = Min(begins) /\ x < Max(ends)
  BY <1>2, <1>3 DEF BlockClosed
<1>5. BlockBounds(text).start = Min(begins) /\ BlockBounds(text).stop = Max(ends)
  BY DEF BlockBounds
<1>6. begins = {i \in DOMAIN text : text[i].mark = "block_begin"}
      /\ ends = {i \in DOMAIN text : text[i].mark = "block_end"}
  BY DEF At
<1> HIDE DEF begins, ends
<1>7. Max(ends) \in Nat
  BY <1>1, <1>2
<1>8. \A i \in DOMAIN text : text[i].mark = "block_end" => i <= Max(ends)
  BY <1>1, <1>2, <1>6, <1>7
<1>9. QED
  BY <1>2, <1>3, <1>4, <1>5, <1>6, <1>8

LEMMA MemberFacts ==
  ASSUME NEW text \in Texts, BlockClosed(text), NEW m \in FindBlockMembers(text)
  PROVE  LET b == BlockBounds(text)
         IN  /\ HasBlock(text)
             /\ m.start \in DOMAIN text /\ m.stop \in Int
             /\ b.start < m.start /\ m.start <= m.stop /\ m.stop < b.stop
             /\ text[m.start].mark = "member"
             /\ m.slug = text[m.start].slug /\ m.task = text[m.start].task
             /\ m.slug \in Slugs
<1> DEFINE b == BlockBounds(text)
           heads == {i \in At(text, {"member"}) : b.start < i /\ i < b.stop}
           ends(i) == {j \in heads : j > i} \cup {b.stop}
<1>1. HasBlock(text)
  BY DEF FindBlockMembers
<1>2. PICK i \in heads : m = [slug |-> text[i].slug, task |-> text[i].task, start |-> i,
                              stop |-> Min(ends(i)) - 1]
  BY <1>1 DEF FindBlockMembers
<1>3. b.start \in DOMAIN text /\ b.stop \in DOMAIN text
  BY <1>1, BlockFacts
<1>4. i \in DOMAIN text /\ text[i].mark = "member" /\ text[i] \in Lines /\ i \in Nat
  BY AtFacts DEF At
<1>5. text[i].slug \in Slugs
  BY <1>4 DEF Lines, Identifies
<1>6. ends(i) \subseteq Nat /\ ends(i) # {} /\ \A j \in ends(i) : i < j
  BY <1>3, AtFacts
<1>7. Min(ends(i)) \in ends(i) /\ Min(ends(i)) <= b.stop
  BY <1>6, MinOf
<1>8. Min(ends(i)) \in Nat /\ i < Min(ends(i)) /\ b.stop \in Nat /\ b.start \in Nat
  BY <1>3, <1>6, <1>7, AtFacts
<1> HIDE DEF ends
<1>9. m.start = i /\ m.stop = Min(ends(i)) - 1 /\ m.slug = text[i].slug /\ m.task = text[i].task
  BY <1>2
<1>10. b.start < i
  OBVIOUS
<1> HIDE DEF heads, b
<1>11. QED
  BY <1>1, <1>4, <1>5, <1>7, <1>8, <1>9, <1>10 DEF b

-----------------------------------------------------------------------------
\* Replacing lines, and the marks a reader recognises.

\* Line i stands between a block begin and a block end.
Enclosed(text, i) ==
    \E j, k \in DOMAIN text : /\ j < i /\ i < k
                              /\ text[j].mark = "block_begin"
                              /\ text[k].mark = "block_end"

\* The lines that make an artefact, or would with its other markers, are in G.
Safe(text, G) ==
    \A i \in DOMAIN text :
        \/ text[i].mark = "begin"
        \/ text[i].mark = "member" /\ Enclosed(text, i)
        => text[i] \in G

\* The lines that may be anywhere.
Harmless(G) == {line \in Lines : Identifies(line) => line \in G}

LEMMA SafeReplaced ==
  ASSUME NEW text \in Texts, NEW G, Safe(text, G), NEW put \in Seq(Harmless(G)),
         NEW new \in Texts, NEW a \in Int, NEW b \in Int,
         1 <= a, a <= b + 1, b <= Len(text), Replaced(new, text, a, b, put),
         \/ \A i \in DOMAIN put : put[i].mark \notin {"block_begin", "block_end"}
         \/ \A i \in DOMAIN text : /\ text[i].mark = "block_begin" => i >= a
                                   /\ text[i].mark = "block_end" => i <= b
  PROVE  Safe(new, G)
<1> DEFINE n == Len(put)
           IsPut(i) == i >= a /\ i < a + n
           old(i) == IF i < a THEN i ELSE i - (a - 1 + n) + b
<1>1. /\ n \in Nat /\ DOMAIN put = 1..n /\ Len(text) \in Nat /\ Len(new) \in Nat
      /\ DOMAIN text = 1..Len(text) /\ DOMAIN new = 1..Len(new)
      /\ Len(new) = (a - 1) + n + (Len(text) - b)
  BY DEF Texts, Replaced
<1>2. ASSUME NEW i \in DOMAIN new, IsPut(i)
      PROVE  i - (a - 1) \in DOMAIN put /\ new[i] = put[i - (a - 1)]
  BY SMTT(60), <1>1, <1>2 DEF Replaced
<1>3. ASSUME NEW i \in DOMAIN new, ~IsPut(i)
      PROVE  /\ old(i) \in DOMAIN text /\ new[i] = text[old(i)]
             /\ i < a => old(i) < a
             /\ i >= a => old(i) > b
  <2>1. CASE i < a
    <3>1. old(i) = i /\ i \in 1..a - 1 /\ i \in 1..Len(text)
      BY <1>1, <2>1
    <3> HIDE DEF old
    <3>2. QED
      BY <1>1, <2>1, <3>1 DEF Replaced
  <2>2. CASE i >= a
    <3>1. /\ i \in a + n..Len(new) /\ old(i) = i - (a - 1 + n) + b
          /\ old(i) \in 1..Len(text) /\ old(i) > b
      BY <1>1, <1>3, <2>2
    <3>2. new[i] = text[i - (a - 1 + n) + b]
      BY <3>1 DEF Replaced
    <3> HIDE DEF old
    <3>3. QED
      BY <1>1, <2>2, <3>1, <3>2
  <2>3. QED
    BY <1>1, <2>1, <2>2
<1>4. ASSUME NEW i \in DOMAIN new, NEW j \in DOMAIN new, i < j, ~IsPut(i), ~IsPut(j)
      PROVE  old(i) < old(j)
  BY <1>1, <1>4
<1>5. ASSUME NEW i \in DOMAIN new, IsPut(i), Identifies(new[i]) PROVE new[i] \in G
  <2>1. new[i] \in Harmless(G)
    BY <1>1, <1>2, <1>5
  <2>2. QED
    BY <1>5, <2>1 DEF Harmless
<1> HIDE DEF old, IsPut
<1>6. ASSUME NEW i \in DOMAIN new, new[i].mark = "begin" PROVE new[i] \in G
  <2>1. CASE IsPut(i)
    BY <1>5, <1>6, <2>1 DEF Identifies
  <2>2. CASE ~IsPut(i)
    BY <1>3, <1>6, <2>2 DEF Safe
  <2>3. QED
    BY <2>1, <2>2
<1>7. ASSUME NEW i \in DOMAIN new, new[i].mark = "member",
             NEW j \in DOMAIN new, NEW k \in DOMAIN new, j < i, i < k,
             new[j].mark = "block_begin", new[k].mark = "block_end"
      PROVE  new[i] \in G
  <2>1. CASE IsPut(i)
    BY <1>5, <1>7, <2>1 DEF Identifies
  <2>2. CASE ~IsPut(i) /\ \A x \in DOMAIN put : put[x].mark \notin {"block_begin", "block_end"}
    <3>1. ~IsPut(j) /\ ~IsPut(k)
      BY <1>2, <1>7, <2>2
    <3>2. old(j) < old(i) /\ old(i) < old(k)
      BY <1>4, <1>7, <2>2, <3>1
    <3>3. /\ {old(i), old(j), old(k)} \subseteq DOMAIN text /\ new[i] = text[old(i)]
          /\ text[old(j)] = new[j] /\ text[old(k)] = new[k]
      BY <1>3, <2>2, <3>1
    <3>4. Enclosed(text, old(i)) /\ text[old(i)].mark = "member"
      BY <1>7, <3>2, <3>3 DEF Enclosed
    <3>5. QED
      BY <3>3, <3>4 DEF Safe
  <2>3. CASE ~IsPut(i) /\ \A x \in DOMAIN text : /\ text[x].mark = "block_begin" => x >= a
                                                 /\ text[x].mark = "block_end" => x <= b
    <3>1. CASE i < a
      <4>1. j < a /\ ~IsPut(j)
        BY <1>1, <1>7, <3>1 DEF IsPut
      <4>2. old(j) < a /\ old(j) \in DOMAIN text /\ text[old(j)].mark = "block_begin"
        BY <1>3, <1>7, <4>1
      <4>3. QED
        BY <1>1, <2>3, <4>2
    <3>2. CASE i >= a
      <4>1. k >= a /\ ~IsPut(k)
        BY <1>1, <1>7, <2>3, <3>2 DEF IsPut
      <4>2. old(k) > b /\ old(k) \in DOMAIN text /\ text[old(k)].mark = "block_end"
        BY <1>3, <1>7, <4>1
      <4>3. QED
        BY <1>1, <2>3, <4>2
    <3>3. QED
      BY <1>1, <3>1, <3>2
  <2>4. QED
    BY <2>1, <2>2, <2>3
<1>8. QED
  BY <1>6, <1>7 DEF Safe, Enclosed

-----------------------------------------------------------------------------
\* What the writing operators write.

LEMMA HarmlessText ==
  ASSUME NEW G, NEW put \in Seq(Harmless(G))
  PROVE  put \in Texts
<1>1. Harmless(G) \subseteq Lines
  BY DEF Harmless
<1> HIDE DEF Harmless
<1>2. QED
  BY <1>1 DEF Texts

LEMMA SpliceFacts ==
  ASSUME NEW text \in Texts, NEW r, NEW put \in Texts,
         r.start \in DOMAIN text, r.stop \in DOMAIN text, r.start < r.stop
  PROVE  /\ Splice(text, r, put) \in Texts
         /\ r.start \in Int /\ r.stop \in Int /\ 1 <= r.start /\ r.start <= r.stop + 1
         /\ r.stop <= Len(text)
         /\ Replaced(Splice(text, r, put), text, r.start, r.stop, put)
<1>1. /\ r.start \in Int /\ r.stop \in Int /\ 1 <= r.start /\ r.start <= r.stop + 1
      /\ r.stop <= Len(text)
  BY DEF Texts
<1>2. QED
  BY <1>1, ReplacedBetween DEF Splice, Texts

LEMMA AppendFacts ==
  ASSUME NEW text \in Texts, NEW put \in Texts
  PROVE  /\ text \o put \in Texts
         /\ Len(text) + 1 \in Int /\ Len(text) \in Int /\ 1 <= Len(text) + 1
         /\ Len(text) + 1 <= Len(text) + 1
         /\ Replaced(text \o put, text, Len(text) + 1, Len(text), put)
BY ReplacedAtEnd DEF Texts

NoBlockMarks(text) == \A i \in DOMAIN text : text[i].mark \notin {"block_begin", "block_end"}

LEMMA ReplaceRegionFacts ==
  ASSUME NEW text \in Texts, NEW slug, NEW G, Safe(text, G), RegionsReadable(text),
         NEW rendered \in Seq(Harmless(G)), NoBlockMarks(rendered)
  PROVE  /\ ReplaceRegion(text, slug, rendered) \in Texts
         /\ Safe(ReplaceRegion(text, slug, rendered), G)
<1>1. rendered \in Texts
  BY HarmlessText
<1>2. CASE HasRegion(text, slug)
  <2>1. PICK r : r = RegionOf(text, slug)
    OBVIOUS
  <2>2. r.start \in DOMAIN text /\ r.stop \in DOMAIN text /\ r.start < r.stop
    BY <1>2, <2>1, RegionOfFacts, RegionFacts
  <2>3. PICK new : new = Splice(text, r, rendered)
    OBVIOUS
  <2>4. new \in Texts /\ Safe(new, G)
    <3>1. /\ new \in Texts
          /\ r.start \in Int /\ r.stop \in Int /\ 1 <= r.start /\ r.start <= r.stop + 1
          /\ r.stop <= Len(text) /\ Replaced(new, text, r.start, r.stop, rendered)
      BY <1>1, <2>2, <2>3, SpliceFacts
    <3>2. QED
      BY <3>1, SafeReplaced DEF NoBlockMarks
  <2>5. QED
    BY <1>2, <2>1, <2>3, <2>4 DEF ReplaceRegion
<1>3. CASE ~HasRegion(text, slug)
  <2>1. PICK new : new = text \o rendered
    OBVIOUS
  <2>2. new \in Texts /\ Safe(new, G)
    BY SMTT(60), <1>1, <2>1, AppendFacts, SafeReplaced DEF NoBlockMarks
  <2>3. QED
    BY <1>3, <2>1, <2>2 DEF ReplaceRegion
<1>4. QED
  BY <1>2, <1>3

LEMMA RemoveRegionFacts ==
  ASSUME NEW text \in Texts, NEW slug, NEW G, Safe(text, G), RegionsReadable(text)
  PROVE  RemoveRegion(text, slug) \in Texts /\ Safe(RemoveRegion(text, slug), G)
<1>1. CASE HasRegion(text, slug)
  <2>1. PICK r : r = RegionOf(text, slug)
    OBVIOUS
  <2>2. r.start \in DOMAIN text /\ r.stop \in DOMAIN text /\ r.start < r.stop
    BY <1>1, <2>1, RegionOfFacts, RegionFacts
  <2>3. PICK new : new = Splice(text, r, <<>>)
    OBVIOUS
  <2>4. PICK put : put = <<>>
    OBVIOUS
  <2>5. put \in Seq(Harmless(G)) /\ put \in Texts /\ NoBlockMarks(put)
    BY <2>4 DEF NoBlockMarks, Texts
  <2>6. new \in Texts /\ Safe(new, G)
    <3>1. /\ new \in Texts
          /\ r.start \in Int /\ r.stop \in Int /\ 1 <= r.start /\ r.start <= r.stop + 1
          /\ r.stop <= Len(text) /\ Replaced(new, text, r.start, r.stop, put)
      BY <2>2, <2>3, <2>4, <2>5, SpliceFacts
    <3>2. QED
      BY <2>5, <3>1, SafeReplaced DEF NoBlockMarks
  <2>7. QED
    BY <1>1, <2>1, <2>3, <2>6 DEF RemoveRegion
<1>2. QED
  BY <1>1 DEF RemoveRegion

\* What replaces the block, or follows a text without one.
LEMMA BlockReplaced ==
  ASSUME NEW text \in Texts, NEW G, Safe(text, G), HasBlock(text), BlockClosed(text),
         NEW put \in Seq(Harmless(G))
  PROVE  LET new == Splice(text, BlockBounds(text), put)
         IN  new \in Texts /\ Safe(new, G)
<1>1. PICK r : r = BlockBounds(text)
  OBVIOUS
<1>2. /\ r.start \in DOMAIN text /\ r.stop \in DOMAIN text /\ r.start < r.stop
      /\ \A i \in DOMAIN text : text[i].mark = "block_begin" <=> i = r.start
      /\ \A i \in DOMAIN text : text[i].mark = "block_end" => i <= r.stop
  BY <1>1, BlockFacts
<1>3. PICK new : new = Splice(text, r, put)
  OBVIOUS
<1>4. put \in Texts
  BY HarmlessText
<1>5. /\ new \in Texts
      /\ r.start \in Int /\ r.stop \in Int /\ 1 <= r.start /\ r.start <= r.stop + 1
      /\ r.stop <= Len(text) /\ Replaced(new, text, r.start, r.stop, put)
  BY <1>2, <1>3, <1>4, SpliceFacts
<1>6. \A i \in DOMAIN text : /\ text[i].mark = "block_begin" => i >= r.start
                             /\ text[i].mark = "block_end" => i <= r.stop
  BY <1>2, <1>5
<1>7. Safe(new, G)
  BY <1>5, <1>6, SafeReplaced
<1>8. QED
  BY <1>1, <1>3, <1>5, <1>7

LEMMA BlockText ==
  ASSUME NEW G, NEW entries \in Seq(Seq(Harmless(G)))
  PROVE  Block(entries) \in Seq(Harmless(G))
<1>1. BlockBegin \in Harmless(G) /\ Notice \in Harmless(G) /\ BlockEnd \in Harmless(G)
  BY MarkerTypes DEF Harmless, Identifies
<1>2. PICK H : H = Harmless(G)
  OBVIOUS
<1>3. FlattenSeq(entries) \in Seq(H)
  BY <1>2, FlattenFacts
<1>4. <<BlockBegin, Notice>> \in Seq(H) /\ <<BlockEnd>> \in Seq(H)
  BY <1>1, <1>2
<1>5. <<BlockBegin, Notice>> \o FlattenSeq(entries) \o <<BlockEnd>> \in Seq(H)
  BY <1>3, <1>4
<1>6. QED
  BY <1>2, <1>5 DEF Block

\* What lies between the markers of the block may be written anywhere.
LEMMA PiecesType ==
  ASSUME NEW text \in Texts, NEW G, Safe(text, G), BlockClosed(text),
         NEW members \in SUBSET FindBlockMembers(text)
  PROVE  Pieces(text, members) \in Seq(Seq(Harmless(G)))
<1> DEFINE b == BlockBounds(text)
           starts == {m.start : m \in members}
           order == InOrder(text, starts)
           at(n) == CHOOSE m \in members : m.start = order[n]
<1>1. order \in Seq((1..Len(text)) \cap starts)
  <2>1. PICK A, seq : A = 1..Len(text) /\ seq = [i \in 1..Len(text) |-> i]
    OBVIOUS
  <2>2. Len(text) \in Nat
    BY DEF Texts
  <2>3. seq \in Seq(A)
    BY <2>1, <2>2
  <2>4. Chosen(seq, starts) \in Seq(A \cap starts)
    <3> HIDE DEF starts
    <3>1. QED
      BY <2>3, ChosenFacts
  <2>5. QED
    BY <2>1, <2>4 DEF InOrder
<1>2. ASSUME NEW n \in DOMAIN order PROVE Piece(text, at(n)) \in Seq(Harmless(G))
  <2>1. order[n] \in starts
    <3> HIDE DEF order, starts
    <3>1. QED
      BY <1>1
  <2>2. at(n) \in members
    BY <2>1
  <2>3. PICK m : m = at(n)
    OBVIOUS
  <2>4. /\ HasBlock(text) /\ m.start \in DOMAIN text /\ m.stop \in Int
        /\ b.start < m.start /\ m.start <= m.stop /\ m.stop < b.stop
    BY <2>2, <2>3, MemberFacts
  <2>5. /\ b.start \in DOMAIN text /\ b.stop \in DOMAIN text
        /\ text[b.start].mark = "block_begin" /\ text[b.stop].mark = "block_end"
    BY <2>4, BlockFacts
  <2>6. /\ Len(text) \in Nat /\ DOMAIN text = 1..Len(text)
        /\ \A i \in DOMAIN text : text[i] \in Lines
    BY DEF Texts
  <2> HIDE DEF b
  <2>7. ASSUME NEW i \in m.start..m.stop PROVE text[i] \in Harmless(G)
    <3>1. i \in DOMAIN text /\ b.start < i /\ i < b.stop
      BY <2>4, <2>5, <2>6
    <3>2. Enclosed(text, i)
      BY <2>5, <3>1 DEF Enclosed
    <3>3. QED
      BY <2>6, <3>1, <3>2 DEF Harmless, Identifies, Safe
  <2>8. SubSeq(text, m.start, m.stop) \in Seq(Harmless(G))
    <3>1. m.start \in Int /\ 1 <= m.start /\ m.stop <= Len(text) /\ text \in Seq(Lines)
      BY <2>4, <2>5, <2>6 DEF Texts
    <3>2. PICK H : H = Harmless(G)
      OBVIOUS
    <3>3. QED
      BY <2>4, <2>7, <3>1, <3>2, PartOf
  <2>9. QED
    BY <2>3, <2>8 DEF Piece
<1>3. Pieces(text, members) = [n \in DOMAIN order |-> Piece(text, at(n))]
  BY DEF Pieces
<1>4. order \in Seq(Int)
  <2> HIDE DEF order, starts
  <2>1. QED
    BY <1>1
<1> HIDE DEF order, at
<1>5. PICK H : H = Seq(Harmless(G))
  OBVIOUS
<1>6. [n \in DOMAIN order |-> Piece(text, at(n))] \in Seq(H)
  BY <1>2, <1>4, <1>5
<1>7. QED
  BY <1>3, <1>5, <1>6

LEMMA UpsertFacts ==
  ASSUME NEW text \in Texts, NEW slug, NEW G, Safe(text, G), BlockClosed(text),
         NEW member \in Seq(Harmless(G))
  PROVE  /\ UpsertBlockMember(text, slug, member) \in Texts
         /\ Safe(UpsertBlockMember(text, slug, member), G)
<1>0. PICK H : H = Seq(Harmless(G))
  OBVIOUS
<1>1. CASE ~HasBlock(text)
  <2>1. <<member>> \in Seq(H)
    BY <1>0
  <2>2. PICK put : put = Block(<<member>>)
    OBVIOUS
  <2>3. put \in Seq(Harmless(G)) /\ put \in Texts
    BY <1>0, <2>1, <2>2, BlockText, HarmlessText
  <2>4. PICK new : new = text \o put
    OBVIOUS
  <2>5. \A i \in DOMAIN text : /\ text[i].mark = "block_begin" => i >= Len(text) + 1
                               /\ text[i].mark = "block_end" => i <= Len(text)
    BY <1>1 DEF HasBlock, At, Texts
  <2>6. new \in Texts /\ Safe(new, G)
    <3>1. /\ new \in Texts /\ Len(text) + 1 \in Int /\ Len(text) \in Int
          /\ 1 <= Len(text) + 1 /\ Replaced(new, text, Len(text) + 1, Len(text), put)
      BY <2>3, <2>4, AppendFacts
    <3>2. PICK a, b : a = Len(text) + 1 /\ b = Len(text)
      OBVIOUS
    <3>3. /\ a \in Int /\ b \in Int /\ 1 <= a /\ a <= b + 1 /\ b <= Len(text)
          /\ Replaced(new, text, a, b, put)
      BY <3>1, <3>2
    <3>4. \A i \in DOMAIN text : /\ text[i].mark = "block_begin" => i >= a
                                 /\ text[i].mark = "block_end" => i <= b
      BY <2>5, <3>2
    <3>5. QED
      BY <2>3, <3>1, <3>3, <3>4, SafeReplaced
  <2>7. QED
    BY <1>1, <2>2, <2>4, <2>6 DEF UpsertBlockMember
<1>2. CASE HasBlock(text)
  <2> DEFINE old == Pieces(text, FindBlockMembers(text))
             kept == [n \in DOMAIN old |->
                         IF Head(old[n]).slug = slug THEN member ELSE old[n]]
             entries == IF HasMember(text, slug) THEN kept ELSE Append(kept, member)
  <2>1. old \in Seq(H)
    BY <1>0, PiecesType
  <2>2. kept \in Seq(H)
    <3> DEFINE entry(n) == IF Head(old[n]).slug = slug THEN member ELSE old[n]
    <3>1. \A n \in DOMAIN old : entry(n) \in H
      <4>1. \A n \in DOMAIN old : old[n] \in H
        <5> HIDE DEF old
        <5>1. QED
          BY <2>1
      <4>2. QED
        BY <1>0, <4>1
    <3>2. Len(old) \in Nat /\ DOMAIN old = 1..Len(old)
      <4> HIDE DEF old
      <4>1. QED
        BY <2>1
    <3>3. kept = [n \in DOMAIN old |-> entry(n)]
      OBVIOUS
    <3> HIDE DEF old, entry, kept
    <3>4. QED
      BY <3>1, <3>2, <3>3
  <2>3. entries \in Seq(H)
    <3> HIDE DEF kept
    <3>1. QED
      BY <1>0, <2>2
  <2>4. UpsertBlockMember(text, slug, member)
           = Splice(text, BlockBounds(text), Block(entries))
    BY <1>2 DEF UpsertBlockMember, RewriteBlock
  <2> HIDE DEF entries
  <2>5. Block(entries) \in Seq(Harmless(G))
    BY <1>0, <2>3, BlockText
  <2>6. PICK put : put = Block(entries)
    OBVIOUS
  <2>7. put \in Seq(Harmless(G))
    BY <2>5, <2>6
  <2>8. QED
    BY <1>2, <2>4, <2>6, <2>7, BlockReplaced
<1>3. QED
  BY <1>1, <1>2

LEMMA RemoveMemberFacts ==
  ASSUME NEW text \in Texts, NEW slug, NEW G, Safe(text, G), BlockClosed(text)
  PROVE  /\ RemoveBlockMember(text, slug) \in Texts
         /\ Safe(RemoveBlockMember(text, slug), G)
<1>1. CASE ~HasBlock(text)
  BY <1>1 DEF RemoveBlockMember
<1>2. CASE HasBlock(text)
  <2> DEFINE left == {m \in FindBlockMembers(text) : m.slug # slug}
             pieces == Pieces(text, left)
  <2>1. PICK H : H = Seq(Harmless(G))
    OBVIOUS
  <2>2. pieces \in Seq(H)
    BY <2>1, PiecesType
  <2>3. PICK put : put = IF left = {} THEN <<>> ELSE Block(pieces)
    OBVIOUS
  <2>4. RemoveBlockMember(text, slug) = Splice(text, BlockBounds(text), put)
    BY <1>2, <2>3 DEF RemoveBlockMember, RewriteBlock
  <2> HIDE DEF left, pieces
  <2>5. Block(pieces) \in Seq(Harmless(G))
    BY <2>1, <2>2, BlockText
  <2>6. put \in Seq(Harmless(G))
    BY <2>3, <2>5
  <2>7. QED
    BY <1>2, <2>4, <2>6, BlockReplaced
<1>3. QED
  BY <1>1, <1>2

-----------------------------------------------------------------------------
\* Jobs.

\* Where an artefact of s may be.
CellsOf(s) == CrontabCells \cup {<<d, s>> : d \in Directories}

Jobs ==
    {job \in [slug : Slugs, rev : Revs \cup {NoRev}, cell : Cells] :
        /\ job.cell \in CellsOf(job.slug)
        /\ job.rev # NoRev => Configured(job.rev) /\ job.cell = CellOf(job.slug, job.rev)}

IsPut(job) == job.rev # NoRev

\* The marks of an artefact of s.
MarksOf(s) == {line \in Lines : Identifies(line) /\ line.slug = s /\ line.task = s}

LEMMA CellFacts ==
  ASSUME NEW s \in Slugs, NEW rev \in Revs, Configured(rev)
  PROVE  /\ CellOf(s, rev) \in CellsOf(s) /\ CellOf(s, rev) \in Cells
         /\ IsCrontab(CellOf(s, rev)) <=> ~WritesAFile(rev)
<1>1. CASE WritesAFile(rev)
  <2>1. PICK d \in Directories : d = Deploys[rev].store
    BY <1>1 DEF Configured
  <2>2. CellOf(s, rev) = <<d, s>>
    BY <1>1, <2>1 DEF CellOf
  <2>3. <<d, s>> \in FileCells
    BY DEF FileCells, Names
  <2>4. <<d, s>> \notin CrontabCells
    BY DeploymentAssumption DEF CrontabCells
  <2>5. QED
    BY <1>1, <2>2, <2>3, <2>4 DEF CellsOf, Cells, IsCrontab
<1>2. CASE ~WritesAFile(rev)
  <2>1. PICK c \in Crontabs : c = Deploys[rev].store
    BY <1>2 DEF Configured
  <2>2. CellOf(s, rev) = <<c, "crontab">>
    BY <1>2, <2>1 DEF CellOf
  <2>3. <<c, "crontab">> \in CrontabCells
    BY DEF CrontabCells
  <2>4. QED
    BY <1>2, <2>2, <2>3 DEF CellsOf, Cells, IsCrontab
<1>3. QED
  BY <1>1, <1>2

LEMMA CellsOfFacts ==
  ASSUME NEW s \in Slugs
  PROVE  CellsOf(s) \subseteq Cells
BY DEF CellsOf, Cells, FileCells, Names

(***************************************************************************)
(* A job that can be done writes a text, and the marks in it are those that *)
(* were there and, if it puts an artefact, the artefact's own.              *)
(***************************************************************************)
LEMMA NewTextFacts ==
  ASSUME NEW job \in Jobs, NEW text \in Texts, NEW G,
         ~JobRaises(job, text), ~RemovalRaises(job, text),
         IsCrontab(job.cell) => Safe(text, G),
         job.rev # NoRev => MarksOf(job.slug) \subseteq G
  PROVE  NewText(job, text) \in Texts /\ Safe(NewText(job, text), G)
<1>0. job.slug \in Slugs /\ job.rev \in Revs \cup {NoRev} /\ job.cell \in Cells
  BY DEF Jobs
<1>1. CASE job.rev = NoRev /\ ~IsCrontab(job.cell)
  <2>1. NewText(job, text) = <<>>
    BY <1>1 DEF NewText
  <2>2. QED
    BY <2>1 DEF Safe, Texts
<1>2. CASE job.rev = NoRev /\ IsCrontab(job.cell)
  <2>1. PICK left : left = RemoveRegion(text, job.slug)
    OBVIOUS
  <2>2. left \in Texts /\ Safe(left, G)
    BY <1>2, <2>1, RemoveRegionFacts DEF JobRaises
  <2>3. HasMember(text, job.slug) => BlockClosed(left)
    BY <1>2, <2>1 DEF RemovalRaises, BlockReadable
  <2>4. NewText(job, text) = IF HasMember(text, job.slug)
                             THEN RemoveBlockMember(left, job.slug) ELSE left
    BY <1>2, <2>1 DEF NewText
  <2>5. QED
    BY <2>2, <2>3, <2>4, RemoveMemberFacts
<1>3. CASE job.rev # NoRev
  <2>1. PICK rendered : rendered = RenderArtefact(job.slug, job.rev)
    OBVIOUS
  <2>2. /\ job.rev \in Revs /\ rendered \in Texts
        /\ \A i \in DOMAIN rendered : LineOf(rendered[i], job.slug)
    BY <1>0, <1>3, <2>1, RenderedText
  <2>3. NoBlockMarks(rendered)
    BY <2>2 DEF NoBlockMarks, LineOf
  <2>4. rendered \in Seq(Harmless(G))
    <3>1. \A i \in DOMAIN rendered : rendered[i] \in Harmless(G)
      BY <1>3, <2>2 DEF LineOf, Harmless, MarksOf, Texts
    <3>2. PICK H : H = Harmless(G)
      OBVIOUS
    <3>3. QED
      BY <2>2, <3>1, <3>2 DEF Texts
  <2>5. Safe(rendered, G)
    <3>1. \A i \in DOMAIN rendered : Identifies(rendered[i]) => rendered[i] \in G
      BY <1>3, <2>2 DEF LineOf, MarksOf, Texts
    <3>2. QED
      BY <3>1 DEF Safe, Identifies
  <2>6. IsCrontab(job.cell) <=> ~WritesAFile(job.rev)
    BY <1>0, <1>3, <2>2, CellFacts DEF Jobs
  <2>7. Deploys[job.rev].shape \in Shapes
    BY <2>2, DeploymentAssumption
  <2>8. CASE Deploys[job.rev].shape = "region"
    <3>1. IsCrontab(job.cell)
      BY <2>6, <2>8 DEF WritesAFile
    <3>2. RegionsReadable(text)
      BY <1>3, <2>8 DEF JobRaises
    <3>3. NewText(job, text) = ReplaceRegion(text, job.slug, rendered)
      BY <1>3, <2>1, <2>8 DEF NewText
    <3>4. QED
      BY <2>3, <2>4, <3>1, <3>2, <3>3, ReplaceRegionFacts
  <2>9. CASE Deploys[job.rev].shape = "block"
    <3>1. IsCrontab(job.cell)
      BY <2>6, <2>9 DEF WritesAFile
    <3>2. BlockClosed(text)
      BY <1>3, <2>9 DEF JobRaises, BlockReadable
    <3>3. NewText(job, text) = UpsertBlockMember(text, job.slug, rendered)
      BY <1>3, <2>1, <2>9 DEF NewText
    <3>4. QED
      BY <2>4, <3>1, <3>2, <3>3, UpsertFacts
  <2>10. CASE Deploys[job.rev].shape \notin {"region", "block"}
    <3>1. NewText(job, text) = rendered
      BY <1>3, <2>1, <2>10 DEF NewText
    <3>2. QED
      BY <2>2, <2>5, <3>1
  <2>11. QED
    BY <2>7, <2>8, <2>9, <2>10 DEF Shapes
<1>4. QED
  BY <1>1, <1>2, <1>3

(***************************************************************************)
(* InOrder lists positions in order.                                        *)
(***************************************************************************)
LEMMA InOrderFacts ==
  ASSUME NEW text \in Texts, NEW S
  PROVE  InOrderOf(InOrder(text, S), (1..Len(text)) \cap S)
<1> DEFINE seq == [i \in 1..Len(text) |-> i]
<1>1. PICK L \in Nat : L = Len(text)
  BY DEF Texts
<1>2. seq \in Seq(1..L) /\ Len(seq) = L /\ \A n \in 1..L : n \in DOMAIN seq /\ seq[n] = n
  BY <1>1
<1>3. InOrder(text, S) = Chosen(seq, S)
  BY DEF InOrder
<1> HIDE DEF seq
<1>4. PICK f \in [0..L -> Seq((1..L) \cap S)] : Choosing(f, seq, S)
  <2>1. \E f \in [0..Len(seq) -> Seq((1..L) \cap S)] : Choosing(f, seq, S)
    BY <1>2, ChosenGoesThrough
  <2>2. QED
    BY <1>2, <2>1
<1> DEFINE Fine(n) == /\ \A i \in DOMAIN f[n] : f[n][i] <= n
                      /\ Increasing(f[n])
                      /\ \A i \in 1..n : i \in S => \E j \in DOMAIN f[n] : f[n][j] = i
<1>5. \A n \in 0..L : Fine(n)
  <2> DEFINE Bad == {n \in 0..L : ~Fine(n)}
  <2>1. SUFFICES ASSUME Bad # {} PROVE FALSE
    OBVIOUS
  <2>2. \E n \in Bad : \A k \in Bad : n <= k
    <3>1. Bad \subseteq Nat
      OBVIOUS
    <3> HIDE DEF Bad
    <3>2. QED
      BY <2>1, <3>1, Least
  <2>3. PICK n : n \in 0..L /\ ~Fine(n) /\ \A k \in 0..L : ~Fine(k) => n <= k
    <3> HIDE DEF Fine
    <3>1. QED
      BY <2>2
  <2> HIDE DEF Bad
  <2>4. CASE n = 0
    <3>1. f[0] = <<>>
      BY <1>4 DEF Choosing
    <3>2. Fine(0)
      BY <3>1 DEF Increasing
    <3>3. QED
      BY <2>3, <2>4, <3>2
  <2>5. CASE n # 0
    <3>1. n - 1 \in 0..L /\ ~(n <= n - 1) /\ n \in 1..L /\ n \in Nat
      BY <2>3, <2>5
    <3>2. Fine(n - 1)
      <4> HIDE DEF Fine
      <4>1. QED
        BY <2>3, <3>1
    <3>3. PICK g \in Seq((1..L) \cap S) : g = f[n - 1]
      BY <3>1
    <3>4. /\ \A i \in DOMAIN g : g[i] <= n - 1
          /\ Increasing(g)
          /\ \A i \in 1..(n - 1) : i \in S => \E j \in DOMAIN g : g[j] = i
      BY <3>2, <3>3
    <3>4a. \A i \in 1..n : i = n \/ i \in 1..(n - 1)
      BY <3>1
    <3>5. f[n] = IF n \in S THEN Append(g, n) ELSE g
      BY <1>2, <1>4, <3>1, <3>3 DEF Choosing
    <3>6. /\ Len(g) \in Nat /\ DOMAIN g = 1..Len(g)
          /\ \A i \in DOMAIN g : g[i] \in Nat /\ g[i] < n
      BY <3>1, <3>4
    <3>7. CASE n \notin S
      <4>1. Fine(n)
        <5>1. f[n] = g
          BY <3>5, <3>7
        <5>2. \A i \in DOMAIN g : g[i] <= n
          BY <3>1, <3>6
        <5>3. \A i \in 1..n : i \in S => \E j \in DOMAIN g : g[j] = i
          BY <3>4, <3>4a, <3>7
        <5>4. QED
          BY <3>4, <5>1, <5>2, <5>3
      <4>2. QED
        BY <2>3, <4>1
    <3>8. CASE n \in S
      <4>1. PICK h : h = Append(g, n)
        OBVIOUS
      <4>2. /\ DOMAIN h = 1..Len(g) + 1
            /\ \A i \in DOMAIN h : h[i] = IF i = Len(g) + 1 THEN n ELSE g[i]
        BY <3>1, <4>1
      <4>3. ASSUME NEW i \in DOMAIN h PROVE h[i] <= n
        <5>1. CASE i = Len(g) + 1
          <6>1. h[i] = n
            BY <4>2, <5>1
          <6>2. QED
            BY <3>1, <6>1
        <5>2. CASE i # Len(g) + 1
          <6>1. i \in DOMAIN g /\ h[i] = g[i]
            BY SMTT(60), <3>6, <4>2, <5>2
          <6>2. QED
            BY <3>1, <3>6, <6>1
        <5>3. QED
          BY <5>1, <5>2
      <4>4. Increasing(h)
        <5>1. ASSUME NEW i \in DOMAIN h, NEW j \in DOMAIN h, i < j PROVE h[i] < h[j]
          <6>1. i \in DOMAIN g /\ h[i] = g[i]
            BY <3>6, <4>2, <5>1
          <6>2. CASE j = Len(g) + 1
            BY <3>6, <4>2, <6>1, <6>2
          <6>3. CASE j # Len(g) + 1
            <7>1. j \in DOMAIN g /\ h[j] = g[j]
              BY <3>6, <4>2, <6>3
            <7>2. QED
              BY <3>4, <5>1, <6>1, <7>1 DEF Increasing
          <6>4. QED
            BY <6>2, <6>3
        <5>2. QED
          BY <5>1 DEF Increasing
      <4>5. f[n] = h
        BY <3>5, <3>8, <4>1
      <4>6. ASSUME NEW i \in 1..n, i \in S PROVE \E j \in DOMAIN h : h[j] = i
        <5>1. CASE i = n
          <6>1. Len(g) + 1 \in DOMAIN h /\ h[Len(g) + 1] = n
            BY <3>6, <4>2
          <6>2. QED
            BY <5>1, <6>1
        <5>2. CASE i # n
          <6>1. PICK j \in DOMAIN g : g[j] = i
            BY <3>4, <3>4a, <4>6, <5>2
          <6>2. j \in DOMAIN h /\ h[j] = g[j]
            BY <3>6, <4>2
          <6>3. QED
            BY <6>1, <6>2
        <5>3. QED
          BY <5>1, <5>2
      <4>7. QED
        BY <2>3, <4>3, <4>4, <4>5, <4>6
    <3>9. QED
      BY <3>7, <3>8
  <2>6. QED
    BY <2>4, <2>5
<1>6. PICK chosen \in Seq((1..L) \cap S) : chosen = Chosen(seq, S) /\ chosen = f[L]
  <2>1. L \in 0..L
    BY <1>1
  <2>2. QED
    BY <1>2, <1>4, <2>1 DEF Choosing
<1>7. Increasing(chosen) /\ \A i \in 1..L : i \in S => \E j \in DOMAIN chosen : chosen[j] = i
  <2>1. L \in 0..L
    BY <1>1
  <2>2. Fine(L)
    <3> HIDE DEF Fine
    <3>1. QED
      BY <1>5, <2>1
  <2>3. QED
    BY <1>6, <2>2
<1>8. QED
  BY <1>1, <1>3, <1>6, <1>7 DEF InOrderOf

-----------------------------------------------------------------------------
\* A text in which some lines give way to others.

\* Lines a..b of text give way to those of put, what follows them moves by d.
Moved(new, text, a, b, put, d) ==
    /\ a \in Nat /\ b \in Nat /\ d \in Int
    /\ 1 <= a /\ a <= b + 1 /\ b <= Len(text)
    /\ Len(text) \in Nat /\ Len(put) \in Nat /\ Len(new) \in Nat
    /\ DOMAIN text = 1..Len(text) /\ DOMAIN put = 1..Len(put) /\ DOMAIN new = 1..Len(new)
    /\ b + d = a - 1 + Len(put) /\ Len(new) = Len(text) + d
    /\ \A i \in 1..a - 1 : new[i] = text[i]
    /\ \A i \in b + 1..Len(text) : new[i + d] = text[i]
    /\ \A i \in 1..Len(put) : new[a - 1 + i] = put[i]

LEMMA MovedBy ==
  ASSUME NEW text \in Texts, NEW put \in Texts, NEW new \in Texts,
         NEW a \in Int, NEW b \in Int, 1 <= a, a <= b + 1, b <= Len(text),
         Replaced(new, text, a, b, put)
  PROVE  Moved(new, text, a, b, put, a - 1 + Len(put) - b)
<1> DEFINE d == a - 1 + Len(put) - b
<1>1. /\ Len(text) \in Nat /\ Len(put) \in Nat /\ Len(new) \in Nat
      /\ DOMAIN text = 1..Len(text) /\ DOMAIN put = 1..Len(put) /\ DOMAIN new = 1..Len(new)
  BY DEF Texts
<1>2. PICK n \in Nat, m \in Nat, l \in Nat : n = Len(text) /\ m = Len(put) /\ l = Len(new)
  BY <1>1
<1>3. /\ l = (a - 1) + m + (n - b)
      /\ \A i \in 1..a - 1 : new[i] = text[i]
      /\ \A i \in a..a - 1 + m : new[i] = put[i - (a - 1)]
      /\ \A i \in a + m..l : new[i] = text[i - (a - 1 + m) + b]
  BY <1>2 DEF Replaced
<1>4. a \in Nat /\ b \in Nat /\ d \in Int /\ b <= n /\ d = a - 1 + m - b
  BY <1>2
<1>5. ASSUME NEW i \in b + 1..n PROVE new[i + d] = text[i]
  <2>1. i + d \in a + m..l /\ (i + d) - (a - 1 + m) + b = i
    BY <1>3, <1>4
  <2> HIDE DEF d
  <2>2. QED
    BY <1>3, <2>1
<1>6. ASSUME NEW i \in 1..m PROVE new[a - 1 + i] = put[i]
  <2>1. a - 1 + i \in a..a - 1 + m /\ (a - 1 + i) - (a - 1) = i
    BY <1>4
  <2>2. QED
    BY <1>3, <2>1
<1>7. b + d = a - 1 + m /\ l = n + d
  BY <1>3, <1>4
<1>8. QED
  BY <1>1, <1>2, <1>3, <1>4, <1>5, <1>6, <1>7 DEF Moved

-----------------------------------------------------------------------------
\* Regions as pairs of markers.

IsMarker(line) == line.mark \in {"begin", "end"}

\* Lines i and k are a begin and the end that follows it.
Pair(text, i, k) ==
    /\ i \in DOMAIN text /\ k \in DOMAIN text /\ i < k
    /\ text[i].mark = "begin" /\ text[k].mark = "end" /\ text[k].slug = text[i].slug
    /\ \A j \in DOMAIN text : i < j /\ j < k => ~IsMarker(text[j])

Paired(text) ==
    /\ \A i \in DOMAIN text : text[i].mark = "begin" => \E k \in DOMAIN text : Pair(text, i, k)
    /\ \A k \in DOMAIN text : text[k].mark = "end" => \E i \in DOMAIN text : Pair(text, i, k)

OneRegionEach(text) ==
    \A i, j \in DOMAIN text :
        /\ text[i].mark = "begin" /\ text[j].mark = "begin"
        /\ text[i].task = text[j].task
        => i = j

RegionAt(text, i, k) ==
    [slug |-> text[i].slug, task |-> text[i].task, start |-> i, stop |-> k]

LEMMA ClosedPair ==
  ASSUME NEW text \in Texts, NEW i \in DOMAIN text, text[i].mark = "begin"
  PROVE  /\ Closed(text, i) => Pair(text, i, Min(Following(text, i)))
         /\ \A k \in DOMAIN text : Pair(text, i, k) =>
               Closed(text, i) /\ Min(Following(text, i)) = k
<1> DEFINE next == Min(Following(text, i))
<1>1. /\ Len(text) \in Nat /\ DOMAIN text = 1..Len(text)
      /\ Following(text, i) \subseteq Nat
      /\ \A j : j \in Following(text, i) <=> j \in DOMAIN text /\ IsMarker(text[j]) /\ j > i
  BY AtFacts DEF Following, At, IsMarker
<1>2. ASSUME Following(text, i) # {}
      PROVE  next \in Following(text, i) /\ \A j \in Following(text, i) : next <= j
  BY <1>1, <1>2, MinOf
<1>3. ASSUME Closed(text, i) PROVE Pair(text, i, next)
  <2>1. Following(text, i) # {} /\ text[next].mark = "end" /\ text[next].slug = text[i].slug
    BY <1>3 DEF Closed
  <2>2. next \in DOMAIN text /\ i < next /\ \A j \in Following(text, i) : next <= j
    BY <1>1, <1>2, <2>1
  <2>3. ASSUME NEW j \in DOMAIN text, i < j, j < next PROVE ~IsMarker(text[j])
    <3>1. ~(next <= j)
      BY <1>1, <2>2, <2>3
    <3>2. j \notin Following(text, i)
      BY <2>2, <3>1
    <3>3. QED
      BY <1>1, <2>3, <3>2
  <2> HIDE DEF next
  <2>4. QED
    BY <2>1, <2>2, <2>3 DEF Pair
<1>4. ASSUME NEW k \in DOMAIN text, Pair(text, i, k) PROVE Closed(text, i) /\ next = k
  <2>1. k \in Following(text, i)
    BY <1>1, <1>4 DEF Pair, IsMarker
  <2>2. next \in Following(text, i) /\ next <= k
    BY <1>2, <2>1
  <2>3. next \in DOMAIN text /\ IsMarker(text[next]) /\ i < next
    BY <1>1, <2>2
  <2>4. ~(next < k)
    BY <1>4, <2>3 DEF Pair
  <2>5. next = k
    BY <1>1, <2>2, <2>3, <2>4
  <2>6. Closed(text, i)
    BY <1>4, <2>1, <2>5 DEF Closed, Pair
  <2>7. QED
    BY <2>5, <2>6
<1>5. QED
  BY <1>3, <1>4

LEMMA OpenedPair ==
  ASSUME NEW text \in Texts, NEW k \in DOMAIN text, text[k].mark = "end"
  PROVE  /\ Opened(text, k) => \E i \in DOMAIN text :
               /\ text[i].mark = "begin" /\ i < k
               /\ \A j \in DOMAIN text : i < j /\ j < k => ~IsMarker(text[j])
         /\ \A i \in DOMAIN text : Pair(text, i, k) => Opened(text, k)
<1> DEFINE last == Max(Preceding(text, k))
<1>1. /\ Len(text) \in Nat /\ DOMAIN text = 1..Len(text)
      /\ Preceding(text, k) \subseteq 0..Len(text)
      /\ \A j : j \in Preceding(text, k) <=> j \in DOMAIN text /\ IsMarker(text[j]) /\ j < k
  BY AtFacts DEF Preceding, At, IsMarker
<1>2. ASSUME Preceding(text, k) # {}
      PROVE  last \in Preceding(text, k) /\ \A j \in Preceding(text, k) : last >= j
  BY <1>1, <1>2, MaxOf
<1>3. ASSUME Opened(text, k)
      PROVE  /\ last \in DOMAIN text /\ text[last].mark = "begin" /\ last < k
             /\ \A j \in DOMAIN text : last < j /\ j < k => ~IsMarker(text[j])
  <2>1. Preceding(text, k) # {} /\ text[last].mark = "begin"
    BY <1>3 DEF Opened
  <2>2. last \in DOMAIN text /\ last < k /\ \A j \in Preceding(text, k) : last >= j
    BY <1>1, <1>2, <2>1
  <2>3. ASSUME NEW j \in DOMAIN text, last < j, j < k PROVE ~IsMarker(text[j])
    <3>1. ~(last >= j)
      BY <1>1, <2>2, <2>3
    <3>2. j \notin Preceding(text, k)
      BY <2>2, <3>1
    <3>3. QED
      BY <1>1, <2>3, <3>2
  <2>4. QED
    BY <2>1, <2>2, <2>3
<1>4. ASSUME NEW i \in DOMAIN text, Pair(text, i, k) PROVE Opened(text, k)
  <2>1. i \in Preceding(text, k)
    BY <1>1, <1>4 DEF Pair, IsMarker
  <2>2. last \in Preceding(text, k) /\ last >= i
    BY <1>2, <2>1
  <2>3. last \in DOMAIN text /\ IsMarker(text[last]) /\ last < k
    BY <1>1, <2>2
  <2>4. ~(i < last)
    BY <1>4, <2>3 DEF Pair
  <2>5. last = i
    BY <1>1, <2>2, <2>3, <2>4
  <2>6. QED
    BY <1>4, <2>1, <2>5 DEF Opened, Pair
<1>5. QED
  <2> HIDE DEF last
  <2>1. QED
    BY <1>3, <1>4

(***************************************************************************)
(* A text whose regions can be read is one whose markers come in pairs,     *)
(* with one region for a task.                                              *)
(***************************************************************************)
LEMMA ReadableMeansPaired ==
  ASSUME NEW text \in Texts
  PROVE  RegionsReadable(text) <=> Paired(text) /\ OneRegionEach(text)
<1>1. /\ \A i : i \in At(text, {"begin"}) <=> i \in DOMAIN text /\ text[i].mark = "begin"
      /\ \A i : i \in At(text, {"end"}) <=> i \in DOMAIN text /\ text[i].mark = "end"
  BY DEF At
<1>2. ASSUME RegionsReadable(text) PROVE Paired(text)
  <2>1. ASSUME NEW i \in DOMAIN text, text[i].mark = "begin"
        PROVE  \E k \in DOMAIN text : Pair(text, i, k)
    <3>1. Pair(text, i, Min(Following(text, i)))
      BY <1>1, <1>2, <2>1, ClosedPair DEF RegionsReadable
    <3>2. QED
      BY <3>1 DEF Pair
  <2>2. ASSUME NEW k \in DOMAIN text, text[k].mark = "end"
        PROVE  \E i \in DOMAIN text : Pair(text, i, k)
    <3>1. PICK i \in DOMAIN text :
             /\ text[i].mark = "begin" /\ i < k
             /\ \A j \in DOMAIN text : i < j /\ j < k => ~IsMarker(text[j])
      BY <1>1, <1>2, <2>2, OpenedPair DEF RegionsReadable
    <3>2. PICK j \in DOMAIN text : Pair(text, i, j)
      BY <2>1, <3>1
    <3>3. /\ i < j /\ IsMarker(text[j]) /\ IsMarker(text[k])
          /\ \A l \in DOMAIN text : i < l /\ l < j => ~IsMarker(text[l])
          /\ text[j].slug = text[i].slug
      BY <2>2, <3>2 DEF Pair, IsMarker
    <3>4. i \in Int /\ j \in Int /\ k \in Int
      BY DEF Texts
    <3>5. j = k
      BY <3>1, <3>3, <3>4
    <3>6. QED
      BY <3>2, <3>5
  <2>3. QED
    BY <2>1, <2>2 DEF Paired
<1>3. ASSUME Paired(text)
      PROVE  /\ \A i \in At(text, {"begin"}) : Closed(text, i)
             /\ \A i \in At(text, {"end"}) : Opened(text, i)
  BY <1>1, <1>3, ClosedPair, OpenedPair DEF Paired
<1>4. (\A i, j \in At(text, {"begin"}) : text[i].task = text[j].task => i = j)
        <=> OneRegionEach(text)
  BY <1>1 DEF OneRegionEach
<1>5. QED
  BY <1>2, <1>3, <1>4 DEF RegionsReadable

LEMMA RegionsArePairs ==
  ASSUME NEW text \in Texts, Paired(text)
  PROVE  /\ \A r \in FindManagedRegions(text) :
               \E i, k \in DOMAIN text : Pair(text, i, k) /\ r = RegionAt(text, i, k)
         /\ \A i, k \in DOMAIN text :
               Pair(text, i, k) => RegionAt(text, i, k) \in FindManagedRegions(text)
<1>1. FindManagedRegions(text)
        = {RegionAt(text, i, Min(Following(text, i))) : i \in At(text, {"begin"})}
  BY DEF FindManagedRegions, RegionAt
<1>2. \A i : i \in At(text, {"begin"}) <=> i \in DOMAIN text /\ text[i].mark = "begin"
  BY DEF At
<1>3. ASSUME NEW i \in DOMAIN text, text[i].mark = "begin"
      PROVE  \E k \in DOMAIN text : Pair(text, i, k) /\ k = Min(Following(text, i))
  BY <1>3, ClosedPair DEF Paired
<1>4. ASSUME NEW i \in DOMAIN text, NEW k \in DOMAIN text, Pair(text, i, k)
      PROVE  i \in At(text, {"begin"}) /\ k = Min(Following(text, i))
  <2>1. text[i].mark = "begin"
    BY <1>4 DEF Pair
  <2>2. QED
    BY <1>2, <1>4, <2>1, ClosedPair
<1>5. QED
  BY <1>1, <1>2, <1>3, <1>4

\* Two pairs are the same or lie apart.
LEMMA PairsApart ==
  ASSUME NEW text \in Texts, NEW i, NEW k, NEW a, NEW b, Pair(text, i, k), Pair(text, a, b)
  PROVE  k < a \/ b < i \/ (i = a /\ k = b)
<1>1. /\ i \in Int /\ k \in Int /\ a \in Int /\ b \in Int
      /\ i \in DOMAIN text /\ k \in DOMAIN text /\ a \in DOMAIN text /\ b \in DOMAIN text
  BY DEF Pair, Texts
<1>2. /\ IsMarker(text[i]) /\ IsMarker(text[k]) /\ IsMarker(text[a]) /\ IsMarker(text[b])
      /\ text[i].mark # text[b].mark /\ text[a].mark # text[k].mark
      /\ i < k /\ a < b
  BY DEF Pair, IsMarker
<1>3. /\ ~(i < a /\ a < k) /\ ~(i < b /\ b < k)
      /\ ~(a < i /\ i < b) /\ ~(a < k /\ k < b)
  BY <1>1, <1>2 DEF Pair
<1>4. i # b /\ a # k
  BY <1>2
<1>5. QED
  BY <1>1, <1>2, <1>3, <1>4

\* Where a line of the new text comes from.
LEMMA WhereFrom ==
  ASSUME NEW text, NEW put, NEW new, NEW a, NEW b, NEW d,
         Moved(new, text, a, b, put, d), NEW j \in DOMAIN new
  PROVE  \/ j < a /\ j \in DOMAIN text /\ new[j] = text[j]
         \/ /\ a <= j /\ j <= b + d /\ j - (a - 1) \in DOMAIN put
            /\ new[j] = put[j - (a - 1)]
         \/ b + d < j /\ b < j - d /\ j - d \in DOMAIN text /\ new[j] = text[j - d]
<1>1. PICK n \in Nat, m \in Nat, l \in Nat : n = Len(text) /\ m = Len(put) /\ l = Len(new)
  BY DEF Moved
<1>2. /\ a \in Nat /\ b \in Nat /\ d \in Int /\ 1 <= a /\ a <= b + 1 /\ b <= n
      /\ DOMAIN text = 1..n /\ DOMAIN put = 1..m /\ DOMAIN new = 1..l
      /\ b + d = a - 1 + m /\ l = n + d
  BY <1>1 DEF Moved
<1>3. /\ \A i \in 1..a - 1 : new[i] = text[i]
      /\ \A i \in b + 1..n : new[i + d] = text[i]
      /\ \A i \in 1..m : new[a - 1 + i] = put[i]
  BY <1>1 DEF Moved
<1>4. j \in 1..l
  BY <1>2
<1>5. CASE j < a
  BY <1>2, <1>3, <1>4, <1>5
<1>6. CASE a <= j /\ j <= b + d
  <2>1. j - (a - 1) \in 1..m /\ a - 1 + (j - (a - 1)) = j
    BY <1>2, <1>4, <1>6
  <2>2. QED
    BY <1>2, <1>3, <1>6, <2>1
<1>7. CASE b + d < j
  <2>1. j - d \in b + 1..n /\ (j - d) + d = j /\ b < j - d /\ j - d \in 1..n
    BY <1>2, <1>4, <1>7
  <2>2. QED
    BY <1>2, <1>3, <1>7, <2>1
<1>8. QED
  BY <1>2, <1>4, <1>5, <1>6, <1>7

\* And where the others go.
LEMMA WhereTo ==
  ASSUME NEW text, NEW put, NEW new, NEW a, NEW b, NEW d,
         Moved(new, text, a, b, put, d)
  PROVE  /\ \A i \in DOMAIN text : i < a => i \in DOMAIN new /\ new[i] = text[i]
         /\ \A i \in DOMAIN text : b < i => i + d \in DOMAIN new /\ new[i + d] = text[i]
         /\ \A i \in DOMAIN put : a - 1 + i \in DOMAIN new /\ new[a - 1 + i] = put[i]
<1>1. PICK n \in Nat, m \in Nat, l \in Nat : n = Len(text) /\ m = Len(put) /\ l = Len(new)
  BY DEF Moved
<1>2. /\ a \in Nat /\ b \in Nat /\ d \in Int /\ 1 <= a /\ a <= b + 1 /\ b <= n
      /\ DOMAIN text = 1..n /\ DOMAIN put = 1..m /\ DOMAIN new = 1..l
      /\ b + d = a - 1 + m /\ l = n + d
  BY <1>1 DEF Moved
<1>3. /\ \A i \in 1..a - 1 : new[i] = text[i]
      /\ \A i \in b + 1..n : new[i + d] = text[i]
      /\ \A i \in 1..m : new[a - 1 + i] = put[i]
  BY <1>1 DEF Moved
<1>4. ASSUME NEW i \in 1..n, i < a PROVE i \in 1..l /\ new[i] = text[i]
  <2>1. i \in 1..a - 1 /\ a - 1 <= l
    BY <1>2, <1>4
  <2>2. QED
    BY <1>2, <1>3, <2>1
<1>5. ASSUME NEW i \in 1..n, b < i PROVE i + d \in 1..l /\ new[i + d] = text[i]
  <2>1. i \in b + 1..n /\ i + d \in 1..l
    BY <1>2, <1>5
  <2>2. QED
    BY <1>3, <2>1
<1>6. ASSUME NEW i \in 1..m PROVE a - 1 + i \in 1..l /\ new[a - 1 + i] = put[i]
  <2>1. a - 1 + i \in 1..l
    BY <1>2
  <2>2. QED
    BY <1>3, <2>1
<1>7. QED
  BY <1>2, <1>4, <1>5, <1>6

\* No region lies across the bounds of a..b.
Clear(text, a, b) ==
    \A i, k \in DOMAIN text : Pair(text, i, k) => k < a \/ b < i \/ (i = a /\ k = b)

\* No markers, or one region and nothing else.
Whole(put) ==
    \/ \A i \in DOMAIN put : ~IsMarker(put[i])
    \/ Pair(put, 1, Len(put))

\* The regions of the new text are those in front of a, those after b, and the
\* one that is put.
PairsKept(new, text, a, b, put, d) ==
    /\ Paired(new)
    /\ \A i, k \in DOMAIN text : Pair(text, i, k) /\ k < a => Pair(new, i, k)
    /\ \A i, k \in DOMAIN text : Pair(text, i, k) /\ b < i => Pair(new, i + d, k + d)
    /\ Pair(put, 1, Len(put)) => Pair(new, a, b + d)
    /\ \A i, k \in DOMAIN new : Pair(new, i, k) =>
          \/ k < a /\ Pair(text, i, k)
          \/ b + d < i /\ Pair(text, i - d, k - d)
          \/ i = a /\ k = b + d /\ Pair(put, 1, Len(put))

LEMMA PairsMoved ==
  ASSUME NEW text \in Texts, NEW put \in Texts, NEW new \in Texts, NEW a, NEW b, NEW d,
         Moved(new, text, a, b, put, d), Paired(text), Clear(text, a, b), Whole(put)
  PROVE  PairsKept(new, text, a, b, put, d)
<1>1. /\ a \in Nat /\ b \in Nat /\ d \in Int /\ 1 <= a /\ a <= b + 1
      /\ Len(put) \in Nat /\ DOMAIN put = 1..Len(put) /\ b + d = a - 1 + Len(put)
      /\ DOMAIN text \subseteq Int /\ DOMAIN new \subseteq Int
  BY DEF Moved
<1>2. ASSUME NEW i \in DOMAIN text, NEW k \in DOMAIN text, Pair(text, i, k), k < a
      PROVE  Pair(new, i, k)
  <2>1. /\ i < k /\ i < a /\ text[i].mark = "begin" /\ text[k].mark = "end"
        /\ text[k].slug = text[i].slug
        /\ \A j \in DOMAIN text : i < j /\ j < k => ~IsMarker(text[j])
    BY <1>1, <1>2 DEF Pair
  <2>2. i \in DOMAIN new /\ k \in DOMAIN new /\ new[i] = text[i] /\ new[k] = text[k]
    BY <1>2, <2>1, WhereTo
  <2>3. ASSUME NEW j \in DOMAIN new, i < j, j < k PROVE ~IsMarker(new[j])
    <3>1. j < a
      BY <1>1, <1>2, <2>3
    <3>2. j \in DOMAIN text /\ new[j] = text[j]
      BY <1>1, <3>1, WhereFrom
    <3>3. QED
      BY <2>1, <2>3, <3>2
  <2>4. QED
    BY <2>1, <2>2, <2>3 DEF Pair
<1>3. ASSUME NEW i \in DOMAIN text, NEW k \in DOMAIN text, Pair(text, i, k), b < i
      PROVE  Pair(new, i + d, k + d)
  <2>1. /\ i < k /\ b < k /\ text[i].mark = "begin" /\ text[k].mark = "end"
        /\ text[k].slug = text[i].slug
        /\ \A j \in DOMAIN text : i < j /\ j < k => ~IsMarker(text[j])
    BY <1>1, <1>3 DEF Pair
  <2>2. /\ i + d \in DOMAIN new /\ k + d \in DOMAIN new
        /\ new[i + d] = text[i] /\ new[k + d] = text[k]
    BY <1>3, <2>1, WhereTo
  <2>3. ASSUME NEW j \in DOMAIN new, i + d < j, j < k + d PROVE ~IsMarker(new[j])
    <3>1. b + d < j /\ i < j - d /\ j - d < k
      BY <1>1, <1>3, <2>3
    <3>2. j - d \in DOMAIN text /\ new[j] = text[j - d]
      BY <1>1, <3>1, WhereFrom
    <3>3. QED
      BY <2>1, <3>1, <3>2
  <2>4. i + d < k + d
    BY <1>1, <2>1
  <2>5. QED
    BY <2>1, <2>2, <2>3, <2>4 DEF Pair
<1>4. ASSUME Pair(put, 1, Len(put)) PROVE Pair(new, a, b + d)
  <2>1. /\ 1 < Len(put) /\ 1 \in DOMAIN put /\ Len(put) \in DOMAIN put
        /\ put[1].mark = "begin" /\ put[Len(put)].mark = "end"
        /\ put[Len(put)].slug = put[1].slug
        /\ \A j \in DOMAIN put : 1 < j /\ j < Len(put) => ~IsMarker(put[j])
    BY <1>1, <1>4 DEF Pair
  <2>2. a - 1 + 1 = a /\ a - 1 + Len(put) = b + d /\ a < b + d
    BY <1>1, <2>1
  <2>3. /\ a \in DOMAIN new /\ b + d \in DOMAIN new
        /\ new[a] = put[1] /\ new[b + d] = put[Len(put)]
    <3>1. /\ a - 1 + 1 \in DOMAIN new /\ new[a - 1 + 1] = put[1]
          /\ a - 1 + Len(put) \in DOMAIN new /\ new[a - 1 + Len(put)] = put[Len(put)]
      BY <2>1, WhereTo
    <3>2. QED
      BY <2>2, <3>1
  <2>4. ASSUME NEW j \in DOMAIN new, a < j, j < b + d PROVE ~IsMarker(new[j])
    <3>1. j - (a - 1) \in DOMAIN put /\ new[j] = put[j - (a - 1)]
      <4>1. j \in Int /\ ~(j < a) /\ ~(b + d < j)
        BY <1>1, <2>4
      <4>2. QED
        BY <4>1, WhereFrom
    <3>2. 1 < j - (a - 1) /\ j - (a - 1) < Len(put)
      BY <1>1, <2>2, <2>4
    <3>3. QED
      BY <2>1, <3>1, <3>2
  <2>5. QED
    BY <2>1, <2>2, <2>3, <2>4 DEF Pair
<1>5. ASSUME NEW j \in DOMAIN put, IsMarker(put[j])
      PROVE  /\ Pair(put, 1, Len(put)) /\ (j = 1 \/ j = Len(put))
             /\ put[j].mark = "begin" <=> j = 1
             /\ put[j].mark = "end" <=> j = Len(put)
  <2>1. Pair(put, 1, Len(put))
    BY <1>5 DEF Whole
  <2>2. /\ \A i \in DOMAIN put : 1 < i /\ i < Len(put) => ~IsMarker(put[i])
        /\ put[1].mark = "begin" /\ put[Len(put)].mark = "end" /\ 1 < Len(put)
    BY <2>1 DEF Pair
  <2>3. j = 1 \/ j = Len(put)
    BY <1>1, <1>5, <2>2
  <2>4. QED
    BY <2>1, <2>2, <2>3
<1>6. ASSUME NEW i \in DOMAIN new, new[i].mark = "begin"
      PROVE  \E k \in DOMAIN new :
                /\ Pair(new, i, k)
                /\ \/ k < a /\ Pair(text, i, k)
                   \/ b + d < i /\ Pair(text, i - d, k - d)
                   \/ i = a /\ k = b + d /\ Pair(put, 1, Len(put))
  <2>1. CASE i < a /\ i \in DOMAIN text /\ new[i] = text[i]
    <3>1. PICK k \in DOMAIN text : Pair(text, i, k)
      BY <1>6, <2>1 DEF Paired
    <3>2. k < a
      <4>1. ~(b < i) /\ i # a
        BY <1>1, <2>1
      <4>2. QED
        BY <2>1, <3>1, <4>1 DEF Clear
    <3>3. Pair(new, i, k)
      BY <1>2, <2>1, <3>1, <3>2
    <3>4. QED
      BY <3>1, <3>2, <3>3 DEF Pair
  <2>2. CASE /\ a <= i /\ i <= b + d /\ i - (a - 1) \in DOMAIN put
             /\ new[i] = put[i - (a - 1)]
    <3>1. Pair(put, 1, Len(put)) /\ i - (a - 1) = 1
      BY <1>5, <1>6, <2>2 DEF IsMarker
    <3>2. i = a
      BY <1>1, <3>1
    <3>3. Pair(new, i, b + d)
      BY <1>4, <3>1, <3>2
    <3>4. QED
      BY <3>1, <3>2, <3>3 DEF Pair
  <2>3. CASE b + d < i /\ b < i - d /\ i - d \in DOMAIN text /\ new[i] = text[i - d]
    <3>1. PICK k \in DOMAIN text : Pair(text, i - d, k)
      BY <1>6, <2>3 DEF Paired
    <3>2. (i - d) + d = i /\ (k + d) - d = k
      BY <1>1, <2>3
    <3>3. Pair(new, i, k + d) /\ Pair(text, i - d, (k + d) - d)
      BY <1>3, <2>3, <3>1, <3>2
    <3>4. QED
      BY <2>3, <3>3 DEF Pair
  <2>4. QED
    BY <2>1, <2>2, <2>3, WhereFrom
<1>7. ASSUME NEW k \in DOMAIN new, new[k].mark = "end"
      PROVE  \E i \in DOMAIN new : Pair(new, i, k)
  <2>1. CASE k < a /\ k \in DOMAIN text /\ new[k] = text[k]
    <3>1. PICK i \in DOMAIN text : Pair(text, i, k)
      BY <1>7, <2>1 DEF Paired
    <3>2. Pair(new, i, k)
      BY <1>2, <2>1, <3>1
    <3>3. QED
      BY <3>2 DEF Pair
  <2>2. CASE /\ a <= k /\ k <= b + d /\ k - (a - 1) \in DOMAIN put
             /\ new[k] = put[k - (a - 1)]
    <3>1. Pair(put, 1, Len(put)) /\ k - (a - 1) = Len(put)
      BY <1>5, <1>7, <2>2 DEF IsMarker
    <3>2. k = b + d
      BY <1>1, <3>1
    <3>3. Pair(new, a, k)
      BY <1>4, <3>1, <3>2
    <3>4. QED
      BY <3>3 DEF Pair
  <2>3. CASE b + d < k /\ b < k - d /\ k - d \in DOMAIN text /\ new[k] = text[k - d]
    <3>1. PICK i \in DOMAIN text : Pair(text, i, k - d)
      BY <1>7, <2>3 DEF Paired
    <3>2. b < i
      <4>1. ~(k - d < a) /\ k - d # b
        BY <1>1, <2>3
      <4>2. QED
        BY <2>3, <3>1, <4>1 DEF Clear
    <3>3. (k - d) + d = k
      BY <1>1, <2>3
    <3>4. Pair(new, i + d, k)
      BY <1>3, <2>3, <3>1, <3>2, <3>3
    <3>5. QED
      BY <3>4 DEF Pair
  <2>4. QED
    BY <2>1, <2>2, <2>3, WhereFrom
<1>8. Paired(new)
  BY <1>6, <1>7 DEF Paired
<1>9. ASSUME NEW i \in DOMAIN new, NEW k \in DOMAIN new, Pair(new, i, k)
      PROVE  \/ k < a /\ Pair(text, i, k)
             \/ b + d < i /\ Pair(text, i - d, k - d)
             \/ i = a /\ k = b + d /\ Pair(put, 1, Len(put))
  <2>1. new[i].mark = "begin"
    BY <1>9 DEF Pair
  <2>2. PICK l \in DOMAIN new :
                /\ Pair(new, i, l)
                /\ \/ l < a /\ Pair(text, i, l)
                   \/ b + d < i /\ Pair(text, i - d, l - d)
                   \/ i = a /\ l = b + d /\ Pair(put, 1, Len(put))
    BY <1>6, <2>1
  <2>3. k < i \/ l < i \/ l = k
    BY <1>9, <2>2, PairsApart
  <2>4. i < k /\ i < l
    BY <1>9, <2>2 DEF Pair
  <2>5. l = k
    BY <1>1, <2>3, <2>4
  <2>6. QED
    BY <2>2, <2>5
<1>10. QED
  BY <1>2, <1>3, <1>4, <1>8, <1>9 DEF PairsKept

-----------------------------------------------------------------------------
\* The block and its members.

\* The block begins at x and ends at y.
Bounded(text, x, y) ==
    /\ x \in DOMAIN text /\ y \in DOMAIN text /\ x < y
    /\ text[y].mark = "block_end"
    /\ \A i \in DOMAIN text : text[i].mark = "block_begin" <=> i = x
    /\ \A i \in DOMAIN text : text[i].mark = "block_end" => x < i /\ i <= y

LEMMA BlockOf ==
  ASSUME NEW text \in Texts, NEW x, NEW y, Bounded(text, x, y)
  PROVE  /\ HasBlock(text) /\ BlockClosed(text)
         /\ BlockBounds(text) = [start |-> x, stop |-> y]
<1> DEFINE begins == At(text, {"block_begin"})
           ends == At(text, {"block_end"})
<1>1. /\ x \in DOMAIN text /\ y \in DOMAIN text /\ x < y
      /\ text[y].mark = "block_end" /\ text[x].mark = "block_begin"
      /\ \A i \in DOMAIN text : text[i].mark = "block_begin" <=> i = x
      /\ \A i \in DOMAIN text : text[i].mark = "block_end" => x < i /\ i <= y
  BY DEF Bounded
<1>2. begins = {x} /\ y \in ends /\ \A i \in ends : x < i /\ i <= y
  BY <1>1 DEF At
<1>3. /\ Len(text) \in Nat /\ ends \subseteq 0..Len(text) /\ begins \subseteq Nat
      /\ x \in Nat /\ y \in Nat
  BY <1>1, AtFacts
<1> HIDE DEF begins, ends
<1>4. Min(begins) = x
  <2>1. Min(begins) \in begins
    BY <1>2, <1>3, MinOf
  <2>2. QED
    BY <1>2, <2>1
<1>5. Max(ends) = y
  <2>1. Max(ends) \in ends /\ Max(ends) >= y
    <3>1. PICK n \in Nat : n = Len(text)
      BY <1>3
    <3>2. ends \subseteq 0..n /\ ends # {} /\ y \in ends
      BY <1>2, <1>3, <3>1
    <3>3. Max(ends) \in ends /\ \A m \in ends : Max(ends) >= m
      BY <3>2, MaxOf
    <3>4. QED
      BY <3>2, <3>3
  <2>2. Max(ends) <= y /\ Max(ends) \in Nat
    <3>1. PICK z \in ends : z = Max(ends)
      BY <2>1
    <3>2. z <= y /\ z \in Nat
      BY <1>2, <1>3
    <3>3. QED
      BY <3>1, <3>2
  <2>3. QED
    BY <1>3, <2>1, <2>2
<1>6. Cardinality(begins) <= 1
  <2>1. Cardinality(begins) = 1
    BY <1>2, FS_Singleton
  <2>2. QED
    BY <2>1
<1>7. HasBlock(text) /\ BlockClosed(text)
  <2>1. \A j \in ends : \E i \in begins : i < j
    BY <1>2
  <2>2. QED
    BY <1>2, <1>6, <2>1 DEF HasBlock, BlockClosed, begins, ends
<1>8. BlockBounds(text) = [start |-> x, stop |-> y]
  BY <1>4, <1>5 DEF BlockBounds, begins, ends
<1>9. QED
  BY <1>7, <1>8

LEMMA NoBlock ==
  ASSUME NEW text \in Texts, NoBlockMarks(text)
  PROVE  ~HasBlock(text) /\ BlockClosed(text) /\ FindBlockMembers(text) = {}
<1>1. At(text, {"block_begin"}) = {} /\ At(text, {"block_end"}) = {}
  BY DEF At, NoBlockMarks
<1>2. Cardinality({}) <= 1
  <2>1. Cardinality({}) = 0
    BY FS_EmptySet
  <2>2. QED
    BY <2>1
<1>3. QED
  BY <1>1, <1>2 DEF HasBlock, BlockClosed, FindBlockMembers

LEMMA BlockOrNone ==
  ASSUME NEW text \in Texts, BlockClosed(text)
  PROVE  \/ NoBlockMarks(text)
         \/ \E x, y \in DOMAIN text : Bounded(text, x, y)
<1>1. CASE HasBlock(text)
  <2>1. PICK b : b = BlockBounds(text)
    OBVIOUS
  <2>2. /\ b.start \in DOMAIN text /\ b.stop \in DOMAIN text /\ b.start < b.stop
        /\ \A i \in DOMAIN text : text[i].mark = "block_begin" <=> i = b.start
        /\ \A i \in DOMAIN text : text[i].mark = "block_end" => i <= b.stop
        /\ text[b.stop].mark = "block_end"
    BY <1>1, <2>1, BlockFacts
  <2>3. ASSUME NEW j \in DOMAIN text, text[j].mark = "block_end" PROVE b.start < j
    <3>1. j \in At(text, {"block_end"})
      BY <2>3 DEF At
    <3>2. PICK i \in At(text, {"block_begin"}) : i < j
      BY <3>1 DEF BlockClosed
    <3>3. i = b.start
      BY <2>2, <3>2 DEF At
    <3>4. QED
      BY <3>2, <3>3
  <2>4. Bounded(text, b.start, b.stop)
    BY <2>2, <2>3 DEF Bounded
  <2>5. QED
    BY <2>2, <2>4
<1>2. CASE ~HasBlock(text)
  <2>1. At(text, {"block_begin"}) = {}
    BY <1>2 DEF HasBlock
  <2>2. At(text, {"block_end"}) = {}
    BY <2>1 DEF BlockClosed
  <2>3. QED
    BY <2>1, <2>2 DEF At, NoBlockMarks
<1>3. QED
  BY <1>1, <1>2

\* Lines i..k are a member of the block that begins at x and ends at y.
Member(text, x, y, i, k) ==
    /\ i \in Int /\ k \in Int /\ x < i /\ i <= k /\ k < y
    /\ text[i].mark = "member"
    /\ \A j \in i + 1..k : text[j].mark # "member"
    /\ k + 1 = y \/ text[k + 1].mark = "member"

(***************************************************************************)
(* What FindBlockMembers finds.                                             *)
(***************************************************************************)
LEMMA MembersAre ==
  ASSUME NEW text \in Texts, NEW x, NEW y, Bounded(text, x, y)
  PROVE  /\ \A m \in FindBlockMembers(text) :
               \E i, k \in DOMAIN text : Member(text, x, y, i, k) /\ m = RegionAt(text, i, k)
         /\ \A i, k : Member(text, x, y, i, k) =>
               RegionAt(text, i, k) \in FindBlockMembers(text)
         /\ \A i \in DOMAIN text : text[i].mark = "member" /\ x < i /\ i < y =>
               \E k \in DOMAIN text : Member(text, x, y, i, k)
<1> DEFINE heads == {i \in At(text, {"member"}) : x < i /\ i < y}
           after(i) == {j \in heads : j > i} \cup {y}
           last(i) == Min(after(i)) - 1
<1>1. FindBlockMembers(text) = {RegionAt(text, i, last(i)) : i \in heads}
  <2>1. HasBlock(text) /\ BlockBounds(text).start = x /\ BlockBounds(text).stop = y
    BY BlockOf
  <2>2. QED
    BY <2>1 DEF FindBlockMembers, RegionAt
<1>2. /\ \A i : i \in heads <=> i \in DOMAIN text /\ text[i].mark = "member" /\ x < i /\ i < y
      /\ x \in Nat /\ y \in Nat /\ x \in DOMAIN text /\ y \in DOMAIN text
      /\ Len(text) \in Nat /\ DOMAIN text = 1..Len(text)
  BY AtFacts DEF At, Bounded
<1>3. ASSUME NEW i \in heads
      PROVE  /\ Min(after(i)) \in after(i) /\ \A j \in after(i) : Min(after(i)) <= j
             /\ i < Min(after(i)) /\ Min(after(i)) <= y /\ Min(after(i)) \in Nat
  <2>1. after(i) \subseteq Nat /\ after(i) # {} /\ \A j \in after(i) : i < j
    BY <1>2
  <2>2. y \in after(i)
    OBVIOUS
  <2> HIDE DEF after
  <2>3. QED
    BY <2>1, <2>2, MinOf
<1>4. ASSUME NEW i \in heads
      PROVE  Member(text, x, y, i, last(i)) /\ last(i) \in DOMAIN text
  <2>1. PICK n : n = Min(after(i))
    OBVIOUS
  <2>2. /\ n = y \/ (n \in heads /\ n > i)
        /\ \A j \in heads : j > i => n <= j
        /\ i < n /\ n <= y /\ n \in Nat /\ last(i) = n - 1
    BY <1>3, <2>1
  <2>3. i \in Nat /\ x < i /\ text[i].mark = "member" /\ i \in DOMAIN text
    BY <1>2
  <2>4. ASSUME NEW j \in i + 1..(n - 1) PROVE text[j].mark # "member"
    <3>1. /\ j \in DOMAIN text /\ x < j /\ j < y /\ j > i /\ ~(n <= j)
      BY <1>2, <2>2, <2>3
    <3>2. QED
      BY <1>2, <2>2, <3>1
  <2>5. (n - 1) + 1 = y \/ text[(n - 1) + 1].mark = "member"
    BY <1>2, <2>2
  <2>6. n - 1 \in Int /\ i <= n - 1 /\ n - 1 < y /\ n - 1 \in DOMAIN text
    BY <1>2, <2>2, <2>3
  <2> HIDE DEF last
  <2>7. QED
    BY <2>2, <2>3, <2>4, <2>5, <2>6 DEF Member
<1>5. ASSUME NEW i, NEW k, Member(text, x, y, i, k)
      PROVE  i \in heads /\ k = last(i)
  <2>1. /\ i \in Int /\ k \in Int /\ x < i /\ i <= k /\ k < y /\ text[i].mark = "member"
        /\ \A j \in i + 1..k : text[j].mark # "member"
        /\ k + 1 = y \/ text[k + 1].mark = "member"
    BY <1>5 DEF Member
  <2>2. i \in heads
    BY <1>2, <2>1
  <2>3. PICK n : n = Min(after(i))
    OBVIOUS
  <2>4. /\ n = y \/ (n \in heads /\ n > i)
        /\ \A j \in heads : j > i => n <= j
        /\ i < n /\ n <= y /\ n \in Nat /\ last(i) = n - 1
    BY <1>3, <2>2, <2>3
  <2>5. n <= k + 1
    <3>1. CASE k + 1 = y
      BY <2>4, <3>1
    <3>2. CASE k + 1 # y
      <4>1. k + 1 \in DOMAIN text /\ x < k + 1 /\ k + 1 < y /\ k + 1 > i
        BY <1>2, <2>1, <3>2
      <4>2. QED
        BY <1>2, <2>1, <2>4, <3>2, <4>1
    <3>3. QED
      BY <3>1, <3>2
  <2>6. ~(n <= k)
    <3>1. SUFFICES ASSUME n <= k PROVE FALSE
      OBVIOUS
    <3>2. n \in i + 1..k /\ n # y
      BY <1>2, <2>1, <2>4, <3>1
    <3>3. text[n].mark = "member"
      BY <1>2, <2>4, <3>2
    <3>4. QED
      BY <2>1, <3>2, <3>3
  <2>7. QED
    BY <2>1, <2>2, <2>4, <2>5, <2>6
<1> HIDE DEF heads, last
<1>6. QED
  BY <1>1, <1>2, <1>4, <1>5

\* Lines x..y of text are lines x+e..y+e of new.
SameLines(new, text, x, y, e) ==
    /\ x \in Int /\ y \in Int /\ e \in Int
    /\ \A i \in x..y : i \in DOMAIN text /\ i + e \in DOMAIN new /\ new[i + e] = text[i]

LEMMA SameMembers ==
  ASSUME NEW new, NEW text, NEW x, NEW y, NEW e, SameLines(new, text, x, y, e),
         NEW i \in Int, NEW k \in Int
  PROVE  Member(new, x + e, y + e, i + e, k + e) <=> Member(text, x, y, i, k)
<1>1. x \in Int /\ y \in Int /\ e \in Int
  BY DEF SameLines
<1>2. /\ x + e < i + e <=> x < i
      /\ i + e <= k + e <=> i <= k
      /\ k + e < y + e <=> k < y
      /\ (k + e) + 1 = y + e <=> k + 1 = y
      /\ (k + e) + 1 = (k + 1) + e
  BY <1>1
<1>3. SUFFICES ASSUME x < i, i <= k, k < y
               PROVE  Member(new, x + e, y + e, i + e, k + e) <=> Member(text, x, y, i, k)
  BY <1>2 DEF Member
<1>4. /\ new[i + e] = text[i]
      /\ \A j \in i + 1..k : new[j + e] = text[j]
      /\ new[(k + 1) + e] = text[k + 1]
  <2>1. i \in x..y /\ k + 1 \in x..y /\ \A j \in i + 1..k : j \in x..y
    BY <1>1, <1>3
  <2>2. QED
    BY <2>1 DEF SameLines
<1>5. (\A j \in i + 1..k : text[j].mark # "member")
        <=> \A j \in (i + e) + 1..k + e : new[j].mark # "member"
  <2>1. ASSUME NEW j \in (i + e) + 1..k + e
        PROVE  j - e \in i + 1..k /\ (j - e) + e = j
    BY <1>1
  <2>2. ASSUME NEW j \in i + 1..k PROVE j + e \in (i + e) + 1..k + e
    BY <1>1
  <2>3. QED
    BY <1>4, <2>1, <2>2
<1>6. i + e \in Int /\ k + e \in Int
  BY <1>1
<1>7. QED
  BY <1>2, <1>4, <1>5, <1>6 DEF Member

\* Lines i to k of a text.
Extract(text, i, k) == SubSeq(text, i, k)

LEMMA SamePiece ==
  ASSUME NEW new \in Texts, NEW text \in Texts, NEW x, NEW y, NEW e,
         SameLines(new, text, x, y, e), NEW i \in Int, NEW k \in Int, x <= i, k <= y,
         NEW u, NEW v, u = i + e, v = k + e
  PROVE  Extract(new, u, v) = Extract(text, i, k)
<1>1. x \in Int /\ y \in Int /\ e \in Int
  BY DEF SameLines
<1>2. 1..(1 + (k + e) - (i + e)) = 1..(1 + k - i)
  BY <1>1
<1>3. ASSUME NEW n \in 1..(1 + k - i) PROVE new[(i + e) + n - 1] = text[i + n - 1]
  <2>1. i + n - 1 \in x..y /\ (i + n - 1) + e = (i + e) + n - 1
    BY <1>1
  <2>2. QED
    BY <2>1 DEF SameLines
<1>4. /\ SubSeq(text, i, k) = [n \in 1..(1 + k - i) |-> text[i + n - 1]]
      /\ SubSeq(new, i + e, k + e)
           = [n \in 1..(1 + (k + e) - (i + e)) |-> new[(i + e) + n - 1]]
  BY <1>1
<1>5. QED
  BY <1>2, <1>3, <1>4 DEF Extract

\* The regions come in pairs of markers, apart from the block.
Neat(text) ==
    /\ Paired(text)
    /\ \/ NoBlockMarks(text)
       \/ \E x, y \in DOMAIN text :
             /\ Bounded(text, x, y)
             /\ \A i, k \in DOMAIN text : Pair(text, i, k) => k < x \/ y < i

OneMemberEach(text) ==
    \A m, n \in FindBlockMembers(text) : m.task = n.task => m = n

LEMMA OneBlock ==
  ASSUME NEW text, NEW x, NEW y, NEW a, NEW b, Bounded(text, x, y), Bounded(text, a, b),
         DOMAIN text \subseteq Int
  PROVE  a = x /\ b = y
<1>1. /\ a \in DOMAIN text /\ b \in DOMAIN text /\ x \in DOMAIN text /\ y \in DOMAIN text
      /\ text[a].mark = "block_begin" /\ text[b].mark = "block_end"
      /\ text[y].mark = "block_end"
  BY DEF Bounded
<1>2. a = x /\ b <= y /\ y <= b
  BY <1>1 DEF Bounded
<1>3. QED
  BY <1>1, <1>2

(***************************************************************************)
(* A text that can be read, with its block apart, is neat; and a neat text  *)
(* can be read if no task is there twice.                                   *)
(***************************************************************************)
LEMMA ReadableMeansNeat ==
  ASSUME NEW text \in Texts
  PROVE  Readable(text) /\ Apart(text) <=>
            Neat(text) /\ OneRegionEach(text) /\ OneMemberEach(text)
<1>0. DOMAIN text \subseteq Int
  BY DEF Texts
<1>1. ASSUME Readable(text), Apart(text)
      PROVE  Neat(text) /\ OneRegionEach(text) /\ OneMemberEach(text)
  <2>1. Paired(text) /\ OneRegionEach(text) /\ BlockClosed(text) /\ OneMemberEach(text)
    BY <1>1, ReadableMeansPaired DEF Readable, BlockReadable, OneMemberEach
  <2>2. ASSUME NEW x \in DOMAIN text, NEW y \in DOMAIN text, Bounded(text, x, y),
               NEW i \in DOMAIN text, NEW k \in DOMAIN text, Pair(text, i, k)
        PROVE  k < x \/ y < i
    <3>1. HasBlock(text) /\ BlockBounds(text).start = x /\ BlockBounds(text).stop = y
      BY <2>2, BlockOf
    <3>2. PICK r \in FindManagedRegions(text) : r = RegionAt(text, i, k)
      BY <2>1, <2>2, RegionsArePairs
    <3>3. r.start = i /\ r.stop = k
      BY <3>2 DEF RegionAt
    <3>4. QED
      BY <1>1, <3>1, <3>3 DEF Apart
  <2>3. Neat(text)
    BY <2>1, <2>2, BlockOrNone DEF Neat
  <2>4. QED
    BY <2>1, <2>3
<1>2. ASSUME Neat(text), OneRegionEach(text), OneMemberEach(text)
      PROVE  Readable(text) /\ Apart(text)
  <2>1. RegionsReadable(text)
    BY <1>2, ReadableMeansPaired DEF Neat
  <2>2. CASE NoBlockMarks(text)
    BY <1>2, <2>1, <2>2, NoBlock DEF Readable, BlockReadable, OneMemberEach, Apart
  <2>3. CASE ~NoBlockMarks(text)
    <3>1. PICK x \in DOMAIN text, y \in DOMAIN text :
             /\ Bounded(text, x, y)
             /\ \A i, k \in DOMAIN text : Pair(text, i, k) => k < x \/ y < i
      BY <1>2, <2>3 DEF Neat
    <3>2. BlockClosed(text) /\ BlockBounds(text).start = x /\ BlockBounds(text).stop = y
      BY <3>1, BlockOf
    <3>3. ASSUME NEW r \in FindManagedRegions(text) PROVE r.stop < x \/ y < r.start
      <4>1. PICK i \in DOMAIN text, k \in DOMAIN text :
               Pair(text, i, k) /\ r = RegionAt(text, i, k)
        BY <1>2, RegionsArePairs DEF Neat
      <4>2. r.start = i /\ r.stop = k
        BY <4>1 DEF RegionAt
      <4>3. QED
        BY <3>1, <4>1, <4>2
    <3>4. QED
      BY <1>2, <2>1, <3>2, <3>3 DEF Readable, BlockReadable, OneMemberEach, Apart
  <2>4. QED
    BY <2>2, <2>3
<1>3. QED
  BY <1>1, <1>2

\* The regions keep clear of the block.
LEMMA NeatApart ==
  ASSUME NEW text \in Texts, Neat(text), NEW x, NEW y, Bounded(text, x, y),
         NEW i \in DOMAIN text, NEW k \in DOMAIN text, Pair(text, i, k)
  PROVE  k < x \/ y < i
<1>1. ~NoBlockMarks(text) /\ DOMAIN text \subseteq Int
  BY DEF NoBlockMarks, Bounded, Texts
<1>2. PICK a \in DOMAIN text, b \in DOMAIN text :
         /\ Bounded(text, a, b)
         /\ \A j, l \in DOMAIN text : Pair(text, j, l) => l < a \/ b < j
  BY <1>1 DEF Neat
<1>3. a = x /\ b = y
  BY <1>1, <1>2, OneBlock
<1>4. QED
  BY <1>2, <1>3

-----------------------------------------------------------------------------
\* A region is put, replaced or removed.

RegionRun(text, a, b) == (a = Len(text) + 1 /\ b = Len(text)) \/ Pair(text, a, b)
RegionPut(put) == NoBlockMarks(put) /\ (put = <<>> \/ Pair(put, 1, Len(put)))

\* The block is where it was, in front of a or moved by d.
BlockKept(new, text, a, b, d) ==
    /\ NoBlockMarks(text) => NoBlockMarks(new)
    /\ \A x, y \in DOMAIN text : Bounded(text, x, y) =>
          \E e \in {0, d} : /\ (y < a /\ e = 0) \/ (b < x /\ e = d)
                            /\ Bounded(new, x + e, y + e)
                            /\ SameLines(new, text, x, y, e)

LEMMA BlockMoved ==
  ASSUME NEW text \in Texts, NEW put \in Texts, NEW new \in Texts, NEW a, NEW b, NEW d,
         Moved(new, text, a, b, put, d), NoBlockMarks(put),
         NEW x, NEW y, Bounded(text, x, y), NEW e,
         (y < a /\ e = 0) \/ (b < x /\ e = d)
  PROVE  Bounded(new, x + e, y + e) /\ SameLines(new, text, x, y, e)
<1>1. /\ a \in Nat /\ b \in Nat /\ d \in Int /\ a <= b + 1 /\ e \in Int
      /\ DOMAIN text = 1..Len(text) /\ Len(text) \in Nat
      /\ DOMAIN text \subseteq Int /\ DOMAIN new \subseteq Int
      /\ b + d = a - 1 + Len(put) /\ Len(put) \in Nat
  BY DEF Moved
<1>2. /\ x \in DOMAIN text /\ y \in DOMAIN text /\ x < y /\ x \in Int /\ y \in Int
      /\ text[y].mark = "block_end" /\ text[x].mark = "block_begin"
      /\ \A i \in DOMAIN text : text[i].mark = "block_begin" <=> i = x
      /\ \A i \in DOMAIN text : text[i].mark = "block_end" => x < i /\ i <= y
  BY <1>1 DEF Bounded
<1>3. ASSUME NEW i \in x..y
      PROVE  i \in DOMAIN text /\ i + e \in DOMAIN new /\ new[i + e] = text[i]
  <2>1. i \in DOMAIN text
    BY <1>1, <1>2
  <2>2. CASE y < a /\ e = 0
    <3>1. i < a /\ i + e = i
      BY <1>1, <1>2, <2>2
    <3>2. QED
      BY <2>1, <3>1, WhereTo
  <2>3. CASE b < x /\ e = d
    <3>1. b < i
      BY <1>1, <1>2, <2>3
    <3>2. QED
      BY <2>1, <2>3, <3>1, WhereTo
  <2>4. QED
    BY <2>2, <2>3
<1>4. x \in x..y /\ y \in x..y
  BY <1>2
<1>5. ASSUME NEW j \in DOMAIN new
      PROVE  /\ new[j].mark = "block_begin" <=> j = x + e
             /\ new[j].mark = "block_end" => x + e < j /\ j <= y + e
  <2>1. CASE j < a /\ j \in DOMAIN text /\ new[j] = text[j]
    <3>1. CASE y < a /\ e = 0
      BY <1>1, <1>2, <2>1, <3>1
    <3>2. CASE b < x /\ e = d
      <4>1. ~(x < j) /\ j # x /\ j # x + e
        BY <1>1, <1>2, <2>1, <3>2
      <4>2. QED
        BY <1>2, <2>1, <4>1
    <3>3. QED
      BY <3>1, <3>2
  <2>2. CASE /\ a <= j /\ j <= b + d /\ j - (a - 1) \in DOMAIN put
             /\ new[j] = put[j - (a - 1)]
    <3>1. new[j].mark \notin {"block_begin", "block_end"}
      BY <2>2 DEF NoBlockMarks
    <3>2. j # x + e
      BY <1>1, <1>2, <2>2
    <3>3. QED
      BY <3>1, <3>2
  <2>3. CASE b + d < j /\ b < j - d /\ j - d \in DOMAIN text /\ new[j] = text[j - d]
    <3>1. CASE y < a /\ e = 0
      <4>1. ~(j - d <= y) /\ j - d # x /\ j # x + e
        BY <1>1, <1>2, <2>3, <3>1
      <4>2. QED
        BY <1>2, <2>3, <4>1
    <3>2. CASE b < x /\ e = d
      <4>1. /\ j - d = x <=> j = x + e
            /\ x < j - d <=> x + e < j
            /\ j - d <= y <=> j <= y + e
        BY <1>1, <1>2, <3>2
      <4>2. QED
        BY <1>2, <2>3, <4>1
    <3>3. QED
      BY <3>1, <3>2
  <2>4. QED
    BY <2>1, <2>2, <2>3, WhereFrom
<1>6. x + e < y + e
  BY <1>1, <1>2
<1>7. Bounded(new, x + e, y + e)
  BY <1>2, <1>3, <1>4, <1>5, <1>6 DEF Bounded
<1>8. SameLines(new, text, x, y, e)
  BY <1>1, <1>2, <1>3 DEF SameLines
<1>9. QED
  BY <1>7, <1>8

(***************************************************************************)
(* Putting, replacing or removing a region keeps a text neat, the other     *)
(* regions and the block.                                                   *)
(***************************************************************************)
LEMMA RegionSpliced ==
  ASSUME NEW text \in Texts, NEW put \in Texts, NEW new \in Texts, NEW a, NEW b, NEW d,
         Moved(new, text, a, b, put, d), Neat(text), RegionRun(text, a, b), RegionPut(put)
  PROVE  Neat(new) /\ PairsKept(new, text, a, b, put, d) /\ BlockKept(new, text, a, b, d)
<1>1. /\ a \in Nat /\ b \in Nat /\ d \in Int /\ a <= b + 1
      /\ DOMAIN text = 1..Len(text) /\ Len(text) \in Nat
      /\ DOMAIN text \subseteq Int /\ DOMAIN new \subseteq Int
      /\ b + d = a - 1 + Len(put) /\ Len(put) \in Nat
  BY DEF Moved
<1>2. Clear(text, a, b)
  <2>1. ASSUME NEW i \in DOMAIN text, NEW k \in DOMAIN text, Pair(text, i, k)
        PROVE  k < a \/ b < i \/ (i = a /\ k = b)
    <3>1. CASE a = Len(text) + 1
      BY <1>1, <3>1
    <3>2. CASE Pair(text, a, b)
      BY <2>1, <3>2, PairsApart
    <3>3. QED
      BY <3>1, <3>2 DEF RegionRun
  <2>2. QED
    BY <2>1 DEF Clear
<1>3. PairsKept(new, text, a, b, put, d)
  <2>1. Whole(put)
    BY DEF RegionPut, Whole
  <2>2. QED
    BY <1>2, <2>1, PairsMoved DEF Neat
<1>4. ASSUME NoBlockMarks(text) PROVE NoBlockMarks(new)
  <2>1. ASSUME NEW j \in DOMAIN new PROVE new[j].mark \notin {"block_begin", "block_end"}
    BY <1>4, WhereFrom DEF NoBlockMarks, RegionPut
  <2>2. QED
    BY <2>1 DEF NoBlockMarks
<1>5. ASSUME NEW x \in DOMAIN text, NEW y \in DOMAIN text, Bounded(text, x, y)
      PROVE  \E e \in {0, d} : /\ (y < a /\ e = 0) \/ (b < x /\ e = d)
                               /\ Bounded(new, x + e, y + e)
                               /\ SameLines(new, text, x, y, e)
  <2>1. y < a \/ b < x
    <3>1. CASE a = Len(text) + 1
      BY <1>1, <3>1
    <3>2. CASE Pair(text, a, b)
      <4>1. a \in DOMAIN text /\ b \in DOMAIN text
        BY <3>2 DEF Pair
      <4>2. QED
        BY <1>5, <3>2, <4>1, NeatApart
    <3>3. QED
      BY <3>1, <3>2 DEF RegionRun
  <2>2. PICK e \in {0, d} : (y < a /\ e = 0) \/ (b < x /\ e = d)
    BY <2>1
  <2>3. QED
    BY <1>5, <2>2, BlockMoved DEF RegionPut
<1>6. BlockKept(new, text, a, b, d)
  BY <1>4, <1>5 DEF BlockKept
<1>7. Neat(new)
  <2>1. CASE NoBlockMarks(text)
    BY <1>3, <1>4, <2>1 DEF Neat, PairsKept
  <2>2. CASE ~NoBlockMarks(text)
    <3>1. PICK x \in DOMAIN text, y \in DOMAIN text : Bounded(text, x, y)
      BY <2>2 DEF Neat
    <3>2. PICK e \in {0, d} : /\ (y < a /\ e = 0) \/ (b < x /\ e = d)
                              /\ Bounded(new, x + e, y + e)
      BY <1>5, <3>1
    <3>3. x + e \in DOMAIN new /\ y + e \in DOMAIN new
      BY <3>2 DEF Bounded
    <3>4. ASSUME NEW i \in DOMAIN new, NEW k \in DOMAIN new, Pair(new, i, k)
          PROVE  k < x + e \/ y + e < i
      <4>1. i \in Int /\ k \in Int /\ x \in Int /\ y \in Int /\ x < y /\ i < k
        BY <1>1, <3>1, <3>4 DEF Bounded, Pair
      <4>2. CASE k < a /\ Pair(text, i, k)
        <5>1. i \in DOMAIN text /\ k \in DOMAIN text
          BY <4>2 DEF Pair
        <5>2. k < x \/ y < i
          BY <3>1, <4>2, <5>1, NeatApart
        <5>3. QED
          BY <1>1, <3>2, <4>1, <4>2, <5>2
      <4>3. CASE b + d < i /\ Pair(text, i - d, k - d)
        <5>1. i - d \in DOMAIN text /\ k - d \in DOMAIN text
          BY <4>3 DEF Pair
        <5>2. k - d < x \/ y < i - d
          BY <3>1, <4>3, <5>1, NeatApart
        <5>3. QED
          BY SMTT(60), <1>1, <3>2, <4>1, <4>3, <5>2
      <4>4. CASE i = a /\ k = b + d
        BY <1>1, <3>2, <4>1, <4>4
      <4>5. QED
        BY <1>3, <3>4, <4>2, <4>3, <4>4 DEF PairsKept
    <3>5. QED
      BY <1>3, <3>2, <3>3, <3>4 DEF Neat, PairsKept
  <2>3. QED
    BY <2>1, <2>2
<1>8. QED
  BY <1>3, <1>6, <1>7

-----------------------------------------------------------------------------
\* The block is put, replaced or removed.

BlockRun(text, a, b) ==
    \/ NoBlockMarks(text) /\ a = Len(text) + 1 /\ b = Len(text)
    \/ Bounded(text, a, b)

\* Nothing, or a block without regions.
BlockPut(put) ==
    /\ \A i \in DOMAIN put : ~IsMarker(put[i])
    /\ put = <<>> \/ Bounded(put, 1, Len(put))

LEMMA BlockInPlace ==
  ASSUME NEW text \in Texts, NEW put \in Texts, NEW new \in Texts, NEW a, NEW b, NEW d,
         Moved(new, text, a, b, put, d), BlockRun(text, a, b), Bounded(put, 1, Len(put))
  PROVE  Bounded(new, a, b + d) /\ SameLines(new, put, 1, Len(put), a - 1)
<1>1. /\ a \in Nat /\ b \in Nat /\ d \in Int /\ 1 <= a /\ a <= b + 1 /\ b <= Len(text)
      /\ DOMAIN text = 1..Len(text) /\ Len(text) \in Nat
      /\ DOMAIN put = 1..Len(put) /\ Len(put) \in Nat
      /\ DOMAIN new \subseteq Int
      /\ b + d = a - 1 + Len(put)
  BY DEF Moved
<1>2. /\ 1 < Len(put) /\ put[1].mark = "block_begin" /\ put[Len(put)].mark = "block_end"
      /\ \A i \in DOMAIN put : put[i].mark = "block_begin" <=> i = 1
  BY <1>1 DEF Bounded
<1>3. \A i \in DOMAIN put : a - 1 + i \in DOMAIN new /\ new[a - 1 + i] = put[i]
  BY WhereTo
<1>4. SameLines(new, put, 1, Len(put), a - 1)
  <2>1. \A i \in 1..Len(put) : i + (a - 1) = a - 1 + i
    BY <1>1
  <2>2. QED
    BY <1>1, <1>3, <2>1 DEF SameLines
<1>5. /\ a \in DOMAIN new /\ new[a].mark = "block_begin"
      /\ b + d \in DOMAIN new /\ new[b + d].mark = "block_end" /\ a < b + d
  <2>1. 1 \in DOMAIN put /\ Len(put) \in DOMAIN put /\ a - 1 + 1 = a
    BY <1>1, <1>2
  <2>2. /\ a \in DOMAIN new /\ new[a] = put[1]
        /\ a - 1 + Len(put) \in DOMAIN new /\ new[a - 1 + Len(put)] = put[Len(put)]
    <3>1. a - 1 + 1 \in DOMAIN new /\ new[a - 1 + 1] = put[1]
      BY <1>3, <2>1
    <3>2. a - 1 + Len(put) \in DOMAIN new /\ new[a - 1 + Len(put)] = put[Len(put)]
      BY <1>3, <2>1
    <3>3. QED
      BY <2>1, <3>1, <3>2
  <2>3. a < b + d
    BY <1>1, <1>2
  <2>4. QED
    BY <1>1, <1>2, <2>2, <2>3
<1>6. ASSUME NEW j \in DOMAIN new
      PROVE  /\ new[j].mark = "block_begin" => j = a
             /\ new[j].mark = "block_end" => a < j /\ j <= b + d
  <2>1. ASSUME NEW i \in DOMAIN text, i < a \/ b < i
        PROVE  text[i].mark \notin {"block_begin", "block_end"}
    <3>1. CASE NoBlockMarks(text)
      BY <3>1 DEF NoBlockMarks
    <3>2. CASE Bounded(text, a, b)
      <4>1. ~(i = a) /\ ~(a < i /\ i <= b)
        <5>1. a < b
          BY <3>2 DEF Bounded
        <5>2. QED
          BY <1>1, <2>1, <5>1
      <4>2. QED
        BY <3>2, <4>1 DEF Bounded
    <3>3. QED
      BY <3>1, <3>2 DEF BlockRun
  <2>2. CASE j < a /\ j \in DOMAIN text /\ new[j] = text[j]
    BY <2>1, <2>2
  <2>3. CASE /\ a <= j /\ j <= b + d /\ j - (a - 1) \in DOMAIN put
             /\ new[j] = put[j - (a - 1)]
    <3>1. /\ j - (a - 1) = 1 => j = a
          /\ j - (a - 1) # 1 => a < j
      BY <1>1, <2>3
    <3>2. new[j].mark = "block_begin" <=> j - (a - 1) = 1
      BY <1>2, <2>3
    <3>3. new[j].mark = "block_end" => j - (a - 1) # 1
      BY <1>2, <2>3
    <3>4. QED
      BY <2>3, <3>1, <3>2, <3>3
  <2>4. CASE b + d < j /\ b < j - d /\ j - d \in DOMAIN text /\ new[j] = text[j - d]
    BY <2>1, <2>4
  <2>5. QED
    BY <2>2, <2>3, <2>4, WhereFrom
<1>7. Bounded(new, a, b + d)
  BY <1>5, <1>6 DEF Bounded
<1>8. QED
  BY <1>4, <1>7

(***************************************************************************)
(* Putting, replacing or removing the block keeps a text neat, and its      *)
(* regions.                                                                 *)
(***************************************************************************)
LEMMA BlockSpliced ==
  ASSUME NEW text \in Texts, NEW put \in Texts, NEW new \in Texts, NEW a, NEW b, NEW d,
         Moved(new, text, a, b, put, d), Neat(text), BlockRun(text, a, b), BlockPut(put)
  PROVE  /\ Neat(new) /\ PairsKept(new, text, a, b, put, d)
         /\ put = <<>> => NoBlockMarks(new)
<1>1. /\ a \in Nat /\ b \in Nat /\ d \in Int /\ 1 <= a /\ a <= b + 1 /\ b <= Len(text)
      /\ DOMAIN text = 1..Len(text) /\ Len(text) \in Nat
      /\ b + d = a - 1 + Len(put) /\ Len(put) \in Nat
      /\ DOMAIN put = 1..Len(put)
  BY DEF Moved
<1>2. Clear(text, a, b)
  <2>1. ASSUME NEW i \in DOMAIN text, NEW k \in DOMAIN text, Pair(text, i, k)
        PROVE  k < a \/ b < i
    <3>1. CASE Bounded(text, a, b)
      BY <2>1, <3>1, NeatApart
    <3>2. CASE a = Len(text) + 1
      BY <1>1, <3>2
    <3>3. QED
      BY <3>1, <3>2 DEF BlockRun
  <2>2. QED
    BY <2>1 DEF Clear
<1>3. PairsKept(new, text, a, b, put, d)
  BY <1>2, PairsMoved DEF Neat, BlockPut, Whole
<1>4. ASSUME put = <<>> PROVE NoBlockMarks(new)
  <2>1. ASSUME NEW i \in DOMAIN text, i < a \/ b < i
        PROVE  text[i].mark \notin {"block_begin", "block_end"}
    <3>1. CASE NoBlockMarks(text)
      BY <3>1 DEF NoBlockMarks
    <3>2. CASE Bounded(text, a, b)
      <4>1. ~(i = a) /\ ~(a < i /\ i <= b)
        <5>1. a < b
          BY <3>2 DEF Bounded
        <5>2. QED
          BY <1>1, <2>1, <5>1
      <4>2. QED
        BY <3>2, <4>1 DEF Bounded
    <3>3. QED
      BY <3>1, <3>2 DEF BlockRun
  <2>2. \A j \in DOMAIN new : new[j].mark \notin {"block_begin", "block_end"}
    <3>1. DOMAIN put = {}
      BY <1>4
    <3>2. QED
      BY <2>1, <3>1, WhereFrom
  <2>3. QED
    BY <2>2 DEF NoBlockMarks
<1>5. Neat(new)
  <2>1. CASE put = <<>>
    BY <1>3, <1>4, <2>1 DEF Neat, PairsKept
  <2>2. CASE Bounded(put, 1, Len(put))
    <3>1. Bounded(new, a, b + d)
      BY <2>2, BlockInPlace
    <3>2. ~Pair(put, 1, Len(put))
      BY DEF BlockPut, Pair, IsMarker
    <3>3. \A i, k \in DOMAIN new : Pair(new, i, k) => k < a \/ b + d < i
      BY <1>3, <3>2 DEF PairsKept
    <3>4. a \in DOMAIN new /\ b + d \in DOMAIN new
      BY <3>1 DEF Bounded
    <3>5. QED
      BY <1>3, <3>1, <3>3, <3>4 DEF Neat, PairsKept
  <2>3. QED
    BY <2>1, <2>2 DEF BlockPut
<1>6. QED
  BY <1>3, <1>4, <1>5

-----------------------------------------------------------------------------
\* The lines of somebody else.

\* Line j is one of a region, or of the block.
Inside(text, j) ==
    \/ \E i, k \in DOMAIN text : Pair(text, i, k) /\ i <= j /\ j <= k
    \/ \E x, y \in DOMAIN text : Bounded(text, x, y) /\ x <= j /\ j <= y

LEMMA ManagedIs ==
  ASSUME NEW text \in Texts, Neat(text), NEW j \in Int
  PROVE  j \in Managed(text) <=> Inside(text, j)
<1>1. DOMAIN text = 1..Len(text) /\ Len(text) \in Nat /\ DOMAIN text \subseteq Int
  BY DEF Texts
<1>2. Paired(text)
  BY DEF Neat
<1>3. (\E r \in FindManagedRegions(text) : j \in r.start..r.stop)
        <=> \E i, k \in DOMAIN text : Pair(text, i, k) /\ i <= j /\ j <= k
  <2>1. ASSUME NEW r \in FindManagedRegions(text), j \in r.start..r.stop
        PROVE  \E i, k \in DOMAIN text : Pair(text, i, k) /\ i <= j /\ j <= k
    <3>1. PICK i, k \in DOMAIN text : Pair(text, i, k) /\ r = RegionAt(text, i, k)
      BY <1>2, RegionsArePairs
    <3>2. r.start = i /\ r.stop = k
      BY <3>1 DEF RegionAt
    <3>3. QED
      BY <1>1, <2>1, <3>1, <3>2
  <2>2. ASSUME NEW i \in DOMAIN text, NEW k \in DOMAIN text, Pair(text, i, k), i <= j, j <= k
        PROVE  \E r \in FindManagedRegions(text) : j \in r.start..r.stop
    <3>1. RegionAt(text, i, k) \in FindManagedRegions(text)
      BY <1>2, <2>2, RegionsArePairs
    <3>2. RegionAt(text, i, k).start = i /\ RegionAt(text, i, k).stop = k
      BY DEF RegionAt
    <3>3. j \in i..k
      BY <1>1, <2>2
    <3>4. QED
      BY <3>1, <3>2, <3>3
  <2>3. QED
    BY <2>1, <2>2
<1>4. HasBlock(text) /\ j \in BlockBounds(text).start..BlockBounds(text).stop
        <=> \E x, y \in DOMAIN text : Bounded(text, x, y) /\ x <= j /\ j <= y
  <2>1. ASSUME HasBlock(text), j \in BlockBounds(text).start..BlockBounds(text).stop
        PROVE  \E x, y \in DOMAIN text : Bounded(text, x, y) /\ x <= j /\ j <= y
    <3>1. PICK x, y \in DOMAIN text : Bounded(text, x, y)
      BY <2>1, NoBlock DEF Neat
    <3>2. BlockBounds(text).start = x /\ BlockBounds(text).stop = y
      BY <3>1, BlockOf
    <3>3. QED
      BY <1>1, <2>1, <3>1, <3>2
  <2>2. ASSUME NEW x \in DOMAIN text, NEW y \in DOMAIN text, Bounded(text, x, y), x <= j, j <= y
        PROVE  HasBlock(text) /\ j \in BlockBounds(text).start..BlockBounds(text).stop
    <3>1. HasBlock(text) /\ BlockBounds(text).start = x /\ BlockBounds(text).stop = y
      BY <2>2, BlockOf
    <3>2. j \in x..y
      BY <1>1, <2>2
    <3>3. QED
      BY <3>1, <3>2
  <2>3. QED
    BY <2>1, <2>2
<1>5. j \in Managed(text) <=>
        \/ \E r \in FindManagedRegions(text) : j \in r.start..r.stop
        \/ HasBlock(text) /\ j \in BlockBounds(text).start..BlockBounds(text).stop
  BY DEF Managed
<1>6. QED
  BY <1>3, <1>4, <1>5 DEF Inside

(***************************************************************************)
(* Lines a..b were TaskControl's and those in their place are; the others   *)
(* belong to whom they did: then nobody else's lines changed.               *)
(***************************************************************************)
LEMMA OthersKept ==
  ASSUME NEW text \in Texts, NEW put \in Texts, NEW new \in Texts, NEW a, NEW b, NEW d,
         Moved(new, text, a, b, put, d), Readable(text), Readable(new),
         Neat(text), Neat(new),
         \A j \in a..b : Inside(text, j), \A j \in a..b + d : Inside(new, j),
         \A j \in DOMAIN text : j < a => (Inside(text, j) <=> Inside(new, j)),
         \A j \in DOMAIN text : b < j => (Inside(text, j) <=> Inside(new, j + d))
  PROVE  Unmanaged(new) = Unmanaged(text)
<1> DEFINE S == {j \in DOMAIN text : ~Inside(text, j)}
           T == {j \in DOMAIN new : ~Inside(new, j)}
           g == [j \in S |-> IF j < a THEN j ELSE j + d]
           q == InOrder(text, DOMAIN text \ Managed(text))
           r == InOrder(new, DOMAIN new \ Managed(new))
<1>1. /\ a \in Nat /\ b \in Nat /\ d \in Int /\ 1 <= a /\ a <= b + 1
      /\ DOMAIN text = 1..Len(text) /\ DOMAIN new = 1..Len(new)
      /\ Len(text) \in Nat /\ Len(new) \in Nat /\ Len(put) \in Nat
      /\ b + d = a - 1 + Len(put) /\ DOMAIN text \subseteq Int /\ DOMAIN new \subseteq Int
      /\ DOMAIN text \subseteq Nat /\ DOMAIN new \subseteq Nat
  BY DEF Moved
<1>2. DOMAIN text \ Managed(text) = S /\ DOMAIN new \ Managed(new) = T
  BY <1>1, ManagedIs
<1>3. S \in SUBSET Nat /\ T \in SUBSET Nat
      /\ S \subseteq DOMAIN text /\ T \subseteq DOMAIN new
  BY <1>1
<1>4. \A j \in S : j < a \/ b < j
  <2>1. ASSUME NEW j \in S, ~(j < a), ~(b < j) PROVE FALSE
    <3>1. j \in a..b
      BY <1>1, <1>3, <2>1
    <3>2. QED
      BY <3>1
  <2>2. QED
    BY <2>1
<1>5. \A j \in T : j < a \/ b + d < j
  <2>1. ASSUME NEW j \in T, ~(j < a), ~(b + d < j) PROVE FALSE
    <3>1. j \in a..b + d
      BY <1>1, <1>3, <2>1
    <3>2. QED
      BY <3>1
  <2>2. QED
    BY <2>1
<1>6. \A j \in S : /\ g[j] = IF j < a THEN j ELSE j + d
                   /\ g[j] \in T /\ new[g[j]] = text[j]
  <2>1. ASSUME NEW j \in S PROVE g[j] \in T /\ new[g[j]] = text[j]
    <3>1. j \in DOMAIN text /\ ~Inside(text, j) /\ j \in Int
      BY <1>1
    <3>2. CASE j < a
      <4>1. j \in DOMAIN new /\ new[j] = text[j] /\ ~Inside(new, j)
        BY <3>1, <3>2, WhereTo
      <4>2. QED
        BY <3>2, <4>1
    <3>3. CASE ~(j < a)
      <4>1. b < j
        BY <1>4, <3>3
      <4>2. j + d \in DOMAIN new /\ new[j + d] = text[j] /\ ~Inside(new, j + d)
        BY <3>1, <4>1, WhereTo
      <4>3. g[j] = j + d
        BY <3>3
      <4>4. QED
        BY <4>2, <4>3
    <3>4. QED
      BY <3>2, <3>3
  <2>2. \A j \in S : g[j] = IF j < a THEN j ELSE j + d
    OBVIOUS
  <2>3. QED
    BY <2>1, <2>2
<1>7. \A k \in T : \E j \in S : g[j] = k
  <2>1. ASSUME NEW k \in T PROVE \E j \in S : g[j] = k
    <3>1. k \in DOMAIN new /\ ~Inside(new, k) /\ k \in Int
      BY <1>1
    <3>2. CASE k < a
      <4>1. k \in DOMAIN text
        BY <1>1, <3>1, <3>2, WhereFrom
      <4>2. ~Inside(text, k)
        BY <3>1, <3>2, <4>1
      <4>3. k \in S
        BY <4>1, <4>2
      <4>4. QED
        BY <1>6, <3>2, <4>3
    <3>3. CASE ~(k < a)
      <4>1. b + d < k
        BY <1>5, <3>3
      <4>2. k - d \in DOMAIN text /\ b < k - d /\ (k - d) + d = k
        <5>1. ~(k <= b + d)
          BY <1>1, <3>1, <4>1
        <5>2. b < k - d /\ k - d \in DOMAIN text
          BY <3>1, <3>3, <5>1, WhereFrom
        <5>3. (k - d) + d = k
          BY <1>1, <3>1
        <5>4. QED
          BY <5>2, <5>3
      <4>3. ~Inside(text, k - d)
        BY <3>1, <4>2
      <4>4. k - d \in S /\ ~(k - d < a)
        <5>1. ~(k - d < a)
          BY <1>1, <3>1, <4>2
        <5>2. QED
          BY <4>2, <4>3, <5>1
      <4>5. g[k - d] = (k - d) + d
        BY <1>6, <4>4
      <4>6. QED
        BY <4>2, <4>4, <4>5
    <3>4. QED
      BY <3>2, <3>3
  <2>2. QED
    BY <2>1
<1>8. KeepsOrder(g, S, T)
  <2>1. g \in [S -> T]
    <3>1. \A j \in S : (IF j < a THEN j ELSE j + d) \in T
      BY <1>6
    <3> HIDE DEF S, T
    <3>2. QED
      BY <3>1
  <2>2. ASSUME NEW i \in S, NEW j \in S, i < j PROVE g[i] < g[j]
    <3>1. /\ g[i] = IF i < a THEN i ELSE i + d
          /\ g[j] = IF j < a THEN j ELSE j + d
      BY <1>6
    <3>2. (i < a \/ b < i) /\ (j < a \/ b < j) /\ i \in Int /\ j \in Int
      BY <1>1, <1>3, <1>4
    <3> HIDE DEF g, S, T
    <3>3. QED
      BY <1>1, <2>2, <3>1, <3>2
  <2> HIDE DEF g, S, T
  <2>3. QED
    BY <1>7, <2>1, <2>2 DEF KeepsOrder
<1> HIDE DEF S, T, g
<1>9. InOrderOf(q, S) /\ InOrderOf(r, T)
  <2>1. (1..Len(text)) \cap S = S /\ (1..Len(new)) \cap T = T
    BY <1>1, <1>3
  <2>2. InOrderOf(InOrder(text, S), (1..Len(text)) \cap S)
    BY InOrderFacts
  <2>3. InOrderOf(InOrder(new, T), (1..Len(new)) \cap T)
    BY InOrderFacts
  <2>4. QED
    BY <1>2, <2>1, <2>2, <2>3
<1> HIDE DEF q, r
<1>10. DOMAIN q = DOMAIN r /\ \A n \in DOMAIN q : r[n] = g[q[n]]
  BY <1>3, <1>8, <1>9, SameOrder
<1>11. \A n \in DOMAIN q : q[n] \in S
  BY <1>9 DEF InOrderOf
<1>12. \A n \in DOMAIN q : new[r[n]] = text[q[n]]
  BY <1>6, <1>10, <1>11
<1>13. /\ Unmanaged(text) = [n \in DOMAIN q |-> text[q[n]]]
       /\ Unmanaged(new) = [n \in DOMAIN r |-> new[r[n]]]
  BY DEF Unmanaged, q, r
<1>14. QED
  BY <1>10, <1>12, <1>13

\* Lines i..k are a region, or the block.
Span(text, i, k) == Pair(text, i, k) \/ Bounded(text, i, k)

LEMMA SpanFacts ==
  ASSUME NEW text \in Texts
  PROVE  /\ \A i, k : Span(text, i, k) =>
               i \in DOMAIN text /\ k \in DOMAIN text /\ i \in Nat /\ k \in Nat /\ i < k
         /\ \A j : Inside(text, j) <=> \E i, k : Span(text, i, k) /\ i <= j /\ j <= k
<1>1. DOMAIN text \subseteq Nat
  BY DEF Texts
<1>2. \A i, k : Span(text, i, k) =>
          i \in DOMAIN text /\ k \in DOMAIN text /\ i \in Nat /\ k \in Nat /\ i < k
  BY <1>1 DEF Span, Pair, Bounded
<1>3. QED
  BY <1>2 DEF Span, Inside

LEMMA SpansKept ==
  ASSUME NEW text \in Texts, NEW put \in Texts, NEW new \in Texts, NEW a, NEW b, NEW d,
         Moved(new, text, a, b, put, d), Readable(text), Readable(new),
         Neat(text), Neat(new),
         \A i, k : Span(text, i, k) =>
            \/ k < a /\ Span(new, i, k)
            \/ b < i /\ Span(new, i + d, k + d)
            \/ i = a /\ k = b,
         \A i, k : Span(new, i, k) =>
            \/ k < a /\ Span(text, i, k)
            \/ b + d < i /\ Span(text, i - d, k - d)
            \/ i = a /\ k = b + d,
         a = b + 1 \/ Span(text, a, b), a = b + d + 1 \/ Span(new, a, b + d)
  PROVE  Unmanaged(new) = Unmanaged(text)
<1>1. /\ a \in Nat /\ b \in Nat /\ d \in Int /\ 1 <= a /\ a <= b + 1
      /\ Len(put) \in Nat /\ b + d = a - 1 + Len(put)
      /\ DOMAIN text \subseteq Int /\ DOMAIN new \subseteq Int
  BY DEF Moved
<1>2. \A j \in a..b : Inside(text, j)
  <2>1. CASE a = b + 1
    BY <1>1, <2>1
  <2>2. CASE Span(text, a, b)
    BY <1>1, <2>2, SpanFacts
  <2>3. QED
    BY <2>1, <2>2
<1>3. \A j \in a..b + d : Inside(new, j)
  <2>1. CASE a = b + d + 1
    BY <1>1, <2>1
  <2>2. CASE Span(new, a, b + d)
    <3>1. PICK c : c = b + d
      OBVIOUS
    <3>2. c \in Int
      BY <1>1, <3>1
    <3>3. \A j \in a..c : a <= j /\ j <= c
      BY <1>1, <3>2
    <3>4. QED
      BY <2>2, <3>1, <3>3, SpanFacts
  <2>3. QED
    BY <2>1, <2>2
<1>4. ASSUME NEW j \in DOMAIN text, j < a PROVE Inside(text, j) <=> Inside(new, j)
  <2>1. ASSUME Inside(text, j) PROVE Inside(new, j)
    <3>1. PICK i, k : Span(text, i, k) /\ i <= j /\ j <= k
      BY <2>1, SpanFacts
    <3>2. i \in Int /\ ~(b < i) /\ i # a
      BY <1>1, <1>4, <3>1, SpanFacts
    <3>3. Span(new, i, k)
      BY <3>1, <3>2
    <3>4. QED
      BY <3>1, <3>3, SpanFacts
  <2>2. ASSUME Inside(new, j) PROVE Inside(text, j)
    <3>1. PICK i, k : Span(new, i, k) /\ i <= j /\ j <= k
      BY <2>2, SpanFacts
    <3>2. i \in Int
      BY <3>1, SpanFacts
    <3>3. ~(b + d < i) /\ i # a
      BY <1>1, <1>4, <3>1, <3>2
    <3>4. Span(text, i, k)
      BY <3>1, <3>3
    <3>5. QED
      BY <3>1, <3>4, SpanFacts
  <2>3. QED
    BY <2>1, <2>2
<1>5. ASSUME NEW j \in DOMAIN text, b < j PROVE Inside(text, j) <=> Inside(new, j + d)
  <2>1. ASSUME Inside(text, j) PROVE Inside(new, j + d)
    <3>1. PICK i, k : Span(text, i, k) /\ i <= j /\ j <= k
      BY <2>1, SpanFacts
    <3>2. i \in Int /\ k \in Int
      BY <3>1, SpanFacts
    <3>3. ~(k < a) /\ k # b
      BY <1>1, <1>5, <3>1, <3>2
    <3>4. Span(new, i + d, k + d)
      BY <3>1, <3>3
    <3>5. i + d <= j + d /\ j + d <= k + d
      BY <1>1, <3>1, <3>2
    <3>6. QED
      BY <3>4, <3>5, SpanFacts
  <2>2. ASSUME Inside(new, j + d) PROVE Inside(text, j)
    <3>1. PICK i, k : Span(new, i, k) /\ i <= j + d /\ j + d <= k
      BY <2>2, SpanFacts
    <3>2. i \in Int /\ k \in Int
      BY <3>1, SpanFacts
    <3>3. ~(k < a) /\ k # b + d
      BY <1>1, <1>5, <3>1, <3>2
    <3>4. Span(text, i - d, k - d)
      BY <3>1, <3>3
    <3>5. i - d <= j /\ j <= k - d
      BY <1>1, <3>1, <3>2
    <3>6. QED
      BY <3>4, <3>5, SpanFacts
  <2>3. QED
    BY <2>1, <2>2
<1>6. QED
  BY <1>2, <1>3, <1>4, <1>5, OthersKept

(***************************************************************************)
(* Putting, replacing or removing a region leaves the lines of others.      *)
(***************************************************************************)
LEMMA RegionOthers ==
  ASSUME NEW text \in Texts, NEW put \in Texts, NEW new \in Texts, NEW a, NEW b, NEW d,
         Moved(new, text, a, b, put, d), Neat(text), RegionRun(text, a, b), RegionPut(put),
         Readable(text), Readable(new)
  PROVE  Unmanaged(new) = Unmanaged(text)
<1>1. /\ a \in Nat /\ b \in Nat /\ d \in Int /\ 1 <= a /\ a <= b + 1
      /\ DOMAIN text = 1..Len(text) /\ Len(text) \in Nat /\ Len(put) \in Nat
      /\ DOMAIN text \subseteq Int /\ DOMAIN new \subseteq Int
      /\ b + d = a - 1 + Len(put)
  BY DEF Moved
<1>2. Neat(new) /\ PairsKept(new, text, a, b, put, d) /\ BlockKept(new, text, a, b, d)
  BY RegionSpliced
<1>3. ASSUME NEW i, NEW k, Pair(text, i, k)
      PROVE  k < a \/ b < i \/ (i = a /\ k = b)
  <2>1. CASE a = Len(text) + 1
    BY <1>1, <1>3, <2>1 DEF Pair
  <2>2. CASE Pair(text, a, b)
    BY <1>3, <2>2, PairsApart
  <2>3. QED
    BY <2>1, <2>2 DEF RegionRun
<1>4. ASSUME NEW i, NEW k, Span(text, i, k)
      PROVE  \/ k < a /\ Span(new, i, k)
             \/ b < i /\ Span(new, i + d, k + d)
             \/ i = a /\ k = b
  <2>1. CASE Pair(text, i, k)
    <3>1. i \in DOMAIN text /\ k \in DOMAIN text
      BY <2>1 DEF Pair
    <3>2. QED
      BY <1>2, <1>3, <2>1, <3>1 DEF PairsKept, Span
  <2>2. CASE Bounded(text, i, k)
    <3>1. i \in DOMAIN text /\ k \in DOMAIN text /\ i + 0 = i /\ k + 0 = k
      BY <1>1, <2>2 DEF Bounded
    <3>2. \E e \in {0, d} : ((k < a /\ e = 0) \/ (b < i /\ e = d)) /\ Bounded(new, i + e, k + e)
      BY <1>2, <2>2, <3>1 DEF BlockKept
    <3>3. QED
      BY <3>1, <3>2 DEF Span
  <2>3. QED
    BY <1>4, <2>1, <2>2 DEF Span
<1>5. ASSUME NEW i, NEW k, Span(new, i, k)
      PROVE  \/ k < a /\ Span(text, i, k)
             \/ b + d < i /\ Span(text, i - d, k - d)
             \/ i = a /\ k = b + d
  <2>1. CASE Pair(new, i, k)
    <3>1. i \in DOMAIN new /\ k \in DOMAIN new
      BY <2>1 DEF Pair
    <3>2. QED
      BY <1>2, <2>1, <3>1 DEF PairsKept, Span
  <2>2. CASE Bounded(new, i, k)
    <3>1. ~NoBlockMarks(new)
      BY <2>2 DEF Bounded, NoBlockMarks
    <3>2. PICK x, y \in DOMAIN text : Bounded(text, x, y)
      BY <1>2, <3>1 DEF Neat, BlockKept
    <3>3. PICK e \in {0, d} : ((y < a /\ e = 0) \/ (b < x /\ e = d)) /\ Bounded(new, x + e, y + e)
      BY <1>2, <3>2 DEF BlockKept
    <3>4. i = x + e /\ k = y + e
      BY <1>1, <2>2, <3>3, OneBlock
    <3>5. x \in Int /\ y \in Int
      BY <1>1
    <3>6. CASE y < a /\ e = 0
      BY <3>2, <3>4, <3>5, <3>6 DEF Span
    <3>7. CASE b < x /\ e = d
      <4>1. b + d < i /\ i - d = x /\ k - d = y
        BY <1>1, <3>4, <3>5, <3>7
      <4>2. QED
        BY <3>2, <4>1 DEF Span
    <3>8. QED
      BY <3>3, <3>6, <3>7
  <2>3. QED
    BY <1>5, <2>1, <2>2 DEF Span
<1>6. a = b + 1 \/ Span(text, a, b)
  BY DEF RegionRun, Span
<1>7. a = b + d + 1 \/ Span(new, a, b + d)
  <2>1. CASE put = <<>>
    BY <1>1, <2>1
  <2>2. CASE Pair(put, 1, Len(put))
    BY <1>2, <2>2 DEF PairsKept, Span
  <2>3. QED
    BY <2>1, <2>2 DEF RegionPut
<1>8. QED
  BY <1>2, <1>4, <1>5, <1>6, <1>7, SpansKept

(***************************************************************************)
(* And so does putting, replacing or removing the block.                    *)
(***************************************************************************)
LEMMA BlockOthers ==
  ASSUME NEW text \in Texts, NEW put \in Texts, NEW new \in Texts, NEW a, NEW b, NEW d,
         Moved(new, text, a, b, put, d), Neat(text), BlockRun(text, a, b), BlockPut(put),
         Readable(text), Readable(new)
  PROVE  Unmanaged(new) = Unmanaged(text)
<1>1. /\ a \in Nat /\ b \in Nat /\ d \in Int /\ 1 <= a /\ a <= b + 1
      /\ DOMAIN text = 1..Len(text) /\ Len(text) \in Nat /\ Len(put) \in Nat
      /\ DOMAIN text \subseteq Int /\ DOMAIN new \subseteq Int
      /\ b + d = a - 1 + Len(put)
  BY DEF Moved
<1>2. /\ Neat(new) /\ PairsKept(new, text, a, b, put, d)
      /\ put = <<>> => NoBlockMarks(new)
      /\ Bounded(put, 1, Len(put)) => Bounded(new, a, b + d)
  BY BlockSpliced, BlockInPlace
<1>3. ~Pair(put, 1, Len(put))
  BY DEF BlockPut, Pair, IsMarker
<1>4. ASSUME NEW i, NEW k, Span(text, i, k)
      PROVE  \/ k < a /\ Span(new, i, k)
             \/ b < i /\ Span(new, i + d, k + d)
             \/ i = a /\ k = b
  <2>1. CASE Pair(text, i, k)
    <3>1. i \in DOMAIN text /\ k \in DOMAIN text
      BY <2>1 DEF Pair
    <3>2. k < a \/ b < i
      <4>1. CASE Bounded(text, a, b)
        BY <2>1, <3>1, <4>1, NeatApart
      <4>2. CASE a = Len(text) + 1
        BY <1>1, <3>1, <4>2
      <4>3. QED
        BY <4>1, <4>2 DEF BlockRun
    <3>3. QED
      BY <1>2, <2>1, <3>1, <3>2 DEF PairsKept, Span
  <2>2. CASE Bounded(text, i, k)
    <3>1. Bounded(text, a, b)
      BY <2>2 DEF BlockRun, Bounded, NoBlockMarks
    <3>2. QED
      BY <1>1, <2>2, <3>1, OneBlock
  <2>3. QED
    BY <1>4, <2>1, <2>2 DEF Span
<1>5. ASSUME NEW i, NEW k, Span(new, i, k)
      PROVE  \/ k < a /\ Span(text, i, k)
             \/ b + d < i /\ Span(text, i - d, k - d)
             \/ i = a /\ k = b + d
  <2>1. CASE Pair(new, i, k)
    <3>1. i \in DOMAIN new /\ k \in DOMAIN new
      BY <2>1 DEF Pair
    <3>2. QED
      BY <1>2, <2>1, <3>1 DEF PairsKept, Span
  <2>2. CASE Bounded(new, i, k)
    <3>1. Bounded(new, a, b + d)
      BY <1>2, <2>2 DEF BlockPut, Bounded, NoBlockMarks
    <3>2. QED
      BY <1>1, <2>2, <3>1, OneBlock
  <2>3. QED
    BY <1>5, <2>1, <2>2 DEF Span
<1>6. a = b + 1 \/ Span(text, a, b)
  BY DEF BlockRun, Span
<1>7. a = b + d + 1 \/ Span(new, a, b + d)
  <2>1. CASE put = <<>>
    BY <1>1, <2>1
  <2>2. CASE Bounded(put, 1, Len(put))
    BY <1>2, <2>2 DEF Span
  <2>3. QED
    BY <2>1, <2>2 DEF BlockPut
<1>8. QED
  BY <1>2, <1>4, <1>5, <1>6, <1>7, SpansKept

-----------------------------------------------------------------------------
\* The pieces of a text and of what is made of it.

\* The pieces of the new text, but for came, are those of the old one, but for
\* gone, in their order, and they say what they said.
Succeed(f, new, pieces, came, text, olds, gone) ==
    /\ f \in [olds \ gone -> pieces \ came]
    /\ \A r \in pieces \ came : \E q \in olds \ gone : f[q] = r
    /\ \A q \in olds \ gone :
          /\ f[q].slug = q.slug /\ f[q].task = q.task
          /\ Piece(new, f[q]) = Piece(text, q)
    /\ \A q, o \in olds \ gone : q.start < o.start => f[q].start < f[o].start

Shifted(q, e) ==
    [slug |-> q.slug, task |-> q.task, start |-> q.start + e, stop |-> q.stop + e]

\* The pieces that begin on lines a..b.
On(pieces, a, b) == {r \in pieces : a <= r.start /\ r.start <= b}

LEMMA MovedLines ==
  ASSUME NEW text \in Texts, NEW put, NEW new \in Texts, NEW a, NEW b, NEW d,
         Moved(new, text, a, b, put, d)
  PROVE  SameLines(new, text, 1, a - 1, 0) /\ SameLines(new, text, b + 1, Len(text), d)
<1>1. /\ a \in Nat /\ b \in Nat /\ d \in Int /\ 1 <= a /\ a <= b + 1 /\ b <= Len(text)
      /\ DOMAIN text = 1..Len(text) /\ Len(text) \in Nat
  BY DEF Moved
<1>2. \A i \in 1..a - 1 : i \in DOMAIN text /\ i < a /\ i + 0 = i
  BY <1>1
<1>3. \A i \in b + 1..Len(text) : i \in DOMAIN text /\ b < i
  BY <1>1
<1>4. QED
  BY SMTT(60), <1>1, <1>2, <1>3, WhereTo DEF SameLines

(***************************************************************************)
(* What becomes of the regions.                                             *)
(***************************************************************************)
LEMMA RegionsSucceed ==
  ASSUME NEW text \in Texts, NEW put, NEW new \in Texts, NEW a, NEW b, NEW d,
         Moved(new, text, a, b, put, d), Paired(text), Clear(text, a, b),
         PairsKept(new, text, a, b, put, d)
  PROVE  \E f : Succeed(f, new, FindManagedRegions(new),
                        On(FindManagedRegions(new), a, b + d),
                        text, FindManagedRegions(text),
                        On(FindManagedRegions(text), a, b))
<1> DEFINE R == FindManagedRegions(text)
           N == FindManagedRegions(new)
           gone == On(R, a, b)
           came == On(N, a, b + d)
           f == [q \in R \ gone |-> IF q.start < a THEN q ELSE Shifted(q, d)]
<1>1. /\ a \in Nat /\ b \in Nat /\ d \in Int /\ 1 <= a /\ a <= b + 1 /\ b <= Len(text)
      /\ DOMAIN text \subseteq Int /\ DOMAIN new \subseteq Int
      /\ DOMAIN text = 1..Len(text) /\ Len(text) \in Nat
      /\ b + d \in Int /\ b + d >= a - 1
  BY DEF Moved
<1>2. SameLines(new, text, 1, a - 1, 0) /\ SameLines(new, text, b + 1, Len(text), d)
  BY MovedLines
<1>3. ASSUME NEW q \in R \ gone
      PROVE  /\ q.start \in Int /\ (q.start < a \/ b < q.start)
             /\ f[q] = IF q.start < a THEN q ELSE Shifted(q, d)
             /\ f[q] \in N \ came
             /\ f[q].slug = q.slug /\ f[q].task = q.task
             /\ Piece(new, f[q]) = Piece(text, q)
  <2>0. f[q] = IF q.start < a THEN q ELSE Shifted(q, d)
    OBVIOUS
  <2>1. q \in FindManagedRegions(text) /\ ~(a <= q.start /\ q.start <= b)
    BY DEF On
  <2>2. PICK i, k \in DOMAIN text : Pair(text, i, k) /\ q = RegionAt(text, i, k)
    BY <2>1, RegionsArePairs
  <2>3. q.start = i /\ q.stop = k /\ q.slug = text[i].slug /\ q.task = text[i].task /\ i < k
        /\ i \in Int /\ k \in Int
    BY <1>1, <2>2 DEF RegionAt, Pair
  <2>4. k < a \/ b < i
    BY <1>1, <2>1, <2>2, <2>3 DEF Clear
  <2> HIDE DEF f
  <2>5. CASE k < a
    <3>1. Pair(new, i, k)
      BY <1>2, <2>2, <2>5 DEF PairsKept
    <3>2. i \in DOMAIN new /\ k \in DOMAIN new /\ new[i] = text[i] /\ i < a
      BY <1>1, <2>3, <2>5, <3>1, WhereTo DEF Pair
    <3>3. RegionAt(new, i, k) = q
      BY <2>2, <3>2 DEF RegionAt
    <3>4. q \in N
      BY <3>1, <3>2, <3>3, RegionsArePairs DEF PairsKept
    <3>5. q \notin came
      BY <1>1, <2>3, <3>2 DEF On
    <3>6. Extract(new, i, k) = Extract(text, i, k)
      <4>1. 1 <= i /\ k <= a - 1 /\ i = i + 0 /\ k = k + 0
        BY <1>1, <2>2, <2>3, <2>5
      <4>2. QED
        BY <1>2, <2>3, <4>1, SamePiece
    <3>7. Piece(new, q) = Piece(text, q)
      BY <2>3, <3>6 DEF Piece, Extract
    <3>8. f[q] = q
      BY <2>0, <2>3, <3>2
    <3>9. QED
      BY <2>0, <2>3, <3>2, <3>4, <3>5, <3>7, <3>8
  <2>6. CASE b < i
    <3>1. Pair(new, i + d, k + d)
      BY <1>2, <2>2, <2>6 DEF PairsKept
    <3>2. i + d \in DOMAIN new /\ k + d \in DOMAIN new /\ new[i + d] = text[i] /\ ~(i < a)
      BY <1>1, <2>3, <2>6, <3>1, WhereTo DEF Pair
    <3>3. RegionAt(new, i + d, k + d) = Shifted(q, d)
      BY <2>3, <3>2 DEF RegionAt, Shifted
    <3>4. Shifted(q, d) \in N
      BY <3>1, <3>2, <3>3, RegionsArePairs DEF PairsKept
    <3>5. Shifted(q, d).start = i + d /\ Shifted(q, d).stop = k + d
          /\ Shifted(q, d).slug = q.slug /\ Shifted(q, d).task = q.task
      BY <2>3 DEF Shifted
    <3>6. Shifted(q, d) \notin came
      BY <1>1, <2>3, <2>6, <3>5 DEF On
    <3>7. Extract(new, i + d, k + d) = Extract(text, i, k)
      <4>1. b + 1 <= i /\ k <= Len(text) /\ b + 1 \in Int /\ Len(text) \in Int
        BY <1>1, <2>2, <2>3, <2>6
      <4>2. PICK m, n, u, v : m = b + 1 /\ n = Len(text) /\ u = i + d /\ v = k + d
        OBVIOUS
      <4>3. SameLines(new, text, m, n, d) /\ m <= i /\ k <= n
        BY <1>2, <4>1, <4>2
      <4>4. Extract(new, u, v) = Extract(text, i, k)
        BY <2>3, <4>2, <4>3, SamePiece
      <4>5. QED
        BY <4>2, <4>4
    <3>8. Piece(new, Shifted(q, d)) = Piece(text, q)
      BY <2>3, <3>5, <3>7 DEF Piece, Extract
    <3>9. f[q] = Shifted(q, d)
      BY <2>0, <2>3, <3>2
    <3>10. QED
      BY <2>0, <2>3, <2>6, <3>4, <3>5, <3>6, <3>8, <3>9
  <2>7. QED
    BY <2>4, <2>5, <2>6
<1>4. ASSUME NEW r \in N \ came PROVE \E q \in R \ gone : f[q] = r
  <2>1. r \in FindManagedRegions(new) /\ ~(a <= r.start /\ r.start <= b + d)
    BY DEF On
  <2>2. PICK i, k \in DOMAIN new : Pair(new, i, k) /\ r = RegionAt(new, i, k)
    BY <2>1, RegionsArePairs DEF PairsKept
  <2>3. r.start = i /\ r.stop = k /\ i < k /\ i \in Int /\ k \in Int
    BY <1>1, <2>2 DEF RegionAt, Pair
  <2>4. \/ k < a /\ Pair(text, i, k)
        \/ b + d < i /\ Pair(text, i - d, k - d)
    <3>1. ~(i = a /\ k = b + d)
      BY <1>1, <2>1, <2>3
    <3>2. QED
      BY <2>2, <3>1 DEF PairsKept
  <2>5. CASE k < a /\ Pair(text, i, k)
    <3>1. RegionAt(text, i, k) \in R /\ i \in DOMAIN text /\ k \in DOMAIN text
      BY <2>5, RegionsArePairs DEF Pair
    <3>2. i < a /\ new[i] = text[i]
      BY <1>1, <2>3, <2>5, <3>1, WhereTo
    <3>3. RegionAt(text, i, k) = r
      BY <2>2, <3>2 DEF RegionAt
    <3>4. r \in R \ gone
      BY <1>1, <2>3, <3>1, <3>2, <3>3 DEF On
    <3>5. f[r] = IF r.start < a THEN r ELSE Shifted(r, d)
      BY <1>3, <3>4
    <3>6. f[r] = r
      BY <2>3, <3>2, <3>5
    <3>7. QED
      BY <3>4, <3>6
  <2>6. CASE b + d < i /\ Pair(text, i - d, k - d)
    <3>0. PICK q : q = RegionAt(text, i - d, k - d)
      OBVIOUS
    <3>1. q \in R /\ i - d \in DOMAIN text /\ k - d \in DOMAIN text
      BY <2>6, <3>0, RegionsArePairs DEF Pair
    <3>2. /\ b < i - d /\ (i - d) + d = i /\ (k - d) + d = k
          /\ ~(i - d < a)
      BY <1>1, <2>3, <2>6
    <3>3. new[i] = text[i - d]
      <4>1. new[(i - d) + d] = text[i - d]
        BY <3>1, <3>2, WhereTo
      <4>2. QED
        BY <3>2, <4>1
    <3>4. q.start = i - d /\ q.stop = k - d /\ q.slug = r.slug /\ q.task = r.task
      BY <2>2, <3>0, <3>3 DEF RegionAt
    <3>5. Shifted(q, d) = r
      BY <2>2, <3>2, <3>3, <3>4 DEF Shifted, RegionAt
    <3>6. q \in R \ gone
      <4>1. ~(i - d <= b)
        BY <1>1, <2>3, <3>2
      <4>2. QED
        BY <3>1, <3>4, <4>1 DEF On
    <3>7. f[q] = IF q.start < a THEN q ELSE Shifted(q, d)
      BY <1>3, <3>6
    <3>8. f[q] = r
      BY <3>2, <3>4, <3>5, <3>7
    <3>9. QED
      BY <3>6, <3>8
  <2>7. QED
    BY <2>4, <2>5, <2>6
<1>5. ASSUME NEW q \in R \ gone, NEW o \in R \ gone, q.start < o.start
      PROVE  f[q].start < f[o].start
  <2>1. /\ f[q] = IF q.start < a THEN q ELSE Shifted(q, d)
        /\ f[o] = IF o.start < a THEN o ELSE Shifted(o, d)
        /\ q.start \in Int /\ (q.start < a \/ b < q.start)
        /\ o.start \in Int /\ (o.start < a \/ b < o.start)
    BY <1>3
  <2>2. Shifted(q, d).start = q.start + d /\ Shifted(o, d).start = o.start + d
    BY DEF Shifted
  <2> HIDE DEF f, R, gone
  <2>3. /\ f[q].start = IF q.start < a THEN q.start ELSE q.start + d
        /\ f[o].start = IF o.start < a THEN o.start ELSE o.start + d
    BY <2>1, <2>2
  <2>4. PICK x, y, u, v : x = q.start /\ y = o.start /\ u = f[q].start /\ v = f[o].start
    OBVIOUS
  <2>5. u < v
    <3>1. /\ u = (IF x < a THEN x ELSE x + d) /\ v = (IF y < a THEN y ELSE y + d)
          /\ x \in Int /\ y \in Int /\ x < y /\ (x < a \/ b < x) /\ (y < a \/ b < y)
      BY <1>5, <2>1, <2>3, <2>4
    <3>2. QED
      BY <1>1, <3>1
  <2>6. QED
    BY <2>4, <2>5
<1>6. f \in [R \ gone -> N \ came]
  <2>1. \A q \in R \ gone : f[q] \in N \ came
    BY <1>3
  <2>2. f = [q \in R \ gone |-> f[q]]
    OBVIOUS
  <2> HIDE DEF f, R, N, gone, came
  <2>3. QED
    BY <2>1, <2>2
<1> HIDE DEF f
<1>7. Succeed(f, new, N, came, text, R, gone)
  BY <1>3, <1>4, <1>5, <1>6 DEF Succeed
<1>8. QED
  BY <1>7

\* What becomes of the members where the block is kept.
LEMMA MembersSucceed ==
  ASSUME NEW text \in Texts, NEW new \in Texts, NEW a, NEW b, NEW d \in Int,
         Neat(text), BlockKept(new, text, a, b, d)
  PROVE  \E f : Succeed(f, new, FindBlockMembers(new), {}, text, FindBlockMembers(text), {})
<1> DEFINE M == FindBlockMembers(text)
           N == FindBlockMembers(new)
<1>0. DOMAIN text \subseteq Int /\ DOMAIN new \subseteq Int
  BY DEF Texts
<1>1. CASE NoBlockMarks(text)
  <2>1. M = {} /\ N = {}
    BY <1>1, NoBlock DEF BlockKept
  <2>2. PICK f : f \in [{} -> {}]
    <3>1. [x \in {} |-> x] \in [{} -> {}]
      OBVIOUS
    <3>2. QED
      BY <3>1
  <2>3. Succeed(f, new, {}, {}, text, {}, {})
    BY <2>2 DEF Succeed
  <2>4. QED
    BY <2>1, <2>3
<1>2. CASE ~NoBlockMarks(text)
  <2>1. PICK x, y \in DOMAIN text : Bounded(text, x, y)
    BY <1>2 DEF Neat
  <2>2. PICK e \in {0, d} : Bounded(new, x + e, y + e) /\ SameLines(new, text, x, y, e)
    BY <2>1 DEF BlockKept
  <2>2a. e \in Int /\ x \in Int /\ y \in Int
    BY <1>0
  <2> DEFINE f == [q \in M |-> Shifted(q, e)]
  <2>3. ASSUME NEW q \in M
        PROVE  /\ f[q] = Shifted(q, e) /\ q.start \in Int
               /\ f[q] \in N /\ f[q].slug = q.slug /\ f[q].task = q.task
               /\ f[q].start = q.start + e
               /\ Piece(new, f[q]) = Piece(text, q)
    <3>0. f[q] = Shifted(q, e)
      OBVIOUS
    <3>1. PICK i, k \in DOMAIN text : Member(text, x, y, i, k) /\ q = RegionAt(text, i, k)
      BY <2>1, MembersAre
    <3>2. i \in Int /\ k \in Int /\ x <= i /\ k <= y /\ x < i /\ i < y
      BY <1>0, <3>1 DEF Member
    <3>3. Member(new, x + e, y + e, i + e, k + e)
      BY <2>2, <3>1, <3>2, SameMembers
    <3>4. RegionAt(new, i + e, k + e) \in N
      BY <2>2, <3>3, MembersAre
    <3>5. i \in x..y
      BY <2>2a, <3>2
    <3>6. new[i + e] = text[i]
      BY <2>2, <3>5 DEF SameLines
    <3>7. /\ q.start = i /\ q.stop = k /\ q.slug = text[i].slug /\ q.task = text[i].task
          /\ Shifted(q, e).start = q.start + e /\ Shifted(q, e).stop = q.stop + e
          /\ Shifted(q, e).slug = q.slug /\ Shifted(q, e).task = q.task
      BY <3>1 DEF RegionAt, Shifted
    <3>8. RegionAt(new, i + e, k + e) = Shifted(q, e)
      BY <3>6, <3>7 DEF RegionAt, Shifted
    <3>9. Extract(new, i + e, k + e) = Extract(text, i, k)
      <4>1. SameLines(new, text, x, y, e) /\ x <= i /\ k <= y /\ i \in Int /\ k \in Int
        BY <2>2, <3>2
      <4>2. PICK u, v : u = i + e /\ v = k + e
        OBVIOUS
      <4>3. Extract(new, u, v) = Extract(text, i, k)
        BY <4>1, <4>2, SamePiece
      <4>4. QED
        BY <4>2, <4>3
    <3>10. Piece(new, Shifted(q, e)) = Piece(text, q)
      BY <3>7, <3>9 DEF Piece, Extract
    <3> HIDE DEF f
    <3>11. QED
      BY <3>0, <3>2, <3>4, <3>7, <3>8, <3>10
  <2>4. ASSUME NEW r \in N PROVE \E q \in M : f[q] = r
    <3>1. PICK i, k \in DOMAIN new : Member(new, x + e, y + e, i, k) /\ r = RegionAt(new, i, k)
      BY <2>2, MembersAre
    <3>2. /\ i \in Int /\ k \in Int /\ (i - e) + e = i /\ (k - e) + e = k
          /\ i - e \in Int /\ k - e \in Int
      BY <1>0, <2>2a, <3>1
    <3>2a. Member(new, x + e, y + e, (i - e) + e, (k - e) + e)
      BY <3>1, <3>2
    <3>3. Member(text, x, y, i - e, k - e)
      BY <2>2, <3>2, <3>2a, SameMembers
    <3>4. PICK q : q = RegionAt(text, i - e, k - e)
      OBVIOUS
    <3>5. q \in M
      BY <2>1, <3>3, <3>4, MembersAre
    <3>6. i - e \in x..y
      BY <2>2a, <3>2, <3>3 DEF Member
    <3>7. new[i] = text[i - e]
      <4>1. new[(i - e) + e] = text[i - e]
        BY <2>2, <3>6 DEF SameLines
      <4>2. QED
        BY <3>2, <4>1
    <3>8. Shifted(q, e) = r
      BY <3>1, <3>2, <3>4, <3>7 DEF Shifted, RegionAt
    <3>9. QED
      BY <2>3, <3>5, <3>8
  <2>5. ASSUME NEW q \in M, NEW o \in M, q.start < o.start PROVE f[q].start < f[o].start
    <3>1. /\ f[q].start = q.start + e /\ f[o].start = o.start + e
          /\ q.start \in Int /\ o.start \in Int
      BY <2>3
    <3> HIDE DEF f, M
    <3>2. QED
      BY <2>2a, <2>5, <3>1
  <2>6. f \in [M -> N]
    <3>1. \A q \in M : f[q] \in N
      BY <2>3
    <3> HIDE DEF M, N
    <3>2. QED
      BY <3>1
  <2> HIDE DEF f
  <2>7. M \ {} = M /\ N \ {} = N
    OBVIOUS
  <2>8. Succeed(f, new, N, {}, text, M, {})
    BY <2>3, <2>4, <2>5, <2>6, <2>7 DEF Succeed
  <2>9. QED
    BY <2>8
<1>3. QED
  BY <1>1, <1>2

-----------------------------------------------------------------------------
\* A block that is written anew.

\* The mark of a member, then lines that mark nothing else.
EntryLike(e) ==
    /\ e \in Texts /\ e # <<>> /\ e[1].mark = "member"
    /\ \A i \in DOMAIN e :
          /\ ~IsMarker(e[i]) /\ e[i].mark # "block_begin"
          /\ i # 1 => e[i].mark # "member"

LEMMA MemberOnce ==
  ASSUME NEW text, NEW x, NEW y \in Int, NEW i, NEW k, NEW l,
         Member(text, x, y, i, k), Member(text, x, y, i, l)
  PROVE  k = l
<1>1. /\ i \in Int /\ k \in Int /\ l \in Int /\ i <= k /\ i <= l /\ k < y /\ l < y
      /\ \A j \in i + 1..k : text[j].mark # "member"
      /\ \A j \in i + 1..l : text[j].mark # "member"
      /\ k + 1 = y \/ text[k + 1].mark = "member"
      /\ l + 1 = y \/ text[l + 1].mark = "member"
  BY DEF Member
<1>2. ~(k < l)
  <2>1. SUFFICES ASSUME k < l PROVE FALSE
    OBVIOUS
  <2>2. k + 1 \in i + 1..l /\ k + 1 # y
    BY <1>1, <2>1
  <2>3. QED
    BY <1>1, <2>2
<1>3. ~(l < k)
  <2>1. SUFFICES ASSUME l < k PROVE FALSE
    OBVIOUS
  <2>2. l + 1 \in i + 1..k /\ l + 1 # y
    BY <1>1, <2>1
  <2>3. QED
    BY <1>1, <2>2
<1>4. QED
  BY <1>1, <1>2, <1>3

\* The lines of a block around all.
LEMMA BlockLines ==
  ASSUME NEW all \in Texts, NEW put, put = <<BlockBegin, Notice>> \o all \o <<BlockEnd>>
  PROVE  /\ put \in Texts /\ Len(put) = Len(all) + 3 /\ DOMAIN put = 1..Len(all) + 3
         /\ put[1] = BlockBegin /\ put[2] = Notice /\ put[Len(all) + 3] = BlockEnd
         /\ \A i \in 1..Len(all) : put[i + 2] = all[i]
<1> DEFINE front == <<BlockBegin, Notice>>
           back == <<BlockEnd>>
<1>1. /\ front \in Seq(Lines) /\ Len(front) = 2 /\ front[1] = BlockBegin /\ front[2] = Notice
      /\ back \in Seq(Lines) /\ Len(back) = 1 /\ back[1] = BlockEnd
  BY MarkerTypes
<1>2. all \in Seq(Lines) /\ Len(all) \in Nat
  BY DEF Texts
<1> HIDE DEF front, back
<1>3. PICK most : most = front \o all
  OBVIOUS
<1>4. most \in Seq(Lines) /\ Joins(most, front, all)
  BY <1>1, <1>2, <1>3, Joined
<1>5. put = most \o back
  BY <1>3 DEF front, back
<1>6. put \in Seq(Lines) /\ Joins(put, most, back)
  BY <1>1, <1>4, <1>5, Joined
<1>7. /\ Len(most) = Len(all) + 2 /\ Len(put) = Len(all) + 3
      /\ \A i \in 1..2 : most[i] = front[i]
      /\ \A i \in 3..Len(most) : most[i] = all[i - 2]
      /\ \A i \in 1..Len(most) : put[i] = most[i]
      /\ \A i \in Len(most) + 1..Len(put) : put[i] = back[i - Len(most)]
  BY <1>1, <1>2, <1>4, <1>6 DEF Joins
<1>8. /\ 1 \in 1..2 /\ 2 \in 1..2 /\ 1 \in 1..Len(most) /\ 2 \in 1..Len(most)
      /\ Len(all) + 3 \in Len(most) + 1..Len(put) /\ Len(all) + 3 - Len(most) = 1
  BY <1>2, <1>7
<1>9. put[1] = BlockBegin /\ put[2] = Notice /\ put[Len(all) + 3] = BlockEnd
  <2>1. put[1] = most[1] /\ most[1] = front[1] /\ put[2] = most[2] /\ most[2] = front[2]
    BY <1>7, <1>8
  <2>2. put[Len(all) + 3] = back[1]
    BY <1>7, <1>8
  <2>3. QED
    BY <1>1, <2>1, <2>2
<1>10. ASSUME NEW i \in 1..Len(all) PROVE put[i + 2] = all[i]
  <2>1. i + 2 \in 3..Len(most) /\ i + 2 \in 1..Len(most) /\ (i + 2) - 2 = i
    BY <1>2, <1>7
  <2>2. put[i + 2] = most[i + 2] /\ most[i + 2] = all[(i + 2) - 2]
    BY <1>7, <2>1
  <2>3. QED
    BY <2>1, <2>2
<1>11. put \in Texts /\ DOMAIN put = 1..Len(put)
  BY <1>6 DEF Texts
<1>12. QED
  BY <1>7, <1>9, <1>10, <1>11

\* Entry n of the block that put is begins on line at[n].
Heads(at, put, entries) ==
    /\ at \in [1..Len(entries) + 1 -> Nat]
    /\ \A n \in 1..Len(entries) :
          /\ Member(put, 1, Len(put), at[n], at[n + 1] - 1)
          /\ put[at[n]] = entries[n][1]
          /\ Extract(put, at[n], at[n + 1] - 1) = entries[n]
    /\ \A m, n \in 1..Len(entries) : m < n => at[m] < at[n]
    /\ \A i, k : Member(put, 1, Len(put), i, k) =>
          \E n \in 1..Len(entries) : i = at[n] /\ k = at[n + 1] - 1

(***************************************************************************)
(* A block can be read back: its members are the entries, in their order.   *)
(***************************************************************************)
LEMMA BlockShape ==
  ASSUME NEW entries \in Seq(Texts), \A n \in DOMAIN entries : EntryLike(entries[n]),
         NEW put, put = Block(entries)
  PROVE  /\ put \in Texts /\ BlockPut(put) /\ Bounded(put, 1, Len(put))
         /\ \E at : Heads(at, put, entries)
<1> DEFINE N == Len(entries)
<1>1. PICK all : all = FlattenSeq(entries)
  OBVIOUS
<1>2. entries \in Seq(Seq(Lines)) /\ N \in Nat /\ DOMAIN entries = 1..N
      /\ \A n \in 1..N : entries[n] \in Seq(Lines) /\ Len(entries[n]) \in Nat
                         /\ DOMAIN entries[n] = 1..Len(entries[n])
  BY DEF Texts
<1>3. all \in Texts
  BY <1>1, <1>2, FlattenFacts DEF Texts
<1>4. PICK o \in [1..N + 1 -> Nat] : Places(o, all, entries)
  <2>1. \E o \in [1..Len(entries) + 1 -> Nat] : Places(o, FlattenSeq(entries), entries)
    BY <1>2, FlattenPlaces
  <2>2. QED
    BY <1>1, <2>1
<1>5. PICK L \in Nat : L = Len(all)
  BY <1>3 DEF Texts
<1>6. /\ put \in Texts /\ Len(put) = L + 3 /\ DOMAIN put = 1..L + 3
      /\ put[1] = BlockBegin /\ put[2] = Notice /\ put[L + 3] = BlockEnd
      /\ \A i \in 1..L : put[i + 2] = all[i]
  <2>1. put = <<BlockBegin, Notice>> \o all \o <<BlockEnd>>
    BY <1>1 DEF Block
  <2>2. QED
    BY <1>3, <1>5, <2>1, BlockLines
<1>7. /\ \A n \in 1..N + 1 : o[n] \in Nat /\ o[n] <= L
      /\ \A n \in 1..N : /\ o[n + 1] = o[n] + Len(entries[n])
                         /\ \A j \in 1..Len(entries[n]) : all[o[n] + j] = entries[n][j]
      /\ \A m, n \in 1..N + 1 : m <= n => o[m] <= o[n]
      /\ \A k \in 1..L : \E n \in 1..N : o[n] < k /\ k <= o[n + 1]
      /\ o[N + 1] = L
  <2>1. /\ o[N + 1] = L
        /\ \A m, n \in 1..N + 1 : m <= n => o[m] <= o[n]
        /\ \A n \in 1..N : /\ o[n + 1] = o[n] + Len(entries[n])
                           /\ \A j \in 1..Len(entries[n]) : all[o[n] + j] = entries[n][j]
        /\ \A k \in 1..L : \E n \in 1..N : o[n] < k /\ k <= o[n + 1]
    BY <1>4, <1>5 DEF Places
  <2>2. ASSUME NEW n \in 1..N + 1 PROVE o[n] \in Nat /\ o[n] <= L
    <3>1. N + 1 \in 1..N + 1 /\ n <= N + 1
      BY <1>2
    <3>2. QED
      BY <1>4, <2>1, <3>1
  <2>3. QED
    BY <2>1, <2>2
<1> HIDE DEF N
<1>8. \A n \in 1..N : n \in 1..N + 1 /\ n + 1 \in 1..N + 1
  BY <1>2
<1>9. \A n \in 1..N : /\ EntryLike(entries[n]) /\ Len(entries[n]) >= 1
                      /\ 1 \in 1..Len(entries[n]) /\ entries[n][1].mark = "member"
  <2>1. ASSUME NEW n \in 1..N PROVE Len(entries[n]) >= 1
    <3>1. EntryLike(entries[n]) /\ entries[n] # <<>> /\ entries[n] \in Seq(Lines)
      BY <1>2 DEF EntryLike
    <3>2. PICK e : e = entries[n]
      OBVIOUS
    <3>3. e \in Seq(Lines) /\ e # <<>>
      BY <3>1, <3>2
    <3>4. Len(e) >= 1
      BY <3>3
    <3>5. QED
      BY <3>2, <3>4
  <2>2. \A n \in 1..N : EntryLike(entries[n])
    BY <1>2
  <2>3. QED
    BY <1>2, <2>1, <2>2 DEF EntryLike
<1>10. ASSUME NEW n \in 1..N, NEW j \in 1..Len(entries[n])
       PROVE  /\ o[n] + j \in 1..L /\ (o[n] + j) + 2 \in 1..L + 3
              /\ put[(o[n] + j) + 2] = entries[n][j]
  <2>1. o[n] \in Nat /\ o[n + 1] \in Nat /\ o[n + 1] <= L /\ o[n + 1] = o[n] + Len(entries[n])
    BY <1>7, <1>8
  <2>2. PICK x, y, z : x = o[n] /\ y = o[n + 1] /\ z = Len(entries[n])
    OBVIOUS
  <2>3. x \in Nat /\ y <= L /\ y = x + z /\ z \in Nat /\ j \in 1..z
    BY <1>2, <2>1, <2>2
  <2>4. x + j \in 1..L /\ (x + j) + 2 \in 1..L + 3
    BY <2>3
  <2>5. all[x + j] = entries[n][j] /\ put[(x + j) + 2] = all[x + j]
    BY <1>6, <1>7, <2>2, <2>4
  <2>6. QED
    BY <2>2, <2>4, <2>5
\* Every line of the block.
<1>11. ASSUME NEW i \in 1..L + 3
       PROVE  \/ i = 1 \/ i = 2 \/ i = L + 3
              \/ \E n \in 1..N : \E j \in 1..Len(entries[n]) :
                    i = (o[n] + j) + 2 /\ put[i] = entries[n][j]
  <2>1. SUFFICES ASSUME i # 1, i # 2, i # L + 3
                 PROVE  \E n \in 1..N : \E j \in 1..Len(entries[n]) :
                           i = (o[n] + j) + 2 /\ put[i] = entries[n][j]
    OBVIOUS
  <2>2. i - 2 \in 1..L
    BY <2>1
  <2>3. PICK n \in 1..N : o[n] < i - 2 /\ i - 2 <= o[n + 1]
    BY <1>7, <2>2
  <2>4. o[n] \in Nat /\ o[n + 1] = o[n] + Len(entries[n]) /\ Len(entries[n]) \in Nat
    BY <1>2, <1>7, <1>8
  <2>5. PICK x, z : x = o[n] /\ z = Len(entries[n])
    OBVIOUS
  <2>6. x \in Nat /\ z \in Nat /\ x < i - 2 /\ i - 2 <= x + z
    BY <2>3, <2>4, <2>5
  <2>7. i - 2 - x \in 1..z /\ (x + (i - 2 - x)) + 2 = i
    BY <2>6
  <2>8. PICK j : j = i - 2 - x
    OBVIOUS
  <2>9. j \in 1..Len(entries[n]) /\ i = (o[n] + j) + 2
    BY <2>5, <2>7, <2>8
  <2>10. QED
    BY <1>10, <2>9
<1>12. /\ BlockBegin.mark = "block_begin" /\ Notice.mark = "notice"
       /\ BlockEnd.mark = "block_end"
  BY MarkerTypes
<1>13. ASSUME NEW i \in 1..L + 3
       PROVE  /\ ~IsMarker(put[i])
              /\ put[i].mark = "block_begin" <=> i = 1
              /\ put[i].mark = "block_end" => 1 < i /\ i <= L + 3
  <2>1. CASE i = 1
    BY <1>6, <1>12, <2>1 DEF IsMarker
  <2>2. CASE i = 2
    BY <1>6, <1>12, <2>2 DEF IsMarker
  <2>3. CASE i = L + 3
    BY <1>6, <1>12, <2>3 DEF IsMarker
  <2>4. ASSUME i # 1, i # 2, i # L + 3
        PROVE  ~IsMarker(put[i]) /\ put[i].mark # "block_begin"
    <3>1. PICK n \in 1..N : \E j \in 1..Len(entries[n]) :
              i = (o[n] + j) + 2 /\ put[i] = entries[n][j]
      BY <1>11, <2>4
    <3>2. PICK j \in 1..Len(entries[n]) : put[i] = entries[n][j]
      BY <3>1
    <3>3. QED
      BY <1>2, <1>9, <3>2 DEF EntryLike
  <2>5. QED
    BY <2>1, <2>2, <2>3, <2>4
<1>14. Bounded(put, 1, Len(put)) /\ BlockPut(put)
  BY <1>6, <1>12, <1>13 DEF Bounded, BlockPut
<1> DEFINE at == [n \in 1..N + 1 |-> o[n] + 3]
<1>15. ASSUME NEW n \in 1..N
       PROVE  /\ at[n] = o[n] + 3 /\ at[n + 1] - 1 = (o[n] + Len(entries[n])) + 2
              /\ at[n] \in Nat /\ at[n + 1] - 1 \in Int /\ o[n] \in Nat
              /\ o[n] + Len(entries[n]) <= L
  <2>1. at[n] = o[n] + 3 /\ at[n + 1] = o[n + 1] + 3
    BY <1>8
  <2>2. /\ o[n] \in Nat /\ o[n + 1] = o[n] + Len(entries[n]) /\ Len(entries[n]) \in Nat
        /\ o[n + 1] <= L
    BY <1>2, <1>7, <1>8
  <2> HIDE DEF at
  <2>3. QED
    BY <2>1, <2>2
<1>16. ASSUME NEW n \in 1..N
       PROVE  /\ Member(put, 1, Len(put), at[n], at[n + 1] - 1)
              /\ put[at[n]] = entries[n][1]
              /\ Extract(put, at[n], at[n + 1] - 1) = entries[n]
  <2>1. PICK i, k, x, z : i = at[n] /\ k = at[n + 1] - 1 /\ x = o[n] /\ z = Len(entries[n])
    OBVIOUS
  <2>2. /\ i = x + 3 /\ k = (x + z) + 2 /\ x \in Nat /\ z \in Nat /\ z >= 1
        /\ x + z <= L
    BY <1>2, <1>9, <1>15, <2>1
  <2>2a. /\ i \in Int /\ k \in Int /\ 1 < i /\ i <= k /\ k < L + 3
         /\ (x + 1) + 2 = i
    BY <2>2
  <2>3. \A j \in 1..z : put[(x + j) + 2] = entries[n][j]
    BY <1>10, <2>1
  <2>4. put[i] = entries[n][1] /\ put[i].mark = "member"
    BY <1>9, <2>1, <2>2a, <2>3
  <2>5. ASSUME NEW j \in i + 1..k PROVE put[j].mark # "member"
    <3>1. j - 2 - x \in 1..z /\ j - 2 - x # 1 /\ (x + (j - 2 - x)) + 2 = j
      BY <2>2
    <3>2. put[j] = entries[n][j - 2 - x]
      BY <2>3, <3>1
    <3>3. QED
      BY <1>2, <1>9, <2>1, <3>1, <3>2 DEF EntryLike
  <2>6. k + 1 = L + 3 \/ put[k + 1].mark = "member"
    <3>1. CASE n = N
      <4>1. o[N + 1] = L /\ o[n + 1] = o[n] + Len(entries[n])
        BY <1>7
      <4>2. x + z = L
        BY <2>1, <3>1, <4>1
      <4>3. QED
        BY <2>2, <4>2
    <3>2. CASE n # N
      <4>1. n + 1 \in 1..N
        BY <1>2, <3>2
      <4>2. put[(o[n + 1] + 1) + 2] = entries[n + 1][1] /\ entries[n + 1][1].mark = "member"
        BY <1>9, <1>10, <4>1
      <4>3. (o[n + 1] + 1) + 2 = k + 1
        <5>1. o[n + 1] = x + z
          BY <1>7, <2>1
        <5>2. ((x + z) + 1) + 2 = k + 1
          BY <2>2
        <5>3. QED
          BY <5>1, <5>2
      <4>4. QED
        BY <4>2, <4>3
    <3>3. QED
      BY <3>1, <3>2
  <2>7. Member(put, 1, Len(put), i, k)
    BY <1>6, <2>2a, <2>4, <2>5, <2>6 DEF Member
  <2>8. Extract(put, i, k) = entries[n]
    <3>1. PICK e : e = entries[n]
      OBVIOUS
    <3>2. e \in Seq(Lines) /\ Len(e) = z
      BY <1>2, <2>1, <3>1
    <3>3. ASSUME NEW j \in 1..z PROVE put[i + j - 1] = e[j]
      <4>1. i + j - 1 = (x + j) + 2
        BY <2>2
      <4>2. QED
        BY <2>3, <3>1, <4>1
    <3>4. 1 + k - i = z
      BY <2>2
    <3>5. SubSeq(put, i, k) = [j \in 1..(1 + k - i) |-> put[i + j - 1]]
      BY <2>2a
    <3>6. e = [j \in 1..z |-> e[j]]
      BY <3>2
    <3>7. SubSeq(put, i, k) = e
      BY <3>3, <3>4, <3>5, <3>6
    <3>8. QED
      BY <3>1, <3>7 DEF Extract
  <2> HIDE DEF at
  <2>9. QED
    BY <2>1, <2>4, <2>7, <2>8
<1>17. ASSUME NEW m \in 1..N, NEW n \in 1..N, m < n PROVE at[m] < at[n]
  <2>1. m + 1 \in 1..N + 1 /\ m + 1 <= n
    BY <1>2, <1>17
  <2>2. o[m + 1] <= o[n] /\ o[m + 1] = o[m] + Len(entries[m])
    BY <1>7, <1>8, <2>1
  <2>3. /\ at[m] = o[m] + 3 /\ at[n] = o[n] + 3 /\ o[m] \in Nat /\ o[n] \in Nat
        /\ Len(entries[m]) \in Nat /\ Len(entries[m]) >= 1
    BY <1>2, <1>9, <1>15
  <2> HIDE DEF at
  <2>4. PICK x, y, z : x = o[m] /\ y = o[n] /\ z = Len(entries[m])
    OBVIOUS
  <2>5. x \in Nat /\ y \in Nat /\ z \in Nat /\ z >= 1 /\ x + z <= y
    BY <2>2, <2>3, <2>4
  <2>6. x + 3 < y + 3
    BY <2>5
  <2>7. QED
    BY <2>3, <2>4, <2>6
<1>18. ASSUME NEW i, NEW k, Member(put, 1, Len(put), i, k)
       PROVE  \E n \in 1..N : i = at[n] /\ k = at[n + 1] - 1
  <2>1. i \in Int /\ k \in Int /\ 1 < i /\ i <= k /\ k < L + 3 /\ put[i].mark = "member"
    BY <1>6, <1>18 DEF Member
  <2>2. i # 2
    BY <1>6, <1>12, <2>1
  <2>3. i \in 1..L + 3 /\ i # 1 /\ i # L + 3
    BY <2>1
  <2>4. PICK n \in 1..N : \E j \in 1..Len(entries[n]) :
            i = (o[n] + j) + 2 /\ put[i] = entries[n][j]
    BY <1>11, <2>2, <2>3
  <2>5. PICK j \in 1..Len(entries[n]) : i = (o[n] + j) + 2 /\ put[i] = entries[n][j]
    BY <2>4
  <2>6. j = 1
    BY <1>2, <1>9, <2>1, <2>5 DEF EntryLike
  <2>7. at[n] = o[n] + 3 /\ o[n] \in Nat
    BY <1>15
  <2> HIDE DEF at
  <2>8. i = at[n]
    BY <2>5, <2>6, <2>7
  <2>9. Member(put, 1, Len(put), i, at[n + 1] - 1)
    BY <1>16, <2>8
  <2>10. Len(put) \in Int
    BY <1>6
  <2>11. k = at[n + 1] - 1
    BY <1>18, <2>9, <2>10, MemberOnce
  <2>12. QED
    BY <2>8, <2>11
<1>19. at \in [1..N + 1 -> Nat]
  <2>1. \A n \in 1..N + 1 : o[n] + 3 \in Nat
    BY <1>7
  <2>2. QED
    BY <2>1
<1> HIDE DEF at
<1>20. Heads(at, put, entries)
  BY <1>16, <1>17, <1>18, <1>19 DEF Heads, N
<1>21. QED
  BY <1>6, <1>14, <1>20

\* order lists the pieces in S by where they start.
Listing(order, S) ==
    /\ order \in Seq(S)
    /\ \A m, n \in DOMAIN order : m < n => order[m].start < order[n].start
    /\ \A r \in S : \E n \in DOMAIN order : order[n] = r

\* What a member looks like, in a neat text.
LEMMA MemberLines ==
  ASSUME NEW text \in Texts, Neat(text), NEW m \in FindBlockMembers(text)
  PROVE  /\ m.start \in 1..Len(text) /\ m.stop \in 1..Len(text) /\ m.start <= m.stop
         /\ text[m.start].mark = "member"
         /\ m.slug = text[m.start].slug /\ m.task = text[m.start].task
         /\ \A j \in m.start..m.stop :
               /\ ~IsMarker(text[j]) /\ text[j].mark # "block_begin"
               /\ j # m.start => text[j].mark # "member"
         /\ \A n \in FindBlockMembers(text) : n.start = m.start => n = m
<1>1. DOMAIN text = 1..Len(text) /\ Len(text) \in Nat
  BY DEF Texts
<1>2. PICK x, y \in DOMAIN text : Bounded(text, x, y)
  BY NoBlock DEF Neat
<1>3. PICK i, k \in DOMAIN text : Member(text, x, y, i, k) /\ m = RegionAt(text, i, k)
  BY <1>2, MembersAre
<1>4. /\ m.start = i /\ m.stop = k /\ m.slug = text[i].slug /\ m.task = text[i].task
      /\ i <= k /\ text[i].mark = "member" /\ x < i /\ k < y
      /\ i \in Int /\ k \in Int /\ x \in Int /\ y \in Int
      /\ \A j \in i + 1..k : text[j].mark # "member"
  BY <1>1, <1>3 DEF RegionAt, Member
<1>5. ASSUME NEW j \in i..k
      PROVE  /\ ~IsMarker(text[j]) /\ text[j].mark # "block_begin"
             /\ j # i => text[j].mark # "member"
  <2>1. j \in DOMAIN text /\ x < j /\ j < y /\ j # x
    BY <1>1, <1>4
  <2>2. text[j].mark # "block_begin"
    BY <1>2, <2>1 DEF Bounded
  <2>3. j # i => text[j].mark # "member"
    <3>1. j # i => j \in i + 1..k
      BY <1>4
    <3>2. QED
      BY <1>4, <3>1
  <2>4. text[j].mark # "begin"
    <3>1. ASSUME text[j].mark = "begin" PROVE FALSE
      <4>1. PICK l \in DOMAIN text : Pair(text, j, l)
        BY <2>1, <3>1 DEF Neat, Paired
      <4>2. l < x \/ y < j
        BY <1>2, <2>1, <4>1, NeatApart
      <4>3. j < l /\ l \in Int
        BY <1>1, <4>1 DEF Pair
      <4>4. QED
        BY <1>1, <1>4, <2>1, <4>2, <4>3
    <3>2. QED
      BY <3>1
  <2>5. text[j].mark # "end"
    <3>1. ASSUME text[j].mark = "end" PROVE FALSE
      <4>1. PICK l \in DOMAIN text : Pair(text, l, j)
        BY <2>1, <3>1 DEF Neat, Paired
      <4>2. j < x \/ y < l
        BY <1>2, <2>1, <4>1, NeatApart
      <4>3. l < j /\ l \in Int
        BY <1>1, <4>1 DEF Pair
      <4>4. QED
        BY <1>1, <1>4, <2>1, <4>2, <4>3
    <3>2. QED
      BY <3>1
  <2>6. QED
    BY <2>2, <2>3, <2>4, <2>5 DEF IsMarker
<1>6. ASSUME NEW n \in FindBlockMembers(text), n.start = i PROVE n = m
  <2>1. PICK j, l \in DOMAIN text : Member(text, x, y, j, l) /\ n = RegionAt(text, j, l)
    BY <1>2, MembersAre
  <2>2. j = i
    BY <1>6, <2>1 DEF RegionAt
  <2>3. l = k
    BY <1>3, <1>4, <2>1, <2>2, MemberOnce
  <2>4. QED
    BY <1>3, <2>1, <2>2, <2>3
<1>7. QED
  BY <1>1, <1>4, <1>5, <1>6

LEMMA MemberPiece ==
  ASSUME NEW text \in Texts, Neat(text), NEW m \in FindBlockMembers(text)
  PROVE  /\ EntryLike(Piece(text, m)) /\ Piece(text, m) \in Texts
         /\ Piece(text, m)[1] = text[m.start]
         /\ Piece(text, m)[1].slug = m.slug /\ Piece(text, m)[1].task = m.task
         /\ Head(Piece(text, m)) = Piece(text, m)[1]
<1>1. PICK i, k : i = m.start /\ k = m.stop
  OBVIOUS
<1>2. /\ i \in 1..Len(text) /\ k \in 1..Len(text) /\ i <= k
      /\ text[i].mark = "member" /\ m.slug = text[i].slug /\ m.task = text[i].task
      /\ \A j \in i..k :
               /\ ~IsMarker(text[j]) /\ text[j].mark # "block_begin"
               /\ j # i => text[j].mark # "member"
  BY <1>1, MemberLines
<1>3. text \in Seq(Lines) /\ Len(text) \in Nat
  BY DEF Texts
<1>4. PICK e : e = SubSeq(text, i, k)
  OBVIOUS
<1>5. /\ e \in Seq(Lines) /\ Len(e) = k - i + 1 /\ DOMAIN e = 1..k - i + 1
      /\ \A j \in 1..k - i + 1 : e[j] = text[i + j - 1]
  BY <1>2, <1>3, <1>4
<1>6. e[1] = text[i] /\ e # <<>> /\ Head(e) = e[1]
  <2>1. 1 \in 1..k - i + 1 /\ i + 1 - 1 = i
    BY <1>2, <1>3
  <2>2. QED
    BY <1>5, <2>1
<1>7. ASSUME NEW j \in DOMAIN e
      PROVE  /\ ~IsMarker(e[j]) /\ e[j].mark # "block_begin"
             /\ j # 1 => e[j].mark # "member"
  <2>1. i + j - 1 \in i..k /\ (j # 1 => i + j - 1 # i)
    BY <1>2, <1>3, <1>5
  <2>2. e[j] = text[i + j - 1]
    BY <1>5
  <2>3. QED
    BY <1>2, <2>1, <2>2
<1>8. Piece(text, m) = e
  BY <1>1, <1>4 DEF Piece
<1>9. EntryLike(e)
  BY <1>2, <1>5, <1>6, <1>7 DEF EntryLike, Texts
<1>10. QED
  BY <1>1, <1>2, <1>6, <1>8, <1>9 DEF EntryLike

(***************************************************************************)
(* Pieces are those of the members, by where they start.                    *)
(***************************************************************************)
LEMMA PiecesListed ==
  ASSUME NEW text \in Texts, Neat(text), NEW members \in SUBSET FindBlockMembers(text)
  PROVE  \E order :
            /\ Listing(order, members)
            /\ Pieces(text, members) \in Seq(Texts)
            /\ DOMAIN Pieces(text, members) = DOMAIN order
            /\ \A n \in DOMAIN order :
                  /\ Pieces(text, members)[n] = Piece(text, order[n])
                  /\ EntryLike(Pieces(text, members)[n])
                  /\ Head(Pieces(text, members)[n]).slug = order[n].slug
                  /\ order[n] \in members
<1> DEFINE S == {m.start : m \in members}
           starts == InOrder(text, S)
           of(n) == CHOOSE m \in members : m.start = starts[n]
           order == [n \in DOMAIN starts |-> of(n)]
           pieces == [n \in DOMAIN starts |-> Piece(text, of(n))]
<1>1. Pieces(text, members) = pieces
  BY DEF Pieces
<1>2. \A m \in members : m \in FindBlockMembers(text) /\ m.start \in 1..Len(text)
  BY MemberLines
<1>3. InOrderOf(starts, S)
  <2>1. InOrderOf(starts, (1..Len(text)) \cap S)
    BY InOrderFacts
  <2>2. (1..Len(text)) \cap S = S
    BY <1>2
  <2>3. QED
    BY <2>1, <2>2
<1>4. /\ starts \in Seq(S) /\ \A i, j \in DOMAIN starts : i < j => starts[i] < starts[j]
      /\ \A x \in S : \E n \in DOMAIN starts : starts[n] = x
      /\ DOMAIN starts = 1..Len(starts) /\ Len(starts) \in Nat
      /\ \A n \in DOMAIN starts : starts[n] \in S
  <2> HIDE DEF starts, S
  <2>1. starts \in Seq(S)
    BY <1>3 DEF InOrderOf
  <2>2. QED
    BY <1>3, <2>1 DEF InOrderOf, Increasing
<1>5. ASSUME NEW n \in DOMAIN starts PROVE of(n) \in members /\ of(n).start = starts[n]
  <2>1. \E m \in members : m.start = starts[n]
    BY <1>4
  <2>2. QED
    BY <2>1
<1> HIDE DEF of, starts
<1>6. \A n \in DOMAIN starts : order[n] = of(n) /\ pieces[n] = Piece(text, of(n))
  OBVIOUS
<1>7. DOMAIN order = DOMAIN starts /\ DOMAIN pieces = DOMAIN starts
  OBVIOUS
<1>8. order \in Seq(members)
  <2>1. \A n \in 1..Len(starts) : of(n) \in members
    BY <1>4, <1>5
  <2>2. QED
    BY <1>4, <2>1
<1>9. \A n \in DOMAIN starts : of(n) \in FindBlockMembers(text)
  BY <1>5
<1>10. pieces \in Seq(Texts)
  <2>1. \A n \in 1..Len(starts) : Piece(text, of(n)) \in Texts
    BY <1>4, <1>9, MemberPiece
  <2>2. QED
    BY <1>4, <2>1
<1> HIDE DEF order, pieces
<1>11. Listing(order, members)
  <2>1. ASSUME NEW r \in members PROVE \E n \in DOMAIN order : order[n] = r
    <3>1. r.start \in S
      OBVIOUS
    <3>2. PICK n \in DOMAIN starts : starts[n] = r.start
      BY <1>4, <3>1
    <3>3. of(n) = r
      BY <1>5, <1>9, <3>2, MemberLines
    <3>4. QED
      BY <1>6, <1>7, <3>2, <3>3
  <2>2. \A m, n \in DOMAIN order : m < n => order[m].start < order[n].start
    BY <1>4, <1>5, <1>6, <1>7
  <2>3. QED
    BY <1>8, <2>1, <2>2 DEF Listing
<1>12. ASSUME NEW n \in DOMAIN order
       PROVE  /\ pieces[n] = Piece(text, order[n]) /\ EntryLike(pieces[n])
              /\ Head(pieces[n]).slug = order[n].slug /\ order[n] \in members
  <2>1. order[n] = of(n) /\ pieces[n] = Piece(text, order[n]) /\ order[n] \in members
        /\ order[n] \in FindBlockMembers(text)
    BY <1>5, <1>6, <1>7, <1>9
  <2>2. QED
    BY <2>1, MemberPiece
<1>13. QED
  BY <1>1, <1>7, <1>10, <1>11, <1>12

-----------------------------------------------------------------------------
\* The members of a block that was written anew.

\* place[n] is entry n in the new text.
Placed(place, new, entries) ==
    /\ place \in [DOMAIN entries -> FindBlockMembers(new)]
    /\ \A n \in DOMAIN entries :
          /\ place[n].slug = entries[n][1].slug /\ place[n].task = entries[n][1].task
          /\ Piece(new, place[n]) = entries[n] /\ place[n].start \in Int
    /\ \A m, n \in DOMAIN entries : m < n => place[m].start < place[n].start
    /\ \A r \in FindBlockMembers(new) : \E n \in DOMAIN entries : place[n] = r

LEMMA NewMembers ==
  ASSUME NEW new \in Texts, NEW entries \in Seq(Texts),
         \A n \in DOMAIN entries : EntryLike(entries[n]),
         NEW put, put = Block(entries), NEW a \in Int, NEW c, Bounded(new, a, c),
         c = Len(put) + (a - 1), SameLines(new, put, 1, Len(put), a - 1)
  PROVE  \E place : Placed(place, new, entries)
<1>1. put \in Texts /\ Bounded(put, 1, Len(put))
  BY BlockShape
<1>2. PICK at : Heads(at, put, entries)
  BY BlockShape
<1>3. PICK N \in Nat : N = Len(entries) /\ DOMAIN entries = 1..N
  OBVIOUS
<1>4. PICK l \in Nat : l = Len(put) /\ DOMAIN put = 1..l
  BY <1>1 DEF Texts
<1>5. PICK e \in Int : e = a - 1
  OBVIOUS
<1>6. Bounded(new, 1 + e, l + e) /\ SameLines(new, put, 1, l, e)
  <2>1. 1 + e = a /\ l + e = c
    BY <1>4, <1>5
  <2>2. QED
    BY <1>4, <1>5, <2>1
<1>7. /\ \A n \in 1..N : /\ at[n] \in Nat /\ at[n + 1] - 1 \in Int
                         /\ Member(put, 1, l, at[n], at[n + 1] - 1)
                         /\ put[at[n]] = entries[n][1]
                         /\ Extract(put, at[n], at[n + 1] - 1) = entries[n]
      /\ \A m, n \in 1..N : m < n => at[m] < at[n]
      /\ \A i, k : Member(put, 1, l, i, k) => \E n \in 1..N : i = at[n] /\ k = at[n + 1] - 1
  <2>1. \A n \in 1..N : n \in 1..N + 1 /\ n + 1 \in 1..N + 1
    OBVIOUS
  <2>2. at \in [1..N + 1 -> Nat]
    BY <1>2, <1>3 DEF Heads
  <2>3. \A n \in 1..N : at[n] \in Nat /\ at[n + 1] - 1 \in Int
    BY <2>1, <2>2
  <2>4. QED
    BY <1>2, <1>3, <1>4, <2>3 DEF Heads
<1> DEFINE first(n) == at[n] + e
           last(n) == (at[n + 1] - 1) + e
           place == [n \in 1..N |-> RegionAt(new, first(n), last(n))]
<1>8. ASSUME NEW n \in 1..N
      PROVE  /\ place[n] = RegionAt(new, first(n), last(n))
             /\ place[n] \in FindBlockMembers(new)
             /\ place[n].start = at[n] + e
             /\ place[n].slug = entries[n][1].slug /\ place[n].task = entries[n][1].task
             /\ Piece(new, place[n]) = entries[n]
  <2>1. place[n] = RegionAt(new, first(n), last(n))
    OBVIOUS
  <2>2. PICK i, k : i = at[n] /\ k = at[n + 1] - 1
    OBVIOUS
  <2>3. /\ i \in Int /\ k \in Int /\ Member(put, 1, l, i, k) /\ put[i] = entries[n][1]
        /\ Extract(put, i, k) = entries[n]
    BY SMTT(60), <1>7, <2>2
  <2>4. Member(new, 1 + e, l + e, i + e, k + e)
    BY <1>6, <2>3, SameMembers
  <2>5. i \in 1..l /\ 1 <= i /\ k <= l
    BY <2>3 DEF Member
  <2>6. new[i + e] = put[i]
    BY <1>6, <2>5 DEF SameLines
  <2>7. RegionAt(new, i + e, k + e) \in FindBlockMembers(new)
    BY <1>6, <2>4, MembersAre
  <2>8. PICK u, v : u = i + e /\ v = k + e
    OBVIOUS
  <2>9. Extract(new, u, v) = Extract(put, i, k)
    <3>1. SameLines(new, put, 1, l, e) /\ i \in Int /\ k \in Int /\ 1 <= i /\ k <= l
      BY <1>6, <2>3, <2>5
    <3>2. QED
      BY <1>1, <2>8, <3>1, SamePiece
  <2>10. first(n) = u /\ last(n) = v
    BY <2>2, <2>8
  <2> HIDE DEF place, first, last
  <2>11. place[n].start = u /\ place[n].stop = v
         /\ place[n].slug = new[u].slug /\ place[n].task = new[u].task
    BY <2>1, <2>10 DEF RegionAt
  <2>12. Piece(new, place[n]) = entries[n]
    BY <2>3, <2>9, <2>11 DEF Piece, Extract
  <2>13. new[u] = entries[n][1]
    BY <2>3, <2>6, <2>8
  <2>14. place[n] \in FindBlockMembers(new)
    BY <2>1, <2>7, <2>8, <2>10
  <2>15. place[n].start = at[n] + e
    BY <2>2, <2>8, <2>11
  <2>16. QED
    BY <2>1, <2>11, <2>12, <2>13, <2>14, <2>15
<1>9. ASSUME NEW r \in FindBlockMembers(new) PROVE \E n \in 1..N : place[n] = r
  <2>1. PICK i, k \in DOMAIN new : Member(new, 1 + e, l + e, i, k) /\ r = RegionAt(new, i, k)
    BY <1>6, MembersAre
  <2>2. /\ i \in Int /\ k \in Int /\ (i - e) + e = i /\ (k - e) + e = k
        /\ i - e \in Int /\ k - e \in Int
    <3>1. i \in Int /\ k \in Int
      BY <2>1 DEF Member
    <3>2. QED
      BY ONLY <3>1, e \in Int
  <2>2a. Member(new, 1 + e, l + e, (i - e) + e, (k - e) + e)
    BY <2>1, <2>2
  <2>3. Member(put, 1, l, i - e, k - e)
    BY <1>6, <2>2, <2>2a, SameMembers
  <2>3a. PICK u, v : u = i - e /\ v = k - e
    OBVIOUS
  <2>3b. Member(put, 1, l, u, v)
    BY <2>3, <2>3a
  <2>3c. PICK n \in 1..N : u = at[n] /\ v = at[n + 1] - 1
    BY <1>7, <2>3b
  <2>4. i - e = at[n] /\ k - e = at[n + 1] - 1
    BY <2>3a, <2>3c
  <2>5. first(n) = i /\ last(n) = k
    <3>1. first(n) = (i - e) + e /\ last(n) = (k - e) + e
      BY <2>4
    <3>2. QED
      BY <2>2, <3>1
  <2>6. place[n] = RegionAt(new, first(n), last(n))
    BY <1>8
  <2> HIDE DEF place, first, last
  <2>7. QED
    BY <2>1, <2>5, <2>6
<1>10. place \in [DOMAIN entries -> FindBlockMembers(new)]
  <2>1. \A n \in 1..N : place[n] \in FindBlockMembers(new)
    BY <1>8
  <2>2. place = [n \in 1..N |-> place[n]]
    OBVIOUS
  <2> HIDE DEF place
  <2>3. QED
    BY <1>3, <2>1, <2>2
<1>11. \A m, n \in 1..N : m < n => place[m].start < place[n].start
  <2>1. ASSUME NEW m \in 1..N, NEW n \in 1..N, m < n PROVE place[m].start < place[n].start
    <3>1. /\ place[m].start = at[m] + e /\ place[n].start = at[n] + e
          /\ at[m] \in Nat /\ at[n] \in Nat /\ at[m] < at[n]
      BY <1>7, <1>8, <2>1
    <3> HIDE DEF place
    <3>2. QED
      BY <3>1
  <2>2. QED
    BY <2>1
<1>12. \A n \in 1..N : place[n].start \in Int
  <2>1. ASSUME NEW n \in 1..N PROVE place[n].start \in Int
    <3>1. PICK i : i = place[n].start
      OBVIOUS
    <3>2. i = at[n] + e /\ at[n] \in Nat
      BY <1>7, <1>8, <3>1
    <3>3. i \in Int
      BY ONLY <3>2, e \in Int
    <3>4. QED
      BY <3>1, <3>3
  <2>2. QED
    BY <2>1
<1> HIDE DEF place
<1>13. Placed(place, new, entries)
  BY <1>3, <1>8, <1>9, <1>10, <1>11, <1>12 DEF Placed
<1>14. QED
  BY <1>13

\* The entries that take no member's place, or that of one that is gone.
Fresh(entries, order, gone) ==
    {n \in DOMAIN entries : n \in DOMAIN order => order[n] \in gone}

Newcomers(place, entries, order, gone) ==
    {place[n] : n \in Fresh(entries, order, gone)}

(***************************************************************************)
(* What becomes of the members where the block is written anew.             *)
(***************************************************************************)
LEMMA MembersPlaced ==
  ASSUME NEW text \in Texts, Neat(text), NEW new, NEW entries, NEW place,
         Placed(place, new, entries),
         NEW order, NEW L \in SUBSET FindBlockMembers(text), Listing(order, L),
         DOMAIN order \subseteq DOMAIN entries, DOMAIN entries \subseteq Int,
         NEW gone, FindBlockMembers(text) \ gone \subseteq L,
         \A n \in DOMAIN order : order[n] \notin gone => entries[n] = Piece(text, order[n])
  PROVE  \E f : Succeed(f, new, FindBlockMembers(new),
                        Newcomers(place, entries, order, gone),
                        text, FindBlockMembers(text), gone)
<1> DEFINE M == FindBlockMembers(text)
           N == FindBlockMembers(new)
           K == Fresh(entries, order, gone)
           came == {place[n] : n \in K}
           of(q) == CHOOSE n \in DOMAIN order : order[n] = q
           f == [q \in M \ gone |-> place[of(q)]]
<1>1. /\ \A n \in DOMAIN entries :
          /\ place[n] \in N /\ place[n].start \in Int
          /\ place[n].slug = entries[n][1].slug /\ place[n].task = entries[n][1].task
          /\ Piece(new, place[n]) = entries[n]
      /\ \A m, n \in DOMAIN entries : m < n => place[m].start < place[n].start
      /\ \A r \in N : \E n \in DOMAIN entries : place[n] = r
  BY DEF Placed
<1>2. /\ \A n \in DOMAIN order : order[n] \in L /\ order[n] \in M
      /\ \A m, n \in DOMAIN order : m < n => order[m].start < order[n].start
      /\ \A r \in L : \E n \in DOMAIN order : order[n] = r
  <2>1. order \in Seq(L)
    BY DEF Listing
  <2>2. \A n \in DOMAIN order : order[n] \in L
    BY <2>1
  <2>3. QED
    BY <2>2 DEF Listing
<1>3. \A n \in DOMAIN order : order[n].start \in Int
  BY <1>2, MemberLines
<1>4. ASSUME NEW q \in M \ gone
      PROVE  of(q) \in DOMAIN order /\ order[of(q)] = q /\ of(q) \in DOMAIN entries
             /\ of(q) \in Int
  <2>1. \E n \in DOMAIN order : order[n] = q
    BY <1>2
  <2>2. of(q) \in DOMAIN order /\ order[of(q)] = q
    BY <2>1
  <2>3. QED
    BY <2>2
<1> HIDE DEF of
<1>5. \A q \in M \ gone : f[q] = place[of(q)]
  OBVIOUS
<1> HIDE DEF f
<1>6. ASSUME NEW m \in DOMAIN entries, NEW n \in DOMAIN entries, place[m] = place[n]
      PROVE  m = n
  <2>1. m \in Int /\ n \in Int /\ ~(m < n) /\ ~(n < m)
    BY <1>1, <1>6
  <2>2. QED
    BY <2>1
<1>7. ASSUME NEW q \in M \ gone
      PROVE  /\ f[q] \in N \ came /\ f[q].slug = q.slug /\ f[q].task = q.task
             /\ Piece(new, f[q]) = Piece(text, q)
  <2>1. PICK n \in DOMAIN entries : n = of(q)
    BY <1>4
  <2>2. n \in DOMAIN order /\ order[n] = q /\ q \notin gone /\ f[q] = place[n]
    BY <1>4, <1>5, <2>1
  <2>3. n \notin K
    BY <2>2 DEF Fresh
  <2>4. place[n] \notin came
    <3>1. K \subseteq DOMAIN entries
      BY DEF Fresh
    <3>2. QED
      BY <1>6, <2>3, <3>1
  <2>5. entries[n] = Piece(text, q)
    BY <2>2
  <2>6. Piece(text, q)[1].slug = q.slug /\ Piece(text, q)[1].task = q.task
    BY MemberPiece
  <2>7. QED
    BY <1>1, <2>2, <2>4, <2>5, <2>6
<1>8. ASSUME NEW r \in N \ came PROVE \E q \in M \ gone : f[q] = r
  <2>1. PICK n \in DOMAIN entries : place[n] = r
    BY <1>1
  <2>2. n \notin K
    BY <2>1
  <2>3. n \in DOMAIN order /\ order[n] \notin gone
    BY <2>2 DEF Fresh
  <2>4. PICK q : q = order[n]
    OBVIOUS
  <2>5. q \in M \ gone
    BY <1>2, <2>3, <2>4
  <2>6. of(q) = n
    <3>1. of(q) \in DOMAIN order /\ order[of(q)] = q /\ of(q) \in Int /\ n \in Int
      BY <1>4, <2>5
    <3>2. ~(of(q) < n) /\ ~(n < of(q))
      BY <1>2, <1>3, <2>3, <2>4, <3>1
    <3>3. QED
      BY <3>1, <3>2
  <2>7. QED
    BY <1>5, <2>1, <2>5, <2>6
<1>9. ASSUME NEW q \in M \ gone, NEW o \in M \ gone, q.start < o.start
      PROVE  f[q].start < f[o].start
  <2>1. PICK m, n : m = of(q) /\ n = of(o)
    OBVIOUS
  <2>2. /\ m \in DOMAIN order /\ n \in DOMAIN order /\ order[m] = q /\ order[n] = o
        /\ m \in DOMAIN entries /\ n \in DOMAIN entries /\ m \in Int /\ n \in Int
        /\ f[q] = place[m] /\ f[o] = place[n]
    BY <1>4, <1>5, <2>1
  <2>3. m # n /\ ~(n < m)
    BY <1>2, <1>3, <1>9, <2>2
  <2>4. m < n
    BY <2>2, <2>3
  <2>5. QED
    BY <1>1, <2>2, <2>4
<1>10. f \in [M \ gone -> N \ came]
  <2>1. f = [q \in M \ gone |-> f[q]]
    BY DEF f
  <2>2. \A q \in M \ gone : f[q] \in N \ came
    BY <1>7
  <2> HIDE DEF M, N, came
  <2>3. QED
    BY <2>1, <2>2
<1>11. Succeed(f, new, N, came, text, M, gone)
  BY <1>7, <1>8, <1>9, <1>10 DEF Succeed
<1>12. QED
  BY <1>11 DEF Newcomers

-----------------------------------------------------------------------------
\* What the pieces of a text say whose they are.

OnePer(pieces) == \A r, q \in pieces : r.task = q.task => r = q
OneOf(pieces) == \A r, q \in pieces : r.slug = q.slug => r = q
\* A piece of one of our tasks is the artefact of that task.
Named(pieces) == \A r \in pieces : r.task \in Slugs => r.slug = r.task
\* r is the first piece of s.
Leading(pieces, s, r) ==
    /\ r \in pieces /\ r.slug = s
    /\ \A q \in pieces : q.slug = s => r.start <= q.start
\* The first piece of s is the artefact of s.
OwnFirst(pieces, s) == \A r : Leading(pieces, s, r) => r.task = s
\* The first piece of s is its artefact, and says c.
Leads(pieces, text, s, c) ==
    \E r : Leading(pieces, s, r) /\ r.task = s /\ Piece(text, r) = c

\* Where a piece starts tells it from the others.
ByStart(pieces) ==
    /\ \A r \in pieces : r.start \in Int
    /\ \A r, q \in pieces : r.start = q.start => r = q

LEMMA StartsTell ==
  ASSUME NEW text \in Texts
  PROVE  /\ ByStart(FindManagedRegions(text))
         /\ Neat(text) => ByStart(FindBlockMembers(text))
<1>1. ASSUME NEW r \in FindManagedRegions(text)
      PROVE  \E i \in DOMAIN text :
                r = [slug |-> text[i].slug, task |-> text[i].task, start |-> i,
                     stop |-> Min(Following(text, i))]
  BY DEF FindManagedRegions, At
<1>2. ByStart(FindManagedRegions(text))
  <2>1. \A r \in FindManagedRegions(text) : r.start \in Int
    BY RegionFacts DEF Texts
  <2>2. ASSUME NEW r \in FindManagedRegions(text), NEW q \in FindManagedRegions(text),
               r.start = q.start
        PROVE  r = q
    <3>1. PICK i \in DOMAIN text :
              r = [slug |-> text[i].slug, task |-> text[i].task, start |-> i,
                   stop |-> Min(Following(text, i))]
      BY <1>1
    <3>2. PICK j \in DOMAIN text :
              q = [slug |-> text[j].slug, task |-> text[j].task, start |-> j,
                   stop |-> Min(Following(text, j))]
      BY <1>1
    <3>3. i = j
      BY <2>2, <3>1, <3>2
    <3>4. QED
      BY <3>1, <3>2, <3>3
  <2>3. QED
    BY <2>1, <2>2 DEF ByStart
<1>3. ASSUME Neat(text) PROVE ByStart(FindBlockMembers(text))
  BY <1>3, MemberLines DEF ByStart
<1>4. QED
  BY <1>2, <1>3

LEMMA OneStays ==
  ASSUME NEW f, NEW new, NEW P, NEW came, NEW text, NEW Q, NEW gone,
         Succeed(f, new, P, came, text, Q, gone), OnePer(Q),
         \A r, q \in came : r = q, \A r \in came : \A q \in Q \ gone : r.task # q.task
  PROVE  OnePer(P)
<1>1. ASSUME NEW r \in P, NEW p \in P, r.task = p.task PROVE r = p
  <2>1. /\ r \in came \/ \E q \in Q \ gone : f[q] = r /\ r.task = q.task
        /\ p \in came \/ \E q \in Q \ gone : f[q] = p /\ p.task = q.task
    BY DEF Succeed
  <2>2. QED
    BY <1>1, <2>1 DEF OnePer
<1>2. QED
  BY <1>1 DEF OnePer

LEMMA OneOfStays ==
  ASSUME NEW f, NEW new, NEW P, NEW came, NEW text, NEW Q, NEW gone,
         Succeed(f, new, P, came, text, Q, gone), OneOf(Q),
         \A r, q \in came : r = q, \A r \in came : \A q \in Q \ gone : r.slug # q.slug
  PROVE  OneOf(P)
<1>1. ASSUME NEW r \in P, NEW p \in P, r.slug = p.slug PROVE r = p
  <2>1. /\ r \in came \/ \E q \in Q \ gone : f[q] = r /\ r.slug = q.slug
        /\ p \in came \/ \E q \in Q \ gone : f[q] = p /\ p.slug = q.slug
    BY DEF Succeed
  <2>2. QED
    BY <1>1, <2>1 DEF OneOf
<1>2. QED
  BY <1>1 DEF OneOf

LEMMA NamesStay ==
  ASSUME NEW f, NEW new, NEW P, NEW came, NEW text, NEW Q, NEW gone,
         Succeed(f, new, P, came, text, Q, gone), Named(Q),
         \A r \in came : r.slug = r.task
  PROVE  Named(P)
<1>1. ASSUME NEW r \in P, r.task \in Slugs PROVE r.slug = r.task
  <2>1. r \in came \/ \E q \in Q \ gone : f[q] = r /\ r.slug = q.slug /\ r.task = q.task
    BY DEF Succeed
  <2>2. QED
    BY <1>1, <2>1 DEF Named
<1>2. QED
  BY <1>1 DEF Named

\* What came and what is gone is of another: the first piece of t is the same.
LEMMA LeadingStays ==
  ASSUME NEW f, NEW new, NEW P, NEW came, NEW text, NEW Q, NEW gone,
         Succeed(f, new, P, came, text, Q, gone), ByStart(P), ByStart(Q),
         NEW t, \A r \in came : r.slug # t, \A q \in gone : q.slug # t
  PROVE  /\ \A q : Leading(Q, t, q) => Leading(P, t, f[q])
         /\ \A r : Leading(P, t, r) => \E q \in Q \ gone : Leading(Q, t, q) /\ f[q] = r
         /\ \A q \in Q \ gone : f[q].task = q.task /\ Piece(new, f[q]) = Piece(text, q)
         /\ \A q : Leading(Q, t, q) => q \in Q \ gone
<1>1. /\ \A q \in Q \ gone : /\ f[q] \in P /\ f[q].slug = q.slug /\ f[q].task = q.task
                             /\ Piece(new, f[q]) = Piece(text, q)
      /\ \A q, o \in Q \ gone : q.start < o.start => f[q].start < f[o].start
      /\ \A r \in P : r.slug = t => \E q \in Q \ gone : f[q] = r /\ q.slug = t
      /\ \A q \in Q : q.slug = t => q \in Q \ gone
  BY DEF Succeed
<1>2. /\ \A r \in P : r.start \in Int
      /\ \A q \in Q : q.start \in Int
      /\ \A r, q \in Q : r.start = q.start => r = q
  BY DEF ByStart
<1>3. ASSUME NEW q, Leading(Q, t, q) PROVE q \in Q \ gone /\ Leading(P, t, f[q])
  <2>1. q \in Q /\ q.slug = t /\ q \in Q \ gone /\ \A o \in Q : o.slug = t => q.start <= o.start
    BY <1>1, <1>3 DEF Leading
  <2>2. ASSUME NEW r \in P, r.slug = t PROVE f[q].start <= r.start
    <3>1. PICK o \in Q \ gone : f[o] = r /\ o.slug = t
      BY <1>1, <2>2
    <3>2. q.start <= o.start /\ o.start \in Int /\ q.start \in Int
      BY <1>2, <2>1, <3>1
    <3>3. CASE q.start = o.start
      <4>1. o = q
        BY <1>2, <2>1, <3>3
      <4>2. r.start \in Int /\ f[q].start = r.start
        BY <1>2, <3>1, <4>1
      <4>3. QED
        BY <4>2
    <3>4. CASE q.start # o.start
      <4>1. q.start < o.start
        BY <3>2, <3>4
      <4>2. f[q].start < r.start /\ f[q] \in P
        BY <1>1, <2>1, <3>1, <4>1
      <4>3. f[q].start \in Int /\ r.start \in Int
        BY <1>2, <4>2
      <4>4. QED
        BY <4>2, <4>3
    <3>5. QED
      BY <3>3, <3>4
  <2>3. QED
    BY <1>1, <2>1, <2>2 DEF Leading
<1>4. ASSUME NEW r, Leading(P, t, r) PROVE \E q \in Q \ gone : Leading(Q, t, q) /\ f[q] = r
  <2>1. r \in P /\ r.slug = t /\ \A o \in P : o.slug = t => r.start <= o.start
    BY <1>4 DEF Leading
  <2>2. PICK q \in Q \ gone : f[q] = r /\ q.slug = t
    BY <1>1, <2>1
  <2>3. ASSUME NEW o \in Q, o.slug = t PROVE q.start <= o.start
    <3>1. o \in Q \ gone /\ f[o] \in P /\ f[o].slug = t
      BY <1>1, <2>3
    <3>2. r.start <= f[o].start /\ r.start \in Int /\ f[o].start \in Int
      BY <1>2, <2>1, <3>1
    <3>3. ~(o.start < q.start)
      <4>1. SUFFICES ASSUME o.start < q.start PROVE FALSE
        OBVIOUS
      <4>2. f[o].start < r.start
        BY <1>1, <2>2, <3>1, <4>1
      <4>3. QED
        BY <3>2, <4>2
    <3>4. QED
      BY <1>2, <2>3, <3>3
  <2>4. QED
    BY <2>2, <2>3 DEF Leading
<1>5. QED
  BY <1>1, <1>3, <1>4

\* What a text holds of t, a changed text still holds, and no more.
KeptOf(new, P, text, Q, t) ==
    /\ OwnFirst(Q, t) => OwnFirst(P, t)
    /\ \A c : Leads(Q, text, t, c) => Leads(P, new, t, c)
    /\ (\E r \in P : r.slug = t) => \E q \in Q : q.slug = t

LEMMA OthersStay ==
  ASSUME NEW f, NEW new, NEW P, NEW came, NEW text, NEW Q, NEW gone,
         Succeed(f, new, P, came, text, Q, gone), ByStart(P), ByStart(Q),
         NEW t, \A r \in came : r.slug # t, \A q \in gone : q.slug # t
  PROVE  KeptOf(new, P, text, Q, t)
<1>1. /\ \A q : Leading(Q, t, q) => Leading(P, t, f[q])
      /\ \A r : Leading(P, t, r) => \E q \in Q \ gone : Leading(Q, t, q) /\ f[q] = r
      /\ \A q \in Q \ gone : f[q].task = q.task /\ Piece(new, f[q]) = Piece(text, q)
      /\ \A q : Leading(Q, t, q) => q \in Q \ gone
  BY LeadingStays
<1>2. OwnFirst(Q, t) => OwnFirst(P, t)
  BY <1>1 DEF OwnFirst
<1>3. ASSUME NEW c, Leads(Q, text, t, c) PROVE Leads(P, new, t, c)
  BY <1>1, <1>3 DEF Leads
<1>4. ASSUME NEW r \in P, r.slug = t PROVE \E q \in Q : q.slug = t
  BY <1>4 DEF Succeed
<1>5. QED
  BY <1>2, <1>3, <1>4 DEF KeptOf

-----------------------------------------------------------------------------
\* A text of which every part is in order.

Sound(text) ==
    /\ Neat(text)
    /\ OnePer(FindManagedRegions(text)) /\ OnePer(FindBlockMembers(text))
    /\ Named(FindManagedRegions(text)) /\ Named(FindBlockMembers(text))
    /\ OneOf(FindBlockMembers(text))

LEMMA OneRegionPer ==
  ASSUME NEW text \in Texts
  PROVE  OneRegionEach(text) <=> OnePer(FindManagedRegions(text))
<1>1. ASSUME OneRegionEach(text), NEW r \in FindManagedRegions(text),
             NEW q \in FindManagedRegions(text), r.task = q.task
      PROVE  r = q
  <2>1. r.start = q.start
    BY <1>1, RegionFacts DEF OneRegionEach
  <2>2. QED
    BY <2>1, StartsTell DEF ByStart
<1>2. ASSUME OnePer(FindManagedRegions(text)), NEW i \in DOMAIN text, NEW j \in DOMAIN text,
             text[i].mark = "begin", text[j].mark = "begin", text[i].task = text[j].task
      PROVE  i = j
  <2>1. PICK r \in FindManagedRegions(text) : r.start = i /\ r.task = text[i].task
    BY <1>2, BeginsARegion
  <2>2. PICK q \in FindManagedRegions(text) : q.start = j /\ q.task = text[j].task
    BY <1>2, BeginsARegion
  <2>3. r = q
    BY <1>2, <2>1, <2>2 DEF OnePer
  <2>4. QED
    BY <2>1, <2>2, <2>3
<1>3. QED
  BY <1>1, <1>2 DEF OneRegionEach, OnePer

LEMMA SoundReads ==
  ASSUME NEW text \in Texts, Sound(text)
  PROVE  Readable(text) /\ Apart(text) /\ RegionsReadable(text) /\ BlockReadable(text)
<1>1. Neat(text) /\ OneRegionEach(text) /\ OneMemberEach(text)
  BY OneRegionPer DEF Sound, OneMemberEach, OnePer
<1>2. QED
  BY <1>1, ReadableMeansNeat DEF Readable

\* What came is the region that was put, and what is gone the one it replaced.
LEMMA RegionChanged ==
  ASSUME NEW text \in Texts, NEW put \in Texts, NEW new \in Texts, NEW a, NEW b, NEW d,
         Moved(new, text, a, b, put, d), Neat(text), RegionRun(text, a, b), RegionPut(put)
  PROVE  /\ Neat(new)
         /\ \E f : Succeed(f, new, FindManagedRegions(new),
                           On(FindManagedRegions(new), a, b + d),
                           text, FindManagedRegions(text),
                           On(FindManagedRegions(text), a, b))
         /\ \E f : Succeed(f, new, FindBlockMembers(new), {}, text, FindBlockMembers(text), {})
         /\ \A r \in On(FindManagedRegions(new), a, b + d) :
               /\ put # <<>> /\ r = RegionAt(new, a, b + d) /\ r.start = a
               /\ r.slug = put[1].slug /\ r.task = put[1].task /\ Piece(new, r) = put
         /\ put # <<>> => RegionAt(new, a, b + d) \in On(FindManagedRegions(new), a, b + d)
         /\ \A q \in On(FindManagedRegions(text), a, b) : q = RegionAt(text, a, b)
         /\ Pair(text, a, b) => RegionAt(text, a, b) \in On(FindManagedRegions(text), a, b)
         /\ \A r \in FindManagedRegions(new) : r.start < a =>
               \E q \in FindManagedRegions(text) : q.start = r.start /\ q.slug = r.slug
<1>1. /\ a \in Nat /\ b \in Nat /\ d \in Int /\ 1 <= a /\ a <= b + 1 /\ b <= Len(text)
      /\ DOMAIN text = 1..Len(text) /\ Len(text) \in Nat
      /\ DOMAIN put = 1..Len(put) /\ Len(put) \in Nat
      /\ DOMAIN text \subseteq Int /\ DOMAIN new \subseteq Int
      /\ b + d = a - 1 + Len(put)
  BY DEF Moved
<1>2. Neat(new) /\ PairsKept(new, text, a, b, put, d) /\ BlockKept(new, text, a, b, d)
  BY RegionSpliced
<1>3. Paired(text) /\ Paired(new)
  BY <1>2 DEF Neat
<1>4. ASSUME NEW i \in DOMAIN text, NEW k \in DOMAIN text, Pair(text, i, k)
      PROVE  k < a \/ b < i \/ (i = a /\ k = b)
  <2>1. CASE a = Len(text) + 1
    BY <1>1, <2>1
  <2>2. CASE Pair(text, a, b)
    BY <1>4, <2>2, PairsApart
  <2>3. QED
    BY <2>1, <2>2 DEF RegionRun
<1>5. Clear(text, a, b)
  BY <1>4 DEF Clear
<1>6. \E f : Succeed(f, new, FindManagedRegions(new),
                     On(FindManagedRegions(new), a, b + d),
                     text, FindManagedRegions(text),
                     On(FindManagedRegions(text), a, b))
  BY <1>2, <1>3, <1>5, RegionsSucceed
<1>7. \E f : Succeed(f, new, FindBlockMembers(new), {}, text, FindBlockMembers(text), {})
  BY <1>1, <1>2, MembersSucceed
<1>8. ASSUME put # <<>>
      PROVE  /\ Pair(put, 1, Len(put)) /\ Pair(new, a, b + d)
             /\ new[a] = put[1] /\ a \in DOMAIN new /\ b + d \in DOMAIN new
             /\ SubSeq(new, a, b + d) = put
             /\ b + d \in Int
  <2>1. Pair(put, 1, Len(put)) /\ Pair(new, a, b + d)
    BY <1>2, <1>8 DEF RegionPut, PairsKept
  <2>2. 1 \in DOMAIN put /\ a - 1 + 1 = a /\ 1 < Len(put)
    BY <1>1, <2>1 DEF Pair
  <2>3. new[a] = put[1]
    <3>1. new[a - 1 + 1] = put[1]
      BY <2>2, WhereTo
    <3>2. QED
      BY <2>2, <3>1
  <2>4. SubSeq(new, a, b + d) = put
    <3>1. PICK c \in Int : c = b + d
      BY <1>1
    <3>2. 1 + c - a = Len(put)
      BY <1>1, <3>1
    <3>3. SubSeq(new, a, c) = [n \in 1..(1 + c - a) |-> new[a + n - 1]]
      BY <1>1
    <3>4. ASSUME NEW n \in 1..Len(put) PROVE new[a + n - 1] = put[n]
      <4>1. new[a - 1 + n] = put[n]
        BY <1>1, WhereTo
      <4>2. a - 1 + n = a + n - 1
        BY <1>1
      <4>3. QED
        BY <4>1, <4>2
    <3>5. put = [n \in 1..Len(put) |-> put[n]]
      BY DEF Texts
    <3>6. QED
      BY <3>1, <3>2, <3>3, <3>4, <3>5
  <2>5. QED
    BY <1>1, <2>1, <2>3, <2>4 DEF Pair
<1>9. ASSUME NEW r \in On(FindManagedRegions(new), a, b + d)
      PROVE  /\ put # <<>> /\ r = RegionAt(new, a, b + d) /\ r.start = a
             /\ r.slug = put[1].slug /\ r.task = put[1].task /\ Piece(new, r) = put
  <2>1. r \in FindManagedRegions(new) /\ a <= r.start /\ r.start <= b + d
    BY DEF On
  <2>2. PICK i, k \in DOMAIN new : Pair(new, i, k) /\ r = RegionAt(new, i, k)
    BY <1>3, <2>1, RegionsArePairs
  <2>3. r.start = i /\ i < k /\ i \in Int /\ k \in Int
    BY <1>1, <2>2 DEF RegionAt, Pair
  <2>4. ~(k < a) /\ ~(b + d < i)
    BY <1>1, <2>1, <2>3
  <2>5. i = a /\ k = b + d /\ Pair(put, 1, Len(put))
    BY <1>2, <2>2, <2>4 DEF PairsKept
  <2>6. put # <<>>
    BY <1>1, <2>5 DEF Pair
  <2>7. r.stop = b + d /\ r.slug = put[1].slug /\ r.task = put[1].task
    BY <1>8, <2>2, <2>5, <2>6 DEF RegionAt
  <2>8. Piece(new, r) = put
    BY <1>8, <2>3, <2>5, <2>6, <2>7 DEF Piece
  <2>9. QED
    BY <2>2, <2>3, <2>5, <2>6, <2>7, <2>8
<1>10. ASSUME put # <<>>
       PROVE  RegionAt(new, a, b + d) \in On(FindManagedRegions(new), a, b + d)
  <2>1. RegionAt(new, a, b + d) \in FindManagedRegions(new)
    BY <1>3, <1>8, <1>10, RegionsArePairs
  <2>2. RegionAt(new, a, b + d).start = a
    BY DEF RegionAt
  <2>3. a <= b + d
    BY <1>8, <1>10, <1>1 DEF Pair
  <2>4. QED
    BY <1>1, <2>1, <2>2, <2>3 DEF On
<1>11. ASSUME NEW q \in On(FindManagedRegions(text), a, b) PROVE q = RegionAt(text, a, b)
  <2>1. q \in FindManagedRegions(text) /\ a <= q.start /\ q.start <= b
    BY DEF On
  <2>2. PICK i, k \in DOMAIN text : Pair(text, i, k) /\ q = RegionAt(text, i, k)
    BY <1>3, <2>1, RegionsArePairs
  <2>3. q.start = i /\ i < k /\ i \in Int /\ k \in Int
    BY <1>1, <2>2 DEF RegionAt, Pair
  <2>4. ~(k < a) /\ ~(b < i)
    BY <1>1, <2>1, <2>3
  <2>5. QED
    BY <1>4, <2>2, <2>4
<1>12. ASSUME Pair(text, a, b)
       PROVE  RegionAt(text, a, b) \in On(FindManagedRegions(text), a, b)
  <2>1. RegionAt(text, a, b) \in FindManagedRegions(text)
    BY <1>3, <1>12, RegionsArePairs DEF Pair
  <2>2. RegionAt(text, a, b).start = a
    BY DEF RegionAt
  <2>3. a <= b
    BY <1>1, <1>12 DEF Pair
  <2>4. QED
    BY <1>1, <2>1, <2>2, <2>3 DEF On
<1>13. ASSUME NEW r \in FindManagedRegions(new), r.start < a
       PROVE  \E q \in FindManagedRegions(text) : q.start = r.start /\ q.slug = r.slug
  <2>1. PICK i, k \in DOMAIN new : Pair(new, i, k) /\ r = RegionAt(new, i, k)
    BY <1>3, RegionsArePairs
  <2>2. r.start = i /\ r.slug = new[i].slug /\ i \in Int
    BY <1>1, <2>1 DEF RegionAt
  <2>3. ~(b + d < i) /\ i # a
    BY <1>1, <1>13, <2>2
  <2>4. Pair(text, i, k)
    BY <1>2, <2>1, <2>3 DEF PairsKept
  <2>5. i \in DOMAIN text /\ k \in DOMAIN text /\ new[i] = text[i]
    BY <1>13, <2>2, <2>4, WhereTo DEF Pair
  <2>6. RegionAt(text, i, k) \in FindManagedRegions(text)
    BY <1>3, <2>4, <2>5, RegionsArePairs
  <2>7. RegionAt(text, i, k).start = i /\ RegionAt(text, i, k).slug = text[i].slug
    BY DEF RegionAt
  <2>8. QED
    BY <2>2, <2>5, <2>6, <2>7
<1>14. QED
  BY <1>2, <1>6, <1>7, <1>9, <1>10, <1>11, <1>12, <1>13

\* The first region of a slug.
LEMMA RegionLeads ==
  ASSUME NEW text \in Texts, NEW s, HasRegion(text, s)
  PROVE  Leading(FindManagedRegions(text), s, RegionOf(text, s))
<1> DEFINE mine == {r \in FindManagedRegions(text) : r.slug = s}
           starts == {r.start : r \in mine}
<1>1. mine # {} /\ \A r \in mine : r.start \in Nat
  BY RegionFacts, AtFacts DEF HasRegion
<1>2. PICK n \in starts : \A m \in starts : n <= m
  BY <1>1, Least
<1>3. \E r \in FindManagedRegions(text) :
          /\ r.slug = s
          /\ \A q \in FindManagedRegions(text) : q.slug = s => r.start <= q.start
  BY <1>2
<1>4. QED
  BY <1>3 DEF RegionOf, Leading

\* Where ReplaceRegion and RemoveRegion put their lines.
LEMMA RegionWritten ==
  ASSUME NEW text \in Texts, Neat(text), NEW s, NEW put \in Texts, NEW new,
         IF HasRegion(text, s) THEN new = Splice(text, RegionOf(text, s), put)
         ELSE new = text \o put
  PROVE  /\ new \in Texts
         /\ \E a, b, d : /\ Moved(new, text, a, b, put, d) /\ RegionRun(text, a, b)
                         /\ HasRegion(text, s) => /\ Pair(text, a, b)
                                                  /\ RegionOf(text, s) = RegionAt(text, a, b)
                         /\ ~HasRegion(text, s) => a = Len(text) + 1
<1>1. CASE HasRegion(text, s)
  <2>1. PICK r : r = RegionOf(text, s)
    OBVIOUS
  <2>2. PICK a, b \in DOMAIN text : Pair(text, a, b) /\ r = RegionAt(text, a, b)
    BY <1>1, <2>1, RegionOfFacts, RegionsArePairs DEF Neat
  <2>3. r.start = a /\ r.stop = b /\ a < b
    BY <2>2 DEF RegionAt, Pair
  <2>4. /\ new \in Texts /\ a \in Int /\ b \in Int /\ 1 <= a /\ a <= b + 1 /\ b <= Len(text)
        /\ Replaced(new, text, a, b, put)
    <3>1. new = Splice(text, r, put) /\ r.start \in DOMAIN text /\ r.stop \in DOMAIN text
          /\ r.start < r.stop
      BY <1>1, <2>1, <2>3
    <3>2. /\ new \in Texts
          /\ r.start \in Int /\ r.stop \in Int /\ 1 <= r.start /\ r.start <= r.stop + 1
          /\ r.stop <= Len(text) /\ Replaced(new, text, r.start, r.stop, put)
      BY <3>1, SpliceFacts
    <3>3. QED
      BY <2>3, <3>2
  <2>5. Moved(new, text, a, b, put, a - 1 + Len(put) - b)
    BY <2>4, MovedBy
  <2>6. QED
    BY <1>1, <2>1, <2>2, <2>4, <2>5 DEF RegionRun
<1>2. CASE ~HasRegion(text, s)
  <2>1. PICK a, b : a = Len(text) + 1 /\ b = Len(text)
    OBVIOUS
  <2>2. /\ new \in Texts /\ a \in Int /\ b \in Int /\ 1 <= a /\ a <= b + 1 /\ b <= Len(text)
        /\ Replaced(new, text, a, b, put)
    <3>1. new = text \o put
      BY <1>2
    <3>2. /\ new \in Texts
          /\ Len(text) + 1 \in Int /\ Len(text) \in Int /\ 1 <= Len(text) + 1
          /\ Len(text) + 1 <= Len(text) + 1
          /\ Replaced(new, text, Len(text) + 1, Len(text), put)
      BY <3>1, AppendFacts
    <3>3. b <= Len(text)
      BY <2>1, <3>2
    <3>4. QED
      BY <2>1, <3>2, <3>3
  <2>3. Moved(new, text, a, b, put, a - 1 + Len(put) - b)
    BY <2>2, MovedBy
  <2>4. QED
    BY <1>2, <2>1, <2>2, <2>3 DEF RegionRun
<1>3. QED
  BY <1>1, <1>2

(***************************************************************************)
(* A region of s is put: a text that was in order still is, nobody else's   *)
(* lines changed, the first region of s is the one that was put, and the    *)
(* others lead as they did.                                                 *)
(***************************************************************************)
LEMMA RegionPutSound ==
  ASSUME NEW text \in Texts, Sound(text), NEW s \in Slugs, NEW put \in Texts,
         Pair(put, 1, Len(put)), NoBlockMarks(put), put[1].slug = s, put[1].task = s,
         OwnFirst(FindManagedRegions(text), s)
  PROVE  LET new == ReplaceRegion(text, s, put)
         IN  /\ new \in Texts /\ Sound(new) /\ Unmanaged(new) = Unmanaged(text)
             /\ Leads(FindManagedRegions(new), new, s, put)
             /\ \A t : t # s => KeptOf(new, FindManagedRegions(new), text,
                                       FindManagedRegions(text), t)
             /\ \A t : KeptOf(new, FindBlockMembers(new), text, FindBlockMembers(text), t)
<1>1. PICK new : new = ReplaceRegion(text, s, put)
  OBVIOUS
<1>2. Neat(text)
  BY DEF Sound
<1>3. /\ new \in Texts
      /\ \E a, b, d : /\ Moved(new, text, a, b, put, d) /\ RegionRun(text, a, b)
                      /\ HasRegion(text, s) => /\ Pair(text, a, b)
                                               /\ RegionOf(text, s) = RegionAt(text, a, b)
                      /\ ~HasRegion(text, s) => a = Len(text) + 1
  <2>1. IF HasRegion(text, s) THEN new = Splice(text, RegionOf(text, s), put)
        ELSE new = text \o put
    BY <1>1 DEF ReplaceRegion
  <2>2. QED
    BY <1>2, <2>1, RegionWritten
<1>4. PICK a, b, d : /\ Moved(new, text, a, b, put, d) /\ RegionRun(text, a, b)
                     /\ HasRegion(text, s) => /\ Pair(text, a, b)
                                              /\ RegionOf(text, s) = RegionAt(text, a, b)
                     /\ ~HasRegion(text, s) => a = Len(text) + 1
  BY <1>3
<1>5. RegionPut(put) /\ put # <<>>
  <2>1. put # <<>>
    BY DEF Pair
  <2>2. QED
    BY <2>1 DEF RegionPut
<1> DEFINE R == FindManagedRegions(text)
           N == FindManagedRegions(new)
           came == On(N, a, b + d)
           gone == On(R, a, b)
           r0 == RegionAt(new, a, b + d)
<1>6. /\ Neat(new)
      /\ \E f : Succeed(f, new, N, came, text, R, gone)
      /\ \E f : Succeed(f, new, FindBlockMembers(new), {}, text, FindBlockMembers(text), {})
      /\ \A r \in came : /\ r = r0 /\ r.start = a
                         /\ r.slug = s /\ r.task = s /\ Piece(new, r) = put
      /\ r0 \in came
      /\ \A q \in gone : q = RegionAt(text, a, b)
      /\ Pair(text, a, b) => RegionAt(text, a, b) \in gone
      /\ \A r \in N : r.start < a => \E q \in R : q.start = r.start /\ q.slug = r.slug
  BY <1>2, <1>3, <1>4, <1>5, RegionChanged
<1>7. PICK f : Succeed(f, new, N, came, text, R, gone)
  BY <1>6
<1>8. PICK g : Succeed(g, new, FindBlockMembers(new), {}, text, FindBlockMembers(text), {})
  BY <1>6
<1>9. ByStart(R) /\ ByStart(N) /\ ByStart(FindBlockMembers(new))
      /\ ByStart(FindBlockMembers(text))
  BY <1>2, <1>3, <1>6, StartsTell
<1>10. ASSUME HasRegion(text, s)
       PROVE  /\ RegionAt(text, a, b) \in gone
              /\ Leading(R, s, RegionAt(text, a, b)) /\ RegionAt(text, a, b).task = s
              /\ RegionAt(text, a, b).start = a
  <2>1. Leading(R, s, RegionAt(text, a, b))
    BY <1>4, <1>10, RegionLeads
  <2>2. RegionAt(text, a, b).task = s
    BY <2>1 DEF OwnFirst
  <2>3. RegionAt(text, a, b).start = a
    BY DEF RegionAt
  <2>4. QED
    BY <1>4, <1>6, <1>10, <2>1, <2>2, <2>3
<1>11. \A q \in gone : q.slug = s
  <2>1. ASSUME NEW q \in gone PROVE q.slug = s
    <3>1. q = RegionAt(text, a, b) /\ q \in R /\ a <= q.start /\ q.start <= b
      BY <1>6 DEF On
    <3>2. HasRegion(text, s)
      <4>1. CASE a = Len(text) + 1
        <5>1. q.start \in DOMAIN text /\ Len(text) \in Nat /\ DOMAIN text = 1..Len(text)
          BY <3>1, RegionFacts DEF Texts
        <5>2. QED
          BY <3>1, <4>1, <5>1
      <4>2. QED
        BY <1>4, <4>1
    <3>3. QED
      BY <1>10, <3>1, <3>2 DEF Leading
  <2>2. QED
    BY <2>1
\* Nothing else is of the task.
<1>12. ASSUME NEW q \in R \ gone PROVE q.task # s
  <2>1. SUFFICES ASSUME q.task = s PROVE FALSE
    OBVIOUS
  <2>2. q.slug = s
    BY <2>1 DEF Sound, Named
  <2>3. HasRegion(text, s)
    BY <2>2 DEF HasRegion
  <2>4. q = RegionAt(text, a, b)
    BY <1>10, <2>1, <2>3 DEF Sound, OnePer, Leading
  <2>5. QED
    BY <1>10, <2>3, <2>4
<1> HIDE DEF came, gone, r0
<1>13. OnePer(N) /\ Named(N)
  <2>1. OnePer(R) /\ Named(R)
    BY DEF Sound
  <2>2. OnePer(N)
    <3>1. \A r, q \in came : r = q
      BY <1>6
    <3>2. \A r \in came : \A q \in R \ gone : r.task # q.task
      BY <1>6, <1>12
    <3> HIDE DEF N, R
    <3>3. QED
      BY <1>7, <2>1, <3>1, <3>2, OneStays
  <2>3. Named(N)
    <3>1. \A r \in came : r.slug = r.task
      BY <1>6
    <3> HIDE DEF N, R
    <3>2. QED
      BY <1>7, <2>1, <3>1, NamesStay
  <2>4. QED
    BY <2>2, <2>3
<1>14. OnePer(FindBlockMembers(new)) /\ Named(FindBlockMembers(new))
       /\ OneOf(FindBlockMembers(new))
  <2>1. OnePer(FindBlockMembers(text)) /\ Named(FindBlockMembers(text))
        /\ OneOf(FindBlockMembers(text))
    BY DEF Sound
  <2>2. QED
    BY <1>8, <2>1, OneStays, NamesStay, OneOfStays
<1>15. Sound(new)
  BY <1>6, <1>13, <1>14 DEF Sound
<1>16. Unmanaged(new) = Unmanaged(text)
  BY <1>2, <1>3, <1>4, <1>5, <1>15, SoundReads, RegionOthers
<1>17. Leads(N, new, s, put)
  <2>1. r0 \in came /\ r0.start = a /\ r0.slug = s /\ r0.task = s /\ Piece(new, r0) = put
    BY <1>6
  <2>2. r0 \in N
    BY <2>1 DEF came, On
  <2>3. ASSUME NEW r \in N, r.slug = s PROVE r0.start <= r.start
    <3>1. SUFFICES ASSUME r.start < a PROVE FALSE
      BY <1>9, <2>1, <2>2 DEF ByStart
    <3>2. PICK q \in R : q.start = r.start /\ q.slug = s
      BY <1>6, <2>3, <3>1
    <3>3. HasRegion(text, s)
      BY <3>2 DEF HasRegion
    <3>4. a <= q.start
      BY <1>10, <3>2, <3>3 DEF Leading
    <3>5. a \in Int /\ r.start \in Int
      BY <1>9, <2>1, <2>2 DEF ByStart
    <3>6. QED
      BY <3>1, <3>2, <3>4, <3>5
  <2>4. QED
    BY <2>1, <2>2, <2>3 DEF Leads, Leading
<1>18. ASSUME NEW t, t # s PROVE KeptOf(new, N, text, R, t)
  <2>1. \A r \in came : r.slug # t
    BY <1>6, <1>18
  <2>2. \A q \in gone : q.slug # t
    BY <1>11, <1>18
  <2> HIDE DEF N, R
  <2>3. QED
    BY <1>7, <1>9, <2>1, <2>2, OthersStay
<1>19. ASSUME NEW t
       PROVE  KeptOf(new, FindBlockMembers(new), text, FindBlockMembers(text), t)
  BY <1>8, <1>9, OthersStay
<1>20. QED
  BY <1>1, <1>3, <1>15, <1>16, <1>17, <1>18, <1>19

(***************************************************************************)
(* The first region of s is removed.                                        *)
(***************************************************************************)
LEMMA RegionRemovedSound ==
  ASSUME NEW text \in Texts, Sound(text), NEW s
  PROVE  LET new == RemoveRegion(text, s)
         IN  /\ new \in Texts /\ Sound(new) /\ Unmanaged(new) = Unmanaged(text)
             /\ \A t : t # s => KeptOf(new, FindManagedRegions(new), text,
                                       FindManagedRegions(text), t)
             /\ \A t : KeptOf(new, FindBlockMembers(new), text, FindBlockMembers(text), t)
<1>1. CASE ~HasRegion(text, s)
  <2>1. RemoveRegion(text, s) = text
    BY <1>1 DEF RemoveRegion
  <2>2. QED
    BY <2>1 DEF KeptOf
<1>2. CASE HasRegion(text, s)
  <2>1. PICK new : new = RemoveRegion(text, s)
    OBVIOUS
  <2>2. Neat(text)
    BY DEF Sound
  <2>2a. PICK put : put = <<>>
    OBVIOUS
  <2>2b. put \in Texts
    BY <2>2a DEF Texts
  <2>3. new = Splice(text, RegionOf(text, s), put)
    BY <1>2, <2>1, <2>2a DEF RemoveRegion
  <2>4. new \in Texts
        /\ \E a, b, d : /\ Moved(new, text, a, b, put, d) /\ RegionRun(text, a, b)
                        /\ HasRegion(text, s) => /\ Pair(text, a, b)
                                                 /\ RegionOf(text, s) = RegionAt(text, a, b)
                        /\ ~HasRegion(text, s) => a = Len(text) + 1
    BY <1>2, <2>2, <2>2b, <2>3, RegionWritten
  <2>5. PICK a, b, d : /\ Moved(new, text, a, b, put, d) /\ RegionRun(text, a, b)
                       /\ Pair(text, a, b) /\ RegionOf(text, s) = RegionAt(text, a, b)
    BY <1>2, <2>4
  <2>6. RegionPut(put)
    BY <2>2a DEF RegionPut, NoBlockMarks
  <2> DEFINE R == FindManagedRegions(text)
             N == FindManagedRegions(new)
             came == On(N, a, b + d)
             gone == On(R, a, b)
  <2>7. /\ Neat(new)
        /\ \E f : Succeed(f, new, N, came, text, R, gone)
        /\ \E f : Succeed(f, new, FindBlockMembers(new), {}, text, FindBlockMembers(text), {})
        /\ came = {}
        /\ \A q \in gone : q = RegionAt(text, a, b)
    BY <2>2, <2>2a, <2>2b, <2>4, <2>5, <2>6, RegionChanged
  <2>8. PICK f : Succeed(f, new, N, came, text, R, gone)
    BY <2>7
  <2>9. PICK g : Succeed(g, new, FindBlockMembers(new), {}, text, FindBlockMembers(text), {})
    BY <2>7
  <2>10. ByStart(R) /\ ByStart(N) /\ ByStart(FindBlockMembers(new))
         /\ ByStart(FindBlockMembers(text))
    BY <2>2, <2>4, <2>7, StartsTell
  <2>11. \A q \in gone : q.slug = s
    <3>1. Leading(R, s, RegionAt(text, a, b))
      BY <1>2, <2>5, RegionLeads
    <3>2. QED
      BY <2>7, <3>1 DEF Leading
  <2> HIDE DEF came, gone
  <2>12. OnePer(N) /\ Named(N)
    <3>1. OnePer(R) /\ Named(R)
      BY DEF Sound
    <3> HIDE DEF N, R
    <3>2. OnePer(N)
      BY <2>7, <2>8, <3>1, OneStays
    <3>3. Named(N)
      BY <2>7, <2>8, <3>1, NamesStay
    <3>4. QED
      BY <3>2, <3>3
  <2>13. OnePer(FindBlockMembers(new)) /\ Named(FindBlockMembers(new))
         /\ OneOf(FindBlockMembers(new))
    <3>1. OnePer(FindBlockMembers(text)) /\ Named(FindBlockMembers(text))
          /\ OneOf(FindBlockMembers(text))
      BY DEF Sound
    <3>2. QED
      BY <2>9, <3>1, OneStays, NamesStay, OneOfStays
  <2>14. Sound(new)
    BY <2>7, <2>12, <2>13 DEF Sound
  <2>15. Unmanaged(new) = Unmanaged(text)
    BY <2>2, <2>2b, <2>4, <2>5, <2>6, <2>14, SoundReads, RegionOthers
  <2>16. ASSUME NEW t, t # s PROVE KeptOf(new, N, text, R, t)
    <3>1. (\A r \in came : r.slug # t) /\ \A q \in gone : q.slug # t
      BY <2>7, <2>11, <2>16
    <3> HIDE DEF N, R
    <3>2. QED
      BY <2>8, <2>10, <3>1, OthersStay
  <2>17. ASSUME NEW t
         PROVE  KeptOf(new, FindBlockMembers(new), text, FindBlockMembers(text), t)
    BY <2>9, <2>10, OthersStay
  <2>18. QED
    BY <2>1, <2>4, <2>14, <2>15, <2>16, <2>17
<1>3. QED
  BY <1>1, <1>2

\* Where the block is written or removed.
LEMMA BlockWritten ==
  ASSUME NEW text \in Texts, Neat(text), NEW put \in Texts, NEW new,
         IF HasBlock(text) THEN new = Splice(text, BlockBounds(text), put)
         ELSE new = text \o put
  PROVE  /\ new \in Texts
         /\ \E a, b, d : Moved(new, text, a, b, put, d) /\ BlockRun(text, a, b)
<1>1. CASE \E x, y \in DOMAIN text : Bounded(text, x, y)
  <2>1. PICK a, b \in DOMAIN text : Bounded(text, a, b)
    BY <1>1
  <2>2. PICK r : r = BlockBounds(text)
    OBVIOUS
  <2>3. HasBlock(text) /\ r.start = a /\ r.stop = b /\ a < b
    BY <2>1, <2>2, BlockOf DEF Bounded
  <2>4. /\ new \in Texts /\ a \in Int /\ b \in Int /\ 1 <= a /\ a <= b + 1 /\ b <= Len(text)
        /\ Replaced(new, text, a, b, put)
    <3>1. new = Splice(text, r, put) /\ r.start \in DOMAIN text /\ r.stop \in DOMAIN text
          /\ r.start < r.stop
      BY <2>2, <2>3
    <3>2. /\ new \in Texts
          /\ r.start \in Int /\ r.stop \in Int /\ 1 <= r.start /\ r.start <= r.stop + 1
          /\ r.stop <= Len(text) /\ Replaced(new, text, r.start, r.stop, put)
      BY <3>1, SpliceFacts
    <3>3. QED
      BY <2>3, <3>2
  <2>5. Moved(new, text, a, b, put, a - 1 + Len(put) - b)
    BY <2>4, MovedBy
  <2>6. QED
    BY <2>1, <2>4, <2>5 DEF BlockRun
<1>2. CASE NoBlockMarks(text)
  <2>1. PICK a, b : a = Len(text) + 1 /\ b = Len(text)
    OBVIOUS
  <2>2. /\ new \in Texts /\ a \in Int /\ b \in Int /\ 1 <= a /\ a <= b + 1 /\ b <= Len(text)
        /\ Replaced(new, text, a, b, put)
    <3>1. new = text \o put
      BY <1>2, NoBlock
    <3>2. /\ new \in Texts
          /\ Len(text) + 1 \in Int /\ Len(text) \in Int /\ 1 <= Len(text) + 1
          /\ Len(text) + 1 <= Len(text) + 1
          /\ Replaced(new, text, Len(text) + 1, Len(text), put)
      BY <3>1, AppendFacts
    <3>3. b <= Len(text)
      BY <2>1, <3>2
    <3>4. QED
      BY <2>1, <3>2, <3>3
  <2>3. Moved(new, text, a, b, put, a - 1 + Len(put) - b)
    BY <2>2, MovedBy
  <2>4. QED
    BY <1>2, <2>1, <2>2, <2>3 DEF BlockRun
<1>3. QED
  BY <1>1, <1>2 DEF Neat

\* The entries that are put are the members of the new text.
LEMMA EntriesPlaced ==
  ASSUME NEW text \in Texts, NEW new \in Texts, NEW entries \in Seq(Texts),
         \A n \in DOMAIN entries : EntryLike(entries[n]),
         NEW put, put = Block(entries), NEW a, NEW b, NEW d,
         Moved(new, text, a, b, put, d), BlockRun(text, a, b)
  PROVE  /\ put \in Texts /\ BlockPut(put)
         /\ \E place : Placed(place, new, entries)
<1>1. put \in Texts /\ BlockPut(put) /\ Bounded(put, 1, Len(put))
  BY BlockShape
<1>2. Bounded(new, a, b + d) /\ SameLines(new, put, 1, Len(put), a - 1)
  BY <1>1, BlockInPlace
<1>3. PICK c : c = b + d
  OBVIOUS
<1>4. a \in Int /\ c = Len(put) + (a - 1)
  BY <1>3 DEF Moved
<1>5. Bounded(new, a, c)
  BY <1>2, <1>3
<1>6. QED
  BY <1>1, <1>2, <1>4, <1>5, NewMembers

\* Where the block is written the regions stay.
LEMMA BlockChangedRegions ==
  ASSUME NEW text \in Texts, NEW put \in Texts, NEW new \in Texts, NEW a, NEW b, NEW d,
         Moved(new, text, a, b, put, d), Neat(text), BlockRun(text, a, b), BlockPut(put)
  PROVE  /\ Neat(new)
         /\ \E f : Succeed(f, new, FindManagedRegions(new), {}, text,
                           FindManagedRegions(text), {})
<1>1. Neat(new) /\ PairsKept(new, text, a, b, put, d) /\ Paired(text) /\ Paired(new)
  BY BlockSpliced DEF Neat
<1>2. /\ a \in Nat /\ b \in Nat /\ d \in Int /\ DOMAIN text = 1..Len(text) /\ Len(text) \in Nat
      /\ DOMAIN new \subseteq Int /\ DOMAIN put = 1..Len(put) /\ Len(put) \in Nat
      /\ DOMAIN new = 1..Len(new)
  BY DEF Moved
<1>3. ASSUME NEW i \in DOMAIN text, NEW k \in DOMAIN text, Pair(text, i, k)
      PROVE  k < a \/ b < i
  <2>1. CASE a = Len(text) + 1
    BY <1>2, <2>1
  <2>2. CASE Bounded(text, a, b)
    BY <1>3, <2>2, NeatApart
  <2>3. QED
    BY <2>1, <2>2 DEF BlockRun
<1>4. Clear(text, a, b)
  BY <1>3 DEF Clear
<1>5. ~Pair(put, 1, Len(put))
  BY DEF BlockPut, Pair, IsMarker
<1>6. On(FindManagedRegions(new), a, b + d) = {}
  <2>1. SUFFICES ASSUME NEW r \in FindManagedRegions(new), a <= r.start, r.start <= b + d
                 PROVE  FALSE
    BY DEF On
  <2>2. PICK i, k \in DOMAIN new : Pair(new, i, k) /\ r = RegionAt(new, i, k)
    BY <1>1, RegionsArePairs
  <2>3. r.start = i /\ i < k
    BY <2>2 DEF RegionAt, Pair
  <2>4. k < a \/ b + d < i
    BY <1>1, <1>5, <2>2 DEF PairsKept
  <2>5. i \in Int /\ k \in Int
    BY <1>2, <2>2
  <2>6. QED
    BY <1>2, <2>1, <2>3, <2>4, <2>5
<1>7. On(FindManagedRegions(text), a, b) = {}
  <2>1. SUFFICES ASSUME NEW r \in FindManagedRegions(text), a <= r.start, r.start <= b
                 PROVE  FALSE
    BY DEF On
  <2>2. PICK i, k \in DOMAIN text : Pair(text, i, k) /\ r = RegionAt(text, i, k)
    BY <1>1, RegionsArePairs
  <2>3. r.start = i /\ i < k
    BY <2>2 DEF RegionAt, Pair
  <2>4. k < a \/ b < i
    BY <1>3, <2>2
  <2>5. QED
    BY <1>2, <2>1, <2>2, <2>3, <2>4
<1>8. QED
  BY <1>1, <1>4, <1>6, <1>7, RegionsSucceed

(***************************************************************************)
(* The block is written anew, or removed, for s: a text in which every part *)
(* is in order stays one, and nobody else's lines, regions and members      *)
(* change.                                                                  *)
(***************************************************************************)
LEMMA BlockChangedSound ==
  ASSUME NEW text \in Texts, NEW put \in Texts, NEW new \in Texts, NEW a, NEW b, NEW d,
         Moved(new, text, a, b, put, d), Sound(text), BlockRun(text, a, b), BlockPut(put),
         NEW f, NEW came, NEW gone, NEW s \in Slugs,
         Succeed(f, new, FindBlockMembers(new), came, text, FindBlockMembers(text), gone),
         \A r, q \in came : r = q, \A r \in came : r.slug = s /\ r.task = s,
         \A q \in gone : q.slug = s, \A q \in FindBlockMembers(text) \ gone : q.slug # s
  PROVE  /\ Sound(new) /\ Unmanaged(new) = Unmanaged(text)
         /\ \A t : t # s => KeptOf(new, FindBlockMembers(new), text, FindBlockMembers(text), t)
         /\ \A t : KeptOf(new, FindManagedRegions(new), text, FindManagedRegions(text), t)
<1>1. Neat(text)
  BY DEF Sound
<1>2. /\ Neat(new)
      /\ \E g : Succeed(g, new, FindManagedRegions(new), {}, text,
                        FindManagedRegions(text), {})
  BY <1>1, BlockChangedRegions
<1>3. PICK g : Succeed(g, new, FindManagedRegions(new), {}, text,
                       FindManagedRegions(text), {})
  BY <1>2
<1>4. ByStart(FindManagedRegions(text)) /\ ByStart(FindManagedRegions(new))
      /\ ByStart(FindBlockMembers(new)) /\ ByStart(FindBlockMembers(text))
  BY <1>1, <1>2, StartsTell
<1>5. OnePer(FindManagedRegions(new)) /\ Named(FindManagedRegions(new))
  <2>1. OnePer(FindManagedRegions(text)) /\ Named(FindManagedRegions(text))
    BY DEF Sound
  <2>2. QED
    BY <1>3, <2>1, OneStays, NamesStay
<1> DEFINE Q == FindBlockMembers(text)
           P == FindBlockMembers(new)
<1>6. OnePer(Q) /\ Named(Q) /\ OneOf(Q)
  BY DEF Sound
<1>7. \A q \in Q \ gone : q.task # s
  BY <1>6 DEF Named
<1>8. OnePer(P) /\ Named(P) /\ OneOf(P)
  <2>1. \A r \in came : \A q \in Q \ gone : r.task # q.task /\ r.slug # q.slug
    BY <1>7
  <2>2. \A r \in came : r.slug = r.task
    OBVIOUS
  <2>3. Succeed(f, new, P, came, text, Q, gone)
    OBVIOUS
  <2> HIDE DEF P, Q
  <2>4. OnePer(P)
    BY <1>6, <2>1, <2>3, OneStays
  <2>5. Named(P)
    BY <1>6, <2>2, <2>3, NamesStay
  <2>6. OneOf(P)
    BY <1>6, <2>1, <2>3, OneOfStays
  <2>7. QED
    BY <2>4, <2>5, <2>6
<1>9. Sound(new)
  BY <1>2, <1>5, <1>8 DEF Sound
<1>10. Unmanaged(new) = Unmanaged(text)
  BY <1>1, <1>9, SoundReads, BlockOthers
<1>11. ASSUME NEW t, t # s PROVE KeptOf(new, P, text, Q, t)
  <2>1. (\A r \in came : r.slug # t) /\ \A q \in gone : q.slug # t
    BY <1>11
  <2> HIDE DEF P, Q
  <2>2. Succeed(f, new, P, came, text, Q, gone) /\ ByStart(P) /\ ByStart(Q)
    BY <1>4 DEF P, Q
  <2>3. QED
    BY <2>1, <2>2, OthersStay
<1>12. ASSUME NEW t
       PROVE  KeptOf(new, FindManagedRegions(new), text, FindManagedRegions(text), t)
  BY <1>3, <1>4, OthersStay
<1>13. QED
  BY <1>9, <1>10, <1>11, <1>12

\* Entries that keep the places of the members in L in order, but for those of
\* s, which say member.
Renewed(text, s, member, entries, order, L) ==
    /\ entries \in Seq(Texts) /\ \A n \in DOMAIN entries : EntryLike(entries[n])
    /\ L \subseteq FindBlockMembers(text) /\ Listing(order, L)
    /\ DOMAIN order \subseteq DOMAIN entries
    /\ \A q \in FindBlockMembers(text) : q.slug # s => q \in L
    /\ \A n \in DOMAIN order : order[n].slug # s => entries[n] = Piece(text, order[n])
    /\ \A n \in DOMAIN entries : n \notin DOMAIN order \/ order[n].slug = s =>
          entries[n] = member /\ entries[n][1].slug = s /\ entries[n][1].task = s
    /\ \A m, n \in DOMAIN entries : m \notin DOMAIN order =>
          /\ \A k \in DOMAIN order : order[k].slug # s
          /\ n \notin DOMAIN order => m = n

LEMMA EntriesSound ==
  ASSUME NEW text \in Texts, Sound(text), NEW s \in Slugs, NEW member,
         NEW entries, NEW order, NEW L, Renewed(text, s, member, entries, order, L),
         NEW new, IF HasBlock(text) THEN new = Splice(text, BlockBounds(text), Block(entries))
                  ELSE new = text \o Block(entries)
  PROVE  /\ new \in Texts /\ Sound(new) /\ Unmanaged(new) = Unmanaged(text)
         /\ \A t : t # s => KeptOf(new, FindBlockMembers(new), text, FindBlockMembers(text), t)
         /\ \A t : KeptOf(new, FindManagedRegions(new), text, FindManagedRegions(text), t)
         /\ (\E n \in DOMAIN entries : n \notin DOMAIN order \/ order[n].slug = s) =>
               Leads(FindBlockMembers(new), new, s, member)
<1>0. /\ entries \in Seq(Texts) /\ \A n \in DOMAIN entries : EntryLike(entries[n])
      /\ L \subseteq FindBlockMembers(text) /\ Listing(order, L)
      /\ DOMAIN order \subseteq DOMAIN entries
      /\ \A q \in FindBlockMembers(text) : q.slug # s => q \in L
      /\ \A n \in DOMAIN order : order[n].slug # s => entries[n] = Piece(text, order[n])
      /\ \A n \in DOMAIN entries : n \notin DOMAIN order \/ order[n].slug = s =>
            entries[n] = member /\ entries[n][1].slug = s /\ entries[n][1].task = s
      /\ \A m, n \in DOMAIN entries : m \notin DOMAIN order =>
            /\ \A k \in DOMAIN order : order[k].slug # s
            /\ n \notin DOMAIN order => m = n
  BY DEF Renewed
<1>1. Neat(text)
  BY DEF Sound
<1>2. PICK put : put = Block(entries)
  OBVIOUS
<1>3. put \in Texts
  BY <1>0, <1>2, BlockShape
<1>4. /\ new \in Texts
      /\ \E a, b, d : Moved(new, text, a, b, put, d) /\ BlockRun(text, a, b)
  BY <1>1, <1>2, <1>3, BlockWritten
<1>5. PICK a, b, d : Moved(new, text, a, b, put, d) /\ BlockRun(text, a, b)
  BY <1>4
<1>6. BlockPut(put) /\ \E place : Placed(place, new, entries)
  BY <1>0, <1>2, <1>4, <1>5, EntriesPlaced
<1>7. PICK place : Placed(place, new, entries)
  BY <1>6
<1> DEFINE Q == FindBlockMembers(text)
           P == FindBlockMembers(new)
           gone == {q \in Q : q.slug = s}
           fresh == Fresh(entries, order, gone)
           came == {place[n] : n \in fresh}
<1>8. /\ \A n \in DOMAIN order : order[n] \in L /\ order[n] \in Q
      /\ DOMAIN entries \subseteq Int
  BY <1>0 DEF Listing
<1>9. \E f : Succeed(f, new, P, came, text, Q, gone)
  <2>1. Q \ gone \subseteq L
    BY <1>0
  <2>2. \A n \in DOMAIN order : order[n] \notin gone => entries[n] = Piece(text, order[n])
    BY <1>0, <1>8
  <2>3. PICK G : G = gone
    OBVIOUS
  <2>4. L \in SUBSET Q /\ Listing(order, L) /\ Q \ G \subseteq L
        /\ \A n \in DOMAIN order : order[n] \notin G => entries[n] = Piece(text, order[n])
    BY <1>0, <2>1, <2>2, <2>3
  <2>5. \E f : Succeed(f, new, P, Newcomers(place, entries, order, G), text, Q, G)
    BY <1>0, <1>1, <1>7, <1>8, <2>4, MembersPlaced
  <2>6. QED
    BY <2>3, <2>5 DEF Newcomers
<1>10. PICK f : Succeed(f, new, P, came, text, Q, gone)
  BY <1>9
<1>11. \A n : n \in fresh <=>
          n \in DOMAIN entries /\ (n \notin DOMAIN order \/ order[n].slug = s)
  BY <1>8 DEF Fresh
<1> HIDE DEF fresh
<1>12. ASSUME NEW m \in fresh, NEW n \in fresh PROVE m = n
  <2>1. CASE m \notin DOMAIN order
    BY <1>0, <1>11, <1>12, <2>1
  <2>2. CASE n \notin DOMAIN order
    BY <1>0, <1>11, <1>12, <2>2
  <2>3. CASE m \in DOMAIN order /\ n \in DOMAIN order
    <3>1. order[m].slug = s /\ order[n].slug = s /\ m \in Int /\ n \in Int
      BY <1>8, <1>11, <1>12, <2>3
    <3>2. order[m] = order[n]
      BY <1>8, <2>3, <3>1 DEF Sound, OneOf
    <3>3. order[m].start \in Int
      BY <1>1, <1>8, <2>3, StartsTell DEF ByStart
    <3>4. ~(order[m].start < order[n].start) /\ ~(order[n].start < order[m].start)
      BY <3>2, <3>3
    <3>5. ~(m < n) /\ ~(n < m)
      BY <1>0, <2>3, <3>4 DEF Listing
    <3>6. QED
      BY <3>1, <3>5
  <2>4. QED
    BY <2>1, <2>2, <2>3
<1>13. \A n \in fresh : /\ place[n] \in P /\ place[n].slug = s /\ place[n].task = s
                        /\ Piece(new, place[n]) = member
  BY <1>0, <1>7, <1>11 DEF Placed
<1>14. /\ \A r, q \in came : r = q
       /\ \A r \in came : r.slug = s /\ r.task = s
       /\ \A q \in gone : q.slug = s
       /\ \A q \in Q \ gone : q.slug # s
  <2>1. \A r \in came : \E n \in fresh : r = place[n]
    OBVIOUS
  <2>2. \A r, q \in came : r = q
    BY <1>12, <2>1
  <2>3. \A r \in came : r.slug = s /\ r.task = s
    BY <1>13, <2>1
  <2>4. QED
    BY <2>2, <2>3
<1> HIDE DEF gone, came
<1>15. /\ Sound(new) /\ Unmanaged(new) = Unmanaged(text)
       /\ \A t : t # s => KeptOf(new, P, text, Q, t)
       /\ \A t : KeptOf(new, FindManagedRegions(new), text, FindManagedRegions(text), t)
  BY <1>3, <1>4, <1>5, <1>6, <1>10, <1>14, BlockChangedSound
<1>16. ASSUME NEW n \in fresh PROVE Leads(P, new, s, member)
  <2>1. \A q \in P : q.slug = s => q = place[n]
    BY <1>13, <1>15 DEF Sound, OneOf
  <2>2. place[n].start \in Int
    BY <1>7, <1>11 DEF Placed
  <2>3. \A q \in P : q.slug = s => place[n].start <= q.start
    BY <2>1, <2>2
  <2>4. QED
    BY <1>13, <2>3 DEF Leads, Leading
<1>17. QED
  BY <1>4, <1>11, <1>15, <1>16

\* The text with the block written from entries that do what Renewed says, one of
\* them for s where some is true.
WrittenFor(new, text, s, member, some) ==
    \E entries, order, L :
        /\ Renewed(text, s, member, entries, order, L)
        /\ IF HasBlock(text) THEN new = Splice(text, BlockBounds(text), Block(entries))
           ELSE new = text \o Block(entries)
        /\ some => \E n \in DOMAIN entries : n \notin DOMAIN order \/ order[n].slug = s

(***************************************************************************)
(* A member of s is put.                                                    *)
(***************************************************************************)
LEMMA MemberPutWritten ==
  ASSUME NEW text \in Texts, Neat(text), NEW s, NEW member,
         EntryLike(member), member[1].slug = s, member[1].task = s
  PROVE  WrittenFor(UpsertBlockMember(text, s, member), text, s, member, TRUE)
<1>1. PICK new : new = UpsertBlockMember(text, s, member)
  OBVIOUS
<1>2. member \in Texts
  BY DEF EntryLike
<1>3. CASE ~HasBlock(text)
  <2>1. PICK entries : entries = <<member>>
    OBVIOUS
  <2>2. /\ entries \in Seq(Texts) /\ DOMAIN entries = {1} /\ entries[1] = member
    BY <1>2, <2>1
  <2>3. FindBlockMembers(text) = {}
    BY <1>3 DEF FindBlockMembers
  <2>4. PICK order : order = << >>
    OBVIOUS
  <2>5. DOMAIN order = {}
    BY <2>4
  <2>6. Listing(order, {})
    BY <2>4, <2>5 DEF Listing
  <2>7. new = text \o Block(entries)
    BY <1>1, <1>3, <2>1 DEF UpsertBlockMember
  <2>8. {} \subseteq FindBlockMembers(text)
    OBVIOUS
  <2>9. /\ \A n \in DOMAIN entries : EntryLike(entries[n])
        /\ DOMAIN order \subseteq DOMAIN entries
        /\ \A q \in FindBlockMembers(text) : q.slug # s => q \in {}
        /\ \A n \in DOMAIN order : order[n].slug # s => entries[n] = Piece(text, order[n])
        /\ \A n \in DOMAIN entries : n \notin DOMAIN order \/ order[n].slug = s =>
              entries[n] = member /\ entries[n][1].slug = s /\ entries[n][1].task = s
        /\ \A m, n \in DOMAIN entries : m \notin DOMAIN order =>
              /\ \A k \in DOMAIN order : order[k].slug # s
              /\ n \notin DOMAIN order => m = n
        /\ \E n \in DOMAIN entries : n \notin DOMAIN order \/ order[n].slug = s
    BY <2>2, <2>3, <2>5
  <2>10. Renewed(text, s, member, entries, order, {})
    BY <2>2, <2>6, <2>8, <2>9 DEF Renewed
  <2>11. WrittenFor(new, text, s, member, TRUE)
    BY <1>3, <2>7, <2>9, <2>10 DEF WrittenFor
  <2>12. QED
    BY <1>1, <2>11
<1>4. CASE HasBlock(text)
  <2> DEFINE Q == FindBlockMembers(text)
  <2>1. PICK old : old = Pieces(text, Q)
    OBVIOUS
  <2>2. PICK order : /\ Listing(order, Q) /\ old \in Seq(Texts) /\ DOMAIN old = DOMAIN order
                     /\ \A n \in DOMAIN order :
                           /\ old[n] = Piece(text, order[n]) /\ EntryLike(old[n])
                           /\ Head(old[n]).slug = order[n].slug /\ order[n] \in Q
    BY <2>1, PiecesListed
  <2>3. PICK kept : kept = [n \in DOMAIN old |->
                               IF Head(old[n]).slug = s THEN member ELSE old[n]]
    OBVIOUS
  <2>4. PICK entries : entries = IF HasMember(text, s) THEN kept ELSE Append(kept, member)
    OBVIOUS
  <2>5. new = Splice(text, BlockBounds(text), Block(entries))
    BY <1>1, <1>4, <2>1, <2>3, <2>4 DEF UpsertBlockMember, RewriteBlock
  <2>6. Len(old) \in Nat /\ DOMAIN old = 1..Len(old)
    BY <2>2
  <2>7. \A n \in DOMAIN old : /\ order[n].slug # s => kept[n] = old[n]
                              /\ order[n].slug = s => kept[n] = member
                              /\ kept[n] \in Texts /\ EntryLike(kept[n])
    BY <1>2, <2>2, <2>3
  <2>8. kept \in Seq(Texts) /\ DOMAIN kept = DOMAIN old /\ Len(kept) = Len(old)
    BY <2>3, <2>6, <2>7
  <2>9. CASE HasMember(text, s)
    <3>1. entries = kept
      BY <2>4, <2>9
    <3>2. PICK q \in Q : q.slug = s
      BY <2>9 DEF HasMember
    <3>3. PICK k \in DOMAIN order : order[k] = q
      BY <2>2 DEF Listing
    <3>4. /\ entries \in Seq(Texts) /\ \A n \in DOMAIN entries : EntryLike(entries[n])
          /\ DOMAIN order \subseteq DOMAIN entries
          /\ \A n \in DOMAIN order : order[n].slug # s => entries[n] = Piece(text, order[n])
          /\ \A n \in DOMAIN entries : n \notin DOMAIN order \/ order[n].slug = s =>
                entries[n] = member /\ entries[n][1].slug = s /\ entries[n][1].task = s
          /\ \A m, n \in DOMAIN entries : m \notin DOMAIN order =>
                /\ \A j \in DOMAIN order : order[j].slug # s
                /\ n \notin DOMAIN order => m = n
          /\ \E n \in DOMAIN entries : n \notin DOMAIN order \/ order[n].slug = s
      BY <2>2, <2>7, <2>8, <3>1, <3>2, <3>3
    <3>5. Renewed(text, s, member, entries, order, Q)
      BY <2>2, <3>4 DEF Renewed
    <3>6. WrittenFor(new, text, s, member, TRUE)
      BY <1>4, <2>5, <3>4, <3>5 DEF WrittenFor
    <3>7. QED
      BY <1>1, <3>6
  <2>10. CASE ~HasMember(text, s)
    <3>1. entries = Append(kept, member)
      BY <2>4, <2>10
    <3>2. /\ entries \in Seq(Texts) /\ DOMAIN entries = 1..Len(old) + 1
          /\ \A n \in 1..Len(old) : entries[n] = kept[n]
          /\ entries[Len(old) + 1] = member
      BY <1>2, <2>6, <2>8, <3>1
    <3>3. \A n \in DOMAIN order : order[n].slug # s
      BY <2>2, <2>10 DEF HasMember
    <3>4. DOMAIN order = 1..Len(old) /\ Len(old) + 1 \notin DOMAIN order
      BY <2>2, <2>6
    <3>5. \A n \in DOMAIN entries : n \in DOMAIN order \/ n = Len(old) + 1
      BY <2>6, <3>2, <3>4
    <3>6. DOMAIN order \subseteq DOMAIN entries /\ Len(old) + 1 \in DOMAIN entries
      BY <2>6, <3>2, <3>4
    <3>7. /\ \A n \in DOMAIN entries : EntryLike(entries[n])
          /\ \A n \in DOMAIN order : order[n].slug # s => entries[n] = Piece(text, order[n])
          /\ \A n \in DOMAIN entries : n \notin DOMAIN order \/ order[n].slug = s =>
                entries[n] = member /\ entries[n][1].slug = s /\ entries[n][1].task = s
          /\ \A m, n \in DOMAIN entries : m \notin DOMAIN order =>
                /\ \A j \in DOMAIN order : order[j].slug # s
                /\ n \notin DOMAIN order => m = n
          /\ \E n \in DOMAIN entries : n \notin DOMAIN order \/ order[n].slug = s
      BY <2>2, <2>7, <3>2, <3>3, <3>4, <3>5, <3>6
    <3>8. Renewed(text, s, member, entries, order, Q)
      BY <2>2, <3>2, <3>6, <3>7 DEF Renewed
    <3>9. WrittenFor(new, text, s, member, TRUE)
      BY <1>4, <2>5, <3>7, <3>8 DEF WrittenFor
    <3>10. QED
      BY <1>1, <3>9
  <2>11. QED
    BY <2>9, <2>10
<1>5. QED
  BY <1>3, <1>4

LEMMA MemberPutSound ==
  ASSUME NEW text \in Texts, Sound(text), NEW s \in Slugs, NEW member,
         EntryLike(member), member[1].slug = s, member[1].task = s
  PROVE  LET new == UpsertBlockMember(text, s, member)
         IN  /\ new \in Texts /\ Sound(new) /\ Unmanaged(new) = Unmanaged(text)
             /\ Leads(FindBlockMembers(new), new, s, member)
             /\ \A t : t # s => KeptOf(new, FindBlockMembers(new), text,
                                       FindBlockMembers(text), t)
             /\ \A t : KeptOf(new, FindManagedRegions(new), text, FindManagedRegions(text), t)
<1>1. PICK new : new = UpsertBlockMember(text, s, member)
  OBVIOUS
<1>2. WrittenFor(new, text, s, member, TRUE)
  BY <1>1, MemberPutWritten DEF Sound
<1>3. PICK entries, order, L :
        /\ Renewed(text, s, member, entries, order, L)
        /\ IF HasBlock(text) THEN new = Splice(text, BlockBounds(text), Block(entries))
           ELSE new = text \o Block(entries)
        /\ \E n \in DOMAIN entries : n \notin DOMAIN order \/ order[n].slug = s
  BY <1>2 DEF WrittenFor
<1>4. QED
  BY <1>1, <1>3, EntriesSound

(***************************************************************************)
(* The member of s is removed.                                              *)
(***************************************************************************)
LEMMA MemberRemovedWritten ==
  ASSUME NEW text \in Texts, Neat(text), NEW s, HasBlock(text),
         {m \in FindBlockMembers(text) : m.slug # s} # {}
  PROVE  WrittenFor(RemoveBlockMember(text, s), text, s, {}, FALSE)
<1> DEFINE Q == FindBlockMembers(text)
           left == {m \in Q : m.slug # s}
<1>1. PICK entries : entries = Pieces(text, left)
  OBVIOUS
<1>2. left \in SUBSET Q
  OBVIOUS
<1>3. PICK order : /\ Listing(order, left) /\ entries \in Seq(Texts)
                   /\ DOMAIN entries = DOMAIN order
                   /\ \A n \in DOMAIN order :
                         /\ entries[n] = Piece(text, order[n]) /\ EntryLike(entries[n])
                         /\ order[n] \in left
  BY <1>1, <1>2, PiecesListed
<1>4. RemoveBlockMember(text, s) = Splice(text, BlockBounds(text), Block(entries))
  BY <1>1 DEF RemoveBlockMember, RewriteBlock
<1>5. \A n \in DOMAIN order : order[n].slug # s
  BY <1>3
<1>6. /\ \A n \in DOMAIN entries : EntryLike(entries[n])
      /\ DOMAIN order \subseteq DOMAIN entries
      /\ \A q \in Q : q.slug # s => q \in left
      /\ \A n \in DOMAIN order : order[n].slug # s => entries[n] = Piece(text, order[n])
      /\ \A n \in DOMAIN entries : ~(n \notin DOMAIN order \/ order[n].slug = s)
      /\ \A m, n \in DOMAIN entries : m \in DOMAIN order
  BY <1>3, <1>5
<1> HIDE DEF left
<1>7. Renewed(text, s, {}, entries, order, left)
  BY <1>2, <1>3, <1>6 DEF Renewed
<1>8. QED
  BY <1>4, <1>7 DEF WrittenFor

\* The last member goes with the block.
LEMMA BlockGone ==
  ASSUME NEW text \in Texts, Neat(text), NEW s, HasBlock(text),
         {m \in FindBlockMembers(text) : m.slug # s} = {},
         NEW new, new = RemoveBlockMember(text, s)
  PROVE  LET P == FindBlockMembers(new)
             Q == FindBlockMembers(text)
         IN  \E put, a, b, d, f :
                /\ put \in Texts /\ BlockPut(put) /\ new \in Texts
                /\ Moved(new, text, a, b, put, d) /\ BlockRun(text, a, b)
                /\ Succeed(f, new, P, {}, text, Q, Q)
                /\ Q \ Q = {} /\ \A q \in Q : q.slug = s
<1> DEFINE P == FindBlockMembers(new)
           Q == FindBlockMembers(text)
<1>1. PICK put : put = << >>
  OBVIOUS
<1>2. put \in Texts /\ BlockPut(put)
  BY <1>1 DEF Texts, BlockPut
<1>3. new = Splice(text, BlockBounds(text), put)
  BY <1>1 DEF RemoveBlockMember
<1>4. /\ new \in Texts
      /\ \E a, b, d : Moved(new, text, a, b, put, d) /\ BlockRun(text, a, b)
  BY <1>2, <1>3, BlockWritten
<1>5. PICK a, b, d : Moved(new, text, a, b, put, d) /\ BlockRun(text, a, b)
  BY <1>4
<1>6. P = {}
  BY <1>1, <1>2, <1>4, <1>5, BlockSpliced, NoBlock
<1>7. PICK f : f = [q \in {} |-> q]
  OBVIOUS
<1>8. Q \ Q = {} /\ \A q \in Q : q.slug = s
  OBVIOUS
<1>9. Succeed(f, new, P, {}, text, Q, Q)
  BY <1>6, <1>7, <1>8 DEF Succeed
<1> HIDE DEF P, Q
<1>10. QED
  BY <1>2, <1>4, <1>5, <1>8, <1>9 DEF P, Q

LEMMA MemberRemovedSound ==
  ASSUME NEW text \in Texts, Sound(text), NEW s \in Slugs
  PROVE  LET new == RemoveBlockMember(text, s)
         IN  /\ new \in Texts /\ Sound(new) /\ Unmanaged(new) = Unmanaged(text)
             /\ \A t : t # s => KeptOf(new, FindBlockMembers(new), text,
                                       FindBlockMembers(text), t)
             /\ \A t : KeptOf(new, FindManagedRegions(new), text, FindManagedRegions(text), t)
<1>1. PICK new : new = RemoveBlockMember(text, s)
  OBVIOUS
<1>2. Neat(text)
  BY DEF Sound
<1> DEFINE Q == FindBlockMembers(text)
           P == FindBlockMembers(new)
<1>3. CASE ~HasBlock(text)
  <2>1. new = text
    BY <1>1, <1>3 DEF RemoveBlockMember
  <2>2. QED
    BY <1>1, <2>1 DEF KeptOf
<1>4. CASE HasBlock(text) /\ {m \in Q : m.slug # s} = {}
  <2>1. PICK put, a, b, d, f :
           /\ put \in Texts /\ BlockPut(put) /\ new \in Texts
           /\ Moved(new, text, a, b, put, d) /\ BlockRun(text, a, b)
           /\ Succeed(f, new, P, {}, text, Q, Q)
           /\ Q \ Q = {} /\ \A q \in Q : q.slug = s
    BY <1>1, <1>2, <1>4, BlockGone
  <2> HIDE DEF P, Q
  <2>2. /\ Sound(new) /\ Unmanaged(new) = Unmanaged(text)
        /\ \A t : t # s => KeptOf(new, P, text, Q, t)
        /\ \A t : KeptOf(new, FindManagedRegions(new), text, FindManagedRegions(text), t)
    BY <2>1, BlockChangedSound DEF P, Q
  <2>3. QED
    BY <1>1, <2>1, <2>2 DEF P, Q
<1>5. CASE HasBlock(text) /\ {m \in Q : m.slug # s} # {}
  <2>1. WrittenFor(new, text, s, {}, FALSE)
    BY <1>1, <1>2, <1>5, MemberRemovedWritten
  <2>2. PICK entries, order, L :
          /\ Renewed(text, s, {}, entries, order, L)
          /\ IF HasBlock(text) THEN new = Splice(text, BlockBounds(text), Block(entries))
             ELSE new = text \o Block(entries)
    BY <2>1 DEF WrittenFor
  <2>3. QED
    BY <1>1, <2>2, EntriesSound
<1>6. QED
  BY <1>3, <1>4, <1>5

-----------------------------------------------------------------------------
\* What is rendered.

\* Lines i and k are the markers of a region of s, and nothing else is one.
OnlyRegion(text, i, k, s) ==
    /\ Pair(text, i, k) /\ text[i].slug = s /\ text[i].task = s
    /\ \A j \in DOMAIN text : IsMarker(text[j]) => j = i \/ j = k

LEMMA RenderedShapes ==
  ASSUME NEW s \in Slugs, NEW rev \in Revs, NEW put, put = RenderArtefact(s, rev)
  PROVE  /\ Deploys[rev].shape = "region" =>
               /\ Pair(put, 1, Len(put)) /\ NoBlockMarks(put)
               /\ put[1].slug = s /\ put[1].task = s
         /\ Deploys[rev].shape = "block" =>
               EntryLike(put) /\ put[1].slug = s /\ put[1].task = s
         /\ WritesAFile(rev) => \E i, k : OnlyRegion(put, i, k, s)
<1> DEFINE a == Artefact(s, rev)
           begin == Line("begin", a.slug, a.task, a.rev)
           member == Line("member", a.slug, a.task, a.rev)
           entry == Entry(a)
           end == EndMarker(a.slug)
           shebang == Line("shebang", "", "", "")
<1>1. /\ begin.mark = "begin" /\ begin.slug = s /\ begin.task = s
      /\ member.mark = "member" /\ member.slug = s /\ member.task = s
      /\ entry.mark = "entry" /\ end.mark = "end" /\ end.slug = s
      /\ shebang.mark = "shebang" /\ Notice.mark = "notice"
  BY DEF Artefact, Line, Entry, EndMarker, Notice
<1>2. put \in Texts /\ \A i \in DOMAIN put : LineOf(put[i], s)
  BY RenderedText
<1>3. NoBlockMarks(put)
  BY <1>2 DEF NoBlockMarks, LineOf
<1> HIDE DEF begin, member, entry, end, shebang
<1>4. CASE Deploys[rev].shape = "region"
  <2>1. put = <<begin, entry, end>>
    BY <1>4 DEF RenderArtefact, RenderRegion, begin, entry, end
  <2>2. Pair(put, 1, Len(put)) /\ put[1].slug = s /\ put[1].task = s
    BY <1>1, <2>1 DEF Pair, IsMarker
  <2>3. QED
    BY <1>3, <1>4, <2>2 DEF WritesAFile
<1>5. CASE Deploys[rev].shape = "block"
  <2>1. put = <<member, entry>>
    BY <1>5 DEF RenderArtefact, RenderMember, member, entry
  <2>2. /\ put # <<>> /\ put[1].mark = "member" /\ put[1].slug = s /\ put[1].task = s
        /\ \A i \in DOMAIN put : /\ ~IsMarker(put[i]) /\ put[i].mark # "block_begin"
                                 /\ i # 1 => put[i].mark # "member"
    BY <1>1, <2>1 DEF IsMarker
  <2>3. QED
    BY <1>2, <1>5, <2>2 DEF WritesAFile, EntryLike
<1>6. CASE Deploys[rev].shape = "cron.d"
  <2>1. put = <<begin, Notice, entry, end>>
    BY <1>6 DEF RenderArtefact, RenderCronD, begin, entry, end
  <2>2. /\ DOMAIN put = 1..4 /\ put[1] = begin /\ put[2] = Notice /\ put[3] = entry
        /\ put[4] = end
    BY <2>1
  <2>3. OnlyRegion(put, 1, 4, s)
    BY <1>1, <2>2 DEF OnlyRegion, Pair, IsMarker
  <2>4. QED
    BY <1>6, <2>3
<1>7. CASE Deploys[rev].shape = "run-parts"
  <2>1. put = <<shebang>> \o <<begin, Notice, entry, end>>
    BY <1>7 DEF RenderArtefact, RenderRunParts, RenderCronD, begin, entry, end, shebang
  <2>2. PICK front, back : front = <<shebang>> /\ back = <<begin, Notice, entry, end>>
    OBVIOUS
  <2>3. PICK S : S = {shebang, begin, Notice, entry, end}
    OBVIOUS
  <2>4. /\ front \in Seq(S) /\ back \in Seq(S) /\ Len(front) = 1 /\ Len(back) = 4
        /\ front[1] = shebang /\ back[1] = begin /\ back[2] = Notice
        /\ back[3] = entry /\ back[4] = end
    BY <2>2, <2>3
  <2>5. put \in Seq(S) /\ Joins(put, front, back)
    BY <2>1, <2>2, <2>4, Joined
  <2>6. /\ DOMAIN put = 1..5 /\ put[1] = shebang /\ put[2] = begin /\ put[3] = Notice
        /\ put[4] = entry /\ put[5] = end
    BY <2>4, <2>5 DEF Joins
  <2>7. OnlyRegion(put, 2, 5, s)
    BY <1>1, <2>6 DEF OnlyRegion, Pair, IsMarker
  <2>8. QED
    BY <1>7, <2>7
<1>8. Deploys[rev].shape \in Shapes
  BY DeploymentAssumption
<1>9. QED
  BY <1>4, <1>5, <1>6, <1>7, <1>8 DEF Shapes

\* A file with one region.
LEMMA OneRegionRead ==
  ASSUME NEW text \in Texts, NEW i, NEW k, NEW s, OnlyRegion(text, i, k, s)
  PROVE  /\ RegionsReadable(text)
         /\ RegionAt(text, i, k) \in FindManagedRegions(text)
         /\ \A r \in FindManagedRegions(text) : r = RegionAt(text, i, k)
         /\ RegionAt(text, i, k).slug = s /\ RegionAt(text, i, k).task = s
<1>1. /\ Pair(text, i, k) /\ text[i].slug = s /\ text[i].task = s
      /\ \A j \in DOMAIN text : IsMarker(text[j]) => j = i \/ j = k
      /\ i \in DOMAIN text /\ k \in DOMAIN text /\ text[i].mark = "begin"
      /\ text[k].mark = "end"
  BY DEF OnlyRegion, Pair
<1>2. \A j \in DOMAIN text : /\ text[j].mark = "begin" => j = i
                             /\ text[j].mark = "end" => j = k
  BY <1>1 DEF IsMarker
<1>3. Paired(text) /\ OneRegionEach(text)
  BY <1>1, <1>2 DEF Paired, OneRegionEach
<1>4. RegionsReadable(text)
  BY <1>3, ReadableMeansPaired
<1>5. RegionAt(text, i, k) \in FindManagedRegions(text)
  BY <1>1, <1>3, RegionsArePairs
<1>6. ASSUME NEW r \in FindManagedRegions(text) PROVE r = RegionAt(text, i, k)
  <2>1. PICK j, l \in DOMAIN text : Pair(text, j, l) /\ r = RegionAt(text, j, l)
    BY <1>3, RegionsArePairs
  <2>2. j = i /\ l = k
    BY <1>2, <2>1 DEF Pair
  <2>3. QED
    BY <2>1, <2>2
<1>7. RegionAt(text, i, k).slug = s /\ RegionAt(text, i, k).task = s
  BY <1>1 DEF RegionAt
<1>8. QED
  BY <1>4, <1>5, <1>6, <1>7

-----------------------------------------------------------------------------
\* Jobs on a text in order.

LEMMA SoundMeans ==
  ASSUME NEW text \in Texts
  PROVE  Readable(text) /\ Apart(text) /\ Attributed(text) <=> Sound(text)
<1>1. ASSUME Sound(text) PROVE Readable(text) /\ Apart(text) /\ Attributed(text)
  <2>1. Readable(text) /\ Apart(text)
    BY <1>1, SoundReads
  <2>2. \A h \in Held(text) : h.task \in Slugs => h.slug = h.task
    BY <1>1 DEF Sound, Named, Held
  <2>3. QED
    BY <1>1, <2>1, <2>2 DEF Attributed, Sound, OneOf
<1>2. ASSUME Readable(text), Apart(text), Attributed(text) PROVE Sound(text)
  <2>1. Neat(text) /\ OneRegionEach(text) /\ OneMemberEach(text)
    BY <1>2, ReadableMeansNeat
  <2>2. OnePer(FindManagedRegions(text)) /\ OnePer(FindBlockMembers(text))
    BY <2>1, OneRegionPer DEF OneMemberEach, OnePer
  <2>3. ASSUME NEW r \in FindManagedRegions(text) \cup FindBlockMembers(text),
               r.task \in Slugs
        PROVE  r.slug = r.task
    <3>1. [slug |-> r.slug, task |-> r.task] \in Held(text)
      BY DEF Held
    <3>2. QED
      BY <1>2, <2>3, <3>1 DEF Attributed
  <2>4. Named(FindManagedRegions(text)) /\ Named(FindBlockMembers(text))
    BY <2>3 DEF Named
  <2>5. OneOf(FindBlockMembers(text))
    BY <1>2 DEF Attributed, OneOf
  <2>6. QED
    BY <2>1, <2>2, <2>4, <2>5 DEF Sound
<1>3. QED
  BY <1>1, <1>2

\* The pieces among which an artefact of the revision is.
Kind(text, rev) ==
    IF Deploys[rev].shape = "region" THEN FindManagedRegions(text)
    ELSE FindBlockMembers(text)

LEMMA KindStarts ==
  ASSUME NEW text \in Texts, Neat(text), NEW rev
  PROVE  ByStart(Kind(text, rev)) /\ \A r \in Kind(text, rev) : r.start \in Nat
<1>1. \A r \in FindManagedRegions(text) : r.start \in Nat
  BY RegionFacts, AtFacts
<1>2. \A r \in FindBlockMembers(text) : r.start \in Nat
  BY MemberLines
<1>3. QED
  BY <1>1, <1>2, StartsTell DEF Kind

\* The first piece of s is the one that FirstOf takes.
LEMMA FirstLeads ==
  ASSUME NEW text \in Texts, Neat(text), NEW s, NEW rev
  PROVE  /\ Carrying(text, s, rev) # {} =>
               Leading(Kind(text, rev), s, FirstOf(Carrying(text, s, rev)))
         /\ \A r : Leading(Kind(text, rev), s, r) =>
               Carrying(text, s, rev) # {} /\ r = FirstOf(Carrying(text, s, rev))
<1>1. PICK pieces : pieces = Kind(text, rev)
  OBVIOUS
<1>2. PICK mine : mine = Carrying(text, s, rev)
  OBVIOUS
<1>3. mine = {r \in pieces : r.slug = s}
  BY <1>1, <1>2 DEF Carrying, Kind
<1>4. ByStart(pieces) /\ \A r \in pieces : r.start \in Nat
  BY <1>1, KindStarts
<1>5. ASSUME mine # {} PROVE Leading(pieces, s, FirstOf(mine))
  <2> DEFINE starts == {r.start : r \in mine}
  <2>1. PICK n \in starts : \A m \in starts : n <= m
    <3>1. starts \in SUBSET Nat /\ starts # {}
      BY <1>3, <1>4, <1>5
    <3>2. QED
      BY <3>1, Least
  <2>2. \E r \in mine : \A q \in mine : r.start <= q.start
    BY <2>1
  <2>3. FirstOf(mine) \in mine /\ \A q \in mine : FirstOf(mine).start <= q.start
    BY <2>2 DEF FirstOf
  <2>4. QED
    BY <1>3, <2>3 DEF Leading
<1>6. ASSUME NEW r, Leading(pieces, s, r) PROVE mine # {} /\ r = FirstOf(mine)
  <2>1. r \in mine /\ \A q \in mine : r.start <= q.start
    BY <1>3, <1>6 DEF Leading
  <2>2. Leading(pieces, s, FirstOf(mine))
    BY <1>5, <2>1
  <2>3. /\ FirstOf(mine) \in mine /\ FirstOf(mine) \in pieces /\ r \in pieces
        /\ FirstOf(mine).start <= r.start /\ r.start <= FirstOf(mine).start
    BY <1>3, <2>1, <2>2 DEF Leading
  <2>4. FirstOf(mine).start = r.start
    BY <1>4, <2>3
  <2>5. QED
    BY <1>4, <2>1, <2>3, <2>4 DEF ByStart
<1>7. QED
  BY <1>1, <1>2, <1>5, <1>6

LEMMA LeadsOwn ==
  ASSUME NEW text \in Texts, Neat(text), NEW s, NEW rev, NEW c,
         Leads(Kind(text, rev), text, s, c)
  PROVE  OwnFirst(Kind(text, rev), s)
BY FirstLeads DEF Leads, OwnFirst

\* Where nothing is ambiguous the first piece is ours.
LEMMA UnambiguousOwn ==
  ASSUME NEW on, NEW s, NEW rev, NEW text \in Texts, text = on[CellOf(s, rev)],
         Neat(text), ~WritesAFile(rev), ~Ambiguous(on, s, rev)
  PROVE  OwnFirst(Kind(text, rev), s)
<1>1. Carrying(text, s, rev) # {} => FirstOf(Carrying(text, s, rev)).task = s
  BY DEF Ambiguous
<1>2. QED
  BY <1>1, FirstLeads DEF OwnFirst

\* No artefact that could be put is lost to another of its slug.
StaysOwn(new, text, t) ==
    \A rev : OwnFirst(Kind(text, rev), t) => OwnFirst(Kind(new, rev), t)

LEMMA PutOnSound ==
  ASSUME NEW job \in Jobs, IsPut(job), IsCrontab(job.cell), NEW text \in Texts, Sound(text),
         OwnFirst(Kind(text, job.rev), job.slug)
  PROVE  LET new == NewText(job, text)
         IN  /\ new \in Texts /\ Sound(new) /\ Unmanaged(new) = Unmanaged(text)
             /\ \A t : StaysOwn(new, text, t)
<1>1. PICK new, s, rev, put : /\ new = NewText(job, text) /\ s = job.slug /\ rev = job.rev
                              /\ put = RenderArtefact(s, rev)
  OBVIOUS
<1>2. s \in Slugs /\ rev \in Revs /\ ~WritesAFile(rev) /\ rev # NoRev
  BY <1>1, CellFacts DEF Jobs, IsPut
<1>3. Deploys[rev].shape \in {"region", "block"}
  BY <1>2, DeploymentAssumption DEF WritesAFile, Shapes
<1>4. put \in Texts
  BY <1>1, <1>2, RenderedText
<1>5. CASE Deploys[rev].shape = "region"
  <2>1. new = ReplaceRegion(text, s, put)
    BY <1>1, <1>2, <1>5 DEF NewText
  <2>2. OwnFirst(FindManagedRegions(text), s)
    BY <1>1, <1>5 DEF Kind
  <2>3. Pair(put, 1, Len(put)) /\ NoBlockMarks(put) /\ put[1].slug = s /\ put[1].task = s
    BY <1>1, <1>2, <1>5, RenderedShapes
  <2>4. /\ new \in Texts /\ Sound(new) /\ Unmanaged(new) = Unmanaged(text)
        /\ Leads(FindManagedRegions(new), new, s, put)
        /\ \A t : t # s => KeptOf(new, FindManagedRegions(new), text,
                                  FindManagedRegions(text), t)
        /\ \A t : KeptOf(new, FindBlockMembers(new), text, FindBlockMembers(text), t)
    BY <1>2, <1>4, <2>1, <2>2, <2>3, RegionPutSound
  <2>5. OwnFirst(FindManagedRegions(new), s)
    <3>1. Kind(new, rev) = FindManagedRegions(new)
      BY <1>5 DEF Kind
    <3>2. QED
      BY <2>4, <3>1, LeadsOwn DEF Sound
  <2>6. \A t : StaysOwn(new, text, t)
    BY <2>4, <2>5 DEF StaysOwn, Kind, KeptOf
  <2>7. QED
    BY <1>1, <2>4, <2>6
<1>6. CASE Deploys[rev].shape = "block"
  <2>1. new = UpsertBlockMember(text, s, put)
    BY <1>1, <1>2, <1>6 DEF NewText
  <2>2. EntryLike(put) /\ put[1].slug = s /\ put[1].task = s
    BY <1>1, <1>2, <1>6, RenderedShapes
  <2>3. /\ new \in Texts /\ Sound(new) /\ Unmanaged(new) = Unmanaged(text)
        /\ Leads(FindBlockMembers(new), new, s, put)
        /\ \A t : t # s => KeptOf(new, FindBlockMembers(new), text,
                                  FindBlockMembers(text), t)
        /\ \A t : KeptOf(new, FindManagedRegions(new), text, FindManagedRegions(text), t)
    BY <1>2, <2>1, <2>2, MemberPutSound
  <2>4. OwnFirst(FindBlockMembers(new), s)
    <3>1. Kind(new, rev) = FindBlockMembers(new)
      BY <1>6 DEF Kind
    <3>2. QED
      BY <2>3, <3>1, LeadsOwn DEF Sound
  <2>5. \A t : StaysOwn(new, text, t)
    BY <2>3, <2>4 DEF StaysOwn, Kind, KeptOf
  <2>6. QED
    BY <1>1, <2>3, <2>5
<1>7. QED
  BY <1>3, <1>5, <1>6

LEMMA DropOnSound ==
  ASSUME NEW job \in Jobs, ~IsPut(job), IsCrontab(job.cell), NEW text \in Texts, Sound(text)
  PROVE  LET new == NewText(job, text)
         IN  /\ new \in Texts /\ Sound(new) /\ Unmanaged(new) = Unmanaged(text)
             /\ \A t : t # job.slug => StaysOwn(new, text, t)
<1>1. PICK new, s : new = NewText(job, text) /\ s = job.slug
  OBVIOUS
<1>2. s \in Slugs /\ job.rev = NoRev
  BY <1>1 DEF Jobs, IsPut
<1>3. PICK left : left = RemoveRegion(text, s)
  OBVIOUS
<1>4. /\ left \in Texts /\ Sound(left) /\ Unmanaged(left) = Unmanaged(text)
      /\ \A t : t # s => KeptOf(left, FindManagedRegions(left), text,
                                FindManagedRegions(text), t)
      /\ \A t : KeptOf(left, FindBlockMembers(left), text, FindBlockMembers(text), t)
  BY <1>2, <1>3, RegionRemovedSound
<1>5. \A t : t # s => StaysOwn(left, text, t)
  BY <1>4 DEF StaysOwn, Kind, KeptOf
<1>6. CASE ~HasMember(text, s)
  <2>1. new = left
    BY <1>1, <1>2, <1>3, <1>6 DEF NewText
  <2>2. QED
    BY <1>1, <1>4, <1>5, <2>1
<1>7. CASE HasMember(text, s)
  <2>1. new = RemoveBlockMember(left, s)
    BY <1>1, <1>2, <1>3, <1>7 DEF NewText
  <2>2. /\ new \in Texts /\ Sound(new) /\ Unmanaged(new) = Unmanaged(left)
        /\ \A t : t # s => KeptOf(new, FindBlockMembers(new), left,
                                  FindBlockMembers(left), t)
        /\ \A t : KeptOf(new, FindManagedRegions(new), left, FindManagedRegions(left), t)
    BY <1>2, <1>4, <2>1, MemberRemovedSound
  <2>3. \A t : t # s => StaysOwn(new, left, t)
    BY <2>2 DEF StaysOwn, Kind, KeptOf
  <2>4. \A t : t # s => StaysOwn(new, text, t)
    BY <1>5, <2>3 DEF StaysOwn
  <2>5. QED
    BY <1>1, <1>4, <2>2, <2>4
<1>8. QED
  BY <1>6, <1>7

-----------------------------------------------------------------------------
\* Writing one artefact into a text in which the others may be anybody's.

\* What the new text holds of others than s the old one held.
Keeping(new, text, s) ==
    /\ new \in Texts /\ Neat(new)
    /\ \A t : t # s =>
          /\ KeptOf(new, FindManagedRegions(new), text, FindManagedRegions(text), t)
          /\ KeptOf(new, FindBlockMembers(new), text, FindBlockMembers(text), t)

LEMMA KeepingBoth ==
  ASSUME NEW text, NEW mid, NEW new, NEW s, Keeping(mid, text, s), Keeping(new, mid, s)
  PROVE  Keeping(new, text, s)
BY DEF Keeping, KeptOf

LEMMA RegionPutKeeps ==
  ASSUME NEW text \in Texts, Neat(text), NEW s, NEW put \in Texts, RegionPut(put),
         put # <<>> => put[1].slug = s,
         NEW new, IF HasRegion(text, s) THEN new = Splice(text, RegionOf(text, s), put)
                  ELSE new = text \o put
  PROVE  /\ Keeping(new, text, s)
         /\ OnePer(FindBlockMembers(text)) => OnePer(FindBlockMembers(new))
<1>1. /\ new \in Texts
      /\ \E a, b, d : /\ Moved(new, text, a, b, put, d) /\ RegionRun(text, a, b)
                      /\ HasRegion(text, s) => /\ Pair(text, a, b)
                                               /\ RegionOf(text, s) = RegionAt(text, a, b)
                      /\ ~HasRegion(text, s) => a = Len(text) + 1
  BY RegionWritten
<1>2. PICK a, b, d : /\ Moved(new, text, a, b, put, d) /\ RegionRun(text, a, b)
                     /\ HasRegion(text, s) => /\ Pair(text, a, b)
                                              /\ RegionOf(text, s) = RegionAt(text, a, b)
                     /\ ~HasRegion(text, s) => a = Len(text) + 1
  BY <1>1
<1> DEFINE R == FindManagedRegions(text)
           N == FindManagedRegions(new)
           came == On(N, a, b + d)
           gone == On(R, a, b)
<1>3. /\ Neat(new)
      /\ \E f : Succeed(f, new, N, came, text, R, gone)
      /\ \E f : Succeed(f, new, FindBlockMembers(new), {}, text, FindBlockMembers(text), {})
      /\ \A r \in came : r.slug = s
      /\ \A q \in gone : q = RegionAt(text, a, b)
  BY <1>1, <1>2, RegionChanged
<1>4. PICK f : Succeed(f, new, N, came, text, R, gone)
  BY <1>3
<1>5. PICK g : Succeed(g, new, FindBlockMembers(new), {}, text, FindBlockMembers(text), {})
  BY <1>3
<1>6. ByStart(R) /\ ByStart(N) /\ ByStart(FindBlockMembers(new))
      /\ ByStart(FindBlockMembers(text))
  BY <1>1, <1>3, StartsTell
<1>7. ASSUME NEW q \in gone PROVE q.slug = s
  <2>1. q = RegionAt(text, a, b) /\ q \in R /\ a <= q.start /\ q.start <= b
    BY <1>3 DEF On
  <2>2. HasRegion(text, s)
    <3>1. CASE a = Len(text) + 1
      <4>1. q.start \in DOMAIN text /\ Len(text) \in Nat /\ DOMAIN text = 1..Len(text)
        BY <2>1, RegionFacts DEF Texts
      <4>2. QED
        BY <2>1, <3>1, <4>1
    <3>2. QED
      BY <1>2, <3>1
  <2>3. Leading(R, s, RegionOf(text, s))
    BY <2>2, RegionLeads
  <2>4. QED
    BY <1>2, <2>1, <2>2, <2>3 DEF Leading
<1> HIDE DEF came, gone, N, R
<1>8. ASSUME NEW t, t # s PROVE KeptOf(new, N, text, R, t)
  <2>1. (\A r \in came : r.slug # t) /\ \A q \in gone : q.slug # t
    BY <1>3, <1>7, <1>8
  <2>2. QED
    BY <1>4, <1>6, <2>1, OthersStay
<1>9. ASSUME NEW t
      PROVE  KeptOf(new, FindBlockMembers(new), text, FindBlockMembers(text), t)
  BY <1>5, <1>6, OthersStay
<1>10. OnePer(FindBlockMembers(text)) => OnePer(FindBlockMembers(new))
  BY <1>5, OneStays
<1>11. QED
  BY <1>1, <1>3, <1>8, <1>9, <1>10 DEF Keeping, N, R

LEMMA RegionRemovedKeeps ==
  ASSUME NEW text \in Texts, Neat(text), NEW s
  PROVE  LET new == RemoveRegion(text, s)
         IN  /\ Keeping(new, text, s)
             /\ OnePer(FindBlockMembers(text)) => OnePer(FindBlockMembers(new))
<1>1. CASE ~HasRegion(text, s)
  <2>1. RemoveRegion(text, s) = text
    BY <1>1 DEF RemoveRegion
  <2>2. QED
    BY <2>1 DEF Keeping, KeptOf
<1>2. CASE HasRegion(text, s)
  <2>1. PICK new : new = RemoveRegion(text, s)
    OBVIOUS
  <2>2. PICK put : put = <<>>
    OBVIOUS
  <2>3. put \in Texts /\ RegionPut(put)
    BY <2>2 DEF Texts, RegionPut, NoBlockMarks
  <2>4. IF HasRegion(text, s) THEN new = Splice(text, RegionOf(text, s), put)
        ELSE new = text \o put
    BY <1>2, <2>1, <2>2 DEF RemoveRegion
  <2>5. QED
    BY <2>1, <2>2, <2>3, <2>4, RegionPutKeeps
<1>3. QED
  BY <1>1, <1>2

\* The block is written anew from Renewed entries.
LEMMA EntriesKept ==
  ASSUME NEW text \in Texts, Neat(text), NEW s, NEW member,
         NEW entries, NEW order, NEW L, Renewed(text, s, member, entries, order, L),
         NEW new, IF HasBlock(text) THEN new = Splice(text, BlockBounds(text), Block(entries))
                  ELSE new = text \o Block(entries)
  PROVE  /\ Keeping(new, text, s)
         /\ OnePer(FindManagedRegions(text)) => OnePer(FindManagedRegions(new))
<1>0. /\ entries \in Seq(Texts) /\ \A n \in DOMAIN entries : EntryLike(entries[n])
      /\ L \subseteq FindBlockMembers(text) /\ Listing(order, L)
      /\ DOMAIN order \subseteq DOMAIN entries
      /\ \A q \in FindBlockMembers(text) : q.slug # s => q \in L
      /\ \A n \in DOMAIN order : order[n].slug # s => entries[n] = Piece(text, order[n])
      /\ \A n \in DOMAIN entries : n \notin DOMAIN order \/ order[n].slug = s =>
            entries[n] = member /\ entries[n][1].slug = s /\ entries[n][1].task = s
  BY DEF Renewed
<1>1. PICK put : put = Block(entries)
  OBVIOUS
<1>2. put \in Texts
  BY <1>0, <1>1, BlockShape
<1>3. /\ new \in Texts
      /\ \E a, b, d : Moved(new, text, a, b, put, d) /\ BlockRun(text, a, b)
  BY <1>1, <1>2, BlockWritten
<1>4. PICK a, b, d : Moved(new, text, a, b, put, d) /\ BlockRun(text, a, b)
  BY <1>3
<1>5. BlockPut(put) /\ \E place : Placed(place, new, entries)
  BY <1>0, <1>1, <1>3, <1>4, EntriesPlaced
<1>6. PICK place : Placed(place, new, entries)
  BY <1>5
<1> DEFINE Q == FindBlockMembers(text)
           P == FindBlockMembers(new)
           R == FindManagedRegions(text)
           N == FindManagedRegions(new)
<1>7. PICK gone : gone = {q \in Q : q.slug = s}
  OBVIOUS
<1>8. PICK came : came = Newcomers(place, entries, order, gone)
  OBVIOUS
<1>9. /\ \A n \in DOMAIN order : order[n] \in L /\ order[n] \in Q
      /\ DOMAIN entries \subseteq Int
  BY <1>0 DEF Listing
<1>10. \E f : Succeed(f, new, P, came, text, Q, gone)
  <2>1. L \in SUBSET Q /\ Listing(order, L) /\ Q \ gone \subseteq L
        /\ \A n \in DOMAIN order : order[n] \notin gone => entries[n] = Piece(text, order[n])
    BY <1>0, <1>7, <1>9
  <2>2. QED
    BY <1>0, <1>6, <1>8, <1>9, <2>1, MembersPlaced
<1>11. PICK f : Succeed(f, new, P, came, text, Q, gone)
  BY <1>10
<1>12. \A r \in came : r.slug = s
  <2>1. \A r \in came : \E n \in Fresh(entries, order, gone) : r = place[n]
    BY <1>8 DEF Newcomers
  <2>2. ASSUME NEW n \in Fresh(entries, order, gone) PROVE place[n].slug = s
    <3>1. n \in DOMAIN entries /\ (n \notin DOMAIN order \/ order[n].slug = s)
      BY <1>7 DEF Fresh
    <3>2. QED
      BY <1>0, <1>6, <3>1 DEF Placed
  <2>3. QED
    BY <2>1, <2>2
<1>13. /\ Neat(new)
       /\ \E g : Succeed(g, new, N, {}, text, R, {})
  BY <1>2, <1>3, <1>4, <1>5, BlockChangedRegions
<1>14. PICK g : Succeed(g, new, N, {}, text, R, {})
  BY <1>13
<1>15. ByStart(P) /\ ByStart(Q) /\ ByStart(R) /\ ByStart(N)
  BY <1>3, <1>13, StartsTell
<1> HIDE DEF P, Q, R, N
<1>16. ASSUME NEW t, t # s PROVE KeptOf(new, P, text, Q, t)
  <2>1. (\A r \in came : r.slug # t) /\ \A q \in gone : q.slug # t
    BY <1>7, <1>12, <1>16
  <2>2. QED
    BY <1>11, <1>15, <2>1, OthersStay
<1>17. ASSUME NEW t PROVE KeptOf(new, N, text, R, t)
  BY <1>14, <1>15, OthersStay
<1>18. OnePer(R) => OnePer(N)
  BY <1>14, OneStays
<1>19. QED
  BY <1>3, <1>13, <1>16, <1>17, <1>18 DEF Keeping, P, Q, R, N

LEMMA MemberPutKeeps ==
  ASSUME NEW text \in Texts, Neat(text), NEW s, NEW member,
         EntryLike(member), member[1].slug = s, member[1].task = s
  PROVE  LET new == UpsertBlockMember(text, s, member)
         IN  /\ Keeping(new, text, s)
             /\ OnePer(FindManagedRegions(text)) => OnePer(FindManagedRegions(new))
<1>1. PICK new : new = UpsertBlockMember(text, s, member)
  OBVIOUS
<1>2. WrittenFor(new, text, s, member, TRUE)
  BY <1>1, MemberPutWritten
<1>3. QED
  BY <1>1, <1>2, EntriesKept DEF WrittenFor

LEMMA MemberRemovedKeeps ==
  ASSUME NEW text \in Texts, Neat(text), NEW s
  PROVE  LET new == RemoveBlockMember(text, s)
         IN  /\ Keeping(new, text, s)
             /\ OnePer(FindManagedRegions(text)) => OnePer(FindManagedRegions(new))
<1>1. PICK new : new = RemoveBlockMember(text, s)
  OBVIOUS
<1> DEFINE Q == FindBlockMembers(text)
           P == FindBlockMembers(new)
           R == FindManagedRegions(text)
           N == FindManagedRegions(new)
<1>2. CASE ~HasBlock(text)
  <2>1. new = text
    BY <1>1, <1>2 DEF RemoveBlockMember
  <2>2. QED
    BY <1>1, <2>1 DEF Keeping, KeptOf
<1>3. CASE HasBlock(text) /\ {m \in Q : m.slug # s} = {}
  <2>1. PICK put, a, b, d, f :
           /\ put \in Texts /\ BlockPut(put) /\ new \in Texts
           /\ Moved(new, text, a, b, put, d) /\ BlockRun(text, a, b)
           /\ Succeed(f, new, P, {}, text, Q, Q)
           /\ Q \ Q = {} /\ \A q \in Q : q.slug = s
    BY <1>1, <1>3, BlockGone
  <2>2. Neat(new) /\ \E g : Succeed(g, new, N, {}, text, R, {})
    BY <2>1, BlockChangedRegions
  <2>3. PICK g : Succeed(g, new, N, {}, text, R, {})
    BY <2>2
  <2>4. ByStart(P) /\ ByStart(Q) /\ ByStart(R) /\ ByStart(N)
    BY <2>1, <2>2, StartsTell
  <2> HIDE DEF P, Q, R, N
  <2>5. ASSUME NEW t, t # s PROVE KeptOf(new, P, text, Q, t)
    BY <2>1, <2>4, <2>5, OthersStay
  <2>6. ASSUME NEW t PROVE KeptOf(new, N, text, R, t)
    BY <2>3, <2>4, OthersStay
  <2>7. OnePer(R) => OnePer(N)
    BY <2>3, OneStays
  <2>8. QED
    BY <1>1, <2>1, <2>2, <2>5, <2>6, <2>7 DEF Keeping, P, Q, R, N
<1>4. CASE HasBlock(text) /\ {m \in Q : m.slug # s} # {}
  <2>1. WrittenFor(new, text, s, {}, FALSE)
    BY <1>1, <1>4, MemberRemovedWritten
  <2>2. QED
    BY <1>1, <2>1, EntriesKept DEF WrittenFor
<1>5. QED
  BY <1>2, <1>3, <1>4

\* Every part of a crontab is in order but for the names.
Tidy(text) ==
    Neat(text) /\ OnePer(FindManagedRegions(text)) /\ OnePer(FindBlockMembers(text))

LEMMA TidyMeans ==
  ASSUME NEW text \in Texts
  PROVE  /\ Readable(text) /\ Apart(text) <=> Tidy(text)
         /\ RegionsReadable(text) => OnePer(FindManagedRegions(text))
         /\ BlockReadable(text) => OnePer(FindBlockMembers(text))
         /\ Tidy(text) => RegionsReadable(text) /\ BlockReadable(text)
<1>1. OneMemberEach(text) <=> OnePer(FindBlockMembers(text))
  BY DEF OneMemberEach, OnePer
<1>2. RegionsReadable(text) => OnePer(FindManagedRegions(text))
  BY ReadableMeansPaired, OneRegionPer
<1>3. BlockReadable(text) => OnePer(FindBlockMembers(text))
  BY DEF BlockReadable, OnePer
<1>4. Readable(text) /\ Apart(text) <=> Tidy(text)
  BY <1>1, ReadableMeansNeat, OneRegionPer DEF Tidy
<1>5. Tidy(text) => RegionsReadable(text) /\ BlockReadable(text)
  BY <1>4 DEF Readable
<1>6. QED
  BY <1>2, <1>3, <1>4, <1>5

(***************************************************************************)
(* What a job writes into a crontab in order that can be read afterwards is *)
(* in order, and holds of others what it held.                              *)
(***************************************************************************)
LEMMA PutKeeps ==
  ASSUME NEW job \in Jobs, IsPut(job), IsCrontab(job.cell), NEW text \in Texts, Tidy(text),
         NEW new, new = NewText(job, text),
         Deploys[job.rev].shape = "region" => RegionsReadable(new),
         Deploys[job.rev].shape = "block" => BlockReadable(new)
  PROVE  Keeping(new, text, job.slug) /\ Tidy(new)
<1>1. PICK s, rev, put : s = job.slug /\ rev = job.rev /\ put = RenderArtefact(s, rev)
  OBVIOUS
<1>2. s \in Slugs /\ rev \in Revs /\ ~WritesAFile(rev) /\ rev # NoRev
  BY <1>1, CellFacts DEF Jobs, IsPut
<1>3. Deploys[rev].shape \in {"region", "block"}
  BY <1>2, DeploymentAssumption DEF WritesAFile, Shapes
<1>4. put \in Texts
  BY <1>1, <1>2, RenderedText
<1>5. Neat(text) /\ OnePer(FindManagedRegions(text)) /\ OnePer(FindBlockMembers(text))
  BY DEF Tidy
<1>6. CASE Deploys[rev].shape = "region"
  <2>1. new = ReplaceRegion(text, s, put)
    BY <1>1, <1>2, <1>6 DEF NewText
  <2>2. Pair(put, 1, Len(put)) /\ NoBlockMarks(put) /\ put[1].slug = s
    BY <1>1, <1>2, <1>6, RenderedShapes
  <2>3. RegionPut(put)
    BY <2>2 DEF RegionPut
  <2>4. IF HasRegion(text, s) THEN new = Splice(text, RegionOf(text, s), put)
        ELSE new = text \o put
    BY <2>1 DEF ReplaceRegion
  <2>5. Keeping(new, text, s) /\ OnePer(FindBlockMembers(new))
    BY <1>4, <1>5, <2>2, <2>3, <2>4, RegionPutKeeps
  <2>6. OnePer(FindManagedRegions(new))
    BY <1>1, <1>6, <2>5, TidyMeans DEF Keeping
  <2>7. QED
    BY <1>1, <2>5, <2>6 DEF Tidy, Keeping
<1>7. CASE Deploys[rev].shape = "block"
  <2>1. new = UpsertBlockMember(text, s, put)
    BY <1>1, <1>2, <1>7 DEF NewText
  <2>2. EntryLike(put) /\ put[1].slug = s /\ put[1].task = s
    BY <1>1, <1>2, <1>7, RenderedShapes
  <2>3. Keeping(new, text, s) /\ OnePer(FindManagedRegions(new))
    BY <1>5, <2>1, <2>2, MemberPutKeeps
  <2>4. OnePer(FindBlockMembers(new))
    BY <1>1, <1>7, <2>3, TidyMeans DEF Keeping
  <2>5. QED
    BY <1>1, <2>3, <2>4 DEF Tidy, Keeping
<1>8. QED
  BY <1>3, <1>6, <1>7

LEMMA DropKeeps ==
  ASSUME NEW job \in Jobs, ~IsPut(job), IsCrontab(job.cell), NEW text \in Texts, Tidy(text),
         NEW new, new = NewText(job, text), Readable(new)
  PROVE  Keeping(new, text, job.slug) /\ Tidy(new)
<1>1. PICK s, left : s = job.slug /\ left = RemoveRegion(text, s)
  OBVIOUS
<1>2. job.rev = NoRev
  BY DEF IsPut
<1>3. Neat(text)
  BY DEF Tidy
<1>4. Keeping(left, text, s)
  BY <1>1, <1>3, RegionRemovedKeeps
<1>5. CASE ~HasMember(text, s)
  <2>1. new = left
    BY <1>1, <1>2, <1>5 DEF NewText
  <2>2. QED
    BY <1>1, <1>4, <2>1, TidyMeans DEF Tidy, Keeping, Readable
<1>6. CASE HasMember(text, s)
  <2>1. new = RemoveBlockMember(left, s)
    BY <1>1, <1>2, <1>6 DEF NewText
  <2>2. Keeping(new, left, s)
    BY <1>4, <2>1, MemberRemovedKeeps DEF Keeping
  <2>3. Keeping(new, text, s)
    BY <1>4, <2>2, KeepingBoth
  <2>4. QED
    BY <1>1, <2>3, TidyMeans DEF Tidy, Keeping, Readable
<1>7. QED
  BY <1>5, <1>6
=============================================================================
