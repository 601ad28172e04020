---------------------------- MODULE FramingLemmas ----------------------------
(* What the operators of Framing compute, for all inputs: lists, bytes, the *)
(* rewriting of samples and its tilings, and the reader of Annex-B. A loop of *)
(* the code is a recursive function there, so most of this is by induction. An *)
(* induction is over the set T of the numbers or lists that satisfy the claim, *)
(* and a function that exists by induction is the one that CHOOSE takes.   *)
EXTENDS Framing, Integers, SequenceTheorems, WellFoundedInduction, TLAPS

\* A set of naturals has a least member (from WFMin): induction without an
\* operator.
LEMMA Least ==
  ASSUME NEW T, T \subseteq Nat, T # {}
  PROVE  \E m \in T : \A k \in T : m <= k
<1> DEFINE R == OpToRel(<, Nat)
<1>1. IsWellFoundedOn(R, Nat)
  BY NatLessThanWellFounded
<1>2. \A k, m \in Nat : <<k, m>> \in R <=> k < m
  BY DEF OpToRel
<1> HIDE DEF R
<1>3. PICK m \in T : \A k \in T : ~(<<k, m>> \in R)
  BY <1>1, WFMin
<1>4. m \in Nat /\ T \subseteq Nat
  OBVIOUS
<1>5. \A k \in T : ~(k < m)
  BY <1>2, <1>3, <1>4
<1>6. \A k \in T : m <= k
  BY <1>4, <1>5
<1>7. QED
  BY <1>6

\* Induction over the naturals, for a set T.
LEMMA Induct ==
  ASSUME NEW T, 0 \in T, \A n \in Nat : n \in T => n + 1 \in T
  PROVE  \A n \in Nat : n \in T
<1> DEFINE B == Nat \ T
<1> SUFFICES ASSUME B # {} PROVE FALSE
  OBVIOUS
<1>1. PICK m \in B : \A k \in B : m <= k
  <2>1. B \subseteq Nat
    OBVIOUS
  <2> HIDE DEF B
  <2>2. QED
    BY <2>1, Least
<1>2. m # 0 /\ m - 1 \in Nat /\ m - 1 \notin B
  BY <1>1
<1>3. QED
  BY <1>1, <1>2

\* Induction up to a bound.
LEMMA InductUpTo ==
  ASSUME NEW n \in Nat, NEW T, 0 \in T, \A i \in 1..n : i - 1 \in T => i \in T
  PROVE  \A i \in 0..n : i \in T
<1> DEFINE S == {i \in Nat : i <= n => i \in T}
<1>1. 0 \in S
  OBVIOUS
<1>2. ASSUME NEW i \in Nat, i \in S PROVE i + 1 \in S
  <2>1. i + 1 <= n => i + 1 \in 1..n /\ (i + 1) - 1 = i
    OBVIOUS
  <2>2. QED
    BY <1>2, <2>1
<1> HIDE DEF S
<1>3. \A i \in Nat : i \in S
  BY <1>1, <1>2, Induct
<1>4. QED
  BY <1>3 DEF S

\* Induction down from a bound.
LEMMA InductDown ==
  ASSUME NEW n \in Nat, NEW T,
         \A i \in 0..n : (\A j \in (i + 1)..n : j \in T) => i \in T
  PROVE  \A i \in 0..n : i \in T
<1> DEFINE S == {m \in Nat : \A j \in 0..n : n - m <= j => j \in T}
<1>1. 0 \in S
  <2>1. \A j \in 0..n : n - 0 <= j => j = n /\ \A k \in (j + 1)..n : k \in T
    OBVIOUS
  <2>2. QED
    BY <2>1
<1>2. ASSUME NEW m \in Nat, m \in S PROVE m + 1 \in S
  <2> SUFFICES ASSUME NEW j \in 0..n, n - (m + 1) <= j PROVE j \in T
    OBVIOUS
  <2>1. \A k \in (j + 1)..n : k \in 0..n /\ n - m <= k
    OBVIOUS
  <2>2. QED
    BY <1>2, <2>1
<1> HIDE DEF S
<1>3. n \in S
  BY <1>1, <1>2, Induct
<1>4. \A j \in 0..n : n - n <= j
  OBVIOUS
<1>5. QED
  BY <1>3, <1>4 DEF S

\* g is step applied n times from base, with the values between.
IsIteration(g, A, n, base, step) ==
  g \in [0..n -> A] /\ g[0] = base /\ \A i \in 1..n : g[i] = step[i][g[i - 1]]

\* A function defined by its value before exists.
LEMMA Iterates ==
  ASSUME NEW A, NEW n \in Nat, NEW base \in A, NEW step \in [1..n -> [A -> A]]
  PROVE  \E g : IsIteration(g, A, n, base, step)
<1> DEFINE Q(m, g) == g[0] = base /\ \A i \in 1..m : g[i] = step[i][g[i - 1]]
           T == {m \in 0..n : \E g \in [0..m -> A] : Q(m, g)}
<1>1. 0 \in T
  <2> DEFINE w == [i \in 0..0 |-> base]
  <2>1. w \in [0..0 -> A] /\ Q(0, w)
    OBVIOUS
  <2> HIDE DEF Q, w
  <2>2. QED
    BY <2>1
<1>2. ASSUME NEW m \in 1..n, m - 1 \in T PROVE m \in T
  <2>1. PICK g \in [0..(m - 1) -> A] : Q(m - 1, g)
    BY <1>2
  <2> DEFINE w == [i \in 0..m |-> IF i = m THEN step[m][g[m - 1]] ELSE g[i]]
  <2>2. g[m - 1] \in A /\ step[m] \in [A -> A]
    OBVIOUS
  <2>3. w \in [0..m -> A]
    BY <2>2
  <2>4. ASSUME NEW i \in 1..m PROVE w[i] = step[i][w[i - 1]]
    <3>1. CASE i = m
      BY <3>1
    <3>2. CASE i # m
      <4>1. i \in 1..(m - 1) /\ i - 1 \in 0..(m - 1) /\ i \in 0..m /\ i - 1 \in 0..m
        BY <3>2
      <4>2. w[i] = g[i] /\ w[i - 1] = g[i - 1]
        BY <3>2, <4>1
      <4>3. QED
        BY <2>1, <4>1, <4>2
    <3>3. QED
      BY <3>1, <3>2
  <2>5. w[0] = base
    BY <2>1
  <2>6. Q(m, w)
    BY <2>4, <2>5
  <2> HIDE DEF Q, w
  <2>7. QED
    BY <2>3, <2>6
<1> HIDE DEF T
<1>3. \A m \in 0..n : m \in T
  BY <1>1, <1>2, InductUpTo
<1>4. QED
  BY <1>3 DEF T, IsIteration

\* be(b) is Horner's rule over the bytes of b.
LEMMA beDef ==
  ASSUME NEW b \in Seq(Nat)
  PROVE  \E v \in [0..Len(b) -> Nat] :
           /\ be(b) = v[Len(b)]
           /\ v[0] = 0 /\ \A i \in 1..Len(b) : v[i] = 256 * v[i - 1] + b[i]
<1> DEFINE n == Len(b)
           Q(v) == v = [i \in 0..n |-> IF i = 0 THEN 0 ELSE 256 * v[i - 1] + b[i]]
           step == [i \in 1..n |-> [x \in Nat |-> 256 * x + b[i]]]
           h == CHOOSE v : Q(v)
<1>1. n \in Nat /\ \A i \in 1..n : b[i] \in Nat
  OBVIOUS
<1>5. be(b) = h[n]
  BY DEF be
<1> HIDE DEF n
<1>2. PICK g : IsIteration(g, Nat, n, 0, step)
  <2>1. step \in [1..n -> [Nat -> Nat]]
    BY <1>1
  <2> HIDE DEF step
  <2>2. QED
    BY <1>1, <2>1, Iterates
<1>3. Q(g)
  <2>1. ASSUME NEW i \in 1..n PROVE g[i] = 256 * g[i - 1] + b[i]
    <3>1. i - 1 \in 0..n /\ g[i - 1] \in Nat
      BY <1>1, <1>2 DEF IsIteration
    <3>2. QED
      BY <1>2, <3>1 DEF IsIteration
  <2>2. QED
    BY <1>1, <1>2, <2>1 DEF IsIteration
<1>4. Q(h)
  <2> HIDE DEF Q
  <2>1. QED
    BY <1>3
<1> HIDE DEF h
<1>6. h[0] = 0 /\ \A i \in 1..n : h[i] = 256 * h[i - 1] + b[i]
  BY <1>1, <1>4
<1>7. \A i \in 0..n : h[i] \in Nat
  <2> DEFINE T == {i \in Nat : h[i] \in Nat}
  <2>1. 0 \in T
    BY <1>6
  <2>2. ASSUME NEW i \in 1..n, i - 1 \in T PROVE i \in T
    <3>1. h[i - 1] \in Nat /\ b[i] \in Nat
      BY <1>1, <2>2
    <3>2. QED
      BY <1>6, <3>1
  <2> HIDE DEF T
  <2>3. \A i \in 0..n : i \in T
    BY <2>1, <2>2, <1>1, InductUpTo
  <2>4. QED
    BY <2>3 DEF T
<1>8. h \in [0..n -> Nat]
  BY <1>4, <1>7
<1>9. QED
  BY <1>5, <1>6, <1>8 DEF n

-----------------------------------------------------------------------------
(* Lists of lists. FlattenSeq is a recursive function within a LET.        *)

\* Induction over sequences, by what is appended.
LEMMA InductSeq ==
  ASSUME NEW S, NEW T, <<>> \in T,
         \A s \in Seq(S), e \in S : s \in T => Append(s, e) \in T
  PROVE  \A s \in Seq(S) : s \in T
<1> DEFINE L == {n \in Nat : \A s \in Seq(S) : Len(s) = n => s \in T}
<1>1. 0 \in L
  OBVIOUS
<1>2. ASSUME NEW n \in Nat, n \in L PROVE n + 1 \in L
  <2> SUFFICES ASSUME NEW s \in Seq(S), Len(s) = n + 1 PROVE s \in T
    OBVIOUS
  <2>1. s # <<>>
    OBVIOUS
  <2>2. PICK t \in Seq(S), e \in S : s = Append(t, e)
    BY <2>1, SequenceEmptyOrAppend
  <2>3. Len(t) = n
    BY <2>2
  <2>4. QED
    BY <1>2, <2>2, <2>3
<1> HIDE DEF L
<1>3. \A n \in Nat : n \in L
  BY <1>1, <1>2, Induct
<1>4. QED
  BY <1>3 DEF L

\* f is the function within FlattenSeq(s), and its steps.
IsFlattening(f, s) ==
  f = [i \in 1..Len(s) |-> IF i = 1 THEN s[i] ELSE f[i - 1] \o s[i]]

\* The recursive function within FlattenSeq exists.
LEMMA FlattenExists ==
  ASSUME NEW s, NEW n \in Nat
  PROVE  \E f : f = [i \in 1..n |-> IF i = 1 THEN s[i] ELSE f[i - 1] \o s[i]]
<1> DEFINE Q(m, f) == f = [i \in 1..m |-> IF i = 1 THEN s[i] ELSE f[i - 1] \o s[i]]
           T == {m \in Nat : \E f : Q(m, f)}
<1>1. 0 \in T
  <2> DEFINE w == [i \in 1..0 |-> s[i]]
  <2>1. Q(0, w)
    OBVIOUS
  <2> HIDE DEF Q, w
  <2>2. QED
    BY <2>1
<1>2. ASSUME NEW m \in Nat, m \in T PROVE m + 1 \in T
  <2>1. PICK f : Q(m, f)
    BY <1>2
  <2> DEFINE w == [i \in 1..(m + 1) |->
                     IF i = m + 1 THEN IF i = 1 THEN s[i] ELSE f[i - 1] \o s[i]
                     ELSE f[i]]
  <2>2. Q(m + 1, w)
    <3>1. ASSUME NEW i \in 1..(m + 1)
          PROVE  w[i] = IF i = 1 THEN s[i] ELSE w[i - 1] \o s[i]
      <4>1. CASE i = m + 1
        <5>1. i # 1 => i - 1 \in 1..(m + 1) /\ i - 1 # m + 1
          BY <4>1
        <5>2. QED
          BY <4>1, <5>1
      <4>2. CASE i # m + 1
        <5>1. i \in 1..m /\ (i # 1 => i - 1 \in 1..(m + 1) /\ i - 1 # m + 1)
          BY <4>2
        <5>2. w[i] = f[i] /\ (i # 1 => w[i - 1] = f[i - 1])
          BY <4>2, <5>1
        <5>3. f[i] = IF i = 1 THEN s[i] ELSE f[i - 1] \o s[i]
          BY <2>1, <5>1
        <5>4. QED
          BY <5>2, <5>3
      <4>3. QED
        BY <4>1, <4>2
    <3>2. QED
      BY <3>1
  <2> HIDE DEF Q, w
  <2>3. QED
    BY <2>2
<1> HIDE DEF T
<1>3. n \in T
  BY <1>1, <1>2, Induct
<1>4. QED
  BY <1>3 DEF T

\* FlattenSeq is the last value of that function.
LEMMA FlattenDef ==
  ASSUME NEW s, Len(s) \in Nat, s # <<>>, Len(s) # 0
  PROVE  \E f : IsFlattening(f, s) /\ FlattenSeq(s) = f[Len(s)]
<1> DEFINE Q(f) == f = [i \in 1..Len(s) |-> IF i = 1 THEN s[i] ELSE f[i - 1] \o s[i]]
           h == CHOOSE f : Q(f)
<1>1. Q(h)
  <2>1. \E f : Q(f)
    BY FlattenExists
  <2> HIDE DEF Q
  <2>2. QED
    BY <2>1
<1>2. FlattenSeq(s) = h[Len(s)]
  BY DEF FlattenSeq
<1>3. QED
  BY <1>1, <1>2 DEF IsFlattening

\* FlattenSeq of no sequences.
LEMMA FlattenEmpty == FlattenSeq(<<>>) = <<>>
  BY DEF FlattenSeq

FlattenSteps(f, s) == \A i \in 2..Len(s) : f[i] = f[i - 1] \o s[i]

\* The values of the function within FlattenSeq.
LEMMA FlattenFacts ==
  ASSUME NEW S, NEW s \in Seq(Seq(S)), NEW f, IsFlattening(f, s)
  PROVE  /\ s # <<>> => f[1] = s[1]
         /\ FlattenSteps(f, s)
         /\ \A i \in 1..Len(s) : f[i] \in Seq(S)
<1> DEFINE n == Len(s)
<1>1. n \in Nat /\ (s # <<>> => 1 \in 1..n) /\ \A i \in 1..n : s[i] \in Seq(S)
  OBVIOUS
<1>2. f = [i \in 1..n |-> IF i = 1 THEN s[i] ELSE f[i - 1] \o s[i]]
  BY DEF IsFlattening
<1> SUFFICES /\ s # <<>> => f[1] = s[1]
             /\ \A i \in 2..n : f[i] = f[i - 1] \o s[i]
             /\ \A i \in 1..n : f[i] \in Seq(S)
  BY DEF FlattenSteps
<1> HIDE DEF n
<1>3. s # <<>> => f[1] = s[1]
  BY <1>1, <1>2
<1>4. \A i \in 2..n : f[i] = f[i - 1] \o s[i]
  <2>1. \A i \in 2..n : i \in 1..n /\ i # 1
    BY <1>1
  <2>2. QED
    BY <1>2, <2>1
<1>5. \A i \in 1..n : f[i] \in Seq(S)
  <2> DEFINE T == {i \in Nat : i # 0 => f[i] \in Seq(S)}
  <2>1. 0 \in T
    OBVIOUS
  <2>2. ASSUME NEW i \in 1..n, i - 1 \in T PROVE i \in T
    <3>1. CASE i = 1
      <4>1. f[i] = s[i] /\ s[i] \in Seq(S)
        BY <1>1, <1>2, <3>1
      <4>2. QED
        BY <1>1, <4>1
    <3>2. CASE i # 1
      <4>1. i \in 2..n /\ f[i - 1] \in Seq(S) /\ s[i] \in Seq(S)
        BY <1>1, <2>2, <3>2
      <4>2. f[i - 1] \o s[i] \in Seq(S)
        BY <4>1, ConcatProperties
      <4>3. f[i] \in Seq(S)
        BY <1>4, <4>1, <4>2
      <4>4. QED
        BY <1>1, <4>3
    <3>3. QED
      BY <3>1, <3>2
  <2> HIDE DEF T
  <2>3. \A i \in 0..n : i \in T
    BY <1>1, <2>1, <2>2, InductUpTo
  <2>4. QED
    BY <1>1, <2>3 DEF T
<1>6. QED
  BY <1>3, <1>4, <1>5

\* FlattenSeq gives a sequence over the same set.
LEMMA FlattenType ==
  ASSUME NEW S, NEW s \in Seq(Seq(S))
  PROVE  FlattenSeq(s) \in Seq(S)
<1>1. CASE s = <<>>
  <2>1. <<>> \in Seq(S)
    OBVIOUS
  <2>2. QED
    BY <1>1, <2>1, FlattenEmpty
<1>2. CASE s # <<>>
  <2>1. Len(s) \in Nat /\ Len(s) # 0 /\ Len(s) \in 1..Len(s)
    BY <1>2
  <2>2. PICK f : IsFlattening(f, s) /\ FlattenSeq(s) = f[Len(s)]
    BY <1>2, <2>1, FlattenDef
  <2>3. \A i \in 1..Len(s) : f[i] \in Seq(S)
    BY <2>2, FlattenFacts
  <2>4. QED
    BY <2>1, <2>2, <2>3
<1>3. QED
  BY <1>1, <1>2

\* FlattenSeq, by what is appended.
LEMMA FlattenAppend ==
  ASSUME NEW S, NEW s \in Seq(Seq(S)), NEW x \in Seq(S)
  PROVE  FlattenSeq(Append(s, x)) = FlattenSeq(s) \o x
<1> DEFINE t == Append(s, x)
           n == Len(s)
<1>1. t \in Seq(Seq(S)) /\ n \in Nat /\ \A i \in 1..n : t[i] = s[i]
  OBVIOUS
<1>7. Len(t) = n + 1 /\ t[n + 1] = x
  OBVIOUS
<1> HIDE DEF t
<1>8. Len(t) \in Nat /\ Len(t) # 0 /\ t # <<>> /\ Len(t) = n + 1
  BY <1>1, <1>7
<1>2. PICK g : IsFlattening(g, t) /\ FlattenSeq(t) = g[n + 1]
  <2>1. \E g : IsFlattening(g, t) /\ FlattenSeq(t) = g[Len(t)]
    BY <1>8, FlattenDef
  <2>2. QED
    BY <1>8, <2>1
<1>3. /\ g[1] = t[1] /\ \A i \in 2..(n + 1) : g[i] = g[i - 1] \o t[i]
  <2>1. g[1] = t[1] /\ FlattenSteps(g, t)
    BY <1>1, <1>2, <1>8, FlattenFacts
  <2>2. QED
    BY <1>8, <2>1 DEF FlattenSteps
<1>4. CASE s = <<>>
  <2>1. n = 0 /\ FlattenSeq(t) = x
    <3>1. n = 0 /\ n + 1 = 1
      BY <1>4
    <3>2. QED
      BY <1>2, <1>3, <1>7, <3>1
  <2>2. QED
    BY <1>4, <2>1, FlattenEmpty DEF t
<1>5. CASE s # <<>>
  <2>1. n # 0
    BY <1>5
  <2>2. PICK f : IsFlattening(f, s) /\ FlattenSeq(s) = f[n]
    BY <1>1, <1>5, <2>1, FlattenDef
  <2>3. f[1] = s[1] /\ \A i \in 2..n : f[i] = f[i - 1] \o s[i]
    <3>1. f[1] = s[1] /\ FlattenSteps(f, s)
      BY <1>1, <1>5, <2>2, FlattenFacts
    <3>2. QED
      BY <3>1 DEF FlattenSteps
  <2>4. \A i \in 1..n : f[i] = g[i]
    <3> DEFINE T == {i \in Nat : i # 0 => f[i] = g[i]}
    <3> HIDE DEF n
    <3>1. 0 \in T
      OBVIOUS
    <3>2. ASSUME NEW i \in 1..n, i - 1 \in T PROVE i \in T
      <4>1. CASE i = 1
        <5>1. f[i] = g[i]
          BY <1>1, <1>3, <2>3, <4>1
        <5>2. QED
          BY <1>1, <5>1
      <4>2. CASE i # 1
        <5>1. i \in 2..n /\ i \in 2..(n + 1) /\ f[i - 1] = g[i - 1] /\ t[i] = s[i]
          BY <1>1, <3>2, <4>2
        <5>2. f[i] = g[i]
          BY <1>3, <2>3, <5>1
        <5>3. QED
          BY <1>1, <5>2
      <4>3. QED
        BY <4>1, <4>2
    <3> HIDE DEF T
    <3>3. \A i \in 0..n : i \in T
      BY <1>1, <3>1, <3>2, InductUpTo
    <3>4. QED
      BY <1>1, <3>3 DEF T
  <2>5. n \in 1..n /\ n + 1 \in 2..(n + 1) /\ (n + 1) - 1 = n
    <3> HIDE DEF n
    <3>1. QED
      BY <1>1, <2>1
  <2>6. FlattenSeq(t) = f[n] \o x
    <3>1. f[n] = g[n]
      BY <2>4, <2>5
    <3>2. g[n + 1] = g[(n + 1) - 1] \o t[n + 1]
      BY <1>3, <2>5
    <3>3. QED
      BY <1>2, <1>7, <2>5, <3>1, <3>2
  <2>7. QED
    BY <2>2, <2>6 DEF t
<1>6. QED
  BY <1>4, <1>5

\* FlattenSeq of one sequence.
LEMMA FlattenOne ==
  ASSUME NEW S, NEW x \in Seq(S)
  PROVE  FlattenSeq(<<x>>) = x
<1>1. <<x>> = Append(<<>>, x) /\ <<>> \in Seq(Seq(S))
  OBVIOUS
<1>2. FlattenSeq(Append(<<>>, x)) = <<>> \o x
  BY <1>1, FlattenAppend, FlattenEmpty
<1>3. <<>> \o x = x
  BY ConcatEmptySeq
<1>4. QED
  BY <1>1, <1>2, <1>3

\* FlattenSeq of two lists is that of the first and that of the second.
LEMMA FlattenConcat ==
  ASSUME NEW S, NEW s \in Seq(Seq(S)), NEW t \in Seq(Seq(S))
  PROVE  FlattenSeq(s \o t) = FlattenSeq(s) \o FlattenSeq(t)
<1> DEFINE T == {r \in Seq(Seq(S)) : FlattenSeq(s \o r) = FlattenSeq(s) \o FlattenSeq(r)}
<1>1. FlattenSeq(s) \in Seq(S)
  BY FlattenType
<1>2. <<>> \in T
  BY <1>1, FlattenEmpty
<1>3. ASSUME NEW r \in Seq(Seq(S)), NEW e \in Seq(S), r \in T PROVE Append(r, e) \in T
  <2>1. s \o Append(r, e) = Append(s \o r, e) /\ s \o r \in Seq(Seq(S))
    OBVIOUS
  <2>2. FlattenSeq(s \o Append(r, e)) = FlattenSeq(s \o r) \o e
    BY <2>1, FlattenAppend
  <2>3. FlattenSeq(Append(r, e)) = FlattenSeq(r) \o e /\ FlattenSeq(r) \in Seq(S)
    BY FlattenAppend, FlattenType
  <2>4. FlattenSeq(s \o r) = FlattenSeq(s) \o FlattenSeq(r)
    BY <1>3
  <2>5. (FlattenSeq(s) \o FlattenSeq(r)) \o e = FlattenSeq(s) \o (FlattenSeq(r) \o e)
    BY <1>1, <2>3, ConcatAssociative, SMTT(30)
  <2>6. FlattenSeq(s \o Append(r, e)) = FlattenSeq(s) \o FlattenSeq(Append(r, e))
    BY <2>2, <2>3, <2>4, <2>5
  <2>7. Append(r, e) \in Seq(Seq(S))
    OBVIOUS
  <2>8. QED
    BY <2>6, <2>7
<1> HIDE DEF T
<1>4. t \in T
  BY <1>2, <1>3, InductSeq
<1>5. QED
  BY <1>4 DEF T

-----------------------------------------------------------------------------
(* A list of what a function makes of the elements of another, flattened:  *)
(* Framed, LengthPrefixed and NonEmpty are such lists.                     *)

FlatMap(e, s) == FlattenSeq([i \in 1..Len(s) |-> e[s[i]]])

\* The type of FlatMap.
LEMMA FlatMapType ==
  ASSUME NEW A, NEW B, NEW e \in [A -> Seq(B)], NEW s \in Seq(A)
  PROVE  /\ [i \in 1..Len(s) |-> e[s[i]]] \in Seq(Seq(B))
         /\ FlatMap(e, s) \in Seq(B)
<1>1. Len(s) \in Nat /\ \A i \in 1..Len(s) : s[i] \in A
  OBVIOUS
<1>2. [i \in 1..Len(s) |-> e[s[i]]] \in Seq(Seq(B))
  BY <1>1
<1>3. QED
  BY <1>2, FlattenType DEF FlatMap

\* FlatMap of no elements.
LEMMA FlatMapEmpty ==
  ASSUME NEW e
  PROVE  FlatMap(e, <<>>) = <<>>
<1>1. [i \in 1..Len(<<>>) |-> e[(<<>>)[i]]] = <<>>
  OBVIOUS
<1>2. QED
  BY <1>1, FlattenEmpty DEF FlatMap

\* FlatMap of one element.
LEMMA FlatMapOne ==
  ASSUME NEW A, NEW B, NEW e \in [A -> Seq(B)], NEW a \in A
  PROVE  FlatMap(e, <<a>>) = e[a]
<1>1. [i \in 1..Len(<<a>>) |-> e[(<<a>>)[i]]] = <<e[a]>>
  OBVIOUS
<1>2. e[a] \in Seq(B)
  OBVIOUS
<1>3. QED
  BY <1>1, <1>2, FlattenOne DEF FlatMap

\* The type and length of a concatenation, with no quantifier in it.
LEMMA ConcatType ==
  ASSUME NEW S, NEW s \in Seq(S), NEW t \in Seq(S)
  PROVE  s \o t \in Seq(S) /\ Len(s \o t) = Len(s) + Len(t)
BY ConcatProperties

\* FlatMap takes lists apart.
LEMMA FlatMapConcat ==
  ASSUME NEW A, NEW B, NEW e \in [A -> Seq(B)], NEW s \in Seq(A), NEW t \in Seq(A)
  PROVE  FlatMap(e, s \o t) = FlatMap(e, s) \o FlatMap(e, t)
<1> DEFINE M(x) == [i \in 1..Len(x) |-> e[x[i]]]
<1>1. \A x \in Seq(A) : M(x) \in Seq(Seq(B)) /\ Len(M(x)) = Len(x)
  <2> SUFFICES ASSUME NEW x \in Seq(A) PROVE M(x) \in Seq(Seq(B)) /\ Len(M(x)) = Len(x)
    OBVIOUS
  <2>1. Len(x) \in Nat
    OBVIOUS
  <2>2. QED
    BY <2>1, FlatMapType
<1>2. s \o t \in Seq(A) /\ Len(s \o t) = Len(s) + Len(t)
  OBVIOUS
<1>3. M(s) \o M(t) \in Seq(Seq(B)) /\ Len(M(s) \o M(t)) = Len(s) + Len(t)
  <2> DEFINE ms == M(s)
             mt == M(t)
  <2>1. ms \in Seq(Seq(B)) /\ mt \in Seq(Seq(B))
    BY <1>1
  <2>2. Len(ms) = Len(s) /\ Len(mt) = Len(t)
    BY <1>1
  <2> HIDE DEF ms, mt
  <2>3. ms \o mt \in Seq(Seq(B)) /\ Len(ms \o mt) = Len(ms) + Len(mt)
    BY <2>1, ConcatType
  <2>4. QED
    BY <2>2, <2>3 DEF ms, mt
<1>4. ASSUME NEW i \in 1..(Len(s) + Len(t)) PROVE M(s \o t)[i] = (M(s) \o M(t))[i]
  <2>1. Len(s) \in Nat /\ Len(t) \in Nat /\ i \in 1..Len(s \o t)
    BY <1>2
  <2>2. M(s \o t)[i] = e[(s \o t)[i]]
    BY <2>1
  <2>3. (s \o t)[i] = IF i <= Len(s) THEN s[i] ELSE t[i - Len(s)]
    BY ConcatProperties
  <2>4. (M(s) \o M(t))[i] = IF i <= Len(s) THEN M(s)[i] ELSE M(t)[i - Len(s)]
    <3> HIDE DEF M
    <3>1. QED
      BY <1>1, ConcatProperties
  <2>5. IF i <= Len(s) THEN i \in 1..Len(s) ELSE i - Len(s) \in 1..Len(t)
    BY <2>1
  <2>6. QED
    BY <2>2, <2>3, <2>4, <2>5
<1>5. M(s \o t) = M(s) \o M(t)
  <2>1. M(s \o t) \in Seq(Seq(B)) /\ Len(M(s \o t)) = Len(M(s) \o M(t))
    BY <1>1, <1>2, <1>3
  <2> HIDE DEF M
  <2>2. \A i \in 1..Len(M(s \o t)) : M(s \o t)[i] = (M(s) \o M(t))[i]
    BY <1>3, <1>4, <2>1
  <2>3. QED
    BY <1>3, <2>1, <2>2, SeqEqual
<1>6. FlattenSeq(M(s) \o M(t)) = FlattenSeq(M(s)) \o FlattenSeq(M(t))
  <2> HIDE DEF M
  <2>1. QED
    BY <1>1, FlattenConcat
<1>7. QED
  BY <1>5, <1>6 DEF FlatMap

\* FlatMap, by what is appended.
LEMMA FlatMapAppend ==
  ASSUME NEW A, NEW B, NEW e \in [A -> Seq(B)], NEW s \in Seq(A), NEW a \in A
  PROVE  FlatMap(e, Append(s, a)) = FlatMap(e, s) \o e[a]
<1>1. Append(s, a) = s \o <<a>>
  BY AppendIsConcat
<1>2. FlatMap(e, s \o <<a>>) = FlatMap(e, s) \o FlatMap(e, <<a>>)
  <2> DEFINE t == <<a>>
  <2>1. t \in Seq(A)
    OBVIOUS
  <2> HIDE DEF t
  <2>2. FlatMap(e, s \o t) = FlatMap(e, s) \o FlatMap(e, t)
    BY <2>1, FlatMapConcat
  <2>3. QED
    BY <2>2 DEF t
<1>3. FlatMap(e, <<a>>) = e[a]
  BY FlatMapOne
<1>4. QED
  BY <1>1, <1>2, <1>3

-----------------------------------------------------------------------------
(* Bytes and big-endian numbers.                                           *)

Data == Seq(Byte)

\* Bytes are naturals.
LEMMA DataNat ==
  ASSUME NEW b \in Data
  PROVE  b \in Seq(Nat)
<1>1. Byte \subseteq Nat
  BY DEF Byte
<1>2. QED
  BY <1>1, SeqMonotonic DEF Data

\* The digits to base 256 are bytes.
LEMMA DivModByte ==
  ASSUME NEW x \in Nat
  PROVE  /\ x % 256 \in Byte
         /\ x \div 256 \in Nat /\ x \div 65536 \in Nat /\ x \div 16777216 \in Nat
BY SMT DEF Byte

\* A number is made of its digits, as far as there are enough of them.
LEMMA BigEndianValue ==
  ASSUME NEW x \in Nat
  PROVE  /\ x < 256 => x % 256 = x
         /\ x < 65536 => 256 * ((x \div 256) % 256) + (x % 256) = x
         /\ x \div 16777216 < 256 =>
              256 * (256 * (256 * ((x \div 16777216) % 256) + ((x \div 65536) % 256))
                       + ((x \div 256) % 256)) + (x % 256) = x
BY SMT

\* be inverts BigEndian on the numbers that fit.
LEMMA BigEndianFacts ==
  ASSUME NEW n \in {1, 2, 4}, NEW x \in Nat
  PROVE  /\ BigEndian(n, x) \in Data /\ Len(BigEndian(n, x)) = n
         /\ Fits(n, x) => be(BigEndian(n, x)) = x
<1> DEFINE w == <<(x \div 16777216) % 256, (x \div 65536) % 256, (x \div 256) % 256, x % 256>>
           b == BigEndian(n, x)
<1>1. w \in Data /\ Len(w) = 4
  BY DivModByte, SMT DEF Data
<1>2. b = SubSeq(w, 5 - n, 4)
  BY SMT DEF BigEndian
<1>3. /\ w[1] = (x \div 16777216) % 256 /\ w[2] = (x \div 65536) % 256
      /\ w[3] = (x \div 256) % 256 /\ w[4] = x % 256
  BY SMT
<1> HIDE DEF w, b
<1>4. /\ \A i \in (5 - n)..4 : w[i] \in Byte
      /\ 5 - n \in Int /\ 4 \in Int /\ 5 - n <= 4
  <2>1. \A i \in (5 - n)..4 : i \in 1..4
    BY SMT
  <2>2. \A i \in 1..4 : w[i] \in Byte
    <3>1. w[1] \in Byte /\ w[2] \in Byte /\ w[3] \in Byte /\ w[4] \in Byte
      BY <1>3, DivModByte, SMT
    <3>2. QED
      BY <3>1, SMT
  <2>3. QED
    BY <2>1, <2>2, SMT
<1>5. /\ b \in Data /\ Len(b) = 4 - (5 - n) + 1
      /\ \A i \in 1..(4 - (5 - n) + 1) : b[i] = w[(5 - n) + i - 1]
  BY <1>2, <1>4, SubSeqProperties, SMT DEF Data
<1>6. Len(b) = n /\ \A i \in 1..n : b[i] = w[4 - n + i]
  <2>1. 4 - (5 - n) + 1 = n /\ \A i \in 1..n : (5 - n) + i - 1 = 4 - n + i
    BY SMT
  <2>2. QED
    BY <1>5, <2>1, SMT
<1>7. b \in Seq(Nat)
  BY <1>5, DataNat
<1>8. Fits(n, x) => be(b) = x
  <2>1. PICK v \in [0..Len(b) -> Nat] :
          /\ be(b) = v[Len(b)]
          /\ v[0] = 0 /\ \A i \in 1..Len(b) : v[i] = 256 * v[i - 1] + b[i]
    BY <1>7, beDef, SMT
  <2>2. CASE n = 1
    <3>1. be(b) = 256 * 0 + w[4]
      BY <1>6, <2>1, <2>2, SMT
    <3>2. Fits(n, x) => x < 256
      BY <2>2, SMT DEF Fits
    <3>3. QED
      BY <1>3, <3>1, <3>2, SMT
  <2>3. CASE n = 2
    <3>1. v[1] = 256 * 0 + w[3]
      BY <1>6, <2>1, <2>3, SMT
    <3>2. be(b) = 256 * v[1] + w[4]
      BY <1>6, <2>1, <2>3, SMT
    <3>3. Fits(n, x) => x < 65536
      BY <2>3, SMT DEF Fits
    <3>4. QED
      BY <1>3, <3>1, <3>2, <3>3, SMTT(30)
  <2>4. CASE n = 4
    <3>1. v[1] = 256 * 0 + w[1]
      BY <1>6, <2>1, <2>4, SMT
    <3>2. v[2] = 256 * v[1] + w[2]
      BY <1>6, <2>1, <2>4, SMT
    <3>3. v[3] = 256 * v[2] + w[3]
      BY <1>6, <2>1, <2>4, SMT
    <3>4. be(b) = 256 * v[3] + w[4]
      BY <1>6, <2>1, <2>4, SMT
    <3>5. Fits(n, x) => x \div 16777216 < 256
      BY <2>4, SMT DEF Fits
    <3>6. be(b) = 256 * (256 * (256 * w[1] + w[2]) + w[3]) + w[4]
      <4>1. \A i \in 1..4 : w[i] \in Nat
        BY <1>3, SMT
      <4>2. QED
        BY <3>1, <3>2, <3>3, <3>4, <4>1, SMT
    <3>7. QED
      BY <1>3, <3>5, <3>6, BigEndianValue, SMT
  <2>5. QED
    BY <2>2, <2>3, <2>4, SMT
<1>9. QED
  BY <1>5, <1>6, <1>8, SMT DEF b

-----------------------------------------------------------------------------
(* Framed and length-prefixed units.                                       *)

\* A concatenation of byte strings.
LEMMA ConcatData ==
  ASSUME NEW a \in Data, NEW b \in Data
  PROVE  a \o b \in Data /\ Len(a \o b) = Len(a) + Len(b)
BY ConcatType DEF Data

\* The empty byte string.
LEMMA DataEmpty == <<>> \in Data
BY DEF Data

\* The start code is four bytes.
LEMMA StartCodeData == StartCode \in Data /\ Len(StartCode) = 4
BY DEF StartCode, Data, Byte

\* The functions of which the lists of units are FlatMaps.
FramedOf == [u \in Data |-> StartCode \o u]
PrefixedOf(n) == [u \in Data |-> BigEndian(n, Len(u)) \o u]
KeptOf(A) == [u \in A |-> IF u = <<>> THEN <<>> ELSE <<u>>]
ArrayOf == [a \in Seq(Data) |-> HevcArray(a)]

\* Framed is a FlatMap.
LEMMA FramedMap ==
  /\ FramedOf \in [Data -> Data]
  /\ \A us \in Seq(Data) : Framed(us) = FlatMap(FramedOf, us)
<1>1. FramedOf \in [Data -> Data]
  BY StartCodeData, ConcatData DEF FramedOf
<1>2. ASSUME NEW us \in Seq(Data) PROVE Framed(us) = FlatMap(FramedOf, us)
  <2>1. \A i \in 1..Len(us) : us[i] \in Data
    OBVIOUS
  <2>2. [i \in 1..Len(us) |-> StartCode \o us[i]] = [i \in 1..Len(us) |-> FramedOf[us[i]]]
    BY <2>1 DEF FramedOf
  <2>3. QED
    BY <2>2 DEF Framed, FlatMap
<1>3. QED
  BY <1>1, <1>2

\* Framed, by its list of units.
LEMMA FramedFacts ==
  ASSUME NEW us \in Seq(Data), NEW vs \in Seq(Data), NEW u \in Data
  PROVE  /\ Framed(us) \in Data
         /\ Framed(<<u>>) = StartCode \o u
         /\ Framed(us \o vs) = Framed(us) \o Framed(vs)
         /\ Framed(Append(us, u)) = Framed(us) \o (StartCode \o u)
<1>1. Framed(us) \in Data
  BY FramedMap, FlatMapType DEF Data
<1>2. FramedOf[u] = StartCode \o u
  BY DEF FramedOf
<1>3. Framed(<<u>>) = StartCode \o u
  <2>1. <<u>> \in Seq(Data)
    OBVIOUS
  <2>2. FlatMap(FramedOf, <<u>>) = FramedOf[u]
    BY FramedMap, FlatMapOne DEF Data
  <2>3. QED
    BY <1>2, <2>1, <2>2, FramedMap
<1>4. Framed(us \o vs) = Framed(us) \o Framed(vs)
  <2>1. us \o vs \in Seq(Data)
    BY ConcatType
  <2>2. FlatMap(FramedOf, us \o vs) = FlatMap(FramedOf, us) \o FlatMap(FramedOf, vs)
    BY FramedMap, FlatMapConcat DEF Data
  <2>3. QED
    BY <2>1, <2>2, FramedMap
<1>5. Framed(Append(us, u)) = Framed(us) \o (StartCode \o u)
  <2>1. Append(us, u) \in Seq(Data)
    OBVIOUS
  <2>2. FlatMap(FramedOf, Append(us, u)) = FlatMap(FramedOf, us) \o FramedOf[u]
    BY FramedMap, FlatMapAppend DEF Data
  <2>3. QED
    BY <1>2, <2>1, <2>2, FramedMap
<1>6. QED
  BY <1>1, <1>3, <1>4, <1>5

\* A unit behind its length.
LEMMA PrefixedType ==
  ASSUME NEW n \in {1, 2, 4}, NEW u \in Data
  PROVE  BigEndian(n, Len(u)) \o u \in Data /\ Len(BigEndian(n, Len(u)) \o u) = n + Len(u)
<1>1. Len(u) \in Nat
  BY DEF Data
<1>2. BigEndian(n, Len(u)) \in Data /\ Len(BigEndian(n, Len(u))) = n
  BY <1>1, BigEndianFacts
<1>3. QED
  BY <1>2, ConcatData

\* LengthPrefixed is a FlatMap.
LEMMA PrefixedMap ==
  ASSUME NEW n \in {1, 2, 4}
  PROVE  /\ PrefixedOf(n) \in [Data -> Data]
         /\ \A us \in Seq(Data) : LengthPrefixed(us, n) = FlatMap(PrefixedOf(n), us)
<1>1. PrefixedOf(n) \in [Data -> Data]
  BY PrefixedType DEF PrefixedOf
<1>2. ASSUME NEW us \in Seq(Data) PROVE LengthPrefixed(us, n) = FlatMap(PrefixedOf(n), us)
  <2>1. \A i \in 1..Len(us) : us[i] \in Data
    OBVIOUS
  <2>2. [i \in 1..Len(us) |-> BigEndian(n, Len(us[i])) \o us[i]]
          = [i \in 1..Len(us) |-> PrefixedOf(n)[us[i]]]
    BY <2>1 DEF PrefixedOf
  <2>3. QED
    BY <2>2 DEF LengthPrefixed, FlatMap
<1>3. QED
  BY <1>1, <1>2

\* FlatMapConcat, for byte strings.
LEMMA DataMapConcat ==
  ASSUME NEW e \in [Data -> Seq(Byte)], NEW us \in Seq(Data), NEW vs \in Seq(Data)
  PROVE  FlatMap(e, us \o vs) = FlatMap(e, us) \o FlatMap(e, vs)
BY FlatMapConcat

\* LengthPrefixed takes lists apart.
LEMMA PrefixedConcat ==
  ASSUME NEW n \in {1, 2, 4}, NEW us \in Seq(Data), NEW vs \in Seq(Data)
  PROVE  LengthPrefixed(us \o vs, n) = LengthPrefixed(us, n) \o LengthPrefixed(vs, n)
<1>1. PrefixedOf(n) \in [Data -> Seq(Byte)]
  BY PrefixedMap DEF Data
<1>2. us \o vs \in Seq(Data)
  BY ConcatType
<1>3. FlatMap(PrefixedOf(n), us \o vs)
        = FlatMap(PrefixedOf(n), us) \o FlatMap(PrefixedOf(n), vs)
  BY <1>1, DataMapConcat
<1>4. QED
  BY <1>2, <1>3, PrefixedMap

\* LengthPrefixed, by its list of units.
LEMMA PrefixedFacts ==
  ASSUME NEW n \in {1, 2, 4}, NEW us \in Seq(Data), NEW vs \in Seq(Data), NEW u \in Data
  PROVE  /\ LengthPrefixed(us, n) \in Data
         /\ LengthPrefixed(<<u>>, n) = BigEndian(n, Len(u)) \o u
         /\ LengthPrefixed(us \o vs, n) = LengthPrefixed(us, n) \o LengthPrefixed(vs, n)
         /\ LengthPrefixed(Append(us, u), n)
              = LengthPrefixed(us, n) \o (BigEndian(n, Len(u)) \o u)
<1>7. PrefixedOf(n) \in [Data -> Seq(Byte)]
  BY PrefixedMap DEF Data
<1>8. PICK e \in [Data -> Seq(Byte)] : e = PrefixedOf(n)
  BY <1>7
<1>0. \A s \in Seq(Data) : LengthPrefixed(s, n) = FlatMap(e, s)
  BY <1>8, PrefixedMap
<1>2. e[u] = BigEndian(n, Len(u)) \o u
  BY <1>8 DEF PrefixedOf
<1>1. LengthPrefixed(us, n) \in Data
  BY <1>0, FlatMapType DEF Data
<1>3. LengthPrefixed(<<u>>, n) = e[u]
  <2>1. <<u>> \in Seq(Data)
    OBVIOUS
  <2>2. FlatMap(e, <<u>>) = e[u]
    BY FlatMapOne, ZenonT(30)
  <2>3. QED
    BY <1>0, <2>1, <2>2
<1>4. LengthPrefixed(us \o vs, n) = LengthPrefixed(us, n) \o LengthPrefixed(vs, n)
  BY PrefixedConcat
<1>5. LengthPrefixed(Append(us, u), n) = LengthPrefixed(us, n) \o e[u]
  <2>1. Append(us, u) \in Seq(Data)
    OBVIOUS
  <2>2. FlatMap(e, Append(us, u)) = FlatMap(e, us) \o e[u]
    BY FlatMapAppend
  <2>3. QED
    BY <1>0, <2>1, <2>2
<1>6. QED
  BY <1>1, <1>2, <1>3, <1>4, <1>5

\* NonEmpty is a FlatMap.
LEMMA NonEmptyMap ==
  ASSUME NEW A
  PROVE  /\ KeptOf(A) \in [A -> Seq(A)]
         /\ \A us \in Seq(A) : NonEmpty(us) = FlatMap(KeptOf(A), us)
<1>1. KeptOf(A) \in [A -> Seq(A)]
  <2>1. ASSUME NEW u \in A PROVE (IF u = <<>> THEN <<>> ELSE <<u>>) \in Seq(A)
    OBVIOUS
  <2>2. QED
    BY <2>1 DEF KeptOf
<1>2. ASSUME NEW us \in Seq(A) PROVE NonEmpty(us) = FlatMap(KeptOf(A), us)
  <2>1. \A i \in 1..Len(us) : us[i] \in A
    OBVIOUS
  <2>2. [i \in 1..Len(us) |-> IF us[i] = <<>> THEN <<>> ELSE <<us[i]>>]
          = [i \in 1..Len(us) |-> KeptOf(A)[us[i]]]
    BY <2>1 DEF KeptOf
  <2>3. QED
    BY <2>2 DEF NonEmpty, FlatMap
<1>3. QED
  BY <1>1, <1>2

\* NonEmpty takes lists apart.
LEMMA NonEmptyConcat ==
  ASSUME NEW A, NEW us \in Seq(A), NEW vs \in Seq(A)
  PROVE  NonEmpty(us \o vs) = NonEmpty(us) \o NonEmpty(vs)
<1>1. KeptOf(A) \in [A -> Seq(A)]
  BY NonEmptyMap
<1>2. us \o vs \in Seq(A)
  BY ConcatType
<1>3. FlatMap(KeptOf(A), us \o vs) = FlatMap(KeptOf(A), us) \o FlatMap(KeptOf(A), vs)
  <2>1. PICK e \in [A -> Seq(A)] : e = KeptOf(A)
    BY <1>1
  <2>2. FlatMap(e, us \o vs) = FlatMap(e, us) \o FlatMap(e, vs)
    BY FlatMapConcat, SMTT(30)
  <2>3. QED
    BY <2>1, <2>2
<1>4. QED
  BY <1>2, <1>3, NonEmptyMap

\* NonEmpty, by what is appended.
LEMMA NonEmptyAppend ==
  ASSUME NEW A, NEW us \in Seq(A), NEW u \in A
  PROVE  /\ NonEmpty(us) \in Seq(A)
         /\ NonEmpty(<<u>>) = IF u = <<>> THEN <<>> ELSE <<u>>
         /\ NonEmpty(Append(us, u)) = NonEmpty(us) \o NonEmpty(<<u>>)
<1>1. KeptOf(A) \in [A -> Seq(A)]
  BY NonEmptyMap
<1>2. PICK e \in [A -> Seq(A)] : e = KeptOf(A)
  BY <1>1
<1>3. \A s \in Seq(A) : NonEmpty(s) = FlatMap(e, s)
  BY <1>2, NonEmptyMap
<1>4. e[u] = IF u = <<>> THEN <<>> ELSE <<u>>
  BY <1>2 DEF KeptOf
<1>5. NonEmpty(us) \in Seq(A)
  <2>1. FlatMap(e, us) \in Seq(A)
    BY FlatMapType
  <2>2. QED
    BY <1>3, <2>1
<1>6. NonEmpty(<<u>>) = e[u]
  <2>1. <<u>> \in Seq(A)
    OBVIOUS
  <2>2. FlatMap(e, <<u>>) = e[u]
    BY FlatMapOne
  <2>3. QED
    BY <1>3, <2>1, <2>2
<1>7. NonEmpty(Append(us, u)) = NonEmpty(us) \o NonEmpty(<<u>>)
  <2>1. Append(us, u) \in Seq(A)
    OBVIOUS
  <2>2. FlatMap(e, Append(us, u)) = FlatMap(e, us) \o e[u]
    BY FlatMapAppend
  <2>3. QED
    BY <1>3, <1>6, <2>1, <2>2
<1>8. QED
  BY <1>5, <1>4, <1>6, <1>7

\* NonEmpty, by its list of units.
LEMMA NonEmptyFacts ==
  ASSUME NEW A, NEW us \in Seq(A), NEW vs \in Seq(A), NEW u \in A
  PROVE  /\ NonEmpty(us) \in Seq(A)
         /\ NonEmpty(us \o vs) = NonEmpty(us) \o NonEmpty(vs)
         /\ NonEmpty(<<u>>) = IF u = <<>> THEN <<>> ELSE <<u>>
         /\ NonEmpty(Append(us, u)) = NonEmpty(us) \o NonEmpty(<<u>>)
<1>1. NonEmpty(us \o vs) = NonEmpty(us) \o NonEmpty(vs)
  BY NonEmptyConcat
<1>2. QED
  BY <1>1, NonEmptyAppend

\* NonEmpty of no units.
LEMMA NonEmptyOfNone == NonEmpty(<<>>) = <<>>
<1>1. <<>> \in Seq({})
  OBVIOUS
<1>2. QED
  BY <1>1, NonEmptyMap, FlatMapEmpty

\* Framed, of no units.
LEMMA FramedOfNone == Framed(<<>>) = <<>>
<1>1. <<>> \in Seq(Data)
  OBVIOUS
<1>2. QED
  BY <1>1, FramedMap, FlatMapEmpty

\* LengthPrefixed, of no units.
LEMMA PrefixedOfNone ==
  ASSUME NEW n \in {1, 2, 4}
  PROVE  LengthPrefixed(<<>>, n) = <<>>
<1>1. <<>> \in Seq(Data)
  OBVIOUS
<1>2. QED
  BY <1>1, PrefixedMap, FlatMapEmpty

\* What is not empty stays.
LEMMA NonEmptyTwice ==
  ASSUME NEW A, NEW us \in Seq(A)
  PROVE  NonEmpty(NonEmpty(us)) = NonEmpty(us)
<1> DEFINE T == {s \in Seq(A) : NonEmpty(NonEmpty(s)) = NonEmpty(s)}
<1>1. <<>> \in T
  BY NonEmptyOfNone
<1>2. ASSUME NEW s \in Seq(A), NEW u \in A, s \in T PROVE Append(s, u) \in T
  <2>1. NonEmpty(s) \in Seq(A) /\ NonEmpty(Append(s, u)) = NonEmpty(s) \o NonEmpty(<<u>>)
    BY NonEmptyFacts, ZenonT(30)
  <2>2. NonEmpty(<<u>>) \in Seq(A) /\ NonEmpty(NonEmpty(<<u>>)) = NonEmpty(<<u>>)
    <3>1. NonEmpty(<<u>>) = IF u = <<>> THEN <<>> ELSE <<u>>
      BY NonEmptyFacts
    <3>2. CASE u = <<>>
      <4>1. NonEmpty(<<u>>) = <<>>
        BY <3>1, <3>2
      <4>2. QED
        BY <4>1, NonEmptyOfNone
    <3>3. CASE u # <<>>
      <4>1. NonEmpty(<<u>>) = <<u>>
        BY <3>1, <3>3
      <4>2. <<u>> \in Seq(A)
        OBVIOUS
      <4>3. QED
        BY <4>1, <4>2
    <3>4. QED
      BY <3>2, <3>3
  <2>3. NonEmpty(NonEmpty(s) \o NonEmpty(<<u>>))
          = NonEmpty(NonEmpty(s)) \o NonEmpty(NonEmpty(<<u>>))
    BY <2>1, <2>2, NonEmptyConcat
  <2>4. NonEmpty(NonEmpty(s)) = NonEmpty(s) /\ Append(s, u) \in Seq(A)
    BY <1>2
  <2>5. NonEmpty(NonEmpty(Append(s, u))) = NonEmpty(Append(s, u))
    BY <2>1, <2>2, <2>3, <2>4
  <2>6. QED
    BY <2>4, <2>5
<1> HIDE DEF T
<1>3. us \in T
  BY <1>1, <1>2, InductSeq
<1>4. QED
  BY <1>3 DEF T

-----------------------------------------------------------------------------
(* The rewriting: a turn for every unit, each looking at what lies behind it. *)

\* The type of a byte string, in parts.
LEMMA DataProperties ==
  ASSUME NEW b \in Data
  PROVE  Len(b) \in Nat /\ \A i \in 1..Len(b) : b[i] \in Byte
BY DEF Data

\* The value of bytes is a natural.
LEMMA beNat ==
  ASSUME NEW b \in Data
  PROVE  be(b) \in Nat
<1>1. b \in Seq(Nat)
  BY DataNat
<1>2. PICK v \in [0..Len(b) -> Nat] : be(b) = v[Len(b)]
  BY <1>1, beDef
<1>3. Len(b) \in 0..Len(b)
  BY DataProperties
<1>4. QED
  BY <1>2, <1>3

\* A slice that fits is as long as asked for.
LEMMA SliceData ==
  ASSUME NEW b \in Data, NEW pos \in Nat, NEW n \in Nat, Has(b, pos, n)
  PROVE  /\ Slice(b, pos, n) \in Data /\ Len(Slice(b, pos, n)) = n
         /\ \A i \in 1..n : Slice(b, pos, n)[i] = b[pos + i]
<1>1. \A i \in (pos + 1)..(pos + n) : b[i] \in Byte
  BY DataProperties DEF Has
<1>2. pos + 1 \in Int /\ pos + n \in Int
  OBVIOUS
<1> DEFINE w == Slice(b, pos, n)
<1>3. w = SubSeq(b, pos + 1, pos + n)
  BY DEF Slice
<1> HIDE DEF w
<1>4. /\ w \in Data /\ Len(w) = IF pos + 1 <= pos + n THEN (pos + n) - (pos + 1) + 1 ELSE 0
      /\ \A i \in 1..((pos + n) - (pos + 1) + 1) : w[i] = b[(pos + 1) + i - 1]
  BY <1>1, <1>2, <1>3, SubSeqProperties DEF Data
<1>5. Len(w) = n
  BY <1>4
<1>6. ASSUME NEW i \in 1..n PROVE w[i] = b[pos + i]
  <2>1. i \in 1..((pos + n) - (pos + 1) + 1) /\ (pos + 1) + i - 1 = pos + i
    OBVIOUS
  <2>2. QED
    BY <1>4, <2>1
<1>7. QED
  BY <1>4, <1>5, <1>6 DEF w

\* The slice between two strings is what was put there.
LEMMA SliceMiddle ==
  ASSUME NEW a \in Data, NEW b \in Data, NEW c \in Data
  PROVE  /\ (a \o b) \o c \in Data /\ Len((a \o b) \o c) = Len(a) + Len(b) + Len(c)
         /\ Slice((a \o b) \o c, Len(a), Len(b)) = b
<1> DEFINE ab == a \o b
           w == ab \o c
           m == Slice(w, Len(a), Len(b))
<1>1. Len(a) \in Nat /\ Len(b) \in Nat /\ Len(c) \in Nat
  BY DataProperties
<1>2. ab \in Data /\ Len(ab) = Len(a) + Len(b)
  BY ConcatData
<1>3. \A i \in 1..(Len(a) + Len(b)) : ab[i] = IF i <= Len(a) THEN a[i] ELSE b[i - Len(a)]
  BY ConcatProperties DEF Data
<1> HIDE DEF ab
<1>4. w \in Data /\ Len(w) = Len(ab) + Len(c)
  BY <1>2, ConcatData
<1>5. \A i \in 1..(Len(ab) + Len(c)) : w[i] = IF i <= Len(ab) THEN ab[i] ELSE c[i - Len(ab)]
  BY <1>2, ConcatProperties DEF Data
<1> HIDE DEF w
<1>6. Len(w) = Len(a) + Len(b) + Len(c)
  BY <1>2, <1>4
<1>7. Has(w, Len(a), Len(b))
  BY <1>1, <1>6 DEF Has
<1>8. m \in Data /\ Len(m) = Len(b) /\ \A i \in 1..Len(b) : m[i] = w[Len(a) + i]
  BY <1>1, <1>4, <1>7, SliceData
<1> HIDE DEF m
<1>9. ASSUME NEW i \in 1..Len(b) PROVE m[i] = b[i]
  <2>1. /\ Len(a) + i \in 1..(Len(ab) + Len(c)) /\ Len(a) + i <= Len(ab)
        /\ Len(a) + i \in 1..(Len(a) + Len(b)) /\ ~(Len(a) + i <= Len(a))
        /\ (Len(a) + i) - Len(a) = i
    BY <1>1, <1>2
  <2>2. w[Len(a) + i] = ab[Len(a) + i]
    BY <1>5, <2>1
  <2>3. ab[Len(a) + i] = b[i]
    BY <1>3, <2>1
  <2>4. QED
    BY <1>8, <2>2, <2>3
<1>10. m = b
  BY <1>8, <1>9, SeqEqual DEF Data
<1>11. QED
  BY <1>4, <1>6, <1>10 DEF m, w, ab

\* Where the turn at pos goes on, what it makes of the others, and the whole.
Jump(data, n, pos) == pos + n + be(Slice(data, pos, n))
Turn(data, n, pos, others) ==
  IF pos = Len(data) THEN [ok |-> TRUE, out |-> <<>>]
  ELSE IF \/ ~Has(data, pos, n)
          \/ ~Has(data, pos + n, be(Slice(data, pos, n))) \/ ~others.ok THEN Nothing
  ELSE [ok |-> TRUE,
        out |-> StartCode \o Slice(data, pos + n, be(Slice(data, pos, n))) \o others.out]

\* The next turn of the rewriting loop is further on, inside the payload exactly
\* if the unit is.
LEMMA JumpForward ==
  ASSUME NEW data \in Data, NEW n \in {1, 2, 4}, NEW pos \in 0..Len(data), Has(data, pos, n)
  PROVE  /\ be(Slice(data, pos, n)) \in Nat
         /\ Jump(data, n, pos) \in Nat /\ Jump(data, n, pos) > pos
         /\ Jump(data, n, pos) <= Len(data) <=> Has(data, pos + n, be(Slice(data, pos, n)))
<1> DEFINE len == be(Slice(data, pos, n))
<1>1. Len(data) \in Nat
  BY DataProperties
<1>2. Slice(data, pos, n) \in Data
  BY <1>1, SliceData
<1>3. len \in Nat
  BY <1>2, beNat
<1>4. Jump(data, n, pos) = pos + n + len
  BY DEF Jump
<1> HIDE DEF len
<1>5. Jump(data, n, pos) \in Nat /\ Jump(data, n, pos) > pos
  BY <1>1, <1>3, <1>4
<1>6. Jump(data, n, pos) <= Len(data) <=> Has(data, pos + n, len)
  BY <1>4 DEF Has
<1>7. QED
  BY <1>3, <1>5, <1>6 DEF len

\* A turn looks only at what lies behind it.
LEMMA TurnLocal ==
  ASSUME NEW data \in Data, NEW n \in {1, 2, 4}, NEW pos \in 0..Len(data),
         NEW x, NEW y, Jump(data, n, pos) \notin (pos + 1)..Len(data)
  PROVE  Turn(data, n, pos, x) = Turn(data, n, pos, y)
<1>1. CASE ~Has(data, pos, n)
  BY <1>1 DEF Turn
<1>2. CASE Has(data, pos, n)
  <2>1. Jump(data, n, pos) \in Nat /\ Jump(data, n, pos) > pos
    BY <1>2, JumpForward
  <2>2. ~(Jump(data, n, pos) <= Len(data))
    BY <2>1, DataProperties
  <2>3. ~Has(data, pos + n, be(Slice(data, pos, n)))
    BY <1>2, <2>2, JumpForward
  <2>4. QED
    BY <2>3 DEF Turn
<1>3. QED
  BY <1>1, <1>2

IsRewriting(r, data, n, first) ==
  r = [pos \in first..Len(data) |-> Turn(data, n, pos, r[Jump(data, n, pos)])]

\* The function within length_prefixed_to_annex_b exists: each turn depends on a
\* later one.
LEMMA RewritingExists ==
  ASSUME NEW data \in Data, NEW n \in {1, 2, 4}
  PROVE  \E r : IsRewriting(r, data, n, 0)
<1> DEFINE L == Len(data)
           J(pos) == Jump(data, n, pos)
           U(pos, x) == Turn(data, n, pos, x)
           Q(m, r) == r = [pos \in (L - m)..L |-> U(pos, r[J(pos)])]
           T == {m \in Nat : m <= L => \E r : Q(m, r)}
<1>1. L \in Nat
  BY DataProperties
<1>2. \A pos \in 0..L : J(pos) \notin (pos + 1)..L => \A x, y : U(pos, x) = U(pos, y)
  BY TurnLocal
<1>8. \A r : Q(L, r) => IsRewriting(r, data, n, 0)
  BY <1>1 DEF IsRewriting
<1> HIDE DEF L, J, U
<1>3. 0 \in T
  <2> DEFINE w == [pos \in L..L |-> U(pos, 0)]
  <2>1. J(L) \notin (L + 1)..L
    BY <1>1
  <2>2. U(L, w[J(L)]) = U(L, 0)
    BY <1>1, <1>2, <2>1
  <2>3. Q(0, w)
    <3>1. L - 0 = L /\ \A pos \in L..L : pos = L
      BY <1>1
    <3>2. \A pos \in L..L : w[pos] = U(pos, w[J(pos)])
      BY <2>2, <3>1
    <3>3. QED
      BY <3>1, <3>2
  <2> HIDE DEF Q, w
  <2>4. QED
    BY <2>3
<1>4. ASSUME NEW m \in Nat, m \in T PROVE m + 1 \in T
  <2> SUFFICES ASSUME m + 1 <= L PROVE \E r : Q(m + 1, r)
    OBVIOUS
  <2>1. PICK r : Q(m, r)
    BY <1>1, <1>4
  <2> DEFINE first == L - (m + 1)
             w == [pos \in first..L |->
                     IF pos = first THEN U(first, r[J(first)]) ELSE r[pos]]
  <2>2. first \in Nat /\ L - m = first + 1 /\ first <= L
    BY <1>1
  <2>3. r = [pos \in (first + 1)..L |-> U(pos, r[J(pos)])]
    BY <2>1, <2>2
  <2> HIDE DEF first
  <2>4. ASSUME NEW pos \in first..L PROVE w[pos] = U(pos, w[J(pos)])
    <3>1. pos \in 0..L
      BY <1>1, <2>2
    <3>2. w[pos] = U(pos, r[J(pos)])
      <4>1. CASE pos = first
        BY <4>1
      <4>2. CASE pos # first
        <5>1. pos \in (first + 1)..L
          BY <1>1, <2>2, <4>2
        <5>2. QED
          BY <2>3, <4>2, <5>1
      <4>3. QED
        BY <4>1, <4>2
    <3>3. CASE J(pos) \in (pos + 1)..L
      <4>1. J(pos) \in first..L /\ J(pos) # first
        BY <1>1, <2>2, <3>3
      <4>2. w[J(pos)] = r[J(pos)]
        BY <4>1
      <4>3. QED
        BY <3>2, <4>2
    <3>4. CASE J(pos) \notin (pos + 1)..L
      <4>1. U(pos, r[J(pos)]) = U(pos, w[J(pos)])
        BY <1>2, <3>1, <3>4
      <4>2. QED
        BY <3>2, <4>1
    <3>5. QED
      BY <3>3, <3>4
  <2>5. Q(m + 1, w)
    BY <2>4 DEF first
  <2> HIDE DEF Q, w
  <2>6. QED
    BY <2>5
<1> HIDE DEF T
<1>5. L \in T
  BY <1>1, <1>3, <1>4, Induct
<1>6. PICK r : Q(L, r)
  BY <1>1, <1>5 DEF T
<1>7. QED
  BY <1>6, <1>8

\* length_prefixed_to_annex_b is that function, from offset 0.
LEMMA RewritingDef ==
  ASSUME NEW data \in Data, NEW n \in {1, 2, 4}
  PROVE  \E r : IsRewriting(r, data, n, 0) /\ length_prefixed_to_annex_b(data, n) = r[0]
<1> DEFINE Q(r) == r = [pos \in 0..Len(data) |->
        IF pos = Len(data) THEN [ok |-> TRUE, out |-> <<>>]
        ELSE IF ~Has(data, pos, n) THEN Nothing
        ELSE LET len == be(Slice(data, pos, n))
                 start == pos + n
                 others == r[start + len]
             IN IF ~Has(data, start, len) \/ ~others.ok THEN Nothing
                ELSE [ok |-> TRUE,
                      out |-> StartCode \o Slice(data, start, len) \o others.out]]
           h == CHOOSE r : Q(r)
<1>1. length_prefixed_to_annex_b(data, n) = h[0]
  BY DEF length_prefixed_to_annex_b
<1>2. \A r : Q(r) <=> IsRewriting(r, data, n, 0)
  <2> SUFFICES ASSUME NEW r PROVE Q(r) <=> IsRewriting(r, data, n, 0)
    OBVIOUS
  <2>1. [pos \in 0..Len(data) |->
        IF pos = Len(data) THEN [ok |-> TRUE, out |-> <<>>]
        ELSE IF ~Has(data, pos, n) THEN Nothing
        ELSE LET len == be(Slice(data, pos, n))
                 start == pos + n
                 others == r[start + len]
             IN IF ~Has(data, start, len) \/ ~others.ok THEN Nothing
                ELSE [ok |-> TRUE,
                      out |-> StartCode \o Slice(data, start, len) \o others.out]]
        = [pos \in 0..Len(data) |-> Turn(data, n, pos, r[Jump(data, n, pos)])]
    BY DEF Turn, Jump
  <2>2. QED
    BY <2>1 DEF IsRewriting
<1> HIDE DEF Q
<1>3. QED
  BY <1>1, <1>2, RewritingExists

\* Induction over sequences, by what is put in front.
LEMMA InductSeqFront ==
  ASSUME NEW S, NEW T, <<>> \in T,
         \A s \in Seq(S), e \in S : s \in T => <<e>> \o s \in T
  PROVE  \A s \in Seq(S) : s \in T
<1> DEFINE L == {n \in Nat : \A s \in Seq(S) : Len(s) = n => s \in T}
<1>1. 0 \in L
  OBVIOUS
<1>2. ASSUME NEW n \in Nat, n \in L PROVE n + 1 \in L
  <2> SUFFICES ASSUME NEW s \in Seq(S), Len(s) = n + 1 PROVE s \in T
    OBVIOUS
  <2>1. s # <<>>
    OBVIOUS
  <2>2. Head(s) \in S /\ Tail(s) \in Seq(S) /\ Len(Tail(s)) = Len(s) - 1
    BY <2>1, HeadTailProperties
  <2>3. s = <<Head(s)>> \o Tail(s)
    <3>1. 1 \in 1..Len(s) /\ Len(s) \in 1..Len(s)
      OBVIOUS
    <3>2. SubSeq(s, 1, Len(s)) = <<s[1]>> \o SubSeq(s, 1 + 1, Len(s))
      BY <3>1, SubSeqRecursiveFirst
    <3>3. SubSeq(s, 1, Len(s)) = s /\ Tail(s) = SubSeq(s, 2, Len(s)) /\ Head(s) = s[1]
      BY <2>1, SubSeqFull, TailIsSubSeq
    <3>4. QED
      BY <3>2, <3>3
  <2>4. Len(Tail(s)) = n
    BY <2>2
  <2>5. QED
    BY <1>2, <2>2, <2>3, <2>4
<1> HIDE DEF L
<1>3. \A n \in Nat : n \in L
  BY <1>1, <1>2, Induct
<1>4. QED
  BY <1>3 DEF L

\* Concatenation of byte strings associates.
LEMMA DataAssociative ==
  ASSUME NEW a \in Data, NEW b \in Data, NEW c \in Data
  PROVE  (a \o b) \o c = a \o (b \o c)
BY ConcatAssociative DEF Data

\* LengthPrefixed, by what is in front.
LEMMA PrefixedFirst ==
  ASSUME NEW n \in {1, 2, 4}, NEW e \in Data, NEW s \in Seq(Data)
  PROVE  LengthPrefixed(<<e>> \o s, n) = (BigEndian(n, Len(e)) \o e) \o LengthPrefixed(s, n)
<1> DEFINE one == <<e>>
<1>1. one \in Seq(Data)
  OBVIOUS
<1>2. LengthPrefixed(one, n) = BigEndian(n, Len(e)) \o e
  BY PrefixedFacts, ZenonT(30)
<1> HIDE DEF one
<1>3. LengthPrefixed(one \o s, n) = LengthPrefixed(one, n) \o LengthPrefixed(s, n)
  BY <1>1, PrefixedConcat
<1>4. QED
  BY <1>2, <1>3 DEF one

\* Framed, by what is in front.
LEMMA FramedFirst ==
  ASSUME NEW u \in Data, NEW us \in Seq(Data)
  PROVE  Framed(<<u>> \o us) = (StartCode \o u) \o Framed(us)
<1> DEFINE one == <<u>>
<1>1. one \in Seq(Data)
  OBVIOUS
<1>2. Framed(one) = StartCode \o u
  BY FramedFacts
<1> HIDE DEF one
<1>3. Framed(one \o us) = Framed(one) \o Framed(us)
  BY <1>1, FramedFacts
<1>4. QED
  BY <1>2, <1>3 DEF one

\* The units whose length has room in n bytes.
Fitting(n) == {u \in Data : Fits(n, Len(u))}

\* Whatever stands before them, length-prefixed units are rewritten into the
\* framed ones.
LEMMA RewritesUnits ==
  ASSUME NEW n \in {1, 2, 4}, NEW us \in Seq(Fitting(n)), NEW pre \in Data, NEW r,
         IsRewriting(r, pre \o LengthPrefixed(us, n), n, 0)
  PROVE  r[Len(pre)] = [ok |-> TRUE, out |-> Framed(us)]
<1> DEFINE T == {s \in Seq(Fitting(n)) : \A p \in Data : \A q :
                   IsRewriting(q, p \o LengthPrefixed(s, n), n, 0)
                     => q[Len(p)] = [ok |-> TRUE, out |-> Framed(s)]}
<1>0. Fitting(n) \subseteq Data
  BY DEF Fitting
<1>1. <<>> \in T
  <2> SUFFICES ASSUME NEW p \in Data, NEW q,
                      IsRewriting(q, p \o LengthPrefixed(<<>>, n), n, 0)
               PROVE  q[Len(p)] = [ok |-> TRUE, out |-> Framed(<<>>)]
    <3>1. <<>> \in Seq(Fitting(n))
      OBVIOUS
    <3>2. QED
      BY <3>1
  <2>1. p \o LengthPrefixed(<<>>, n) = p
    BY PrefixedOfNone, ConcatEmptySeq DEF Data
  <2>2. Len(p) \in 0..Len(p)
    BY DataProperties
  <2>3. q[Len(p)] = Turn(p, n, Len(p), q[Jump(p, n, Len(p))])
    BY <2>1, <2>2 DEF IsRewriting
  <2>4. QED
    BY <2>3, FramedOfNone DEF Turn
<1>2. ASSUME NEW s \in Seq(Fitting(n)), NEW e \in Fitting(n), s \in T
      PROVE  <<e>> \o s \in T
  <2>1. <<e>> \o s \in Seq(Fitting(n))
    BY ConcatType
  <2> SUFFICES ASSUME NEW p \in Data, NEW q,
                      IsRewriting(q, p \o LengthPrefixed(<<e>> \o s, n), n, 0)
               PROVE  q[Len(p)] = [ok |-> TRUE, out |-> Framed(<<e>> \o s)]
    BY <2>1
  <2> DEFINE b == BigEndian(n, Len(e))
             x == LengthPrefixed(s, n)
             data == p \o LengthPrefixed(<<e>> \o s, n)
             pb == p \o b
             next == pb \o e
  <2>2. e \in Data /\ s \in Seq(Data) /\ <<e>> \in Seq(Data) /\ Fits(n, Len(e)) /\ Len(e) \in Nat
    BY <1>0, SeqMonotonic, DataProperties DEF Fitting
  <2>3. b \in Data /\ Len(b) = n /\ be(b) = Len(e)
    BY <2>2, BigEndianFacts
  <2>4. x \in Data /\ LengthPrefixed(<<e>> \o s, n) = (b \o e) \o x
    <3>1. x \in Data
      BY <2>2, PrefixedFacts
    <3>2. LengthPrefixed(<<e>> \o s, n) = (BigEndian(n, Len(e)) \o e) \o LengthPrefixed(s, n)
      BY <2>2, PrefixedFirst
    <3>3. QED
      BY <3>1, <3>2
  <2>5. data = p \o ((b \o e) \o x)
    BY <2>4
  <2> HIDE DEF b, x, data
  <2>6. pb \in Data /\ Len(pb) = Len(p) + n
    BY <2>3, ConcatData
  <2>7. (b \o e) \o x = b \o (e \o x) /\ e \o x \in Data /\ b \o e \in Data
    <3>1. e \in Data /\ b \in Data /\ x \in Data
      BY <2>2, <2>3, <2>4
    <3>2. e \o x \in Data /\ b \o e \in Data
      BY <3>1, ConcatData
    <3>3. (b \o e) \o x = b \o (e \o x)
      BY <3>1, DataAssociative, SMTT(30)
    <3>4. QED
      BY <3>2, <3>3
  <2>8. data = pb \o (e \o x)
    <3> DEFINE ex == e \o x
    <3>1. data = p \o (b \o ex) /\ ex \in Data /\ b \in Data
      BY <2>3, <2>5, <2>7
    <3> HIDE DEF ex
    <3>2. p \o (b \o ex) = (p \o b) \o ex
      BY <3>1, DataAssociative
    <3>3. QED
      BY <3>1, <3>2 DEF ex
  <2>9. data = (pb \o e) \o x
    BY <2>2, <2>4, <2>6, <2>8, DataAssociative
  <2>10. next \in Data /\ Len(next) = Len(p) + n + Len(e)
    BY <2>2, <2>6, ConcatData
  <2>11. q[Len(next)] = [ok |-> TRUE, out |-> Framed(s)]
    <3>1. IsRewriting(q, next \o x, n, 0)
      BY <2>9 DEF data
    <3> HIDE DEF next
    <3>2. QED
      BY <1>2, <2>10, <3>1 DEF x
  <2>12. /\ data \in Data /\ Len(data) = Len(p) + n + Len(e \o x)
         /\ Slice(data, Len(p), n) = b
    BY <2>3, <2>7, <2>8, SliceMiddle, ZenonT(30)
  <2>13. Len(data) = Len(pb) + Len(e) + Len(x) /\ Slice(data, Len(pb), Len(e)) = e
    BY <2>2, <2>4, <2>6, <2>9, SliceMiddle, ZenonT(30)
  <2>14. Len(p) \in Nat /\ Len(x) \in Nat /\ Len(e \o x) \in Nat
    BY <2>4, <2>7, DataProperties
  <2>15. Len(p) \in 0..Len(data) /\ Len(p) # Len(data) /\ Has(data, Len(p), n)
    BY <2>12, <2>14 DEF Has
  <2>16. Has(data, Len(p) + n, Len(e))
    BY <2>2, <2>6, <2>13, <2>14 DEF Has
  <2>17. Jump(data, n, Len(p)) = Len(next)
    BY <2>3, <2>10, <2>12 DEF Jump
  <2>18. q[Len(p)] = Turn(data, n, Len(p), q[Len(next)])
    BY <2>15, <2>17 DEF IsRewriting, data
  <2>19. q[Len(p)] = [ok |-> TRUE, out |-> StartCode \o e \o Framed(s)]
    <3> DEFINE o == q[Len(next)]
    <3>1. o.ok /\ o.out = Framed(s)
      BY <2>11
    <3>2. be(Slice(data, Len(p), n)) = Len(e) /\ Slice(data, Len(p) + n, Len(e)) = e
      BY <2>3, <2>6, <2>12, <2>13
    <3> HIDE DEF o
    <3>3. Turn(data, n, Len(p), o) = [ok |-> TRUE, out |-> StartCode \o e \o o.out]
      BY <2>15, <2>16, <3>1, <3>2 DEF Turn
    <3>4. QED
      BY <2>18, <3>1, <3>3 DEF o
  <2>20. Framed(<<e>> \o s) = (StartCode \o e) \o Framed(s)
    BY <2>2, FramedFirst
  <2>21. QED
    BY <2>19, <2>20
<1> HIDE DEF T
<1>3. us \in T
  BY <1>1, <1>2, InductSeqFront
<1>4. QED
  BY <1>3 DEF T

-----------------------------------------------------------------------------
(* A payload is rewritten exactly if it is tiled.                          *)

\* The next cut of a tiling exists and is the least one behind.
LEMMA NextCut ==
  ASSUME NEW L \in Nat, NEW cuts \in SUBSET (0..L), L \in cuts, NEW p \in 0..L, p # L
  PROVE  /\ Next1(cuts, p) \in cuts /\ Next1(cuts, p) > p
         /\ \A r \in cuts : r > p => Next1(cuts, p) <= r
<1> DEFINE T == {r \in cuts : r > p}
<1>1. T \subseteq Nat /\ T # {}
  <2>1. L \in T
    OBVIOUS
  <2>2. \A r \in T : r \in 0..L
    OBVIOUS
  <2>3. \A r \in T : r \in Nat
    BY <2>2
  <2> HIDE DEF T
  <2>4. QED
    BY <2>1, <2>3
<1>2. PICK m \in T : \A k \in T : m <= k
  <2> HIDE DEF T
  <2>1. QED
    BY <1>1, Least
<1>3. m \in cuts /\ m > p /\ \A r \in cuts : r > p => m <= r
  BY <1>2
<1> DEFINE P(q) == q > p /\ \A r \in cuts : r > p => q <= r
<1>4. Next1(cuts, p) = CHOOSE q \in cuts : P(q)
  BY DEF Next1
<1>5. \E q \in cuts : P(q)
  BY <1>3
<1> HIDE DEF P
<1>6. Next1(cuts, p) \in cuts /\ P(Next1(cuts, p))
  BY <1>4, <1>5
<1>7. QED
  BY <1>6 DEF P

\* There is one such cut.
LEMMA NextCutUnique ==
  ASSUME NEW L \in Nat, NEW cuts \in SUBSET (0..L), L \in cuts, NEW p \in 0..L, p # L,
         NEW q \in cuts, q > p, \A r \in cuts : r > p => q <= r
  PROVE  Next1(cuts, p) = q
<1>1. /\ Next1(cuts, p) \in cuts /\ Next1(cuts, p) > p
      /\ \A r \in cuts : r > p => Next1(cuts, p) <= r
  BY NextCut
<1>2. Next1(cuts, p) <= q /\ q <= Next1(cuts, p)
  BY <1>1
<1>3. Next1(cuts, p) \in 0..L /\ q \in 0..L
  BY <1>1
<1>4. QED
  BY <1>2, <1>3

\* One piece of a tiling.
Tile(data, n, cuts, p) ==
  Next1(cuts, p) >= p + n /\ be(Slice(data, p, n)) = Next1(cuts, p) - p - n

\* A payload that is rewritten is tiled: the offsets of the turns are the cuts.
LEMMA RewritableIsTiled ==
  ASSUME NEW data \in Data, NEW n \in {1, 2, 4}, NEW r, IsRewriting(r, data, n, 0), r[0].ok
  PROVE  Tilings(data, n) # {}
<1> DEFINE L == Len(data)
           C(p, cuts) == /\ cuts \subseteq p..L /\ p \in cuts /\ L \in cuts
                         /\ \A c \in cuts \ {L} : Tile(data, n, cuts, c)
           T == {p \in 0..L : r[p].ok => \E cuts \in SUBSET (0..L) : C(p, cuts)}
<1>1. L \in Nat
  BY DataProperties
<1>2. ASSUME NEW p \in 0..L, \A j \in (p + 1)..L : j \in T, r[p].ok
      PROVE  \E cuts \in SUBSET (0..L) : C(p, cuts)
  <2>1. r[p] = Turn(data, n, p, r[Jump(data, n, p)])
    BY DEF IsRewriting
  <2>2. CASE p = L
    <3>1. C(p, {L}) /\ {L} \in SUBSET (0..L)
      BY <1>1, <2>2
    <3>2. QED
      BY <3>1
  <2>3. CASE p # L
    <3> DEFINE J == Jump(data, n, p)
               len == be(Slice(data, p, n))
    <3>1. Has(data, p, n) /\ Has(data, p + n, len) /\ r[J].ok
      BY <1>2, <2>1, <2>3 DEF Turn, Nothing
    <3>2. len \in Nat /\ J \in Nat /\ J > p /\ J <= L
      BY <3>1, JumpForward
    <3>3. J = p + n + len
      BY DEF Jump
    <3> HIDE DEF J, len, C
    <3>4. J \in (p + 1)..L
      BY <1>1, <3>2
    <3>5. PICK rest \in SUBSET (0..L) : C(J, rest)
      BY <1>2, <3>1, <3>4
    <3>6. /\ rest \subseteq J..L /\ J \in rest /\ L \in rest
          /\ \A c \in rest \ {L} : Tile(data, n, rest, c)
      BY <3>5 DEF C
    <3> DEFINE cuts == rest \cup {p}
    <3>7. cuts \in SUBSET (0..L) /\ L \in cuts /\ p \in cuts /\ cuts \subseteq p..L
      BY <1>1, <3>2, <3>4, <3>6
    <3>8. \A c \in cuts : c > p => c \in rest /\ J <= c
      BY <3>6
    <3>9. J \in cuts /\ \A c \in cuts : c > p => J <= c
      BY <3>6, <3>8
    <3>10. ASSUME NEW c \in rest, c # L PROVE Next1(cuts, c) = Next1(rest, c)
      <4>1. c \in 0..L /\ c > p
        BY <1>1, <3>4, <3>6
      <4>2. /\ Next1(rest, c) \in rest /\ Next1(rest, c) > c
            /\ \A x \in rest : x > c => Next1(rest, c) <= x
        BY <1>1, <3>6, <3>10, <4>1, NextCut
      <4>3. \A x \in cuts : x > c => x \in rest
        BY <4>1
      <4>4. Next1(rest, c) \in cuts /\ \A x \in cuts : x > c => Next1(rest, c) <= x
        BY <4>2, <4>3
      <4> HIDE DEF cuts
      <4>5. QED
        BY <1>1, <3>7, <3>10, <4>1, <4>2, <4>4, NextCutUnique
    <3>11. Next1(cuts, p) = J
      <4> HIDE DEF cuts
      <4>1. QED
        BY <1>1, <2>3, <3>2, <3>7, <3>9, NextCutUnique
    <3>12. Tile(data, n, cuts, p)
      BY <3>2, <3>3, <3>11 DEF Tile, len
    <3>13. \A c \in rest \ {L} : Tile(data, n, cuts, c)
      BY <3>6, <3>10 DEF Tile
    <3>14. C(p, cuts)
      BY <3>7, <3>12, <3>13 DEF C
    <3> HIDE DEF cuts
    <3>15. QED
      BY <3>7, <3>14
  <2>4. QED
    BY <2>2, <2>3
<1>3. \A p \in 0..L : (\A j \in (p + 1)..L : j \in T) => p \in T
  BY <1>2
<1> HIDE DEF T
<1>4. 0 \in T
  <2>1. \A p \in 0..L : p \in T
    BY <1>1, <1>3, InductDown
  <2>2. QED
    BY <1>1, <2>1
<1>5. PICK cuts \in SUBSET (0..L) : C(0, cuts)
  BY <1>4 DEF T
<1>6. Tiles(data, n, cuts)
  BY <1>5 DEF Tiles, Tile
<1>7. QED
  BY <1>6 DEF Tilings

\* The piece at a byte, if it is a cut, and the pieces from there on.
PieceAt(data, n, cuts, i) ==
  IF i - 1 \in cuts THEN <<Slice(data, i - 1 + n, Next1(cuts, i - 1) - (i - 1) - n)>>
  ELSE <<>>
\* The pieces at and behind an offset.
PiecesFrom(data, n, cuts, p) ==
  FlattenSeq(SubSeq([i \in 1..Len(data) |-> PieceAt(data, n, cuts, i)], p + 1, Len(data)))

\* The type of a piece.
LEMMA PiecesFromType ==
  ASSUME NEW data \in Data, NEW n \in {1, 2, 4},
         NEW cuts \in SUBSET (0..Len(data)), Tiles(data, n, cuts), NEW i \in 1..Len(data)
  PROVE  PieceAt(data, n, cuts, i) \in Seq(Data)
<1>1. Len(data) \in Nat /\ Len(data) \in cuts
  BY DataProperties DEF Tiles
<1>2. CASE i - 1 \notin cuts
  <2>1. <<>> \in Seq(Data)
    OBVIOUS
  <2>2. QED
    BY <1>2, <2>1 DEF PieceAt
<1>3. CASE i - 1 \in cuts
  <2> DEFINE q == Next1(cuts, i - 1)
  <2>1. i - 1 \in 0..Len(data) /\ i - 1 # Len(data)
    BY <1>1
  <2>2. q \in cuts /\ q > i - 1
    BY <1>1, <2>1, NextCut
  <2>3. q >= i - 1 + n
    BY <1>3, <2>1 DEF Tiles
  <2> HIDE DEF q
  <2>4. q \in 0..Len(data)
    BY <2>2
  <2>5. i - 1 + n \in Nat /\ q - (i - 1) - n \in Nat /\ Has(data, i - 1 + n, q - (i - 1) - n)
    BY <1>1, <2>1, <2>3, <2>4 DEF Has
  <2>6. Slice(data, i - 1 + n, q - (i - 1) - n) \in Data
    BY <2>5, SliceData
  <2>7. QED
    BY <1>3, <2>6 DEF PieceAt, q
<1>4. QED
  BY <1>2, <1>3

\* The pieces of a tiling, by offset.
LEMMA PiecesFromStep ==
  ASSUME NEW data \in Data, NEW n \in {1, 2, 4},
         NEW cuts \in SUBSET (0..Len(data)), Tiles(data, n, cuts)
  PROVE  /\ PiecesFrom(data, n, cuts, Len(data)) = <<>>
         /\ Pieces(data, n, cuts) = PiecesFrom(data, n, cuts, 0)
         /\ \A p \in 0..(Len(data) - 1) :
              /\ PiecesFrom(data, n, cuts, p + 1) \in Seq(Data)
              /\ PiecesFrom(data, n, cuts, p)
                   = PieceAt(data, n, cuts, p + 1) \o PiecesFrom(data, n, cuts, p + 1)
<1> DEFINE L == Len(data)
           list == [i \in 1..L |-> PieceAt(data, n, cuts, i)]
<1>1. L \in Nat
  BY DataProperties
<1>2. list \in Seq(Seq(Data)) /\ Len(list) = L
  BY <1>1, PiecesFromType
<1>3. Pieces(data, n, cuts) = FlattenSeq(list)
  BY DEF Pieces, PieceAt
<1>4. \A i \in 1..L : list[i] = PieceAt(data, n, cuts, i)
  OBVIOUS
<1>5. \A p \in 0..L : PiecesFrom(data, n, cuts, p) = FlattenSeq(SubSeq(list, p + 1, L))
  BY DEF PiecesFrom
<1> HIDE DEF list, L
<1>6. PiecesFrom(data, n, cuts, L) = <<>>
  <2>1. SubSeq(list, L + 1, L) = <<>>
    BY <1>1, SubSeqEmpty
  <2>2. L \in 0..L
    BY <1>1
  <2>3. PiecesFrom(data, n, cuts, L) = FlattenSeq(SubSeq(list, L + 1, L))
    BY <1>5, <2>2
  <2>4. QED
    BY <2>1, <2>3, FlattenEmpty
<1>0. Pieces(data, n, cuts) = PiecesFrom(data, n, cuts, 0)
  <2>1. SubSeq(list, 1, L) = list
    BY <1>2, SubSeqFull
  <2>2. 0 \in 0..L /\ 0 + 1 = 1
    BY <1>1
  <2>3. PiecesFrom(data, n, cuts, 0) = FlattenSeq(SubSeq(list, 1, L))
    BY <1>5, <2>2
  <2>4. QED
    BY <1>3, <2>1, <2>3
<1>7. ASSUME NEW p \in 0..(L - 1)
      PROVE  /\ PiecesFrom(data, n, cuts, p + 1) \in Seq(Data)
             /\ PiecesFrom(data, n, cuts, p)
                  = PieceAt(data, n, cuts, p + 1) \o PiecesFrom(data, n, cuts, p + 1)
  <2> DEFINE tail == SubSeq(list, (p + 1) + 1, L)
             one == <<list[p + 1]>>
  <2>1. p + 1 \in 1..L /\ p \in 0..L /\ p + 1 \in 0..L /\ L \in (p + 1)..L
    BY <1>1
  <2>2. SubSeq(list, p + 1, L) = one \o tail
    BY <1>2, <2>1, SubSeqRecursiveFirst
  <2>3. tail \in Seq(Seq(Data))
    <3>1. \A i \in ((p + 1) + 1)..L : list[i] \in Seq(Data)
      BY <1>2, <2>1
    <3>2. QED
      BY <1>1, <2>1, <3>1, SubSeqProperties
  <2>4. list[p + 1] \in Seq(Data) /\ one \in Seq(Seq(Data))
    BY <1>2, <2>1
  <2>5. FlattenSeq(one) = list[p + 1]
    BY <2>4, FlattenOne
  <2> HIDE DEF tail, one
  <2>6. FlattenSeq(one \o tail) = FlattenSeq(one) \o FlattenSeq(tail)
    BY <2>3, <2>4, FlattenConcat
  <2>7. PiecesFrom(data, n, cuts, p + 1) = FlattenSeq(tail)
    BY <1>5, <2>1 DEF tail
  <2>8. FlattenSeq(tail) \in Seq(Data)
    BY <2>3, FlattenType
  <2>9. QED
    BY <1>4, <1>5, <2>1, <2>2, <2>5, <2>6, <2>7, <2>8
<1>8. QED
  BY <1>0, <1>6, <1>7 DEF L

\* A tiled payload is rewritten into the pieces of any tiling of it.
LEMMA TiledIsRewritten ==
  ASSUME NEW data \in Data, NEW n \in {1, 2, 4}, NEW r, IsRewriting(r, data, n, 0),
         NEW cuts \in Tilings(data, n)
  PROVE  r[0] = [ok |-> TRUE, out |-> Framed(Pieces(data, n, cuts))]
<1> DEFINE L == Len(data)
           PF(p) == PiecesFrom(data, n, cuts, p)
           N(p) == IF p \in cuts THEN p ELSE Next1(cuts, p)
           T == {p \in 0..L : r[N(p)] = [ok |-> TRUE, out |-> Framed(PF(p))]}
<1>1. L \in Nat
  BY DataProperties
<1>2. cuts \in SUBSET (0..L) /\ Tiles(data, n, cuts)
  BY DEF Tilings
<1>3. 0 \in cuts /\ L \in cuts
  BY <1>2 DEF Tiles
<1>4. /\ PF(L) = <<>> /\ Pieces(data, n, cuts) = PF(0)
      /\ \A p \in 0..(L - 1) : /\ PF(p + 1) \in Seq(Data)
                               /\ PF(p) = PieceAt(data, n, cuts, p + 1) \o PF(p + 1)
  BY <1>2, PiecesFromStep
<1>5. \A p \in 0..L : r[p] = Turn(data, n, p, r[Jump(data, n, p)])
  BY DEF IsRewriting
<1> HIDE DEF PF
<1>6. ASSUME NEW p \in 0..L, p # L
      PROVE  /\ Next1(cuts, p) \in cuts /\ Next1(cuts, p) > p
             /\ \A x \in cuts : x > p => Next1(cuts, p) <= x
  BY <1>1, <1>2, <1>3, <1>6, NextCut
<1>7. ASSUME NEW p \in 0..L, p # L PROVE N(p + 1) = Next1(cuts, p)
  <2>1. p + 1 \in 0..L /\ p \in Nat
    BY <1>1, <1>7
  <2>2. CASE p + 1 \in cuts
    <3>1. Next1(cuts, p) = p + 1
      <4>1. \A x \in cuts : x > p => p + 1 <= x
        BY <1>2, <2>1
      <4>2. p + 1 > p
        BY <2>1
      <4>3. QED
        BY <1>1, <1>2, <1>3, <1>7, <2>2, <4>1, <4>2, NextCutUnique
    <3>2. QED
      BY <2>2, <3>1
  <2>3. CASE p + 1 \notin cuts
    <3>1. p + 1 # L
      BY <1>3, <2>3
    <3> DEFINE q == Next1(cuts, p + 1)
    <3>2. q \in cuts /\ q > p + 1 /\ \A x \in cuts : x > p + 1 => q <= x
      BY <1>6, <2>1, <3>1
    <3>3. q > p /\ \A x \in cuts : x > p => q <= x
      <4>1. \A x \in cuts : x > p => x > p + 1
        <5> SUFFICES ASSUME NEW x \in cuts, x > p PROVE x > p + 1
          OBVIOUS
        <5>1. x # p + 1 /\ x \in Nat
          BY <1>2, <2>3
        <5>2. QED
          BY <2>1, <5>1
      <4>2. q \in Nat
        <5>1. q \in cuts /\ cuts \subseteq 0..L
          BY <1>2, <3>2
        <5> HIDE DEF q, L
        <5>2. QED
          BY <5>1
      <4>3. QED
        BY <2>1, <3>2, <4>1, <4>2
    <3> HIDE DEF q
    <3>4. Next1(cuts, p) = q
      BY <1>1, <1>2, <1>3, <1>7, <3>2, <3>3, NextCutUnique
    <3>5. QED
      BY <2>3, <3>4 DEF q
  <2>4. QED
    BY <2>2, <2>3
<1>8. ASSUME NEW p \in 0..L, \A j \in (p + 1)..L : j \in T PROVE p \in T
  <2>1. CASE p = L
    <3>1. N(p) = L /\ Framed(PF(p)) = <<>>
      BY <1>3, <1>4, <2>1, FramedOfNone
    <3>2. r[L] = [ok |-> TRUE, out |-> <<>>]
      <4>1. L \in 0..L
        BY <1>1
      <4>2. r[L] = Turn(data, n, L, r[Jump(data, n, L)])
        BY <1>5, <4>1
      <4>3. QED
        BY <4>2 DEF Turn
    <3>3. QED
      BY <2>1, <3>1, <3>2
  <2>2. CASE p # L
    <3> DEFINE q == Next1(cuts, p)
    <3>1. p + 1 \in (p + 1)..L /\ p \in 0..(L - 1)
      BY <1>1, <2>2
    <3>2. r[q] = [ok |-> TRUE, out |-> Framed(PF(p + 1))]
      BY <1>7, <1>8, <2>2, <3>1
    <3>3. q \in cuts /\ q > p
      BY <1>6, <2>2
    <3>4. PF(p + 1) \in Seq(Data) /\ PF(p) = PieceAt(data, n, cuts, p + 1) \o PF(p + 1)
      BY <1>4, <3>1
    <3>5. (p + 1) - 1 = p
      OBVIOUS
    <3>6. CASE p \notin cuts
      <4>1. PieceAt(data, n, cuts, p + 1) = <<>>
        BY <3>5, <3>6 DEF PieceAt
      <4>2. PF(p) = PF(p + 1)
        BY <3>4, <4>1, ConcatEmptySeq
      <4>3. QED
        BY <3>2, <3>6, <4>2
    <3>7. CASE p \in cuts
      <4> DEFINE u == Slice(data, p + n, q - p - n)
                 len == be(Slice(data, p, n))
      <4>1. q >= p + n /\ len = q - p - n
        BY <1>2, <2>2, <3>7 DEF Tiles
      <4>2. q \in 0..L /\ len \in Nat
        <5>1. q \in cuts /\ cuts \subseteq 0..L
          BY <1>2, <3>3
        <5> HIDE DEF q, L, len
        <5>2. q \in 0..L
          BY <5>1
        <5>3. QED
          BY <1>1, <4>1, <5>2
      <4>3. Jump(data, n, p) = q
        BY <4>1, <4>2 DEF Jump
      <4> HIDE DEF q
      <4>4. Has(data, p, n) /\ Has(data, p + n, len)
        BY <1>1, <4>1, <4>2 DEF Has
      <4>5. p + n \in Nat /\ u \in Data
        BY <4>1, <4>2, <4>4, SliceData
      <4>6. u = Slice(data, p + n, len)
        BY <4>1
      <4>7. PieceAt(data, n, cuts, p + 1) = <<u>>
        BY <3>5, <3>7 DEF PieceAt, q
      <4> HIDE DEF u
      <4>8. Framed(PF(p)) = (StartCode \o u) \o Framed(PF(p + 1))
        <5> DEFINE rest == PF(p + 1)
        <5>1. PF(p) = <<u>> \o rest /\ rest \in Seq(Data)
          BY <3>4, <4>7
        <5> HIDE DEF rest
        <5>2. Framed(<<u>> \o rest) = (StartCode \o u) \o Framed(rest)
          BY <4>5, <5>1, FramedFirst
        <5>3. QED
          BY <5>1, <5>2 DEF rest
      <4>9. r[p] = Turn(data, n, p, r[q])
        BY <1>5, <4>3
      <4>10. r[p] = [ok |-> TRUE, out |-> (StartCode \o u) \o Framed(PF(p + 1))]
        BY <2>2, <3>2, <4>4, <4>6, <4>9 DEF Turn
      <4>11. QED
        BY <3>7, <4>8, <4>10
    <3>8. QED
      BY <3>6, <3>7
  <2>3. QED
    BY <2>1, <2>2
<1> HIDE DEF T
<1>9. 0 \in T
  <2>1. \A p \in 0..L : (\A j \in (p + 1)..L : j \in T) => p \in T
    BY <1>8
  <2>2. \A p \in 0..L : p \in T
    BY <1>1, <2>1, InductDown
  <2>3. QED
    BY <1>1, <2>2
<1>10. N(0) = 0
  BY <1>3
<1>11. QED
  BY <1>4, <1>9, <1>10 DEF T

\* The pieces of a tiling are byte strings.
LEMMA PiecesType ==
  ASSUME NEW data \in Data, NEW n \in {1, 2, 4}, NEW cuts \in Tilings(data, n)
  PROVE  Pieces(data, n, cuts) \in Seq(Data)
<1>1. Len(data) \in Nat /\ cuts \in SUBSET (0..Len(data)) /\ Tiles(data, n, cuts)
  BY DataProperties DEF Tilings
<1>2. CASE Len(data) = 0
  <2>1. Pieces(data, n, cuts) = <<>>
    BY <1>1, <1>2, PiecesFromStep
  <2>2. <<>> \in Seq(Data)
    OBVIOUS
  <2>3. QED
    BY <2>1, <2>2
<1>3. CASE Len(data) # 0
  <2>1. 0 \in 0..(Len(data) - 1) /\ 0 + 1 = 1 /\ 1 \in 1..Len(data)
    BY <1>1, <1>3
  <2>2. /\ Pieces(data, n, cuts) = PiecesFrom(data, n, cuts, 0)
        /\ PiecesFrom(data, n, cuts, 0 + 1) \in Seq(Data)
        /\ PiecesFrom(data, n, cuts, 0)
              = PieceAt(data, n, cuts, 0 + 1) \o PiecesFrom(data, n, cuts, 0 + 1)
    BY <1>1, <2>1, PiecesFromStep
  <2>3. PieceAt(data, n, cuts, 0 + 1) \in Seq(Data)
    BY <1>1, <2>1, PiecesFromType
  <2>4. QED
    BY <2>2, <2>3, ConcatType
<1>4. QED
  BY <1>2, <1>3

\* For every payload and length size: if cuts tile the payload, reframe makes the
\* framed pieces of it, whichever tiling is meant, and otherwise leaves it as is.
THEOREM BodyTiles ==
  ASSUME NEW data \in Data, NEW n \in {1, 2, 4}
  PROVE  /\ Tilings(data, n) = {} => Body(n, data) = data
         /\ \A cuts \in Tilings(data, n) : Body(n, data) = Framed(Pieces(data, n, cuts))
<1>1. PICK r : IsRewriting(r, data, n, 0) /\ length_prefixed_to_annex_b(data, n) = r[0]
  BY RewritingDef
<1>2. Body(n, data) = IF r[0].ok THEN r[0].out ELSE data
  BY <1>1 DEF Body
<1>3. CASE Tilings(data, n) = {}
  <2>1. ~r[0].ok
    BY <1>1, <1>3, RewritableIsTiled
  <2>2. QED
    BY <1>2, <1>3, <2>1
<1>4. ASSUME NEW cuts \in Tilings(data, n)
      PROVE  Body(n, data) = Framed(Pieces(data, n, cuts))
  <2>1. r[0] = [ok |-> TRUE, out |-> Framed(Pieces(data, n, cuts))]
    BY <1>1, TiledIsRewritten
  <2>2. QED
    BY <1>2, <2>1
<1>5. QED
  BY <1>3, <1>4

-----------------------------------------------------------------------------
(* The reader of Annex-B closes a unit: zeros at its end are dropped.      *)

\* A unit has a last byte that is not a zero, or only zeros.
LEMMA LastExists ==
  ASSUME NEW u \in Data
  PROVE  \E n \in 0..Len(u) : IsLast(u, n)
<1> DEFINE L == Len(u)
           T == {n \in 0..L : \A j \in (n + 1)..L : u[j] = 0}
<1>1. L \in Nat
  BY DataProperties
<1> HIDE DEF L
<1>2. L \in T /\ T \subseteq Nat
  BY <1>1
<1>3. PICK n \in T : \A k \in T : n <= k
  <2> HIDE DEF T
  <2>1. QED
    BY <1>2, Least
<1>4. n > 0 => u[n] # 0
  <2> SUFFICES ASSUME n > 0, u[n] = 0 PROVE FALSE
    OBVIOUS
  <2>1. n - 1 \in 0..L /\ \A j \in ((n - 1) + 1)..L : j = n \/ j \in (n + 1)..L
    BY <1>1
  <2>2. n - 1 \in T
    BY <2>1
  <2>3. QED
    BY <1>3, <2>2
<1>5. QED
  BY <1>4 DEF IsLast, L

\* WithoutZeros is the string up to there, whichever was chosen.
LEMMA WithoutZerosIs ==
  ASSUME NEW u \in Data, NEW n \in 0..Len(u), IsLast(u, n)
  PROVE  WithoutZeros(u) = SubSeq(u, 1, n)
<1> DEFINE m == CHOOSE m \in 0..Len(u) : IsLast(u, m)
<1>1. m \in 0..Len(u) /\ IsLast(u, m)
  OBVIOUS
<1>2. Len(u) \in Nat
  BY DataProperties
<1>3. WithoutZeros(u) = SubSeq(u, 1, m)
  BY DEF WithoutZeros
<1> HIDE DEF m
<1>4. ~(m < n)
  <2> SUFFICES ASSUME m < n PROVE FALSE
    OBVIOUS
  <2>1. n \in (m + 1)..Len(u) /\ n > 0
    BY <1>1, <1>2
  <2>2. QED
    BY <1>1, <2>1 DEF IsLast
<1>5. ~(n < m)
  <2> SUFFICES ASSUME n < m PROVE FALSE
    OBVIOUS
  <2>1. m \in (n + 1)..Len(u) /\ m > 0
    BY <1>1, <1>2
  <2>2. QED
    BY <1>1, <2>1 DEF IsLast
<1>6. m = n
  BY <1>1, <1>2, <1>4, <1>5
<1>7. QED
  BY <1>3, <1>6

\* The beginning of a byte string.
LEMMA PrefixData ==
  ASSUME NEW u \in Data, NEW n \in 0..Len(u)
  PROVE  /\ SubSeq(u, 1, n) \in Data /\ Len(SubSeq(u, 1, n)) = n
         /\ \A i \in 1..n : SubSeq(u, 1, n)[i] = u[i]
<1>1. n \in Nat /\ Has(u, 0, n)
  BY DataProperties DEF Has
<1>2. SubSeq(u, 1, n) = Slice(u, 0, n)
  BY <1>1 DEF Slice
<1> DEFINE w == Slice(u, 0, n)
<1>3. w \in Data /\ Len(w) = n /\ \A i \in 1..n : w[i] = u[0 + i]
  BY <1>1, SliceData
<1> HIDE DEF w
<1>4. \A i \in 1..n : w[i] = u[i]
  BY <1>1, <1>3
<1>5. QED
  BY <1>2, <1>3, <1>4 DEF w

\* The type of WithoutZeros.
LEMMA WithoutZerosType ==
  ASSUME NEW u \in Data
  PROVE  WithoutZeros(u) \in Data
<1>1. PICK n \in 0..Len(u) : IsLast(u, n)
  BY LastExists
<1>2. QED
  BY <1>1, WithoutZerosIs, PrefixData

\* A unit that does not end in a zero stays.
LEMMA WithoutZerosOfNal ==
  ASSUME NEW u \in Data, u # <<>> => u[Len(u)] # 0
  PROVE  WithoutZeros(u) = u
<1>1. Len(u) \in Nat /\ (Len(u) > 0 => u # <<>>)
  BY DataProperties
<1>2. IsLast(u, Len(u)) /\ Len(u) \in 0..Len(u)
  BY <1>1 DEF IsLast
<1>3. WithoutZeros(u) = SubSeq(u, 1, Len(u))
  BY <1>2, WithoutZerosIs
<1>4. QED
  BY <1>3, SubSeqFull DEF Data

\* One more zero at the end changes nothing.
LEMMA WithoutZerosOfMore ==
  ASSUME NEW u \in Data
  PROVE  WithoutZeros(u \o <<0>>) = WithoutZeros(u)
<1> DEFINE L == Len(u)
           z == <<0>>
           w == u \o z
<1>1. PICK n \in 0..L : IsLast(u, n)
  BY LastExists
<1>2. z \in Data /\ Len(z) = 1 /\ z[1] = 0
  BY DEF Data, Byte
<1>3. L \in Nat
  BY DataProperties
<1> HIDE DEF z
<1>4. w \in Data /\ Len(w) = L + 1
  BY <1>2, ConcatData
<1>5. \A i \in 1..L : w[i] = u[i]
  BY <1>2, ConcatProperties DEF Data
<1>6. w[L + 1] = 0
  <2>1. \A i \in 1..(Len(u) + Len(z)) : w[i] = IF i <= Len(u) THEN u[i] ELSE z[i - Len(u)]
    BY <1>2, ConcatProperties DEF Data
  <2> HIDE DEF w
  <2>2. L + 1 \in 1..(Len(u) + Len(z)) /\ ~(L + 1 <= Len(u)) /\ (L + 1) - Len(u) = 1
    BY <1>2, <1>3
  <2>3. QED
    BY <1>2, <2>1, <2>2
<1> HIDE DEF w, L
<1>7. n \in 0..Len(w) /\ IsLast(w, n)
  <2>1. n \in 0..Len(w)
    BY <1>3, <1>4
  <2>2. n > 0 => w[n] # 0
    BY <1>1, <1>3, <1>5 DEF IsLast
  <2>3. ASSUME NEW j \in (n + 1)..Len(w) PROVE w[j] = 0
    <3>1. j = L + 1 \/ (j \in (n + 1)..L /\ j \in 1..L)
      BY <1>3, <1>4
    <3>2. QED
      BY <1>1, <1>5, <1>6, <3>1 DEF IsLast, L
  <2>4. QED
    BY <2>1, <2>2, <2>3 DEF IsLast
<1>8. WithoutZeros(w) = SubSeq(w, 1, n) /\ WithoutZeros(u) = SubSeq(u, 1, n)
  BY <1>1, <1>4, <1>7, WithoutZerosIs DEF L
<1>9. SubSeq(w, 1, n) = SubSeq(u, 1, n)
  <2>1. /\ SubSeq(w, 1, n) \in Data /\ Len(SubSeq(w, 1, n)) = n
        /\ \A i \in 1..n : SubSeq(w, 1, n)[i] = w[i]
    BY <1>4, <1>7, PrefixData
  <2>2. /\ SubSeq(u, 1, n) \in Data /\ Len(SubSeq(u, 1, n)) = n
        /\ \A i \in 1..n : SubSeq(u, 1, n)[i] = u[i]
    BY PrefixData DEF L
  <2> DEFINE a == SubSeq(w, 1, n)
             b == SubSeq(u, 1, n)
  <2> HIDE DEF a, b
  <2>3. ASSUME NEW i \in 1..n PROVE a[i] = b[i]
    <3>1. i \in 1..L
      BY <1>3
    <3>2. QED
      BY <1>5, <2>1, <2>2, <3>1 DEF a, b
  <2>4. a = b
    BY <2>1, <2>2, <2>3, SeqEqual DEF a, b, Data
  <2>5. QED
    BY <2>4 DEF a, b
<1>10. QED
  BY <1>8, <1>9 DEF w, z

-----------------------------------------------------------------------------
(* The reader as a scan: a turn for every byte.                            *)

Mark == [found : Seq(Data), at : Nat]
Unread == [found |-> <<>>, at |-> 0]
Read(b, k, s) ==
  IF CodeEnds(b, k) THEN [found |-> Closed(b, s.found, s.at, k - 3), at |-> k] ELSE s
IsScan(g, b) ==
  /\ g \in [0..Len(b) -> Mark] /\ g[0] = Unread
  /\ \A k \in 1..Len(b) : g[k] = Read(b, k, g[k - 1])

\* The bytes between a mark and an end.
LEMMA PieceData ==
  ASSUME NEW b \in Data, NEW at \in Nat, NEW end \in Int, end <= Len(b)
  PROVE  /\ SubSeq(b, at + 1, end) \in Data
         /\ Len(SubSeq(b, at + 1, end)) = IF at + 1 <= end THEN end - at ELSE 0
         /\ \A i \in 1..(end - at) : SubSeq(b, at + 1, end)[i] = b[at + i]
<1>1. \A i \in (at + 1)..end : b[i] \in Byte
  BY DataProperties
<1> DEFINE w == SubSeq(b, at + 1, end)
<1>2. at + 1 \in Int
  OBVIOUS
<1>3. /\ w \in Data /\ Len(w) = IF at + 1 <= end THEN end - (at + 1) + 1 ELSE 0
      /\ \A i \in 1..(end - (at + 1) + 1) : w[i] = b[(at + 1) + i - 1]
  BY <1>1, <1>2, SubSeqProperties DEF Data
<1> HIDE DEF w
<1>4. Len(w) = IF at + 1 <= end THEN end - at ELSE 0
  BY <1>3
<1>5. ASSUME NEW i \in 1..(end - at) PROVE w[i] = b[at + i]
  <2>1. i \in 1..(end - (at + 1) + 1) /\ (at + 1) + i - 1 = at + i
    OBVIOUS
  <2>2. QED
    BY <1>3, <2>1
<1>6. QED
  BY <1>3, <1>4, <1>5 DEF w

\* The type of Closed.
LEMMA ClosedType ==
  ASSUME NEW b \in Data, NEW found \in Seq(Data), NEW at \in Nat,
         NEW end \in Int, end <= Len(b)
  PROVE  Closed(b, found, at, end) \in Seq(Data)
<1> DEFINE u == WithoutZeros(SubSeq(b, at + 1, end))
           one == <<u>>
<1>1. u \in Data
  BY PieceData, WithoutZerosType
<1>2. one \in Seq(Data)
  BY <1>1
<1>3. Closed(b, found, at, end) = IF at = 0 THEN found ELSE found \o NonEmpty(one)
  BY DEF Closed
<1> HIDE DEF one
<1>4. NonEmpty(one) \in Seq(Data)
  BY <1>2, NonEmptyFacts, DataEmpty
<1>5. found \o NonEmpty(one) \in Seq(Data)
  BY <1>4, ConcatType
<1>6. QED
  BY <1>3, <1>5

\* The type of one turn of the reader.
LEMMA ReadType ==
  ASSUME NEW b \in Data, NEW k \in 1..Len(b), NEW s \in Mark
  PROVE  Read(b, k, s) \in Mark
<1>1. s.found \in Seq(Data) /\ s.at \in Nat
  BY DEF Mark
<1>2. k \in Nat /\ k - 3 \in Int /\ k - 3 <= Len(b)
  BY DataProperties
<1>3. Closed(b, s.found, s.at, k - 3) \in Seq(Data)
  BY <1>1, <1>2, ClosedType
<1>4. QED
  BY <1>2, <1>3 DEF Read, Mark

\* The reader is a scan from the first byte to the last.
LEMMA ScanDef ==
  ASSUME NEW b \in Data
  PROVE  \E g : /\ IsScan(g, b)
                /\ NalUnits(b) = Closed(b, g[Len(b)].found, g[Len(b)].at, Len(b))
<1> DEFINE n == Len(b)
           Q(v) == v = [k \in 0..n |->
             IF k = 0 THEN [found |-> <<>>, at |-> 0]
             ELSE IF CodeEnds(b, k)
               THEN [found |-> Closed(b, v[k - 1].found, v[k - 1].at, k - 3), at |-> k]
               ELSE v[k - 1]]
           step == [k \in 1..n |-> [s \in Mark |-> Read(b, k, s)]]
           h == CHOOSE v : Q(v)
<1>1. n \in Nat
  BY DataProperties
<1>2. NalUnits(b) = Closed(b, h[n].found, h[n].at, n)
  BY DEF NalUnits
<1>3. step \in [1..n -> [Mark -> Mark]]
  BY ReadType
<1>4. \A v : IsScan(v, b) <=> /\ v \in [0..n -> Mark] /\ v[0] = Unread
                              /\ \A k \in 1..n : v[k] = Read(b, k, v[k - 1])
  BY DEF IsScan
<1> HIDE DEF n
<1>5. PICK g : IsIteration(g, Mark, n, Unread, step)
  <2>1. Unread \in Mark
    <3>1. <<>> \in Seq(Data)
      OBVIOUS
    <3>2. QED
      BY <3>1 DEF Unread, Mark
  <2> HIDE DEF step
  <2>2. QED
    BY <1>1, <1>3, <2>1, Iterates
<1>6. g \in [0..n -> Mark] /\ g[0] = Unread
  BY <1>5 DEF IsIteration
<1>7. ASSUME NEW k \in 1..n PROVE g[k] = Read(b, k, g[k - 1])
  <2>1. k - 1 \in 0..n /\ g[k - 1] \in Mark
    BY <1>1, <1>6
  <2>2. QED
    BY <1>5, <2>1 DEF IsIteration
<1>8. Q(g)
  <2>1. 0 \in 0..n /\ \A k \in 0..n : k # 0 => k \in 1..n
    BY <1>1
  <2>2. \A k \in 0..n :
          g[k] = IF k = 0 THEN [found |-> <<>>, at |-> 0]
                 ELSE IF CodeEnds(b, k)
                   THEN [found |-> Closed(b, g[k - 1].found, g[k - 1].at, k - 3), at |-> k]
                   ELSE g[k - 1]
    BY <1>6, <1>7, <2>1 DEF Read, Unread
  <2>3. QED
    BY <1>6, <2>2
<1>9. Q(h)
  <2> HIDE DEF Q
  <2>1. QED
    BY <1>8
<1> HIDE DEF h
<1>10. h[0] = Unread /\ \A k \in 1..n : h[k] = Read(b, k, h[k - 1])
  BY <1>1, <1>9 DEF Read, Unread
<1>11. h \in [0..n -> Mark]
  <2> DEFINE T == {k \in Nat : h[k] \in Mark}
  <2>1. 0 \in T
    BY <1>6, <1>10, <1>1
  <2>2. ASSUME NEW k \in 1..n, k - 1 \in T PROVE k \in T
    BY <1>10, <2>2, ReadType DEF n
  <2> HIDE DEF T
  <2>3. \A k \in 0..n : k \in T
    BY <1>1, <2>1, <2>2, InductUpTo
  <2>4. \A k \in 0..n : h[k] \in Mark
    BY <2>3 DEF T
  <2>5. QED
    BY <1>9, <2>4
<1>12. IsScan(h, b)
  BY <1>4, <1>10, <1>11
<1>13. QED
  BY <1>2, <1>12 DEF n

\* The mark of a scan is not ahead of it.
LEMMA MarkBehind ==
  ASSUME NEW b \in Data, NEW g, IsScan(g, b)
  PROVE  \A k \in 0..Len(b) : g[k].at <= k
<1> DEFINE n == Len(b)
           T == {k \in 0..n : g[k].at <= k}
<1>1. n \in Nat
  BY DataProperties
<1>2. /\ g \in [0..n -> Mark] /\ g[0] = Unread
      /\ \A k \in 1..n : g[k] = Read(b, k, g[k - 1])
  BY DEF IsScan
<1> HIDE DEF n
<1>3. 0 \in T
  BY <1>1, <1>2 DEF Unread
<1>4. ASSUME NEW k \in 1..n, k - 1 \in T PROVE k \in T
  <2>1. k \in 0..n /\ k - 1 \in 0..n /\ k \in Nat
    BY <1>1
  <2>2. g[k - 1].at \in Nat /\ g[k - 1].at <= k - 1
    BY <1>2, <1>4, <2>1 DEF Mark
  <2>3. g[k].at = IF CodeEnds(b, k) THEN k ELSE g[k - 1].at
    <3>1. g[k] = Read(b, k, g[k - 1])
      BY <1>2
    <3>2. QED
      BY <3>1 DEF Read
  <2>4. QED
    BY <2>1, <2>2, <2>3
<1> HIDE DEF T
<1>5. \A k \in 0..n : k \in T
  BY <1>1, <1>3, <1>4, InductUpTo
<1>6. QED
  BY <1>5 DEF T, n

\* The bytes of a concatenation.
LEMMA ConcatIndex ==
  ASSUME NEW x \in Data, NEW z \in Data
  PROVE  /\ \A i \in 1..Len(x) : (x \o z)[i] = x[i]
         /\ \A i \in 1..Len(z) : (x \o z)[Len(x) + i] = z[i]
<1> DEFINE w == x \o z
<1>1. \A i \in 1..(Len(x) + Len(z)) : w[i] = IF i <= Len(x) THEN x[i] ELSE z[i - Len(x)]
  BY ConcatProperties DEF Data
<1>2. Len(x) \in Nat /\ Len(z) \in Nat
  BY DataProperties
<1> HIDE DEF w
<1>3. \A i \in 1..Len(x) : w[i] = x[i]
  BY <1>1, <1>2
<1>4. ASSUME NEW i \in 1..Len(z) PROVE w[Len(x) + i] = z[i]
  <2>1. /\ Len(x) + i \in 1..(Len(x) + Len(z)) /\ ~(Len(x) + i <= Len(x))
        /\ (Len(x) + i) - Len(x) = i
    BY <1>2
  <2>2. QED
    BY <1>1, <2>1
<1>5. QED
  BY <1>3, <1>4 DEF w

\* A turn within x is the same if more follows x.
LEMMA ReadAgrees ==
  ASSUME NEW x \in Data, NEW z \in Data, NEW k \in 1..Len(x), NEW s \in Mark
  PROVE  Read(x \o z, k, s) = Read(x, k, s)
<1> DEFINE b == x \o z
<1>1. Len(x) \in Nat /\ Len(z) \in Nat /\ k \in Nat
  BY DataProperties
<1>2. b \in Data /\ Len(b) = Len(x) + Len(z)
  BY ConcatData
<1>3. \A i \in 1..Len(x) : b[i] = x[i]
  BY ConcatIndex
<1> HIDE DEF b
<1>4. CodeEnds(b, k) <=> CodeEnds(x, k)
  BY <1>1, <1>3 DEF CodeEnds
<1>5. Closed(b, s.found, s.at, k - 3) = Closed(x, s.found, s.at, k - 3)
  <2> DEFINE v == SubSeq(b, s.at + 1, k - 3)
             w == SubSeq(x, s.at + 1, k - 3)
  <2>1. s.at \in Nat /\ k - 3 \in Int /\ k - 3 <= Len(b) /\ k - 3 <= Len(x)
    BY <1>1, <1>2 DEF Mark
  <2>2. /\ v \in Data /\ Len(v) = IF s.at + 1 <= k - 3 THEN (k - 3) - s.at ELSE 0
        /\ \A i \in 1..((k - 3) - s.at) : v[i] = b[s.at + i]
    BY <1>2, <2>1, PieceData, ZenonT(30)
  <2>3. /\ w \in Data /\ Len(w) = IF s.at + 1 <= k - 3 THEN (k - 3) - s.at ELSE 0
        /\ \A i \in 1..((k - 3) - s.at) : w[i] = x[s.at + i]
    BY <2>1, PieceData, SMTT(30)
  <2>4. Closed(b, s.found, s.at, k - 3)
          = IF s.at = 0 THEN s.found ELSE s.found \o NonEmpty(<<WithoutZeros(v)>>)
    BY DEF Closed
  <2>5. Closed(x, s.found, s.at, k - 3)
          = IF s.at = 0 THEN s.found ELSE s.found \o NonEmpty(<<WithoutZeros(w)>>)
    BY DEF Closed
  <2> HIDE DEF v, w
  <2>6. ASSUME NEW i \in 1..Len(v) PROVE v[i] = w[i]
    <3>1. i \in 1..((k - 3) - s.at)
      BY <2>1, <2>2
    <3>2. s.at + i \in 1..Len(x)
      BY <1>1, <2>1, <3>1
    <3>3. QED
      BY <1>3, <2>2, <2>3, <3>1, <3>2
  <2>7. Len(v) = Len(w)
    BY <2>2, <2>3
  <2>8. v = w
    BY <2>2, <2>3, <2>6, <2>7, SeqEqual DEF Data
  <2>9. QED
    BY <2>4, <2>5, <2>8
<1>6. QED
  BY <1>4, <1>5 DEF Read, b

\* A scan of x is the beginning of a scan of more.
LEMMA ScanAgrees ==
  ASSUME NEW x \in Data, NEW z \in Data, NEW g, IsScan(g, x), NEW h, IsScan(h, x \o z)
  PROVE  h[Len(x)] = g[Len(x)]
<1> DEFINE n == Len(x)
           b == x \o z
           T == {k \in 0..n : h[k] = g[k]}
<1>1. n \in Nat /\ Len(z) \in Nat
  BY DataProperties
<1>2. Len(b) = n + Len(z)
  BY ConcatData
<1>3. g \in [0..n -> Mark] /\ g[0] = Unread /\ \A k \in 1..n : g[k] = Read(x, k, g[k - 1])
  BY DEF IsScan
<1>4. h[0] = Unread /\ \A k \in 1..Len(b) : h[k] = Read(b, k, h[k - 1])
  BY DEF IsScan
<1>5. \A k \in 1..n : \A s \in Mark : Read(b, k, s) = Read(x, k, s)
  BY ReadAgrees
<1> HIDE DEF n, b
<1>6. 0 \in T
  BY <1>1, <1>3, <1>4
<1>7. ASSUME NEW k \in 1..n, k - 1 \in T PROVE k \in T
  <2>1. k \in 0..n /\ k - 1 \in 0..n /\ k \in 1..Len(b)
    BY <1>1, <1>2
  <2>2. h[k - 1] = g[k - 1] /\ g[k - 1] \in Mark
    BY <1>3, <1>7, <2>1
  <2>3. h[k] = Read(b, k, g[k - 1])
    BY <1>4, <2>1, <2>2
  <2>4. QED
    BY <1>3, <1>5, <2>1, <2>2, <2>3
<1> HIDE DEF T
<1>8. \A k \in 0..n : k \in T
  BY <1>1, <1>6, <1>7, InductUpTo
<1>9. n \in T
  BY <1>1, <1>8
<1>10. QED
  BY <1>9 DEF T, n, b

\* The zero that opens a start code does not belong to the unit before it.
LEMMA ClosedOfMore ==
  ASSUME NEW x \in Data, NEW z \in Data, z # <<>>, z[1] = 0,
         NEW found \in Seq(Data), NEW at \in 0..Len(x)
  PROVE  Closed(x \o z, found, at, Len(x) + 1) = Closed(x, found, at, Len(x))
<1> DEFINE n == Len(x)
           b == x \o z
           v == SubSeq(b, at + 1, n + 1)
           w == SubSeq(x, at + 1, n)
           zero == <<0>>
           w0 == w \o zero
<1>1. n \in Nat /\ Len(z) \in Nat /\ Len(z) >= 1 /\ at \in Nat /\ at <= n
  BY DataProperties
<1>2. b \in Data /\ Len(b) = n + Len(z)
  BY ConcatData
<1>3. (\A i \in 1..n : b[i] = x[i]) /\ (\A i \in 1..Len(z) : b[n + i] = z[i])
  BY ConcatIndex
<1>4. Closed(b, found, at, n + 1)
        = IF at = 0 THEN found ELSE found \o NonEmpty(<<WithoutZeros(v)>>)
  BY DEF Closed
<1>5. Closed(x, found, at, n)
        = IF at = 0 THEN found ELSE found \o NonEmpty(<<WithoutZeros(w)>>)
  BY DEF Closed
<1> HIDE DEF b
<1>6. n + 1 \in Int /\ n + 1 <= Len(b) /\ n \in Int /\ n <= Len(x)
  BY <1>1, <1>2
<1>7. /\ v \in Data /\ Len(v) = IF at + 1 <= n + 1 THEN (n + 1) - at ELSE 0
      /\ \A i \in 1..((n + 1) - at) : v[i] = b[at + i]
  BY <1>1, <1>2, <1>6, PieceData
<1>8. /\ w \in Data /\ Len(w) = IF at + 1 <= n THEN n - at ELSE 0
      /\ \A i \in 1..(n - at) : w[i] = x[at + i]
  BY <1>1, <1>6, PieceData
<1> HIDE DEF v, w, n
<1>9. zero \in Data /\ Len(zero) = 1 /\ zero[1] = 0
  BY DEF Data, Byte
<1> HIDE DEF zero
<1>10. Len(w) = n - at /\ Len(v) = (n - at) + 1 /\ n - at \in Nat
  BY <1>1, <1>7, <1>8
<1>11. w0 \in Data /\ Len(w0) = Len(w) + Len(zero)
  BY <1>8, <1>9, ConcatData
<1>12. (\A i \in 1..Len(w) : w0[i] = w[i]) /\ (\A i \in 1..Len(zero) : w0[Len(w) + i] = zero[i])
  BY <1>8, <1>9, ConcatIndex
<1> HIDE DEF w0
<1>13. ASSUME NEW i \in 1..Len(v) PROVE v[i] = w0[i]
  <2>1. v[i] = b[at + i]
    BY <1>1, <1>7, <1>10
  <2>2. CASE i = n - at + 1
    <3>1. at + i = n + 1 /\ i = Len(w) + 1
      BY <1>1, <1>10, <2>2
    <3>2. b[n + 1] = z[1] /\ w0[Len(w) + 1] = zero[1]
      BY <1>1, <1>3, <1>9, <1>12
    <3>3. QED
      BY <1>9, <2>1, <3>1, <3>2
  <2>3. CASE i # n - at + 1
    <3>1. i \in 1..(n - at) /\ i \in 1..Len(w) /\ at + i \in 1..n
      BY <1>1, <1>10, <2>3
    <3>2. QED
      BY <1>3, <1>8, <1>12, <2>1, <3>1
  <2>4. QED
    BY <2>2, <2>3
<1>14. Len(v) = Len(w0)
  BY <1>9, <1>10, <1>11
<1>15. v = w0
  BY <1>7, <1>11, <1>13, <1>14, SeqEqual DEF Data
<1>16. WithoutZeros(v) = WithoutZeros(w)
  BY <1>8, <1>15, WithoutZerosOfMore DEF w0, zero
<1>17. QED
  BY <1>4, <1>5, <1>16 DEF b, n

\* The NAL units.
Nal == {u \in Data : IsNal(u)}

\* No start code ends within a unit, nor does one reach into it from the one
\* ahead of it.
LEMMA UnitHasNoCode ==
  ASSUME NEW y \in Data, NEW u \in Nal, NEW j \in 1..Len(u),
         Len(y) >= 3, y[Len(y)] = 1, y[Len(y) - 1] = 0
  PROVE  ~CodeEnds(y \o u, Len(y) + j)
<1> DEFINE n == Len(y)
           b == y \o u
<1>1. n \in Nat /\ Len(u) \in Nat /\ u \in Data /\ j \in Nat /\ n >= 3
  BY DataProperties DEF Nal
<1>2. (\A i \in 1..n : b[i] = y[i]) /\ (\A i \in 1..Len(u) : b[n + i] = u[i])
  BY <1>1, ConcatIndex
<1>3. y[n] = 1 /\ y[n - 1] = 0
  OBVIOUS
<1>4. ~CodeEnds(u, j)
  BY DEF Nal, IsNal
<1> HIDE DEF b, n
<1>5. n \in 1..n
  BY <1>1
<1>6. CASE j = 1
  <2>1. b[(n + j) - 1] = 1
    <3>1. (n + j) - 1 = n
      BY <1>1, <1>6
    <3>2. QED
      BY <1>2, <1>3, <1>5, <3>1
  <2>2. QED
    BY <2>1 DEF CodeEnds, b, n
<1>7. CASE j = 2
  <2>1. b[(n + j) - 2] = 1
    <3>1. (n + j) - 2 = n
      BY <1>1, <1>7
    <3>2. QED
      BY <1>2, <1>3, <1>5, <3>1
  <2>2. QED
    BY <2>1 DEF CodeEnds, b, n
<1>8. CASE j >= 3
  <2>1. /\ (n + j) - 1 = n + (j - 1) /\ (n + j) - 2 = n + (j - 2)
        /\ j - 1 \in 1..Len(u) /\ j - 2 \in 1..Len(u)
    BY <1>1, <1>8
  <2>2. b[n + j] = u[j] /\ b[(n + j) - 1] = u[j - 1] /\ b[(n + j) - 2] = u[j - 2]
    BY <1>2, <2>1
  <2>3. QED
    BY <1>4, <1>8, <2>2 DEF CodeEnds, b, n
<1>9. QED
  BY <1>1, <1>6, <1>7, <1>8

\* Where no start code ends, the reader's state stays.
LEMMA ScanStays ==
  ASSUME NEW b \in Data, NEW h, IsScan(h, b), NEW m \in 0..Len(b),
         \A k \in (m + 1)..Len(b) : ~CodeEnds(b, k)
  PROVE  h[Len(b)] = h[m]
<1> DEFINE n == Len(b)
           T == {k \in 0..n : k >= m => h[k] = h[m]}
<1>1. n \in Nat /\ m \in 0..n /\ m \in Nat
  BY DataProperties
<1>2. \A k \in 1..n : h[k] = Read(b, k, h[k - 1])
  BY DEF IsScan
<1>3. \A k \in (m + 1)..n : ~CodeEnds(b, k)
  OBVIOUS
<1> HIDE DEF n
<1>4. 0 \in T
  BY <1>1
<1>5. ASSUME NEW k \in 1..n, k - 1 \in T PROVE k \in T
  <2>1. k \in 0..n /\ k - 1 \in Nat
    BY <1>1
  <2>2. CASE k <= m
    BY <1>1, <2>1, <2>2
  <2>3. CASE k > m
    <3>1. k \in (m + 1)..n /\ k - 1 >= m
      BY <1>1, <2>1, <2>3
    <3>2. h[k] = h[k - 1]
      BY <1>2, <1>3, <3>1 DEF Read
    <3>3. QED
      BY <1>5, <2>1, <3>1, <3>2
  <2>4. QED
    BY <1>1, <2>1, <2>2, <2>3
<1> HIDE DEF T
<1>6. \A k \in 0..n : k \in T
  BY <1>1, <1>4, <1>5, InductUpTo
<1>7. n \in T /\ n >= m
  BY <1>1, <1>6
<1>8. QED
  BY <1>7 DEF T, n

\* Behind any bytes, a framed unit is read as that unit.
LEMMA ReaderTakesUnit ==
  ASSUME NEW x \in Data, NEW u \in Nal
  PROVE  NalUnits(x \o (StartCode \o u)) = NalUnits(x) \o NonEmpty(<<u>>)
<1> DEFINE n == Len(x)
           z == StartCode \o u
           b == x \o z
           y == x \o StartCode
<1>1. u \in Data /\ Len(u) \in Nat /\ n \in Nat
  BY DataProperties DEF Nal
<1>2. StartCode \in Data /\ Len(StartCode) = 4
  BY StartCodeData
<1>3. z \in Data /\ Len(z) = 4 + Len(u) /\ y \in Data /\ Len(y) = n + 4
  <2>1. z \in Data /\ Len(z) = 4 + Len(u)
    BY <1>1, <1>2, ConcatData
  <2>2. y \in Data /\ Len(y) = n + 4
    BY <1>2, ConcatData
  <2>3. QED
    BY <2>1, <2>2
<1>4. b = y \o u
  BY <1>1, <1>2, DataAssociative
<1>5. StartCode[1] = 0 /\ StartCode[2] = 0 /\ StartCode[3] = 0 /\ StartCode[4] = 1
  BY DEF StartCode
<1>26. \A i \in 1..Len(StartCode) : z[i] = StartCode[i]
  BY <1>1, <1>2, ConcatIndex
<1>27. \A i \in 1..Len(StartCode) : y[n + i] = StartCode[i]
  BY <1>2, ConcatIndex
<1> HIDE DEF z, y
<1>6. \A i \in 1..4 : z[i] = StartCode[i]
  BY <1>2, <1>26
<1>7. \A i \in 1..4 : y[n + i] = StartCode[i]
  BY <1>2, <1>27
<1>8. b \in Data /\ Len(b) = n + (4 + Len(u))
  BY <1>3, ConcatData
<1>9. \A i \in 1..Len(z) : b[n + i] = z[i]
  BY <1>3, ConcatIndex
<1>10. \A i \in 1..Len(u) : b[(n + 4) + i] = u[i]
  BY <1>1, <1>3, <1>4, ConcatIndex
<1>11. b[n + 1] = 0 /\ b[n + 2] = 0 /\ b[n + 3] = 0 /\ b[n + 4] = 1
  <2>1. 1 \in 1..Len(z) /\ 2 \in 1..Len(z) /\ 3 \in 1..Len(z) /\ 4 \in 1..Len(z)
    BY <1>1, <1>3
  <2>2. QED
    BY <1>5, <1>6, <1>9, <2>1
<1>12. PICK g : IsScan(g, x) /\ NalUnits(x) = Closed(x, g[n].found, g[n].at, n)
  BY ScanDef
<1> DEFINE B == Len(b)
<1>13. PICK h : IsScan(h, b) /\ NalUnits(b) = Closed(b, h[B].found, h[B].at, B)
  BY <1>8, ScanDef
<1>14. h[n] = g[n]
  BY <1>3, <1>12, <1>13, ScanAgrees
<1>15. \A k \in 1..B : h[k] = Read(b, k, h[k - 1])
  BY <1>13 DEF IsScan
<1>16. g[n] \in Mark /\ g[n].at <= n
  <2>1. n \in 0..n
    BY <1>1
  <2>2. g \in [0..n -> Mark]
    BY <1>12 DEF IsScan
  <2>3. \A k \in 0..n : g[k].at <= k
    BY <1>12, MarkBehind
  <2>4. QED
    BY <2>1, <2>2, <2>3
<1>17. g[n].found \in Seq(Data) /\ g[n].at \in 0..n
  BY <1>1, <1>16 DEF Mark
<1>18. Closed(b, g[n].found, g[n].at, n + 1) = NalUnits(x)
  <2>1. z # <<>> /\ z[1] = 0
    BY <1>1, <1>3, <1>5, <1>6
  <2>2. QED
    BY <1>3, <1>12, <1>17, <2>1, ClosedOfMore
<1> HIDE DEF n, b, B
<1>19. h[n + 3] = g[n]
  <2>1. n + 1 \in 1..B /\ n + 2 \in 1..B /\ n + 3 \in 1..B
    BY <1>1, <1>8 DEF B
  <2>2. (n + 1) - 1 = n /\ (n + 2) - 1 = n + 1 /\ (n + 3) - 1 = n + 2
    BY <1>1
  <2>3. ~CodeEnds(b, n + 1) /\ ~CodeEnds(b, n + 2) /\ ~CodeEnds(b, n + 3)
    BY <1>11 DEF CodeEnds
  <2>4. h[n + 1] = h[n] /\ h[n + 2] = h[n + 1] /\ h[n + 3] = h[n + 2]
    BY <1>15, <2>1, <2>2, <2>3 DEF Read
  <2>5. QED
    BY <1>14, <2>4
<1>20. h[n + 4] = [found |-> NalUnits(x), at |-> n + 4]
  <2>1. n + 4 \in 1..B /\ (n + 4) - 1 = n + 3 /\ (n + 4) - 2 = n + 2 /\ (n + 4) - 3 = n + 1
        /\ n + 4 >= 3
    BY <1>1, <1>8 DEF B
  <2>2. CodeEnds(b, n + 4)
    BY <1>11, <2>1 DEF CodeEnds
  <2>3. h[n + 4] = Read(b, n + 4, g[n])
    BY <1>15, <1>19, <2>1
  <2>4. QED
    BY <1>18, <2>1, <2>2, <2>3 DEF Read
<1>21. h[B] = h[n + 4]
  <2>1. n + 4 \in 0..B
    BY <1>1, <1>8 DEF B
  <2>2. ASSUME NEW k \in ((n + 4) + 1)..B PROVE ~CodeEnds(b, k)
    <3>1. PICK j \in 1..Len(u) : k = (n + 4) + j
      <4>1. k - (n + 4) \in 1..Len(u) /\ k = (n + 4) + (k - (n + 4))
        BY <1>1, <1>8 DEF B
      <4>2. QED
        BY <4>1
    <3>2. Len(y) >= 3 /\ y[Len(y)] = 1 /\ y[Len(y) - 1] = 0
      <4>1. n + 4 >= 3 /\ (n + 4) - 1 = n + 3
        BY <1>1
      <4>2. QED
        BY <1>3, <1>5, <1>7, <4>1
    <3>3. ~CodeEnds(y \o u, Len(y) + j)
      BY <1>3, <3>2, UnitHasNoCode
    <3>4. QED
      BY <1>3, <1>4, <3>1, <3>3
  <2>3. QED
    BY <1>8, <1>13, <2>1, <2>2, ScanStays DEF B
<1>22. NalUnits(b) = NalUnits(x) \o NonEmpty(<<WithoutZeros(SubSeq(b, (n + 4) + 1, B))>>)
  BY <1>1, <1>13, <1>20, <1>21 DEF Closed
<1>23. SubSeq(b, (n + 4) + 1, B) = u
  <2> DEFINE w == SubSeq(b, (n + 4) + 1, B)
  <2>1. n + 4 \in Nat /\ B \in Int /\ B <= Len(b)
    BY <1>1, <1>8 DEF B
  <2>2. /\ w \in Data /\ Len(w) = IF (n + 4) + 1 <= B THEN B - (n + 4) ELSE 0
        /\ \A i \in 1..(B - (n + 4)) : w[i] = b[(n + 4) + i]
    BY <1>8, <2>1, PieceData
  <2> HIDE DEF w
  <2>3. B - (n + 4) = Len(u) /\ Len(w) = Len(u)
    BY <1>1, <1>8, <2>2 DEF B
  <2>4. \A i \in 1..Len(u) : w[i] = u[i]
    BY <1>10, <2>2, <2>3
  <2>5. w = u
    BY <1>1, <2>2, <2>3, <2>4, SeqEqual DEF Data
  <2>6. QED
    BY <2>5 DEF w
<1>24. WithoutZeros(u) = u
  BY <1>1, WithoutZerosOfNal DEF Nal, IsNal
<1>25. QED
  BY <1>22, <1>23, <1>24 DEF b, z

\* Behind any bytes, framed units are read as those units.
THEOREM ReaderTakesUnits ==
  ASSUME NEW x \in Data, NEW us \in Seq(Nal)
  PROVE  NalUnits(x \o Framed(us)) = NalUnits(x) \o NonEmpty(us)
<1> DEFINE T == {s \in Seq(Nal) : NalUnits(x \o Framed(s)) = NalUnits(x) \o NonEmpty(s)}
<1>0. Nal \subseteq Data
  BY DEF Nal
<1>1. NalUnits(x) \in Seq(Data)
  <2>1. PICK g : /\ IsScan(g, x)
                 /\ NalUnits(x) = Closed(x, g[Len(x)].found, g[Len(x)].at, Len(x))
    BY ScanDef
  <2>2. Len(x) \in Nat /\ Len(x) \in 0..Len(x) /\ Len(x) <= Len(x)
    BY DataProperties
  <2>3. g[Len(x)].found \in Seq(Data) /\ g[Len(x)].at \in Nat
    <3>1. g \in [0..Len(x) -> Mark]
      BY <2>1 DEF IsScan
    <3>2. g[Len(x)] \in Mark
      BY <2>2, <3>1
    <3>3. QED
      BY <3>2 DEF Mark
  <2>4. Closed(x, g[Len(x)].found, g[Len(x)].at, Len(x)) \in Seq(Data)
    <3>1. Len(x) \in Int
      BY <2>2
    <3>2. QED
      BY <2>2, <2>3, <3>1, ClosedType
  <2>5. QED
    BY <2>1, <2>4
<1>2. <<>> \in T
  <2>1. x \o <<>> = x /\ NalUnits(x) \o <<>> = NalUnits(x)
    BY <1>1, ConcatEmptySeq DEF Data
  <2>2. <<>> \in Seq(Nal)
    OBVIOUS
  <2>3. QED
    BY <2>1, <2>2, FramedOfNone, NonEmptyOfNone
<1>3. ASSUME NEW s \in Seq(Nal), NEW u \in Nal, s \in T PROVE Append(s, u) \in T
  <2>1. s \in Seq(Data) /\ u \in Data
    BY <1>0, SeqMonotonic
  <2>2. Framed(s) \in Data /\ Framed(Append(s, u)) = Framed(s) \o (StartCode \o u)
    BY <2>1, FramedFacts
  <2>3. StartCode \o u \in Data /\ x \o Framed(s) \in Data
    BY <2>1, <2>2, ConcatData, StartCodeData
  <2>4. x \o (Framed(s) \o (StartCode \o u)) = (x \o Framed(s)) \o (StartCode \o u)
    BY <2>2, <2>3, DataAssociative
  <2>5. NalUnits((x \o Framed(s)) \o (StartCode \o u))
          = NalUnits(x \o Framed(s)) \o NonEmpty(<<u>>)
    BY <2>3, ReaderTakesUnit
  <2>6. NalUnits(x \o Framed(s)) = NalUnits(x) \o NonEmpty(s)
    BY <1>3
  <2> DEFINE f == NalUnits(x)
             e == NonEmpty(s)
             o == NonEmpty(<<u>>)
  <2>7. e \in Seq(Data) /\ NonEmpty(Append(s, u)) = e \o o
    BY <2>1, NonEmptyAppend, ZenonT(30)
  <2>8. o \in Seq(Data)
    <3> DEFINE one == <<u>>
    <3>1. one \in Seq(Data)
      BY <2>1
    <3> HIDE DEF one
    <3>2. NonEmpty(one) \in Seq(Data)
      BY <2>1, <3>1, NonEmptyFacts
    <3>3. QED
      BY <3>2 DEF one
  <2>9. f \in Seq(Data)
    BY <1>1
  <2>10. NalUnits(x \o Framed(Append(s, u))) = (f \o e) \o o
    BY <2>2, <2>4, <2>5, <2>6
  <2> HIDE DEF f, e, o
  <2>11. (f \o e) \o o = f \o (e \o o)
    BY <2>7, <2>8, <2>9, ConcatAssociative, SMTT(30)
  <2>12. Append(s, u) \in Seq(Nal)
    OBVIOUS
  <2>13. NalUnits(x \o Framed(Append(s, u))) = f \o NonEmpty(Append(s, u))
    BY <2>7, <2>10, <2>11
  <2>14. QED
    BY <2>12, <2>13 DEF f
<1> HIDE DEF T
<1>4. us \in T
  BY <1>2, <1>3, InductSeq
<1>5. QED
  BY <1>4 DEF T
=============================================================================
