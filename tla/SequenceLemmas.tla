---------------------------- MODULE SequenceLemmas ----------------------------
(***************************************************************************)
(* Induction on numbers, in a form that needs no operator as a parameter,  *)
(* and what it gives for functions defined by recursion along a sequence   *)
(* and for FlattenSeq of the community modules.                            *)
(***************************************************************************)
EXTENDS SequencesExt, WellFoundedInduction, TLAPS

-------------------------------------------------------------------------------
(* Numbers *)

\* A set of numbers has a least one.
LEMMA LeastNumber ==
    ASSUME NEW S \in SUBSET Nat, S # {}
    PROVE  \E n \in S : \A m \in S : n <= m
<1> DEFINE R == OpToRel(<, Nat)
<1>1. \E n \in S : \A m \in S : <<m, n>> \notin R
  <2> HIDE DEF R
  <2>1. IsWellFoundedOn(R, Nat)
    BY NatLessThanWellFounded DEF R
  <2> QED
    BY <2>1, WFMin
<1>2. \A m, n \in Nat : <<m, n>> \notin R => n <= m
  BY DEF OpToRel
<1> QED
  BY <1>1, <1>2

\* A bounded set of numbers has a greatest one.
LEMMA GreatestNumber ==
    ASSUME NEW S \in SUBSET Nat, S # {}, NEW bound \in Nat, \A n \in S : n <= bound
    PROVE  \E n \in S : \A m \in S : m <= n
<1> DEFINE T == {k \in Nat : \A m \in S : m <= k}
<1>1. T # {}
  OBVIOUS
<1>2. PICK k \in T : \A j \in T : k <= j
  <2> HIDE DEF T
  <2>1. T \in SUBSET Nat
    BY DEF T
  <2> QED
    BY <1>1, <2>1, LeastNumber
<1>3. k \in S
  <2> SUFFICES ASSUME k \notin S PROVE FALSE
    OBVIOUS
  <2>1. \A m \in S : m < k
    BY <1>2
  <2>2. k >= 1 /\ k - 1 \in Nat
    <3>1. PICK m \in S : m < k
      BY <2>1
    <3> QED
      BY <3>1
  <2>3. \A m \in S : m <= k - 1
    BY <2>1, <2>2
  <2>4. k - 1 \in T
    BY <2>2, <2>3
  <2> QED
    BY <1>2, <2>2, <2>4
<1> QED
  BY <1>2, <1>3

\* Induction from 0 up to a bound.
LEMMA BoundedInduction ==
    ASSUME NEW bound \in Nat, NEW S, 0 \in S,
           \A n \in 0..(bound - 1) : n \in S => n + 1 \in S
    PROVE  0..bound \subseteq S
<1> SUFFICES ASSUME (0..bound) \ S # {} PROVE FALSE
  OBVIOUS
<1> DEFINE Missed == (0..bound) \ S
<1>1. PICK n \in Missed : \A m \in Missed : n <= m
  <2>1. Missed \in SUBSET Nat
    OBVIOUS
  <2> HIDE DEF Missed
  <2> QED
    BY <2>1, LeastNumber DEF Missed
<1>2. n - 1 \in 0..(bound - 1) /\ n - 1 \in S /\ n = (n - 1) + 1
  BY <1>1
<1> QED
  BY <1>1, <1>2

-------------------------------------------------------------------------------
(* Recursion *)

\* A value for each number up to a bound, each computed from the one before.
Follows(f, bound, base, step) == f[0] = base /\ \A i \in 1..bound : f[i] = step[i][f[i - 1]]

\* A function defined by recursion on numbers up to a bound exists.
LEMMA RecursionExists ==
    ASSUME NEW bound \in Nat, NEW S, NEW base \in S, NEW step \in [1..bound -> [S -> S]]
    PROVE  \E f \in [0..bound -> S] : Follows(f, bound, base, step)
<1> DEFINE Reached == {n \in 0..bound : \E f \in [0..n -> S] : Follows(f, n, base, step)}
<1>1. 0 \in Reached
  <2>1. [i \in 0..0 |-> base] \in [0..0 -> S] /\ Follows([i \in 0..0 |-> base], 0, base, step)
    BY DEF Follows
  <2> QED
    BY <2>1
<1>2. ASSUME NEW n \in 0..(bound - 1), n \in Reached PROVE n + 1 \in Reached
  <2>1. PICK f \in [0..n -> S] : Follows(f, n, base, step)
    BY <1>2
  <2> DEFINE g == [i \in 0..(n + 1) |-> IF i <= n THEN f[i] ELSE step[n + 1][f[n]]]
  <2>2. g \in [0..(n + 1) -> S]
    OBVIOUS
  <2>3. Follows(g, n + 1, base, step)
    BY <2>1 DEF Follows
  <2> HIDE DEF g
  <2> QED
    BY <2>2, <2>3
<1>3. 0..bound \subseteq Reached
  <2> HIDE DEF Reached
  <2> QED
    BY <1>1, <1>2, BoundedInduction
<1>4. bound \in 0..bound
  OBVIOUS
<1> QED
  BY <1>3, <1>4

\* FlattenSeq adds one sequence after the other.
LEMMA FlattenSeqRecursion ==
    ASSUME NEW C, NEW ss \in Seq(Seq(C))
    PROVE  \E f \in [0..Len(ss) -> Seq(C)] :
              /\ f[0] = <<>>
              /\ \A i \in 1..Len(ss) : f[i] = f[i - 1] \o ss[i]
              /\ f[Len(ss)] = FlattenSeq(ss)
<1> DEFINE n == Len(ss)
           Texts == Seq(C)
           base == <<>>
           step == [i \in 1..n |-> [t \in Texts |-> t \o ss[i]]]
<1>1. n \in Nat /\ base \in Texts /\ step \in [1..n -> [Texts -> Texts]]
  OBVIOUS
<1>2. PICK f \in [0..n -> Texts] : Follows(f, n, base, step)
  <2> HIDE DEF n, step, base, Texts
  <2> QED
    BY <1>1, RecursionExists
<1>3. ASSUME NEW i \in 1..n
      PROVE  f[i - 1] \in Texts /\ f[i] = f[i - 1] \o ss[i]
  <2>1. i - 1 \in 0..n
    OBVIOUS
  <2>2. f[i - 1] \in Texts
    BY <2>1
  <2>3. step[i][f[i - 1]] = f[i - 1] \o ss[i]
    BY <2>2
  <2> QED
    BY <1>2, <2>2, <2>3 DEF Follows
<1>4. f[n] = FlattenSeq(ss)
  <2>1. CASE n = 0
    BY <1>2, <2>1 DEF FlattenSeq, Follows
  <2>2. CASE n # 0
    <3> DEFINE Good(g) == g = [i \in 1..n |-> IF i = 1 THEN ss[i] ELSE g[i - 1] \o ss[i]]
               flat == [i \in 1..n |-> f[i]]
               h == CHOOSE g : Good(g)
    <3>1. Good(flat)
      <4>1. ASSUME NEW i \in 1..n
            PROVE  f[i] = IF i = 1 THEN ss[i] ELSE flat[i - 1] \o ss[i]
        <5>1. CASE i = 1
          <6>1. f[i - 1] = <<>>
            BY <1>2, <5>1 DEF Follows
          <6>2. f[i] = f[i - 1] \o ss[i]
            BY <1>3
          <6>3. ss[i] \in Seq(C)
            OBVIOUS
          <6> QED
            BY <5>1, <6>1, <6>2, <6>3
        <5>2. CASE i # 1
          <6>1. i - 1 \in 1..n
            BY <1>1, <5>2
          <6> QED
            BY <1>3, <5>2, <6>1
        <5> QED
          BY <5>1, <5>2
      <4> HIDE DEF n
      <4> QED
        BY <4>1
    <3>2. Good(h)
      <4> HIDE DEF Good, flat
      <4> QED
        BY <3>1
    <3>3. FlattenSeq(ss) = h[n]
      BY <2>2 DEF FlattenSeq
    <3>4. \A i \in 1..n : h[i] = IF i = 1 THEN ss[i] ELSE h[i - 1] \o ss[i]
      <4> HIDE DEF h
      <4> QED
        BY <3>2
    <3> HIDE DEF h, n
    <3> DEFINE Same == {i \in 0..n : i = 0 \/ h[i] = f[i]}
    <3>5. ASSUME NEW i \in 0..(n - 1), i \in Same PROVE i + 1 \in Same
      <4>1. i + 1 \in 1..n /\ (i + 1) - 1 = i
        BY <1>1
      <4>2. h[i + 1] = IF i + 1 = 1 THEN ss[i + 1] ELSE h[i] \o ss[i + 1]
        BY <3>4, <4>1
      <4>3. f[i + 1] = f[i] \o ss[i + 1]
        <5>1. f[(i + 1) - 1] = f[i]
          BY <4>1
        <5> QED
          BY <1>3, <4>1, <5>1
      <4>4. ASSUME i = 0 PROVE f[i + 1] = ss[i + 1]
        <5>1. f[i] = <<>> /\ ss[i + 1] \in Seq(C)
          BY <1>2, <4>1, <4>4 DEF n, Follows
        <5> QED
          BY <4>3, <5>1
      <4>5. CASE i = 0
        <5>1. h[i + 1] = ss[i + 1]
          BY <4>2, <4>5
        <5> QED
          BY <4>1, <4>4, <4>5, <5>1
      <4>6. CASE i # 0
        <5>1. h[i] = f[i] /\ i + 1 # 1
          BY <1>1, <3>5, <4>6
        <5>2. h[i + 1] = f[i + 1]
          BY <4>2, <4>3, <5>1
        <5> QED
          BY <4>1, <5>2
      <4> QED
        BY <4>5, <4>6
    <3>6. 0 \in Same
      BY <1>1
    <3>7. 0..n \subseteq Same
      <4> HIDE DEF Same
      <4> QED
        BY <1>1, <3>5, <3>6, BoundedInduction
    <3> QED
      BY <1>1, <2>2, <3>3, <3>7
  <2> QED
    BY <2>1, <2>2
<1> QED
  BY <1>2, <1>3, <1>4 DEF Follows

\* One more element at the end of a sequence.
LEMMA Appended ==
    ASSUME NEW C, NEW s \in Seq(C), NEW x \in C
    PROVE  /\ Append(s, x) \in Seq(C) /\ Len(Append(s, x)) = Len(s) + 1
           /\ \A i \in 1..Len(s) : Append(s, x)[i] = s[i]
           /\ Append(s, x)[Len(s) + 1] = x
OBVIOUS

\* Appending to a tuple of one gives a tuple of two.
LEMMA AppendToOne ==
    ASSUME NEW a, NEW b
    PROVE  Append(<<a>>, b) = <<a, b>>
<1> DEFINE C == {a, b}
           s == <<a>>
           t == <<a, b>>
           u == Append(s, b)
<1>1. s \in Seq(C) /\ Len(s) = 1 /\ s[1] = a /\ b \in C
  OBVIOUS
<1>2. t \in Seq(C) /\ Len(t) = 2 /\ t[1] = a /\ t[2] = b
  OBVIOUS
<1> HIDE DEF s, t, C
<1>3. u \in Seq(C) /\ Len(u) = 2 /\ u[1] = a /\ u[2] = b
  <2>1. /\ u \in Seq(C) /\ Len(u) = Len(s) + 1
        /\ \A i \in 1..Len(s) : u[i] = s[i]
        /\ u[Len(s) + 1] = b
    BY <1>1, Appended
  <2>4. 1 \in 1..1
    OBVIOUS
  <2> HIDE DEF u
  <2> QED
    BY <1>1, <2>1, <2>4
<1> HIDE DEF u
<1>4. u = t
  <2>1. \A i \in 1..2 : i = 1 \/ i = 2
    OBVIOUS
  <2> QED
    BY <1>2, <1>3, <2>1
<1> QED
  BY <1>4 DEF u, s, t

\* Appending to a tuple of two gives a tuple of three.
LEMMA AppendToTwo ==
    ASSUME NEW a, NEW b, NEW c
    PROVE  Append(<<a, b>>, c) = <<a, b, c>>
<1> DEFINE C == {a, b, c}
           s == <<a, b>>
           t == <<a, b, c>>
           u == Append(s, c)
<1>1. s \in Seq(C) /\ Len(s) = 2 /\ s[1] = a /\ s[2] = b /\ c \in C
  OBVIOUS
<1>2. t \in Seq(C) /\ Len(t) = 3 /\ t[1] = a /\ t[2] = b /\ t[3] = c
  OBVIOUS
<1> HIDE DEF s, t, C
<1>3. u \in Seq(C) /\ Len(u) = 3 /\ u[1] = a /\ u[2] = b /\ u[3] = c
  BY <1>1, SMTT(30)
<1> HIDE DEF u
<1>4. u = t
  <2>1. \A i \in 1..3 : i = 1 \/ i = 2 \/ i = 3
    OBVIOUS
  <2> QED
    BY <1>2, <1>3, <2>1
<1> QED
  BY <1>4 DEF u, s, t

\* The elements of a concatenation are those of both sequences.
LEMMA ConcatRange ==
    ASSUME NEW C, NEW s \in Seq(C), NEW t \in Seq(C), NEW x
    PROVE  x \in ToSet(s \o t) <=> x \in ToSet(s) \/ x \in ToSet(t)
<1>1. /\ DOMAIN s = 1..Len(s) /\ DOMAIN t = 1..Len(t)
      /\ DOMAIN (s \o t) = 1..(Len(s) + Len(t)) /\ Len(s) \in Nat /\ Len(t) \in Nat
      /\ \A k \in 1..Len(s) : (s \o t)[k] = s[k]
      /\ \A k \in 1..Len(t) : (s \o t)[Len(s) + k] = t[k]
  OBVIOUS
<1>2. \A k \in 1..(Len(s) + Len(t)) :
         k \in 1..Len(s) \/ (k - Len(s) \in 1..Len(t) /\ k = Len(s) + (k - Len(s)))
  BY <1>1
<1>3. ASSUME x \in ToSet(s \o t) PROVE x \in ToSet(s) \/ x \in ToSet(t)
  <2>1. PICK k \in 1..(Len(s) + Len(t)) : x = (s \o t)[k]
    BY <1>1, <1>3 DEF ToSet
  <2>2. CASE k \in 1..Len(s)
    BY <1>1, <2>1, <2>2 DEF ToSet
  <2>3. CASE k - Len(s) \in 1..Len(t) /\ k = Len(s) + (k - Len(s))
    BY <1>1, <2>1, <2>3 DEF ToSet
  <2> QED
    BY <1>2, <2>2, <2>3
<1>4. ASSUME x \in ToSet(s) PROVE x \in ToSet(s \o t)
  <2>1. PICK k \in 1..Len(s) : x = s[k]
    BY <1>1, <1>4 DEF ToSet
  <2>2. k \in 1..(Len(s) + Len(t))
    BY <1>1
  <2> QED
    BY <1>1, <2>1, <2>2 DEF ToSet
<1>5. ASSUME x \in ToSet(t) PROVE x \in ToSet(s \o t)
  <2>1. PICK k \in 1..Len(t) : x = t[k]
    BY <1>1, <1>5 DEF ToSet
  <2>2. Len(s) + k \in 1..(Len(s) + Len(t))
    BY <1>1
  <2> QED
    BY <1>1, <2>1, <2>2 DEF ToSet
<1> QED
  BY <1>3, <1>4, <1>5

\* The elements of a flattened sequence are those of the sequences in it.
LEMMA FlattenSeqRange ==
    ASSUME NEW C, NEW ss \in Seq(Seq(C)), NEW x
    PROVE  /\ FlattenSeq(ss) \in Seq(C)
           /\ x \in ToSet(FlattenSeq(ss)) <=> \E i \in 1..Len(ss) : x \in ToSet(ss[i])
<1> DEFINE n == Len(ss)
<1>1. PICK f \in [0..n -> Seq(C)] :
         f[0] = <<>> /\ f[n] = FlattenSeq(ss) /\ \A i \in 1..n : f[i] = f[i - 1] \o ss[i]
  BY FlattenSeqRecursion
<1> DEFINE Good == {i \in 0..n : x \in ToSet(f[i]) <=> \E j \in 1..i : x \in ToSet(ss[j])}
<1>2. n \in Nat
  OBVIOUS
<1>3. 0 \in Good
  BY <1>1 DEF ToSet
<1>4. ASSUME NEW i \in 0..(n - 1), i \in Good PROVE i + 1 \in Good
  <2>1. i \in 0..n /\ i + 1 \in 1..n /\ (i + 1) - 1 = i
    BY <1>2
  <2>2. f[i] \in Seq(C) /\ ss[i + 1] \in Seq(C) /\ f[i + 1] = f[i] \o ss[i + 1]
    <3>1. f[(i + 1) - 1] = f[i]
      BY <2>1
    <3>2. f[i + 1] = f[(i + 1) - 1] \o ss[i + 1]
      BY <1>1, <2>1
    <3>3. f[i] \in Seq(C)
      BY <2>1
    <3>4. ss[i + 1] \in Seq(C)
      BY <2>1
    <3> QED
      BY <3>1, <3>2, <3>3, <3>4
  <2>4. x \in ToSet(f[i + 1]) <=> x \in ToSet(f[i]) \/ x \in ToSet(ss[i + 1])
    BY <2>2, ConcatRange
  <2>5. \A j \in Nat : j \in 1..(i + 1) <=> j \in 1..i \/ j = i + 1
    BY <1>2
  <2>6. (\E j \in 1..(i + 1) : x \in ToSet(ss[j])) <=>
           (\E j \in 1..i : x \in ToSet(ss[j])) \/ x \in ToSet(ss[i + 1])
    BY <2>5
  <2> QED
    BY <1>4, <2>1, <2>4, <2>6
<1>5. n \in Good
  <2> HIDE DEF Good, n
  <2>1. 0..n \subseteq Good
    BY <1>2, <1>3, <1>4, BoundedInduction
  <2> QED
    BY <1>2, <2>1
<1> QED
  BY <1>1, <1>2, <1>5

\* Where each sequence is in what FlattenSeq makes of them: pos[k] is the length
\* of the first k together.
Positions(ss, pos) ==
    /\ pos \in [0..Len(ss) -> Nat]
    /\ pos[0] = 0
    /\ pos[Len(ss)] = Len(FlattenSeq(ss))
    /\ \A k \in 1..Len(ss) :
         /\ pos[k] = pos[k - 1] + Len(ss[k])
         /\ pos[k] <= Len(FlattenSeq(ss))
         /\ \A j \in 1..Len(ss[k]) : FlattenSeq(ss)[pos[k - 1] + j] = ss[k][j]

\* Each sequence keeps its order and its place in the flattened one.
LEMMA FlattenSeqPositions ==
    ASSUME NEW C, NEW ss \in Seq(Seq(C))
    PROVE  \E pos : Positions(ss, pos)
<1> DEFINE n == Len(ss)
<1>1. PICK f \in [0..n -> Seq(C)] :
         f[0] = <<>> /\ f[n] = FlattenSeq(ss) /\ \A i \in 1..n : f[i] = f[i - 1] \o ss[i]
  BY FlattenSeqRecursion
<1>2. n \in Nat /\ \A k \in 1..n : ss[k] \in Seq(C)
  OBVIOUS
<1> HIDE DEF n
<1>3. \A k \in 0..n : f[k] \in Seq(C) /\ Len(f[k]) \in Nat
  BY <1>1
<1>4. ASSUME NEW k \in 1..n
      PROVE  /\ k - 1 \in 0..n /\ k \in 0..n
             /\ Len(f[k]) = Len(f[k - 1]) + Len(ss[k]) /\ Len(ss[k]) \in Nat
             /\ \A i \in 1..Len(f[k - 1]) : f[k][i] = f[k - 1][i]
             /\ \A j \in 1..Len(ss[k]) : f[k][Len(f[k - 1]) + j] = ss[k][j]
  <2>1. k - 1 \in 0..n /\ k \in 0..n
    BY <1>2
  <2>2. f[k - 1] \in Seq(C) /\ ss[k] \in Seq(C) /\ f[k] = f[k - 1] \o ss[k]
    BY <1>1, <1>2, <1>3, <2>1
  <2> DEFINE a == f[k - 1]
             b == ss[k]
  <2>3. a \in Seq(C) /\ b \in Seq(C) /\ f[k] = a \o b
    BY <2>2
  <2> HIDE DEF a, b
  <2>4. /\ Len(a \o b) = Len(a) + Len(b) /\ Len(b) \in Nat
        /\ \A i \in 1..Len(a) : (a \o b)[i] = a[i]
        /\ \A j \in 1..Len(b) : (a \o b)[Len(a) + j] = b[j]
    BY <2>3
  <2> QED
    BY <2>1, <2>3, <2>4 DEF a, b
<1> DEFINE Begins(k, m) == Len(f[k]) <= Len(f[m]) /\ \A i \in 1..Len(f[k]) : f[m][i] = f[k][i]
           Good == {m \in 0..n : \A k \in 0..m : Begins(k, m)}
<1>5. ASSUME NEW m \in 0..(n - 1), m \in Good PROVE m + 1 \in Good
  <2>1. m + 1 \in 1..n /\ (m + 1) - 1 = m /\ m \in 0..n /\ m + 1 \in 0..n
    BY <1>2
  <2>2. Len(f[m]) <= Len(f[m + 1]) /\ \A i \in 1..Len(f[m]) : f[m + 1][i] = f[m][i]
    <3> DEFINE p == (m + 1) - 1
    <3>1. p = m
      BY <2>1
    <3>2. /\ Len(f[m + 1]) = Len(f[p]) + Len(ss[m + 1]) /\ Len(ss[m + 1]) \in Nat
          /\ \A i \in 1..Len(f[p]) : f[m + 1][i] = f[p][i]
      BY <1>4, <2>1
    <3> HIDE DEF p
    <3>3. /\ Len(f[m + 1]) = Len(f[m]) + Len(ss[m + 1]) /\ Len(ss[m + 1]) \in Nat
          /\ \A i \in 1..Len(f[m]) : f[m + 1][i] = f[m][i]
      BY <3>1, <3>2
    <3>4. Len(f[m]) \in Nat
      BY <1>3, <2>1
    <3>5. Len(f[m]) <= Len(f[m + 1])
      <4> DEFINE a == Len(f[m])
                 b == Len(f[m + 1])
                 c == Len(ss[m + 1])
      <4>1. a \in Nat /\ c \in Nat /\ b = a + c
        BY <3>3, <3>4
      <4> HIDE DEF a, b, c
      <4>2. a <= b
        BY <4>1
      <4> QED
        BY <4>2 DEF a, b
    <3> QED
      BY <3>3, <3>5
  <2>3. ASSUME NEW k \in 0..(m + 1) PROVE Begins(k, m + 1)
    <3>1. CASE k = m + 1
      <4>1. Len(f[m + 1]) \in Nat
        BY <1>3, <2>1
      <4> QED
        BY <3>1, <4>1
    <3>2. CASE k # m + 1
      <4>1. k \in 0..m /\ k \in 0..n
        BY <1>2, <2>1, <3>2
      <4>2. Begins(k, m)
        BY <1>5, <4>1
      <4>3. Len(f[k]) \in Nat /\ Len(f[m]) \in Nat /\ Len(f[m + 1]) \in Nat
        BY <1>3, <2>1, <4>1
      <4> QED
        BY <2>2, <4>2, <4>3
    <3> QED
      BY <3>1, <3>2
  <2> QED
    BY <2>1, <2>3
<1>6. 0 \in Good
  <2>1. Begins(0, 0) /\ 0 \in 0..n /\ \A k \in 0..0 : k = 0
    BY <1>2, <1>3
  <2> QED
    BY <2>1
<1>7. \A k \in 0..n : Begins(k, n)
  <2> HIDE DEF Begins
  <2>1. 0..n \subseteq Good
    <3> HIDE DEF Good
    <3> QED
      BY <1>2, <1>5, <1>6, BoundedInduction
  <2>2. n \in 0..n
    BY <1>2
  <2> QED
    BY <2>1, <2>2
<1> DEFINE pos == [k \in 0..n |-> Len(f[k])]
<1>8. pos \in [0..n -> Nat] /\ pos[0] = 0 /\ pos[n] = Len(FlattenSeq(ss))
  <2>1. 0 \in 0..n /\ n \in 0..n
    BY <1>2
  <2> QED
    BY <1>1, <1>3, <2>1
<1>9. ASSUME NEW k \in 1..n
      PROVE  /\ pos[k] = pos[k - 1] + Len(ss[k])
             /\ pos[k] <= Len(FlattenSeq(ss))
             /\ \A j \in 1..Len(ss[k]) : FlattenSeq(ss)[pos[k - 1] + j] = ss[k][j]
  <2>1. /\ k - 1 \in 0..n /\ k \in 0..n /\ Len(ss[k]) \in Nat
        /\ pos[k] = Len(f[k]) /\ pos[k - 1] = Len(f[k - 1]) /\ Len(f[k - 1]) \in Nat
    BY <1>3, <1>4
  <2>2. Len(f[k]) <= Len(FlattenSeq(ss)) /\ \A i \in 1..Len(f[k]) : FlattenSeq(ss)[i] = f[k][i]
    BY <1>1, <1>7, <2>1
  <2> HIDE DEF pos, Begins, Good
  <2>3. Len(f[k]) = Len(f[k - 1]) + Len(ss[k])
    BY <1>4
  <2>4. ASSUME NEW j \in 1..Len(ss[k]) PROVE FlattenSeq(ss)[pos[k - 1] + j] = ss[k][j]
    <3>1. Len(f[k - 1]) + j \in 1..Len(f[k])
      BY <2>1, <2>3
    <3> QED
      BY <1>4, <2>1, <2>2, <3>1
  <2> QED
    BY <2>1, <2>2, <2>3, <2>4
<1> HIDE DEF pos
<1>10. Positions(ss, pos)
  BY <1>8, <1>9 DEF n, Positions
<1> QED
  BY <1>10
===============================================================================
