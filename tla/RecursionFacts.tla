---------------------------- MODULE RecursionFacts ----------------------------
(***************************************************************************)
(* Induction over the natural numbers as a lemma about sets, and what it   *)
(* takes to reason about a recursive function: that there is one, and what *)
(* its values are.  Then the recursive functions that the models use.      *)
(***************************************************************************)
EXTENDS StartPlan, SequencesExt, WellFoundedInduction, TLAPS

(* The natural numbers have no endless descent.                           *)
LEMMA LessIsWellFounded == IsWellFoundedOn({p \in Nat \X Nat : p[1] < p[2]}, Nat)
  BY NatLessThanWellFounded DEF OpToRel

(* A set with 0 and every successor has all natural numbers.              *)
LEMMA Induction ==
  ASSUME NEW S, 0 \in S, \A n \in Nat : n \in S => n + 1 \in S
  PROVE  Nat \subseteq S
  <1> DEFINE T == Nat \ S
             R == {p \in Nat \X Nat : p[1] < p[2]}
  <1>1. \A m, n \in Nat : m < n => <<m, n>> \in R
    OBVIOUS
  <1> HIDE DEF R
  <1> SUFFICES ASSUME T # {} PROVE FALSE
    OBVIOUS
  <1>2. PICK n \in T : \A m \in T : ~(<<m, n>> \in R)
    BY WFMin, LessIsWellFounded DEF R
  <1>3. n - 1 \in T /\ n - 1 < n
    OBVIOUS
  <1>4. QED
    BY <1>1, <1>2, <1>3

(* f is a, then a with G[1], G[2], ... applied to it.                     *)
Iterates(f, V, a, n, G) ==
    f \in [0 .. n -> V] /\ f[0] = a /\ \A i \in 1 .. n : f[i] = G[i][f[i - 1]]

(* There is such a function.                                              *)
LEMMA Recursion ==
  ASSUME NEW V, NEW a \in V, NEW n \in Nat, NEW G \in [1 .. n -> [V -> V]]
  PROVE  \E f : Iterates(f, V, a, n, G)
  <1> DEFINE Upto(m) == \E f \in [0 .. m -> V] : f[0] = a /\ \A i \in 1 .. m : f[i] = G[i][f[i - 1]]
             Good == {m \in Nat : m <= n => Upto(m)}
  <1> HIDE DEF Upto, Good
  <1>1. Upto(0)
    <2> DEFINE f == [i \in 0 .. 0 |-> a]
    <2>1. f \in [0 .. 0 -> V] /\ f[0] = a
      OBVIOUS
    <2> HIDE DEF f
    <2>2. QED
      BY <2>1 DEF Upto
  <1>2. ASSUME NEW m \in Nat, m + 1 <= n, Upto(m) PROVE Upto(m + 1)
    <2>1. PICK f \in [0 .. m -> V] : f[0] = a /\ \A i \in 1 .. m : f[i] = G[i][f[i - 1]]
      BY <1>2 DEF Upto
    <2>2. f[m] \in V /\ m + 1 \in 1 .. n
      BY <1>2
    <2>7. G[m + 1][f[m]] \in V
      BY <2>2
    <2> DEFINE g == [i \in 0 .. m + 1 |-> IF i = m + 1 THEN G[m + 1][f[m]] ELSE f[i]]
    <2>3. /\ g \in [0 .. m + 1 -> V] /\ g[m + 1] = G[m + 1][f[m]]
          /\ \A i \in 0 .. m : g[i] = f[i]
      BY <2>7
    <2> HIDE DEF g
    <2>4. \A i \in 1 .. m + 1 : g[i] = G[i][g[i - 1]]
      BY <2>1, <2>3
    <2>5. g[0] = a
      BY <2>1, <2>3
    <2>6. QED
      BY <2>3, <2>4, <2>5 DEF Upto
  <1>3. 0 \in Good /\ \A m \in Nat : m \in Good => m + 1 \in Good
    BY <1>1, <1>2 DEF Good
  <1>4. n \in Good
    BY <1>3, Induction
  <1>5. QED
    BY <1>4 DEF Upto, Good, Iterates

(* What holds at first and is kept by every step holds for all values.    *)
LEMMA Reaches ==
  ASSUME NEW V, NEW n \in Nat, NEW h, h[0] \in V,
         \A i \in 1 .. n : h[i - 1] \in V => h[i] \in V
  PROVE  \A i \in 0 .. n : h[i] \in V
  <1> DEFINE Typed == {m \in Nat : m <= n => h[m] \in V}
  <1>1. ASSUME NEW m \in Nat, m \in Typed PROVE m + 1 \in Typed
    <2> SUFFICES ASSUME m + 1 <= n PROVE h[m + 1] \in V
      OBVIOUS
    <2>1. m + 1 \in 1 .. n /\ (m + 1) - 1 = m /\ h[m] \in V
      BY <1>1
    <2>2. QED
      BY <2>1
  <1>2. 0 \in Typed
    OBVIOUS
  <1>3. QED
    <2>1. Nat \subseteq Typed
      <3> HIDE DEF Typed
      <3>1. QED
        BY <1>1, <1>2, Induction
    <2>2. QED
      BY <2>1

-----------------------------------------------------------------------------
(* The entries of a plan are declared instances.                           *)
LEMMA PlannedType ==
  ASSUME NEW S, NEW instances \in Seq(S), NEW asked, NEW any
  PROVE  Planned(instances, asked, any) \in Seq(S)
  <1> DEFINE n == Len(instances)
             V == Seq(S)
             More(s, i) == IF asked \in {any, instances[i].profile} THEN Append(s, instances[i])
                           ELSE s
             G == [i \in 1 .. n |-> [s \in V |-> More(s, i)]]
             h == CHOOSE u : u = [i \in 0 .. n |-> IF i = 0 THEN <<>> ELSE More(u[i - 1], i)]
  <1>1. \A i \in 1 .. n, s \in V : G[i][s] = More(s, i) /\ More(s, i) \in V
    OBVIOUS
  <1>2. G \in [1 .. n -> [V -> V]] /\ n \in Nat /\ <<>> \in V
    OBVIOUS
  <1> HIDE DEF G, More, n, V
  <1>3. PICK f : Iterates(f, V, <<>>, n, G)
    BY <1>2, Recursion
  <1>4. /\ f[0] = <<>> /\ \A i \in 1 .. n : f[i] = More(f[i - 1], i)
        /\ f \in [0 .. n -> V]
    BY <1>1, <1>2, <1>3 DEF Iterates
  <1>5. f = [i \in 0 .. n |-> IF i = 0 THEN <<>> ELSE More(f[i - 1], i)]
    BY <1>2, <1>4
  <1>6. h = [i \in 0 .. n |-> IF i = 0 THEN <<>> ELSE More(h[i - 1], i)]
    BY <1>5
  <1> HIDE DEF h
  <1>7. h[0] \in V /\ \A i \in 1 .. n : h[i - 1] \in V => h[i] \in V
    BY <1>1, <1>2, <1>6
  <1>8. h[n] \in V
    <2>1. \A i \in 0 .. n : h[i] \in V
      BY <1>2, <1>7, Reaches
    <2>2. QED
      BY <1>2, <2>1
  <1>9. QED
    BY <1>8 DEF Planned, h, More, n, V

(* The elements of two sequences in one.                                   *)
LEMMA ConcatElements ==
  ASSUME NEW S, NEW s \in Seq(S), NEW t \in Seq(S), NEW x
  PROVE  x \in ToSet(s \o t) <=> x \in ToSet(s) \/ x \in ToSet(t)
  <1>1. ASSUME x \in ToSet(s) PROVE x \in ToSet(s \o t)
    <2>1. PICK i \in 1 .. Len(s) : s[i] = x
      BY <1>1 DEF ToSet
    <2>2. i \in DOMAIN (s \o t) /\ (s \o t)[i] = x
      BY <2>1
    <2>3. QED
      BY <2>2 DEF ToSet
  <1>2. ASSUME x \in ToSet(t) PROVE x \in ToSet(s \o t)
    <2>1. PICK i \in 1 .. Len(t) : t[i] = x
      BY <1>2 DEF ToSet
    <2>2. Len(s) + i \in DOMAIN (s \o t) /\ (s \o t)[Len(s) + i] = x
      BY <2>1
    <2>3. QED
      BY <2>2 DEF ToSet
  <1>3. ASSUME x \in ToSet(s \o t) PROVE x \in ToSet(s) \/ x \in ToSet(t)
    <2>1. PICK i \in DOMAIN (s \o t) : (s \o t)[i] = x
      BY <1>3 DEF ToSet
    <2>2. CASE i <= Len(s)
      <3>1. i \in DOMAIN s /\ s[i] = x
        BY <2>1, <2>2
      <3>2. QED
        BY <3>1 DEF ToSet
    <2>3. CASE i > Len(s)
      <3>1. i - Len(s) \in DOMAIN t /\ t[i - Len(s)] = x
        BY <2>1, <2>3
      <3>2. QED
        BY <3>1 DEF ToSet
    <2>4. QED
      BY <2>1, <2>2, <2>3
  <1>4. QED
    BY <1>1, <1>2, <1>3

(* A sequence of sequences in one has the elements of all of them.         *)
LEMMA FlattenElements ==
  ASSUME NEW S, NEW seqs \in Seq(Seq(S))
  PROVE  /\ FlattenSeq(seqs) \in Seq(S)
         /\ \A x : x \in ToSet(FlattenSeq(seqs)) <=> \E m \in DOMAIN seqs : x \in ToSet(seqs[m])
  <1>1. CASE seqs = <<>>
    BY <1>1 DEF FlattenSeq, ToSet
  <1>2. CASE seqs # <<>>
    <2> DEFINE n == Len(seqs)
               V == Seq(S)
               G == [i \in 1 .. n |-> [s \in V |-> s \o seqs[i]]]
               h == CHOOSE u : u = [i \in 1 .. n |-> IF i = 1 THEN seqs[i] ELSE u[i - 1] \o seqs[i]]
               Upto(i) == {s \in V : \A x : x \in ToSet(s) <=> \E m \in 1 .. i : x \in ToSet(seqs[m])}
               Ok == {i \in Nat : (1 <= i /\ i <= n) => h[i] \in Upto(i)}
    <2>1. /\ n \in Nat /\ n >= 1 /\ DOMAIN seqs = 1 .. n /\ <<>> \in V
          /\ \A i \in 1 .. n : seqs[i] \in V /\ <<>> \o seqs[i] = seqs[i]
          /\ \A s, t \in V : s \o t \in V
          /\ \A s, t \in V : \A x : x \in ToSet(s \o t) <=> x \in ToSet(s) \/ x \in ToSet(t)
      <3>1. \A i \in 1 .. n : seqs[i] \in V /\ <<>> \o seqs[i] = seqs[i]
        OBVIOUS
      <3>2. \A s, t \in V : s \o t \in V
        OBVIOUS
      <3>3. \A s, t \in V : \A x : x \in ToSet(s \o t) <=> x \in ToSet(s) \/ x \in ToSet(t)
        BY ConcatElements
      <3>4. QED
        BY <1>2, <3>1, <3>2, <3>3
    <2>2. G \in [1 .. n -> [V -> V]] /\ \A i \in 1 .. n, s \in V : G[i][s] = s \o seqs[i]
      BY <2>1
    <2> HIDE DEF G, n, V
    <2>3. PICK f : Iterates(f, V, <<>>, n, G)
      BY <2>1, <2>2, Recursion
    <2> DEFINE g == [i \in 1 .. n |-> f[i]]
    <2>4. \A i \in 1 .. n : g[i] = IF i = 1 THEN seqs[i] ELSE g[i - 1] \o seqs[i]
      <3>0. f \in [0 .. n -> V] /\ f[0] = <<>> /\ \A i \in 1 .. n : f[i] = G[i][f[i - 1]]
        BY <2>3 DEF Iterates
      <3>1. ASSUME NEW i \in 1 .. n PROVE f[i] = f[i - 1] \o seqs[i]
        <4>1. i - 1 \in 0 .. n
          BY <2>1
        <4>2. f[i - 1] \in V
          BY <3>0, <4>1
        <4>3. QED
          BY <2>2, <3>0, <4>2
      <3>2. f[1] = seqs[1]
        <4>1. 1 \in 1 .. n /\ 1 - 1 = 0
          BY <2>1
        <4>2. f[1] = <<>> \o seqs[1] /\ <<>> \o seqs[1] = seqs[1]
          BY <2>1, <3>0, <3>1, <4>1
        <4>3. QED
          BY <4>2
      <3>3. \A i \in 1 .. n : i # 1 => i - 1 \in 1 .. n
        BY <2>1
      <3>4. QED
        BY <3>1, <3>2, <3>3
    <2>5. g = [i \in 1 .. n |-> IF i = 1 THEN seqs[i] ELSE g[i - 1] \o seqs[i]]
      BY <2>4
    <2>6. h = [i \in 1 .. n |-> IF i = 1 THEN seqs[i] ELSE h[i - 1] \o seqs[i]]
      BY <2>5
    <2> HIDE DEF h, Upto
    <2>7. h[1] \in Upto(1)
      BY <2>1, <2>6 DEF Upto
    <2>8. ASSUME NEW i \in 1 .. n, i + 1 <= n, h[i] \in Upto(i) PROVE h[i + 1] \in Upto(i + 1)
      <3>1. h[i + 1] = h[i] \o seqs[i + 1] /\ seqs[i + 1] \in V /\ h[i] \in V
        <4>1. i + 1 \in 1 .. n /\ i + 1 # 1 /\ (i + 1) - 1 = i
          BY <2>1, <2>8
        <4>2. QED
          BY <2>1, <2>6, <2>8, <4>1 DEF Upto
      <3>2. ASSUME NEW x
            PROVE  x \in ToSet(h[i + 1]) <=> \E m \in 1 .. i + 1 : x \in ToSet(seqs[m])
        <4>1. x \in ToSet(h[i]) <=> \E m \in 1 .. i : x \in ToSet(seqs[m])
          BY <2>8 DEF Upto
        <4>2. x \in ToSet(h[i + 1]) <=> x \in ToSet(h[i]) \/ x \in ToSet(seqs[i + 1])
          BY <2>1, <3>1
        <4>3. QED
          <5>1. \A m : m \in 1 .. i + 1 <=> m \in 1 .. i \/ m = i + 1
            BY <2>1
          <5>2. QED
            BY <4>1, <4>2, <5>1
      <3>3. QED
        BY <2>1, <3>1, <3>2 DEF Upto
    <2>9. h[n] \in Upto(n)
      <3>1. 0 \in Ok /\ \A i \in Nat : i \in Ok => i + 1 \in Ok
        BY <2>1, <2>7, <2>8
      <3>2. n \in Ok
        <4> HIDE DEF Ok
        <4>1. QED
          BY <2>1, <3>1, Induction
      <3>3. QED
        BY <2>1, <3>2
    <2>10. FlattenSeq(seqs) = h[n]
      BY <1>2, <2>1 DEF FlattenSeq, h, n
    <2>11. QED
      BY <2>1, <2>9, <2>10 DEF Upto, V
  <1>3. QED
    BY <1>1, <1>2

=============================================================================
