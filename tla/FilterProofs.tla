---------------------------- MODULE FilterProofs ----------------------------
(***************************************************************************)
(* Facts about sequences, with and without repetitions, and about Filtered *)
(* and FirstIn, for every sequence: what the proofs about the controllers' *)
(* lists and queues use.                                                   *)
(***************************************************************************)
EXTENDS Filter, SequenceTheorems, WellFoundedInduction, TLAPS

\* Induction over the naturals, for sets instead of predicates: a set without
\* a least number outside of it has them all.
LEMMA NaturalsInduct ==
    ASSUME NEW P, P \subseteq Nat, 0 \in P, \A n \in P : n + 1 \in P
    PROVE  P = Nat
<1>1. SUFFICES ASSUME Nat \ P # {} PROVE FALSE
  OBVIOUS
<1>2. PICK m \in Nat \ P : \A k \in Nat \ P : ~(<<k, m>> \in OpToRel(<, Nat))
  BY <1>1, NatLessThanWellFounded, WFMin
<1>3. \A k \in Nat \ P : ~(k < m)
  BY <1>2 DEF OpToRel
<1>4. m # 0 /\ m - 1 \in Nat /\ m - 1 < m /\ (m - 1) + 1 = m
  <2>1. m \in Nat /\ m # 0
    OBVIOUS
  <2> QED BY <2>1
<1>5. m - 1 \in P
  BY <1>3, <1>4
<1> QED BY <1>4, <1>5

\* The recursive function exists, and so has the values its equation says.
LEMMA KeptOfSteps ==
    ASSUME NEW S, NEW s \in Seq(S), NEW Q
    PROVE  /\ KeptOf(s, Q)[0] = <<>>
           /\ \A i \in 1 .. Len(s) :
                 KeptOf(s, Q)[i] = IF s[i] \in Q THEN Append(KeptOf(s, Q)[i - 1], s[i])
                                   ELSE KeptOf(s, Q)[i - 1]
<1> DEFINE Step(g, i) == IF i = 0 THEN <<>>
                         ELSE IF s[i] \in Q THEN Append(g[i - 1], s[i]) ELSE g[i - 1]
           Good(n) == \E g : g = [i \in 0 .. n |-> Step(g, i)]
           P == {n \in Nat : Good(n)}
<1>1. 0 \in P
  <2>1. [i \in {0} |-> <<>>] = [i \in 0 .. 0 |-> Step([j \in {0} |-> <<>>], i)]
    OBVIOUS
  <2> QED BY <2>1
<1>2. ASSUME NEW n \in P
      PROVE  n + 1 \in P
  <2>1. PICK g : g = [i \in 0 .. n |-> Step(g, i)]
    OBVIOUS
  <2> DEFINE h == [i \in 0 .. n + 1 |-> IF i = n + 1 THEN Step(g, i) ELSE g[i]]
  <2>2. \A i \in 0 .. n + 1 : h[i] = Step(h, i)
    <3>0. n \in Nat
      OBVIOUS
    <3>1. ASSUME NEW i \in 0 .. n
          PROVE  h[i] = g[i] /\ g[i] = Step(g, i)
      <4>1. g[i] = Step(g, i)
        <5> HIDE DEF Step, h
        <5> QED BY <2>1, Zenon
      <4>2. i \in 0 .. n + 1 /\ i # n + 1
        BY <3>0
      <4> HIDE DEF Step
      <4> QED BY <4>1, <4>2
    <3>3. \A i \in 0 .. n + 1 : h[i] = IF i = n + 1 THEN Step(g, i) ELSE g[i]
      <4> HIDE DEF Step
      <4> QED OBVIOUS
    <3>2. ASSUME NEW i \in 0 .. n + 1 PROVE Step(h, i) = Step(g, i)
      <4>1. CASE i = 0
        BY <4>1
      <4>2. CASE i # 0
        <5>1. i - 1 \in 0 .. n
          BY <4>2
        <5> HIDE DEF h
        <5> QED BY <5>1, <3>1
      <4> QED BY <4>1, <4>2
    <3>4. \A i \in 0 .. n + 1 : i = n + 1 \/ i \in 0 .. n
      BY <3>0
    <3> HIDE DEF Step, h
    <3> QED BY <3>1, <3>2, <3>3, <3>4, Zenon
  <2>3. h = [i \in 0 .. n + 1 |-> h[i]]
    OBVIOUS
  <2> HIDE DEF h
  <2>4. h = [i \in 0 .. n + 1 |-> Step(h, i)]
    BY <2>2, <2>3
  <2> HIDE DEF Step
  <2> QED BY <2>4
<1> HIDE DEF Good
<1>3. P = Nat
  BY <1>1, <1>2, NaturalsInduct
<1>4. Len(s) \in Nat
  BY LenProperties
<1>5. Good(Len(s))
  BY <1>3, <1>4
<1>6. KeptOf(s, Q) = CHOOSE g : g = [i \in 0 .. Len(s) |-> Step(g, i)]
  BY Zenon DEF KeptOf
<1> HIDE DEF Step
<1>7. KeptOf(s, Q) = [i \in 0 .. Len(s) |-> Step(KeptOf(s, Q), i)]
  BY <1>5, <1>6, Zenon DEF Good
<1>8. \A i \in 0 .. Len(s) : KeptOf(s, Q)[i] = Step(KeptOf(s, Q), i)
  BY <1>7, Zenon
<1>9. 0 \in 0 .. Len(s) /\ \A i \in 1 .. Len(s) : i \in 0 .. Len(s) /\ i # 0
  BY <1>4
<1> QED BY <1>8, <1>9, Zenon DEF Step


\* Appending adds an element, and a repetition if it was there.
LEMMA AppendElements ==
    ASSUME NEW S, NEW s \in Seq(S), NEW e \in S
    PROVE  /\ Append(s, e) \in Seq(S)
           /\ ToSet(Append(s, e)) = ToSet(s) \cup {e}
           /\ IsInjective(Append(s, e)) <=> IsInjective(s) /\ e \notin ToSet(s)
<1> DEFINE t == Append(s, e)
<1>1. /\ t \in Seq(S) /\ Len(t) = Len(s) + 1 /\ Len(s) \in Nat
      /\ \A i \in 1 .. Len(s) : t[i] = s[i]
      /\ t[Len(s) + 1] = e
  BY AppendProperties, LenProperties
<1>2. DOMAIN s = 1 .. Len(s) /\ DOMAIN t = 1 .. Len(s) + 1
  BY <1>1, LenProperties
<1> HIDE DEF t
<1>3. DOMAIN t = DOMAIN s \cup {Len(s) + 1} /\ Len(s) + 1 \notin DOMAIN s
  BY <1>1, <1>2
<1>4. \A i \in DOMAIN s : t[i] = s[i]
  BY <1>1, <1>2
<1>5. ToSet(t) = ToSet(s) \cup {e}
  BY <1>1, <1>3, <1>4 DEF ToSet
<1>6. IsInjective(t) <=> IsInjective(s) /\ e \notin ToSet(s)
  BY <1>1, <1>3, <1>4 DEF ToSet, IsInjective
<1> QED BY <1>1, <1>5, <1>6 DEF t

\* Without repetitions, the tail has all the elements but the head.
LEMMA TailElements ==
    ASSUME NEW S, NEW s \in Seq(S), s # <<>>, IsInjective(s)
    PROVE  /\ Tail(s) \in Seq(S) /\ IsInjective(Tail(s))
           /\ ToSet(Tail(s)) = ToSet(s) \ {Head(s)}
<1> DEFINE t == Tail(s)
<1>1. /\ t \in Seq(S) /\ Len(t) = Len(s) - 1 /\ Len(s) \in Nat \ {0}
      /\ \A i \in 1 .. Len(t) : t[i] = s[i + 1]
      /\ Head(s) = s[1]
  BY HeadTailProperties, EmptySeq
<1>2. DOMAIN s = 1 .. Len(s) /\ DOMAIN t = 1 .. Len(s) - 1
  BY <1>1, LenProperties
<1> HIDE DEF t
<1>3. /\ \A i \in DOMAIN t : i + 1 \in DOMAIN s /\ t[i] = s[i + 1] /\ i + 1 # 1
      /\ \A i \in DOMAIN s : i = 1 \/ (i - 1 \in DOMAIN t /\ t[i - 1] = s[i])
      /\ 1 \in DOMAIN s
  BY <1>1, <1>2
<1>4. \A i, j \in DOMAIN t : i + 1 = j + 1 => i = j
  BY <1>2
<1>5. IsInjective(t)
  BY <1>3, <1>4 DEF IsInjective
<1>6. ToSet(t) = ToSet(s) \ {Head(s)}
  <2>1. ASSUME NEW x \in ToSet(t)
        PROVE  x \in ToSet(s) /\ x # Head(s)
    <3>1. PICK i \in DOMAIN t : x = t[i]
      BY DEF ToSet
    <3>2. i + 1 \in DOMAIN s /\ x = s[i + 1] /\ i + 1 # 1
      BY <1>3, <3>1
    <3> QED BY <1>1, <1>3, <3>2 DEF ToSet, IsInjective
  <2>2. ASSUME NEW x \in ToSet(s), x # Head(s)
        PROVE  x \in ToSet(t)
    <3>1. PICK i \in DOMAIN s : x = s[i]
      BY <2>2 DEF ToSet
    <3>2. i - 1 \in DOMAIN t /\ x = t[i - 1]
      BY <1>1, <1>3, <2>2, <3>1
    <3> QED BY <3>2 DEF ToSet
  <2> QED BY <2>1, <2>2
<1> QED BY <1>1, <1>5, <1>6 DEF t

\* Filtering keeps the elements of the set, and adds neither repetitions nor
\* length.
LEMMA FilteredProperties ==
    ASSUME NEW S, NEW s \in Seq(S), NEW Q
    PROVE  /\ Filtered(s, Q) \in Seq(S)
           /\ ToSet(Filtered(s, Q)) = ToSet(s) \cap Q
           /\ IsInjective(s) => IsInjective(Filtered(s, Q))
           /\ Len(Filtered(s, Q)) <= Len(s)
<1> DEFINE K == KeptOf(s, Q)
           Good(n) ==
               /\ K[n] \in Seq(S)
               /\ ToSet(K[n]) = {s[i] : i \in 1 .. n} \cap Q
               /\ IsInjective(s) => IsInjective(K[n])
               /\ Len(K[n]) <= n
           P == {n \in Nat : n <= Len(s) => Good(n)}
<1>0. Len(s) \in Nat /\ DOMAIN s = 1 .. Len(s)
  BY LenProperties
<1>1. /\ K[0] = <<>>
      /\ \A i \in 1 .. Len(s) : K[i] = IF s[i] \in Q THEN Append(K[i - 1], s[i]) ELSE K[i - 1]
  BY KeptOfSteps
<1> HIDE DEF K
<1>2. 0 \in P
  <2>1. K[0] \in Seq(S) /\ DOMAIN K[0] = {}
    BY <1>1, EmptySeq
  <2>2. ToSet(K[0]) = {} /\ IsInjective(K[0]) /\ Len(K[0]) <= 0
    BY <1>1, <2>1, EmptySeq DEF ToSet, IsInjective
  <2> QED BY <2>1, <2>2
<1>3. ASSUME NEW n \in P
      PROVE  n + 1 \in P
  <2>1. SUFFICES ASSUME n + 1 <= Len(s) PROVE Good(n + 1)
    OBVIOUS
  <2>2. n \in Nat /\ n + 1 \in 1 .. Len(s) /\ (n + 1) - 1 = n /\ n <= Len(s)
    BY <1>0, <2>1
  <2>3. Good(n)
    BY <2>2
  <2>4. s[n + 1] \in S
    BY <2>2, ElementOfSeq
  <2>5. {s[i] : i \in 1 .. n + 1} = {s[i] : i \in 1 .. n} \cup {s[n + 1]}
    BY <2>2
  <2>6. CASE s[n + 1] \notin Q
    <3>1. K[n + 1] = K[n] /\ Len(K[n]) <= n + 1
      BY <1>1, <2>2, <2>3, <2>6, LenProperties
    <3> QED BY <2>3, <2>5, <2>6, <3>1
  <2>7. CASE s[n + 1] \in Q
    <3>1. K[n + 1] = Append(K[n], s[n + 1])
      BY <1>1, <2>2, <2>7
    <3>2. /\ K[n + 1] \in Seq(S)
          /\ ToSet(K[n + 1]) = ToSet(K[n]) \cup {s[n + 1]}
          /\ IsInjective(K[n + 1]) <=> IsInjective(K[n]) /\ s[n + 1] \notin ToSet(K[n])
      BY <2>3, <2>4, <3>1, AppendElements
    <3>3. IsInjective(s) => s[n + 1] \notin {s[i] : i \in 1 .. n}
      BY <1>0, <2>2 DEF IsInjective
    <3>4. Len(K[n + 1]) <= n + 1
      BY <2>2, <2>3, <2>4, <3>1, AppendProperties, LenProperties
    <3> QED BY <2>3, <2>5, <2>7, <3>2, <3>3, <3>4
  <2> QED BY <2>6, <2>7
<1> HIDE DEF Good
<1>4. P = Nat
  BY <1>2, <1>3, NaturalsInduct
<1>5. Good(Len(s))
  BY <1>0, <1>4
<1>6. Filtered(s, Q) = K[Len(s)]
  BY DEF Filtered, K
<1>7. ToSet(s) = {s[i] : i \in 1 .. Len(s)}
  BY <1>0 DEF ToSet
<1> QED BY <1>5, <1>6, <1>7 DEF Good

\* Concatenation joins the elements.
LEMMA ConcatElements ==
    ASSUME NEW S, NEW s \in Seq(S), NEW t \in Seq(S)
    PROVE  s \o t \in Seq(S) /\ ToSet(s \o t) = ToSet(s) \cup ToSet(t)
<1> DEFINE u == s \o t
<1>1. /\ u \in Seq(S) /\ Len(u) = Len(s) + Len(t) /\ Len(s) \in Nat /\ Len(t) \in Nat
      /\ \A i \in 1 .. Len(u) : u[i] = IF i <= Len(s) THEN s[i] ELSE t[i - Len(s)]
  BY ConcatProperties, LenProperties
<1>2. DOMAIN s = 1 .. Len(s) /\ DOMAIN t = 1 .. Len(t) /\ DOMAIN u = 1 .. Len(s) + Len(t)
  BY <1>1, LenProperties
<1> HIDE DEF u
<1>3. ASSUME NEW i \in DOMAIN u
      PROVE  u[i] \in ToSet(s) \cup ToSet(t)
  <2>1. i \in 1 .. Len(s) + Len(t)
    BY <1>2
  <2>2. CASE i <= Len(s)
    <3>1. i \in DOMAIN s /\ u[i] = s[i]
      BY <1>1, <1>2, <2>1, <2>2
    <3> QED BY <3>1 DEF ToSet
  <2>3. CASE ~(i <= Len(s))
    <3>1. i - Len(s) \in DOMAIN t /\ u[i] = t[i - Len(s)]
      BY <1>1, <1>2, <2>1, <2>3
    <3> QED BY <3>1 DEF ToSet
  <2> QED BY <2>2, <2>3
<1>4. \A i \in DOMAIN s : i \in DOMAIN u /\ u[i] = s[i]
  BY <1>1, <1>2
<1>5. \A i \in DOMAIN t : i + Len(s) \in DOMAIN u /\ u[i + Len(s)] = t[i]
  BY <1>1, <1>2
<1>6. ToSet(u) = ToSet(s) \cup ToSet(t)
  BY <1>3, <1>4, <1>5 DEF ToSet
<1> QED BY <1>1, <1>6 DEF u

\* What is found, and that nothing is only when there is nothing.
LEMMA FirstInCases ==
    ASSUME NEW S, NEW s \in Seq(S), NEW Q
    PROVE  \/ FirstIn(s, Q) = 0 /\ ToSet(s) \cap Q = {}
           \/ FirstIn(s, Q) # 0 /\ FirstIn(s, Q) \in DOMAIN s /\ s[FirstIn(s, Q)] \in Q
<1> DEFINE I == {i \in 1 .. Len(s) : s[i] \in Q}
<1>1. FirstIn(s, Q) = IF I # {} THEN Min(I) ELSE 0
  BY DEF FirstIn, SelectInSeq
<1>2. I \subseteq Nat \ {0} /\ DOMAIN s = 1 .. Len(s)
  BY LenProperties
<1>3. CASE I = {}
  <2>1. FirstIn(s, Q) = 0
    <3> HIDE DEF I
    <3> QED BY <1>1, <1>3
  <2>2. ToSet(s) \cap Q = {}
    BY <1>2, <1>3 DEF ToSet
  <2> QED BY <2>1, <2>2
<1>4. CASE I # {}
  <2>1. PICK m \in I : \A k \in I : ~(<<k, m>> \in OpToRel(<, Nat))
    BY <1>2, <1>4, NatLessThanWellFounded, WFMin
  <2>2. \A k \in I : ~(k < m)
    BY <1>2, <2>1 DEF OpToRel
  <2>3. \A k \in I : m <= k
    <3> HIDE DEF I
    <3> QED BY <1>2, <2>2
  <2>4. Min(I) \in I
    <3> HIDE DEF I
    <3> QED BY <2>3 DEF Min
  <2>5. FirstIn(s, Q) \in I
    <3> HIDE DEF I
    <3> QED BY <1>1, <1>4, <2>4
  <2> QED BY <1>2, <2>5
<1> QED BY <1>3, <1>4

\* The position found is one of an element of the set.
LEMMA FirstInFound ==
    ASSUME NEW S, NEW s \in Seq(S), NEW Q, FirstIn(s, Q) # 0
    PROVE  FirstIn(s, Q) \in DOMAIN s /\ s[FirstIn(s, Q)] \in Q
BY FirstInCases

\* An element in front of a sequence without it.
LEMMA InFrontElements ==
    ASSUME NEW S, NEW s \in Seq(S), NEW e \in S, e \notin ToSet(s), IsInjective(s)
    PROVE  /\ <<e>> \o s \in Seq(S) /\ ToSet(<<e>> \o s) = ToSet(s) \cup {e}
           /\ IsInjective(<<e>> \o s)
<1> DEFINE u == <<e>> \o s
<1>1. <<e>> \in Seq(S) /\ Len(<<e>>) = 1 /\ <<e>>[1] = e /\ ToSet(<<e>>) = {e}
  BY DEF ToSet
<1>2. u \in Seq(S) /\ ToSet(u) = ToSet(s) \cup {e}
  <2>0. \A x, y \in Seq(S) : x \o y \in Seq(S) /\ ToSet(x \o y) = ToSet(x) \cup ToSet(y)
    BY ONLY ConcatElements
  <2>1. ToSet(u) = ToSet(<<e>>) \cup ToSet(s) /\ u \in Seq(S)
    BY ONLY <1>1, <2>0, s \in Seq(S), Zenon
  <2> HIDE DEF u
  <2> QED BY <1>1, <2>1
<1>3. /\ Len(u) = 1 + Len(s) /\ Len(s) \in Nat
      /\ \A i \in 1 .. Len(u) : u[i] = IF i <= 1 THEN e ELSE s[i - 1]
  BY <1>1, ConcatProperties, LenProperties
<1>4. DOMAIN s = 1 .. Len(s) /\ DOMAIN u = 1 .. 1 + Len(s)
  BY <1>2, <1>3, LenProperties
<1> HIDE DEF u
<1>5. \A i \in DOMAIN u : i # 1 => i - 1 \in DOMAIN s /\ u[i] = s[i - 1] /\ u[i] # e
  BY <1>3, <1>4 DEF ToSet
<1>6. u[1] = e
  BY <1>3
<1>7. IsInjective(u)
  <2> SUFFICES ASSUME NEW i \in DOMAIN u, NEW j \in DOMAIN u, u[i] = u[j]
               PROVE  i = j
    BY DEF IsInjective
  <2>1. CASE i = 1 \/ j = 1
    BY <1>5, <1>6, <2>1
  <2>2. CASE i # 1 /\ j # 1
    <3>1. i - 1 \in DOMAIN s /\ j - 1 \in DOMAIN s /\ s[i - 1] = s[j - 1]
      BY <1>5, <2>2
    <3>2. i - 1 = j - 1
      BY <3>1 DEF IsInjective
    <3> QED BY <1>4, <3>2
  <2> QED BY <2>1, <2>2
<1> QED BY <1>2, <1>7 DEF u
=============================================================================
