------------------------ MODULE SyscallManagerProofs ------------------------
(***************************************************************************)
(* Proofs that the invariants of SyscallManager hold for every number of   *)
(* contexts, parameters and calls.                                         *)
(***************************************************************************)
EXTENDS SyscallManager, SequenceTheorems, FiniteSetTheorems, WellFoundedInduction, TLAPS

(* Lists and sets                                                          *)

\* A set of numbers that has an element has a least one.
LEMMA LeastNumber ==
  ASSUME NEW T \in SUBSET Nat, T # {}
  PROVE  \E m \in T : \A n \in T : m <= n
<1>1. PICK m \in T : \A n \in T : ~(<<n, m>> \in OpToRel(<, Nat))
  BY WFMin, NatLessThanWellFounded
<1>2. \A n \in T : ~(n < m)
  BY <1>1 DEF OpToRel
<1> QED
  BY <1>2

\* Induction up to a bound, over the set of the numbers that are good.
LEMMA Upward ==
  ASSUME NEW n \in Nat, NEW G, 0 \in G, \A i \in 1 .. n : i - 1 \in G => i \in G
  PROVE  \A i \in 0 .. n : i \in G
<1> DEFINE T == {i \in 0 .. n : i \notin G}
<1>1. SUFFICES ASSUME T # {} PROVE FALSE
  OBVIOUS
<1>2. T \in SUBSET Nat
  OBVIOUS
<1>3. \A i \in T : i \in 0 .. n /\ i \notin G
  OBVIOUS
<1>4. \A i \in 0 .. n : i \notin G => i \in T
  OBVIOUS
<1> HIDE DEF T
<1>5. PICK m \in T : \A k \in T : m <= k
  BY <1>1, <1>2, LeastNumber
<1>6. m \in 1 .. n
  BY <1>3
<1>7. m - 1 \in 0 .. n /\ ~(m <= m - 1)
  BY <1>6
<1>8. m - 1 \in G
  BY <1>4, <1>5, <1>7
<1> QED
  BY <1>3, <1>6, <1>8

\* What ToSet says of a list.
LEMMA ListFacts ==
  ASSUME NEW V, NEW s \in Seq(V)
  PROVE  /\ Len(s) \in Nat /\ DOMAIN s = 1 .. Len(s)
         /\ ToSet(s) = {s[i] : i \in 1 .. Len(s)} /\ ToSet(s) \subseteq V
         /\ \A i \in 1 .. Len(s) : s[i] \in V /\ s[i] \in ToSet(s)
         /\ \A x : x \in ToSet(s) <=> \E i \in 1 .. Len(s) : s[i] = x
         /\ \A x : Contains(s, x) <=> x \in ToSet(s)
         /\ s = <<>> <=> ToSet(s) = {}
         /\ s = <<>> <=> Len(s) = 0
<1>1. DOMAIN s = 1 .. Len(s) /\ Len(s) \in Nat /\ \A i \in 1 .. Len(s) : s[i] \in V
  BY LenProperties, ElementOfSeq
<1>2. ToSet(s) = {s[i] : i \in 1 .. Len(s)} /\ ToSet(s) \subseteq V
  BY <1>1 DEF ToSet
<1>3. s = <<>> <=> Len(s) = 0
  BY EmptySeq
<1>4. s = <<>> <=> ToSet(s) = {}
  <2>2. Len(s) # 0 => s[1] \in ToSet(s)
    BY <1>1, <1>2
  <2>3. Len(s) = 0 => 1 .. Len(s) = {}
    OBVIOUS
  <2> QED
    BY <1>1, <1>2, <1>3, <2>2, <2>3
<1>5. \A x : x \in ToSet(s) <=> \E i \in 1 .. Len(s) : s[i] = x
  BY <1>2
<1>6. \A x : Contains(s, x) <=> x \in ToSet(s)
  BY <1>5 DEF Contains
<1> QED
  BY <1>1, <1>2, <1>3, <1>4, <1>5, <1>6

\* A list with one more element.
LEMMA ListAppend ==
  ASSUME NEW V, NEW s \in Seq(V), NEW x \in V
  PROVE  /\ Append(s, x) \in Seq(V) /\ ToSet(Append(s, x)) = ToSet(s) \cup {x}
         /\ Len(Append(s, x)) = Len(s) + 1
         /\ IsInjective(s) /\ x \notin ToSet(s) => IsInjective(Append(s, x))
<1> DEFINE a == Append(s, x)
           n == Len(s)
<1>1. /\ a \in Seq(V) /\ Len(a) = n + 1 /\ n \in Nat
      /\ \A i \in 1 .. n : a[i] = s[i]
      /\ a[n + 1] = x
  BY AppendProperties
<1>2. /\ ToSet(s) = {s[i] : i \in 1 .. n} /\ ToSet(a) = {a[i] : i \in 1 .. n + 1}
      /\ DOMAIN s = 1 .. n /\ DOMAIN a = 1 .. n + 1
  BY <1>1 DEF ToSet
<1> HIDE DEF a
<1>3. ToSet(a) = ToSet(s) \cup {x}
  BY <1>1, <1>2
<1>4. ASSUME IsInjective(s), x \notin ToSet(s) PROVE IsInjective(a)
  <2> SUFFICES ASSUME NEW i \in 1 .. n + 1, NEW j \in 1 .. n + 1, a[i] = a[j] PROVE i = j
    BY <1>2 DEF IsInjective
  <2>1. CASE i \in 1 .. n /\ j \in 1 .. n
    BY <1>1, <1>2, <1>4, <2>1 DEF IsInjective
  <2>2. CASE i = n + 1 \/ j = n + 1
    <3>1. \A m \in 1 .. n : a[m] \in ToSet(s)
      BY <1>1, <1>2
    <3>2. i \notin 1 .. n /\ j \notin 1 .. n
      BY <1>1, <1>4, <2>2, <3>1
    <3> QED
      BY <1>1, <3>2
  <2> QED
    BY <1>1, <2>1, <2>2
<1> QED
  BY <1>1, <1>3, <1>4 DEF a

\* Two lists one after the other.
LEMMA ListConcat ==
  ASSUME NEW V, NEW s \in Seq(V), NEW t \in Seq(V)
  PROVE  s \o t \in Seq(V) /\ ToSet(s \o t) = ToSet(s) \cup ToSet(t)
<1> DEFINE a == s \o t
           n == Len(s)
           k == Len(t)
<1>1. /\ a \in Seq(V) /\ Len(a) = n + k /\ n \in Nat /\ k \in Nat
      /\ \A i \in 1 .. n : a[i] = s[i]
      /\ \A i \in 1 .. k : a[n + i] = t[i]
  <2>1. /\ a \in Seq(V) /\ Len(a) = n + k /\ n \in Nat /\ k \in Nat
        /\ \A i \in 1 .. n + k : a[i] = IF i <= n THEN s[i] ELSE t[i - n]
    BY ConcatProperties, LenProperties
  <2>2. \A i \in 1 .. n : i \in 1 .. n + k /\ i <= n
    BY <2>1
  <2>3. \A i \in 1 .. k : n + i \in 1 .. n + k /\ ~(n + i <= n) /\ (n + i) - n = i
    BY <2>1
  <2> HIDE DEF a, n, k
  <2> QED
    BY <2>1, <2>2, <2>3
<1>2. ToSet(s) = {s[i] : i \in 1 .. n} /\ ToSet(t) = {t[i] : i \in 1 .. k}
  BY ListFacts
<1>3. ToSet(a) = {a[i] : i \in 1 .. n + k}
  BY <1>1, ListFacts
<1>4. \A i \in 1 .. n + k : i \in 1 .. n \/ (i - n \in 1 .. k /\ n + (i - n) = i)
  BY <1>1
<1>5. /\ \A i \in 1 .. n : i \in 1 .. n + k
      /\ \A i \in 1 .. k : n + i \in 1 .. n + k
  BY <1>1
<1> HIDE DEF a, n, k
<1>6. \A x \in ToSet(a) : x \in ToSet(s) \cup ToSet(t)
  <2> SUFFICES ASSUME NEW i \in 1 .. n + k PROVE a[i] \in ToSet(s) \cup ToSet(t)
    BY <1>3
  <2>1. CASE i \in 1 .. n
    BY <1>1, <1>2, <2>1
  <2>2. CASE i - n \in 1 .. k /\ n + (i - n) = i
    BY <1>1, <1>2, <2>2
  <2> QED
    BY <1>4, <2>1, <2>2
<1>7. \A x \in ToSet(s) \cup ToSet(t) : x \in ToSet(a)
  BY <1>1, <1>2, <1>3, <1>5
<1> QED
  BY <1>1, <1>6, <1>7 DEF a

\* What is kept of a list.
LEMMA KeepFacts ==
  ASSUME NEW V, NEW s \in Seq(V), NEW S
  PROVE  Keep(s, S) \in Seq(V) /\ ToSet(Keep(s, S)) = ToSet(s) \cap S
<1> DEFINE n == Len(s)
           Step(b, i) == IF s[i] \in S THEN Append(b, s[i]) ELSE b
           Passes(p, m) == p = [i \in 0 .. m |-> IF i = 0 THEN <<>> ELSE Step(p[i - 1], i)]
           G == {m \in Nat : \E p : Passes(p, m)}
           kept == CHOOSE p : Passes(p, n)
<1>1. n \in Nat /\ ToSet(s) = {s[i] : i \in 1 .. n} /\ \A i \in 1 .. n : s[i] \in V
  BY ListFacts
<1>2. Keep(s, S) = kept[n]
  BY DEF Keep
<1> HIDE DEF n, Step
<1>3. \A m \in 0 .. n : m \in G
  <2>1. 0 \in G
    <3>1. Passes([i \in 0 .. 0 |-> <<>>], 0)
      OBVIOUS
    <3> QED
      BY <3>1
  <2>2. ASSUME NEW m \in 1 .. n, m - 1 \in G PROVE m \in G
    <3>1. PICK p : Passes(p, m - 1)
      BY <2>2
    <3>2. m \in Nat /\ m - 1 \in 0 .. m - 1 /\ \A i \in 1 .. m : i - 1 \in 0 .. m - 1
      BY <1>1
    <3> DEFINE q == [i \in 0 .. m |-> IF i < m THEN p[i] ELSE Step(p[m - 1], m)]
    <3>3. Passes(q, m)
      BY <3>1, <3>2
    <3> HIDE DEF q
    <3> QED
      BY <3>2, <3>3
  <2> HIDE DEF G
  <2> QED
    BY <1>1, <2>1, <2>2, Upward
<1>4. Passes(kept, n)
  <2>1. \E p : Passes(p, n)
    <3>1. n \in 0 .. n
      BY <1>1
    <3>2. n \in G
      BY <1>3, <3>1
    <3> QED
      BY <3>2
  <2> QED
    BY <2>1
<1> HIDE DEF kept
<1>5. kept[0] = <<>> /\ \A i \in 1 .. n : kept[i] = Step(kept[i - 1], i)
  BY <1>1, <1>4
<1> DEFINE Good(i) == /\ kept[i] \in Seq(V)
                      /\ ToSet(kept[i]) = {s[k] : k \in 1 .. i} \cap S
           U == {i \in 0 .. n : Good(i)}
<1>6. Good(0)
  <2>1. <<>> \in Seq(V) /\ ToSet(<<>>) = {}
    BY EmptySeq, ListFacts
  <2>2. {s[k] : k \in 1 .. 0} = {}
    OBVIOUS
  <2> QED
    BY <1>5, <2>1, <2>2
<1>7. ASSUME NEW i \in 1 .. n, Good(i - 1) PROVE Good(i)
  <2>1. {s[k] : k \in 1 .. i} = {s[k] : k \in 1 .. i - 1} \cup {s[i]}
    <3>1. \A k \in 1 .. i : k \in 1 .. i - 1 \/ k = i
      OBVIOUS
    <3>2. i \in 1 .. i /\ \A k \in 1 .. i - 1 : k \in 1 .. i
      OBVIOUS
    <3> QED
      BY <3>1, <3>2
  <2>2. CASE s[i] \in S
    <3>1. kept[i] = Append(kept[i - 1], s[i])
      BY <1>5, <2>2 DEF Step
    <3>2. s[i] \in V /\ kept[i - 1] \in Seq(V)
      BY <1>1, <1>7
    <3>3. kept[i] \in Seq(V) /\ ToSet(kept[i]) = ToSet(kept[i - 1]) \cup {s[i]}
      BY <3>1, <3>2, ListAppend
    <3> QED
      BY <1>7, <2>1, <2>2, <3>3
  <2>3. CASE s[i] \notin S
    <3>1. kept[i] = kept[i - 1]
      BY <1>5, <2>3 DEF Step
    <3> QED
      BY <1>7, <2>1, <2>3, <3>1
  <2> QED
    BY <2>2, <2>3
<1> HIDE DEF Good
<1>8. \A i \in 0 .. n : i \in U
  <2>1. 0 \in U /\ \A i \in 1 .. n : i - 1 \in U => i \in U
    BY <1>1, <1>6, <1>7
  <2> HIDE DEF U
  <2> QED
    BY <1>1, <2>1, Upward
<1>9. Good(n)
  BY <1>1, <1>8
<1> QED
  BY <1>1, <1>2, <1>9 DEF Good

\* A list to which the new elements of another are appended.
LEMMA AppendNewFacts ==
  ASSUME NEW V, NEW s \in Seq(V), NEW t \in Seq(V)
  PROVE  /\ AppendNew(s, t) \in Seq(V) /\ ToSet(AppendNew(s, t)) = ToSet(s) \cup ToSet(t)
         /\ ToSet(t) \subseteq ToSet(s) => AppendNew(s, t) = s
         /\ IsInjective(s) => IsInjective(AppendNew(s, t))
<1> DEFINE n == Len(t)
           Step(b, i) == IF Contains(b, t[i]) THEN b ELSE Append(b, t[i])
           Passes(p, m) == p = [i \in 0 .. m |-> IF i = 0 THEN s ELSE Step(p[i - 1], i)]
           G == {m \in Nat : \E p : Passes(p, m)}
           joined == CHOOSE p : Passes(p, n)
<1>1. n \in Nat /\ ToSet(t) = {t[i] : i \in 1 .. n} /\ \A i \in 1 .. n : t[i] \in V
  BY ListFacts
<1>2. AppendNew(s, t) = joined[n]
  BY DEF AppendNew
<1> HIDE DEF n, Step
<1>3. \A m \in 0 .. n : m \in G
  <2>1. 0 \in G
    <3>1. Passes([i \in 0 .. 0 |-> s], 0)
      OBVIOUS
    <3> QED
      BY <3>1
  <2>2. ASSUME NEW m \in 1 .. n, m - 1 \in G PROVE m \in G
    <3>1. PICK p : Passes(p, m - 1)
      BY <2>2
    <3>2. m \in Nat /\ m - 1 \in 0 .. m - 1 /\ \A i \in 1 .. m : i - 1 \in 0 .. m - 1
      BY <1>1
    <3> DEFINE q == [i \in 0 .. m |-> IF i < m THEN p[i] ELSE Step(p[m - 1], m)]
    <3>3. Passes(q, m)
      BY <3>1, <3>2
    <3> HIDE DEF q
    <3> QED
      BY <3>2, <3>3
  <2> HIDE DEF G
  <2> QED
    BY <1>1, <2>1, <2>2, Upward
<1>4. Passes(joined, n)
  <2>1. \E p : Passes(p, n)
    <3>1. n \in 0 .. n
      BY <1>1
    <3>2. n \in G
      BY <1>3, <3>1
    <3> QED
      BY <3>2
  <2> QED
    BY <2>1
<1> HIDE DEF joined
<1>5. joined[0] = s /\ \A i \in 1 .. n : joined[i] = Step(joined[i - 1], i)
  BY <1>1, <1>4
<1> DEFINE Good(i) == /\ joined[i] \in Seq(V)
                      /\ ToSet(joined[i]) = ToSet(s) \cup {t[k] : k \in 1 .. i}
                      /\ ToSet(t) \subseteq ToSet(s) => joined[i] = s
                      /\ IsInjective(s) => IsInjective(joined[i])
           U == {i \in 0 .. n : Good(i)}
<1>6. Good(0)
  BY <1>5
<1>7. ASSUME NEW i \in 1 .. n, Good(i - 1) PROVE Good(i)
  <2>1. {t[k] : k \in 1 .. i} = {t[k] : k \in 1 .. i - 1} \cup {t[i]}
    <3>1. \A k \in 1 .. i : k \in 1 .. i - 1 \/ k = i
      OBVIOUS
    <3>2. i \in 1 .. i /\ \A k \in 1 .. i - 1 : k \in 1 .. i
      OBVIOUS
    <3> QED
      BY <3>1, <3>2
  <2>2. t[i] \in V /\ t[i] \in ToSet(t) /\ joined[i - 1] \in Seq(V)
    BY <1>1, <1>7
  <2>3. Contains(joined[i - 1], t[i]) <=> t[i] \in ToSet(joined[i - 1])
    BY <2>2, ListFacts
  <2>4. CASE ~Contains(joined[i - 1], t[i])
    <3>1. joined[i] = Append(joined[i - 1], t[i])
      BY <1>5, <2>4 DEF Step
    <3>2. /\ joined[i] \in Seq(V) /\ ToSet(joined[i]) = ToSet(joined[i - 1]) \cup {t[i]}
          /\ IsInjective(joined[i - 1]) => IsInjective(joined[i])
      BY <2>2, <2>3, <2>4, <3>1, ListAppend
    <3>3. ~(ToSet(t) \subseteq ToSet(s))
      BY <1>7, <2>2, <2>3, <2>4
    <3> QED
      BY <1>7, <2>1, <3>2, <3>3
  <2>5. CASE Contains(joined[i - 1], t[i])
    <3>1. joined[i] = joined[i - 1]
      BY <1>5, <2>5 DEF Step
    <3> QED
      BY <1>7, <2>1, <2>3, <2>5, <3>1
  <2> QED
    BY <2>4, <2>5
<1> HIDE DEF Good
<1>8. \A i \in 0 .. n : i \in U
  <2>1. 0 \in U /\ \A i \in 1 .. n : i - 1 \in U => i \in U
    BY <1>1, <1>6, <1>7
  <2> HIDE DEF U
  <2> QED
    BY <1>1, <2>1, Upward
<1>9. Good(n)
  BY <1>1, <1>8
<1> QED
  BY <1>1, <1>2, <1>9 DEF Good

\* A list of lists, made flat.
LEMMA FlattenFacts ==
  ASSUME NEW V, NEW ss \in Seq(Seq(V))
  PROVE  /\ FlattenSeq(ss) \in Seq(V)
         /\ ToSet(FlattenSeq(ss)) = UNION {ToSet(ss[k]) : k \in 1 .. Len(ss)}
<1> DEFINE n == Len(ss)
           Step(b, i) == b \o ss[i]
           Passes(p, m) == p = [i \in 1 .. m |-> IF i = 1 THEN ss[i] ELSE Step(p[i - 1], i)]
           G == {m \in Nat : \E p : Passes(p, m)}
           flat == CHOOSE p : Passes(p, n)
<1>1. n \in Nat /\ \A i \in 1 .. n : ss[i] \in Seq(V)
  BY ListFacts
<1>2. CASE n = 0
  <2>1. ss = <<>> /\ FlattenSeq(ss) = ss
    BY <1>2, ListFacts DEF FlattenSeq
  <2>2. <<>> \in Seq(V) /\ ToSet(<<>>) = {}
    BY EmptySeq, ListFacts
  <2>3. UNION {ToSet(ss[k]) : k \in 1 .. Len(ss)} = {}
    BY <1>2
  <2> QED
    BY <2>1, <2>2, <2>3
<1>3. CASE n # 0
  <2>1. FlattenSeq(ss) = flat[n]
    BY <1>3 DEF FlattenSeq
  <2> HIDE DEF n, Step
  <2>2. \A m \in 0 .. n : m \in G
    <3>1. 0 \in G
      <4>1. Passes([i \in 1 .. 0 |-> ss], 0)
        OBVIOUS
      <4> QED
        BY <4>1
    <3>2. ASSUME NEW m \in 1 .. n, m - 1 \in G PROVE m \in G
      <4>1. PICK p : Passes(p, m - 1)
        BY <3>2
      <4>2. m \in Nat /\ \A i \in 1 .. m : i # 1 => i - 1 \in 1 .. m - 1
        BY <1>1
      <4> DEFINE q == [i \in 1 .. m |-> IF i < m THEN p[i]
                                        ELSE IF i = 1 THEN ss[i] ELSE Step(p[m - 1], m)]
      <4>3. Passes(q, m)
        BY <4>1, <4>2
      <4> HIDE DEF q
      <4> QED
        BY <4>2, <4>3
    <3> HIDE DEF G
    <3> QED
      BY <1>1, <3>1, <3>2, Upward
  <2>3. Passes(flat, n)
    <3>1. n \in 0 .. n
      BY <1>1
    <3>2. n \in G
      BY <2>2, <3>1
    <3>3. \E p : Passes(p, n)
      BY <3>2
    <3> QED
      BY <3>3
  <2> HIDE DEF flat
  <2>4. flat[1] = ss[1] /\ \A i \in 1 .. n : i # 1 => flat[i] = flat[i - 1] \o ss[i]
    <3>1. 1 \in 1 .. n /\ 1 .. n = DOMAIN flat
      BY <1>1, <1>3, <2>3
    <3>2. \A i \in 1 .. n : flat[i] = IF i = 1 THEN ss[i] ELSE Step(flat[i - 1], i)
      BY <2>3
    <3> QED
      BY <3>1, <3>2 DEF Step
  <2> DEFINE Good(i) == i # 0 => /\ flat[i] \in Seq(V)
                                 /\ ToSet(flat[i]) = UNION {ToSet(ss[k]) : k \in 1 .. i}
             U == {i \in 0 .. n : Good(i)}
  <2>5. ASSUME NEW i \in 1 .. n, Good(i - 1) PROVE Good(i)
    <3> HIDE DEF G
    <3>1. CASE i = 1
      <4>1. UNION {ToSet(ss[k]) : k \in 1 .. 1} = ToSet(ss[1])
        OBVIOUS
      <4> QED
        BY <1>1, <2>4, <3>1, <4>1
    <3>2. CASE i # 1
      <4>1. \A k \in 1 .. i : k \in 1 .. i - 1 \/ k = i
        OBVIOUS
      <4>2. i \in 1 .. i /\ \A k \in 1 .. i - 1 : k \in 1 .. i
        OBVIOUS
      <4>3. UNION {ToSet(ss[k]) : k \in 1 .. i}
              = (UNION {ToSet(ss[k]) : k \in 1 .. i - 1}) \cup ToSet(ss[i])
        <5> DEFINE A == UNION {ToSet(ss[k]) : k \in 1 .. i}
                   B == UNION {ToSet(ss[k]) : k \in 1 .. i - 1}
        <5>1. \A x \in A : x \in B \cup ToSet(ss[i])
          BY <4>1
        <5>2. \A x \in B \cup ToSet(ss[i]) : x \in A
          BY <4>2
        <5> HIDE DEF A, B
        <5>3. A = B \cup ToSet(ss[i])
          BY <5>1, <5>2
        <5> QED
          BY <5>3 DEF A, B
      <4>4. i - 1 # 0 /\ flat[i] = flat[i - 1] \o ss[i]
        <5>1. n \in Nat
          BY <1>1
        <5>2. i - 1 # 0
          BY <3>2, <5>1
        <5> QED
          BY <2>4, <3>2, <5>2
      <4>5. flat[i - 1] \in Seq(V) /\ ss[i] \in Seq(V)
        BY <1>1, <2>5, <4>4
      <4>6. flat[i] \in Seq(V) /\ ToSet(flat[i]) = ToSet(flat[i - 1]) \cup ToSet(ss[i])
        BY <4>4, <4>5, ListConcat
      <4>7. ToSet(flat[i - 1]) = UNION {ToSet(ss[k]) : k \in 1 .. i - 1}
        BY <2>5, <4>4
      <4> QED
        BY <4>3, <4>6, <4>7
    <3> QED
      BY <3>1, <3>2
  <2> HIDE DEF Good
  <2>6. \A i \in 0 .. n : i \in U
    <3>1. 0 \in U
      BY <1>1 DEF Good
    <3>2. \A i \in 1 .. n : i - 1 \in U => i \in U
      BY <2>5
    <3> HIDE DEF U
    <3> QED
      BY <1>1, <3>1, <3>2, Upward
  <2>7. Good(n)
    BY <1>1, <2>6
  <2> QED
    BY <1>3, <2>1, <2>7 DEF Good, n
<1> QED
  BY <1>2, <1>3

\* The list of a set has its elements, each once.
LEMMA OrderFacts ==
  ASSUME NEW S, IsFiniteSet(S)
  PROVE  SetToSeq(S) \in Seq(S) /\ ToSet(SetToSeq(S)) = S
<1> DEFINE n == Cardinality(S)
           D == 1 .. n
           s == SetToSeq(S)
<1>1. n \in Nat /\ ExistsBijection(D, S)
  BY FS_CardinalityType
<1>2. \E f \in [D -> S] : IsInjective(f)
  <2>1. PICK f : f \in Bijection(D, S)
    BY <1>1 DEF ExistsBijection
  <2>2. f \in [D -> S] /\ \A a, b \in D : f[a] = f[b] => a = b
    BY <2>1 DEF Bijection, Injection, Surjection, IsInjective
  <2> QED
    BY <2>2 DEF IsInjective
<1>3. s \in [D -> S] /\ IsInjective(s)
  BY <1>2 DEF SetToSeq
<1> HIDE DEF s
<1>4. s \in Seq(S) /\ Len(s) = n
  BY <1>1, <1>3
<1>5. IsFiniteSet(D) /\ Cardinality(D) = n
  BY <1>1, FS_Interval
<1>6. s \in Injection(D, S)
  BY <1>3 DEF Injection, IsInjective
<1>7. s \in Surjection(D, S)
  BY <1>5, <1>6, FS_Injection
<1>8. \A x \in S : \E i \in D : s[i] = x
  BY <1>7 DEF Surjection
<1> QED
  BY <1>1, <1>3, <1>4, <1>8 DEF ToSet, s

\* The place of an element leads back to it; what is not in the list has none.
LEMMA PlaceFacts ==
  ASSUME NEW V, NEW s \in Seq(V), NEW x
  PROVE  /\ Place(s, x) \in Nat
         /\ x \in ToSet(s) => Place(s, x) \in 1 .. Len(s) /\ s[Place(s, x)] = x
         /\ x \notin ToSet(s) => Place(s, x) = 0
<1> DEFINE I == {i \in 1 .. Len(s) : s[i] = x}
<1>1. Place(s, x) = IF I # {} THEN Min(I) ELSE 0
  BY DEF Place, SelectInSeq
<1>2. Len(s) \in Nat /\ (x \in ToSet(s) <=> I # {})
  BY ListFacts
<1>3. I \in SUBSET Nat
  BY <1>2
<1>4. I # {} => Min(I) \in I
  <2>1. SUFFICES ASSUME I # {} PROVE Min(I) \in I
    OBVIOUS
  <2> HIDE DEF I
  <2>2. \E m \in I : \A k \in I : m <= k
    BY <1>3, <2>1, LeastNumber
  <2> QED
    BY <2>2 DEF Min
<1> QED
  BY <1>1, <1>2, <1>4

-----------------------------------------------------------------------------
(* Objects                                                                 *)

\* Objects of a kind, each under its number.
Objects(Value) == UNION {[D -> Value] : D \in {S \in SUBSET Nat : IsFiniteSet(S)}}

LEMMA ObjectsFacts ==
  ASSUME NEW V, NEW f
  PROVE  f \in Objects(V) <=> /\ DOMAIN f \subseteq Nat /\ IsFiniteSet(DOMAIN f)
                              /\ f \in [DOMAIN f -> V]
BY DEF Objects

\* A new object gets a number that no other has.
LEMMA FreshFacts ==
  ASSUME NEW V, NEW f \in Objects(V), NEW v \in V
  PROVE  /\ Fresh(f) \in Nat \ {0} /\ Fresh(f) \notin DOMAIN f
         /\ With(f, v) \in Objects(V) /\ DOMAIN With(f, v) = DOMAIN f \cup {Fresh(f)}
         /\ With(f, v)[Fresh(f)] = v
<1> DEFINE n == Cardinality(DOMAIN f)
           T == {i \in 1 .. n + 1 : i \notin DOMAIN f}
<1>1. DOMAIN f \subseteq Nat /\ IsFiniteSet(DOMAIN f) /\ f \in [DOMAIN f -> V]
  BY ObjectsFacts
<1>2. n \in Nat
  BY <1>1, FS_CardinalityType
<1>3. T # {}
  <2>1. SUFFICES ASSUME 1 .. n + 1 \subseteq DOMAIN f PROVE FALSE
    OBVIOUS
  <2>2. Cardinality(1 .. n + 1) <= n
    BY <1>1, <2>1, FS_Subset
  <2>3. Cardinality(1 .. n + 1) = n + 1
    BY <1>2, FS_Interval
  <2> QED
    BY <1>2, <2>2, <2>3
<1>4. \E i \in 1 .. n + 1 : i \notin DOMAIN f /\ \A j \in 1 .. i - 1 : j \in DOMAIN f
  <2>1. T \in SUBSET Nat
    BY <1>2
  <2>2. PICK m \in T : \A k \in T : m <= k
    <3> HIDE DEF T
    <3> QED
      BY <1>3, <2>1, LeastNumber
  <2>3. \A j \in 1 .. m - 1 : j \in 1 .. n + 1 /\ ~(m <= j)
    BY <1>2, <2>2
  <2>4. \A j \in 1 .. m - 1 : j \in DOMAIN f
    BY <2>2, <2>3
  <2> QED
    BY <2>2, <2>4
<1>5. Fresh(f) \in 1 .. n + 1 /\ Fresh(f) \notin DOMAIN f
  BY <1>4 DEF Fresh
<1>6. Fresh(f) \in Nat \ {0}
  BY <1>2, <1>5
<1> DEFINE k == Fresh(f)
           w == With(f, v)
<1>7. /\ DOMAIN w = DOMAIN f \cup {k}
      /\ w = [x \in DOMAIN w |-> IF x = k THEN v ELSE f[x]]
  BY DEF With
<1> HIDE DEF k, w
<1>8. IsFiniteSet(DOMAIN f \cup {k})
  BY <1>1, FS_AddElement
<1>9. w \in Objects(V)
  <2>1. \A x \in DOMAIN w : w[x] \in V
    BY <1>1, <1>7
  <2>2. w \in [DOMAIN w -> V]
    BY <1>7, <2>1
  <2>3. DOMAIN w \subseteq Nat
    BY <1>1, <1>6, <1>7 DEF k
  <2> QED
    BY <1>7, <1>8, <2>2, <2>3, ObjectsFacts
<1>10. w[k] = v
  BY <1>7
<1> QED
  BY <1>5, <1>6, <1>7, <1>9, <1>10 DEF k, w

-----------------------------------------------------------------------------
(* The manager and the inductive invariant                                 *)

Name == {InstanceName[p] : p \in Param}

SyscallRec == [context : Context, hooks : SUBSET Call, call_params : Nat]

InstanceRec ==
    [name : Name, call_names : Nat, syscall : Nat,
     param_call_list : UNION {[D -> Nat] : D \in SUBSET Param}]

Manager ==
    [call_lists : Objects(Seq(Call)), call_params : Objects(Seq(Param)),
     syscalls : Objects(SyscallRec), syscall_dict : [Context -> Seq(InstanceRec)],
     trace_all : [Context -> Nat], raised : BOOLEAN]

\* The lists of calls that an instance refers to, and the parameters it serves.
Held(i) == {i.call_names} \cup Range(i.param_call_list)

Params(m, i) == ToSet(ParamsOf(m, i.syscall))

Typed(m) ==
    m \in Manager /\ DefaultParams \in DOMAIN m.call_params /\ NoSyscall \notin DOMAIN m.syscalls

\* Every reference is to an object in use, no two instances of a context have a name or
\* a Syscall in common, and a context that traces all calls has no instance.
Refs(m) ==
    /\ Typed(m)
    /\ \A s \in DOMAIN m.syscalls : m.syscalls[s].call_params \in DOMAIN m.call_params
    /\ \A c \in Context : m.trace_all[c] # NoSyscall =>
          /\ m.trace_all[c] \in DOMAIN m.syscalls
          /\ m.syscalls[m.trace_all[c]].context = c /\ Instances(m, c) = {}
    /\ \A c \in Context : \A i \in Instances(m, c) :
          /\ i.syscall \in DOMAIN m.syscalls /\ m.syscalls[i.syscall].context = c
          /\ Held(i) \subseteq DOMAIN m.call_lists
    /\ \A c \in Context : \A i, j \in Instances(m, c) :
          i.name = j.name \/ i.syscall = j.syscall => i = j

\* No two Syscalls share a list of parameters, unless it is the default value, and no two
\* instances share a list of calls.
Owned(m) ==
    /\ \A s, t \in DOMAIN m.syscalls : s # t =>
          m.syscalls[s].call_params # m.syscalls[t].call_params
              \/ m.syscalls[s].call_params = DefaultParams
    /\ \A c \in Context : \A i \in Instances(m, c) :
          m.syscalls[i.syscall].call_params # DefaultParams
    /\ \A c, d \in Context : \A i \in Instances(m, c), j \in Instances(m, d) :
          i # j => Held(i) \cap Held(j) = {}

\* The calls of an instance are hooked, those of a parameter are among them, and each
\* parameter of its Syscall is one that it records.
Served(m) ==
    /\ ~m.raised
    /\ \A c \in Context : \A i \in Instances(m, c) :
          /\ Calls(m, i.call_names) \subseteq m.syscalls[i.syscall].hooks
          /\ \A p \in DOMAIN i.param_call_list :
                Calls(m, i.param_call_list[p]) \subseteq Calls(m, i.call_names)
          /\ Params(m, i) \subseteq DOMAIN i.param_call_list

\* An instance serves parameters that are asked for, and no other instance serves them.
Asked(m, w) ==
    /\ \A c \in Context : \A i \in Instances(m, c) : Params(m, i) \subseteq w[c]
    /\ \A c \in Context : \A i, j \in Instances(m, c) :
          i # j => Params(m, i) \cap Params(m, j) = {}

\* The invariant in three strengths: whatever is shared, without sharing, and without
\* sharing when dmods keep apart.
Level == 0 .. 2

Inv(m, n, w) ==
    /\ Refs(m)
    /\ n # 0 => Owned(m) /\ Served(m)
    /\ n = 2 => Asked(m, w)

LEMMA Fields ==
  ASSUME NEW m \in Manager
  PROVE  /\ m.call_lists \in Objects(Seq(Call)) /\ m.call_params \in Objects(Seq(Param))
         /\ m.syscalls \in Objects(SyscallRec)
         /\ m.call_lists \in [DOMAIN m.call_lists -> Seq(Call)]
         /\ m.call_params \in [DOMAIN m.call_params -> Seq(Param)]
         /\ m.syscalls \in [DOMAIN m.syscalls -> SyscallRec]
         /\ m.syscall_dict \in [Context -> Seq(InstanceRec)]
         /\ m.trace_all \in [Context -> Nat] /\ m.raised \in BOOLEAN
         /\ \A c \in Context : /\ m.syscall_dict[c] \in Seq(InstanceRec)
                               /\ Instances(m, c) \subseteq InstanceRec
         /\ DOMAIN m.call_lists \subseteq Nat /\ DOMAIN m.call_params \subseteq Nat
         /\ DOMAIN m.syscalls \subseteq Nat
<1>1. /\ m.call_lists \in Objects(Seq(Call)) /\ m.call_params \in Objects(Seq(Param))
      /\ m.syscalls \in Objects(SyscallRec)
      /\ m.syscall_dict \in [Context -> Seq(InstanceRec)]
      /\ m.trace_all \in [Context -> Nat] /\ m.raised \in BOOLEAN
  BY DEF Manager
<1>2. \A c \in Context : /\ m.syscall_dict[c] \in Seq(InstanceRec)
                         /\ Instances(m, c) \subseteq InstanceRec
  BY <1>1, ListFacts DEF Instances
<1>3. /\ m.call_lists \in [DOMAIN m.call_lists -> Seq(Call)] /\ DOMAIN m.call_lists \subseteq Nat
      /\ m.call_params \in [DOMAIN m.call_params -> Seq(Param)] /\ DOMAIN m.call_params \subseteq Nat
      /\ m.syscalls \in [DOMAIN m.syscalls -> SyscallRec] /\ DOMAIN m.syscalls \subseteq Nat
  BY <1>1, ObjectsFacts
<1> QED
  BY <1>1, <1>2, <1>3

\* A manager that has lost Syscalls and instances, and whose lists of parameters shrank.
Less(m, r, n) ==
    /\ Typed(r)
    /\ DOMAIN m.call_lists \subseteq DOMAIN r.call_lists
    /\ DOMAIN m.call_params \subseteq DOMAIN r.call_params
    /\ DOMAIN r.syscalls \subseteq DOMAIN m.syscalls
    /\ \A s \in DOMAIN r.syscalls : r.syscalls[s] = m.syscalls[s]
    /\ \A c \in Context :
          /\ r.trace_all[c] \in {NoSyscall, m.trace_all[c]}
          /\ r.trace_all[c] # NoSyscall => r.trace_all[c] \in DOMAIN r.syscalls
          /\ Instances(r, c) \subseteq Instances(m, c)
          /\ \A i \in Instances(r, c) : i.syscall \in DOMAIN r.syscalls
    /\ n # 0 =>
          /\ ~r.raised
          /\ \A c \in Context : \A i \in Instances(r, c) :
                /\ \A l \in Held(i) : Calls(r, l) = Calls(m, l)
                /\ Params(r, i) \subseteq Params(m, i)

LEMMA LessKeeps ==
  ASSUME NEW m, NEW r, NEW n \in Level, NEW w, Inv(m, n, w), Less(m, r, n)
  PROVE  Inv(r, n, w)
<1>1. Refs(r)
  BY DEF Inv, Refs, Less
<1>2. ASSUME n # 0 PROVE Owned(r) /\ Served(r)
  <2>1. Owned(r)
    BY <1>2 DEF Inv, Refs, Owned, Less
  <2>2. \A c \in Context : \A i \in Instances(r, c) :
           /\ i.call_names \in Held(i)
           /\ \A p \in DOMAIN i.param_call_list : i.param_call_list[p] \in Held(i)
    BY DEF Held, Range
  <2>3. Served(r)
    BY <1>2, <2>2 DEF Inv, Served, Less
  <2> QED
    BY <2>1, <2>3
<1>3. ASSUME n = 2 PROVE Asked(r, w)
  <2>1. \A c \in Context : \A i \in Instances(r, c) :
           i \in Instances(m, c) /\ Params(r, i) \subseteq Params(m, i)
    BY <1>3 DEF Less
  <2> QED
    BY <1>3, <2>1 DEF Inv, Asked
<1> QED
  BY <1>1, <1>2, <1>3 DEF Inv

\* A new or changed instance takes the place of the one of its name.
LEMMA PutFacts ==
  ASSUME NEW m \in Manager, NEW c \in Context, NEW inst \in InstanceRec,
         NEW r, r = PutInstance(m, c, inst)
  PROVE  /\ r \in Manager
         /\ r.call_lists = m.call_lists /\ r.call_params = m.call_params
         /\ r.syscalls = m.syscalls /\ r.trace_all = m.trace_all /\ r.raised = m.raised
         /\ Instances(r, c) = {i \in Instances(m, c) : i.name # inst.name} \cup {inst}
         /\ \A d \in Context \ {c} : Instances(r, d) = Instances(m, d)
<1> DEFINE s == m.syscall_dict[c]
           t == IF \E i \in ToSet(s) : i.name = inst.name
                THEN [k \in 1 .. Len(s) |-> IF s[k].name = inst.name THEN inst ELSE s[k]]
                ELSE Append(s, inst)
<1>1. r = [m EXCEPT !.syscall_dict[c] = t]
  BY DEF PutInstance
<1>2. s \in Seq(InstanceRec) /\ m.syscall_dict \in [Context -> Seq(InstanceRec)]
  BY Fields
<1>3. t \in Seq(InstanceRec) /\ ToSet(t) = {i \in ToSet(s) : i.name # inst.name} \cup {inst}
  <2>1. CASE \E i \in ToSet(s) : i.name = inst.name
    <3> DEFINE u == [k \in 1 .. Len(s) |-> IF s[k].name = inst.name THEN inst ELSE s[k]]
    <3>1. Len(s) \in Nat /\ \A k \in 1 .. Len(s) : s[k] \in InstanceRec
      BY <1>2, ListFacts
    <3>2. u \in Seq(InstanceRec) /\ Len(u) = Len(s) /\ DOMAIN u = 1 .. Len(s)
      BY <3>1
    <3>3. \A x : x \in ToSet(u) <=> \E k \in 1 .. Len(s) : u[k] = x
      BY <3>2 DEF ToSet
    <3>4. \A x : x \in ToSet(s) <=> \E k \in 1 .. Len(s) : s[k] = x
      BY <1>2, ListFacts
    <3>5. \A k \in 1 .. Len(s) : u[k] = IF s[k].name = inst.name THEN inst ELSE s[k]
      OBVIOUS
    <3>6. inst \in ToSet(u)
      BY <2>1, <3>3, <3>4, <3>5
    <3> HIDE DEF u
    <3>7. \A x : x \in ToSet(u) <=> x \in {i \in ToSet(s) : i.name # inst.name} \cup {inst}
      BY <3>3, <3>4, <3>5, <3>6
    <3> QED
      BY <2>1, <3>2, <3>7 DEF u
  <2>2. CASE ~ \E i \in ToSet(s) : i.name = inst.name
    <3>1. Append(s, inst) \in Seq(InstanceRec) /\ ToSet(Append(s, inst)) = ToSet(s) \cup {inst}
      BY <1>2, ListAppend
    <3> QED
      BY <2>2, <3>1
  <2> QED
    BY <2>1, <2>2
<1> HIDE DEF t
<1>4. /\ r \in Manager
      /\ r.call_lists = m.call_lists /\ r.call_params = m.call_params
      /\ r.syscalls = m.syscalls /\ r.trace_all = m.trace_all /\ r.raised = m.raised
      /\ r.syscall_dict = [m.syscall_dict EXCEPT ![c] = t]
  BY <1>1, <1>2, <1>3 DEF Manager
<1>5. r.syscall_dict[c] = t /\ \A d \in Context \ {c} : r.syscall_dict[d] = m.syscall_dict[d]
  BY <1>2, <1>4
<1> QED
  BY <1>3, <1>4, <1>5 DEF Instances

-----------------------------------------------------------------------------
(* Instances and Syscalls that come and go                                 *)

LEMMA StopFacts ==
  ASSUME NEW m \in Manager, NEW gone, NEW r, r = stopTrace(m, gone)
  PROVE  /\ r \in Manager
         /\ r.call_lists = m.call_lists /\ r.call_params = m.call_params
         /\ r.syscall_dict = m.syscall_dict /\ r.trace_all = m.trace_all /\ r.raised = m.raised
         /\ DOMAIN r.syscalls = DOMAIN m.syscalls \ gone
         /\ \A s \in DOMAIN r.syscalls : r.syscalls[s] = m.syscalls[s]
         /\ \A c \in Context : Instances(r, c) = Instances(m, c)
<1> DEFINE D == DOMAIN m.syscalls \ gone
           f == [s \in D |-> m.syscalls[s]]
<1>1. r = [m EXCEPT !.syscalls = f]
  BY DEF stopTrace, Restrict
<1>2. /\ m.syscalls \in [DOMAIN m.syscalls -> SyscallRec] /\ DOMAIN m.syscalls \subseteq Nat
      /\ IsFiniteSet(DOMAIN m.syscalls)
  BY Fields, ObjectsFacts
<1>3. IsFiniteSet(D)
  BY <1>2, FS_Subset
<1>4. DOMAIN f = D /\ f \in [D -> SyscallRec] /\ D \subseteq Nat
  BY <1>2
<1>5. f \in Objects(SyscallRec)
  BY <1>3, <1>4, ObjectsFacts
<1>6. \A s \in D : f[s] = m.syscalls[s]
  OBVIOUS
<1> HIDE DEF f
<1>7. /\ r \in Manager
      /\ r.call_lists = m.call_lists /\ r.call_params = m.call_params
      /\ r.syscall_dict = m.syscall_dict /\ r.trace_all = m.trace_all /\ r.raised = m.raised
      /\ r.syscalls = f
  BY <1>1, <1>5 DEF Manager
<1> QED
  BY <1>4, <1>6, <1>7 DEF Instances

LEMMA DelFacts ==
  ASSUME NEW m \in Manager, NEW c \in Context, NEW names, NEW r, r = DelInstance(m, c, names)
  PROVE  /\ r \in Manager
         /\ r.call_lists = m.call_lists /\ r.call_params = m.call_params
         /\ r.syscalls = m.syscalls /\ r.trace_all = m.trace_all /\ r.raised = m.raised
         /\ Instances(r, c) = {i \in Instances(m, c) : i.name \notin names}
         /\ \A d \in Context \ {c} : Instances(r, d) = Instances(m, d)
<1> DEFINE s == m.syscall_dict[c]
           S == {i \in ToSet(s) : i.name \notin names}
           t == Keep(s, S)
<1>1. r = [m EXCEPT !.syscall_dict[c] = t]
  BY DEF DelInstance
<1>2. s \in Seq(InstanceRec) /\ m.syscall_dict \in [Context -> Seq(InstanceRec)]
  BY Fields
<1>3. t \in Seq(InstanceRec) /\ ToSet(t) = ToSet(s) \cap S
  BY <1>2, KeepFacts
<1> HIDE DEF t
<1>4. /\ r \in Manager
      /\ r.call_lists = m.call_lists /\ r.call_params = m.call_params
      /\ r.syscalls = m.syscalls /\ r.trace_all = m.trace_all /\ r.raised = m.raised
      /\ r.syscall_dict = [m.syscall_dict EXCEPT ![c] = t]
  BY <1>1, <1>2, <1>3 DEF Manager
<1>5. r.syscall_dict[c] = t /\ \A d \in Context \ {c} : r.syscall_dict[d] = m.syscall_dict[d]
  BY <1>2, <1>4
<1> QED
  BY <1>3, <1>4, <1>5 DEF Instances

\* The instances found are gone with their Syscalls, and nothing else is.
LEMMA RetiredFacts ==
  ASSUME NEW m, Refs(m), NEW c \in Context, NEW found \in Seq(InstanceRec),
         \A f \in ToSet(found) :
             \E i \in Instances(m, c) : i.name = f.name /\ i.syscall = f.syscall,
         NEW r, r = Retired(m, c, found)
  PROVE  /\ r.call_lists = m.call_lists /\ r.call_params = m.call_params
         /\ r.trace_all = m.trace_all /\ r.raised = m.raised
         /\ \A s \in DOMAIN r.syscalls : s \in DOMAIN m.syscalls /\ r.syscalls[s] = m.syscalls[s]
         /\ Instances(r, c) = {i \in Instances(m, c) : \A f \in ToSet(found) : i.name # f.name}
         /\ \A d \in Context \ {c} : Instances(r, d) = Instances(m, d)
         /\ \A n \in Level : (n # 0 => ~m.raised) => Less(m, r, n)
<1> DEFINE gone == {i.syscall : i \in ToSet(found)}
           names == {i.name : i \in ToSet(found)}
           s1 == stopTrace(m, gone)
<1>1. m \in Manager /\ r = DelInstance(s1, c, names)
  BY DEF Retired, Refs, Typed
<1>2. /\ s1 \in Manager
      /\ s1.call_lists = m.call_lists /\ s1.call_params = m.call_params
      /\ s1.trace_all = m.trace_all /\ s1.raised = m.raised
      /\ DOMAIN s1.syscalls = DOMAIN m.syscalls \ gone
      /\ \A s \in DOMAIN s1.syscalls : s1.syscalls[s] = m.syscalls[s]
      /\ \A d \in Context : Instances(s1, d) = Instances(m, d)
  BY <1>1, StopFacts
<1> HIDE DEF s1
<1>3. /\ r \in Manager
      /\ r.call_lists = m.call_lists /\ r.call_params = m.call_params
      /\ r.syscalls = s1.syscalls /\ r.trace_all = m.trace_all /\ r.raised = m.raised
      /\ Instances(r, c) = {i \in Instances(m, c) : i.name \notin names}
      /\ \A d \in Context \ {c} : Instances(r, d) = Instances(m, d)
  BY <1>1, <1>2, DelFacts
<1>4. Instances(r, c) = {i \in Instances(m, c) : \A f \in ToSet(found) : i.name # f.name}
  BY <1>3
<1>5. \A i \in Instances(r, c) : i.syscall \in DOMAIN r.syscalls
  <2> SUFFICES ASSUME NEW i \in Instances(r, c), NEW f \in ToSet(found), i.syscall = f.syscall
               PROVE FALSE
    BY <1>2, <1>3, <1>4 DEF Refs
  <2>1. PICK j \in Instances(m, c) : j.name = f.name /\ j.syscall = f.syscall
    OBVIOUS
  <2>2. i \in Instances(m, c) /\ i.name # f.name
    BY <1>4
  <2> QED
    BY <2>1, <2>2 DEF Refs
<1>6. \A d \in Context \ {c} : \A i \in Instances(r, d) : i.syscall \in DOMAIN r.syscalls
  <2> SUFFICES ASSUME NEW d \in Context \ {c}, NEW i \in Instances(m, d),
                      NEW f \in ToSet(found), i.syscall = f.syscall
               PROVE FALSE
    BY <1>2, <1>3 DEF Refs
  <2>1. PICK j \in Instances(m, c) : j.name = f.name /\ j.syscall = f.syscall
    OBVIOUS
  <2> QED
    BY <2>1 DEF Refs
<1>7. \A d \in Context : r.trace_all[d] # NoSyscall => r.trace_all[d] \in DOMAIN r.syscalls
  <2> SUFFICES ASSUME NEW d \in Context, m.trace_all[d] # NoSyscall,
                      NEW f \in ToSet(found), m.trace_all[d] = f.syscall
               PROVE FALSE
    BY <1>2, <1>3 DEF Refs
  <2>1. PICK j \in Instances(m, c) : j.name = f.name /\ j.syscall = f.syscall
    OBVIOUS
  <2> QED
    BY <2>1 DEF Refs
<1>8. \A d \in Context : \A i \in Instances(r, d) : i \in Instances(m, d)
  BY <1>3, <1>4
<1>9. \A s \in DOMAIN r.syscalls : s \in DOMAIN m.syscalls /\ r.syscalls[s] = m.syscalls[s]
  BY <1>2, <1>3
<1>10. ASSUME NEW n \in Level, n # 0 => ~m.raised PROVE Less(m, r, n)
  <2>1. Typed(r)
    BY <1>2, <1>3 DEF Typed, Refs
  <2>2. \A d \in Context : \A i \in Instances(r, d) : i.syscall \in DOMAIN r.syscalls
    BY <1>5, <1>6
  <2>3. \A d \in Context : \A i \in Instances(r, d) :
           /\ \A l \in Held(i) : Calls(r, l) = Calls(m, l)
           /\ Params(r, i) = Params(m, i)
    BY <1>3, <1>9, <2>2 DEF Calls, Params, ParamsOf
  <2> QED
    BY <1>3, <1>7, <1>8, <1>9, <1>10, <2>1, <2>2, <2>3 DEF Less
<1> QED
  BY <1>3, <1>4, <1>9, <1>10

\* One object of a kind is changed.
LEMMA ObjectsUpdate ==
  ASSUME NEW V, NEW f \in Objects(V), NEW k \in DOMAIN f, NEW v \in V,
         NEW g, g = [f EXCEPT ![k] = v]
  PROVE  g \in Objects(V) /\ DOMAIN g = DOMAIN f
<1>1. DOMAIN f \subseteq Nat /\ IsFiniteSet(DOMAIN f) /\ f \in [DOMAIN f -> V]
  BY ObjectsFacts
<1>2. DOMAIN g = DOMAIN f /\ g \in [DOMAIN f -> V]
  BY <1>1
<1> QED
  BY <1>1, <1>2, ObjectsFacts

\* The list of parameters of a Syscall is changed.
LEMMA ParamsFacts ==
  ASSUME NEW m \in Manager, NEW l \in DOMAIN m.call_params, NEW v \in Seq(Param),
         NEW r, r = [m EXCEPT !.call_params[l] = v]
  PROVE  /\ r \in Manager /\ r.call_lists = m.call_lists /\ r.syscalls = m.syscalls
         /\ r.trace_all = m.trace_all /\ r.raised = m.raised
         /\ DOMAIN r.call_params = DOMAIN m.call_params /\ r.call_params[l] = v
         /\ \A x \in DOMAIN m.call_params : x # l => r.call_params[x] = m.call_params[x]
         /\ \A c \in Context : Instances(r, c) = Instances(m, c)
<1> DEFINE g == [m.call_params EXCEPT ![l] = v]
<1>1. r = [m EXCEPT !.call_params = g]
  OBVIOUS
<1>2. m.call_params \in Objects(Seq(Param))
  BY Fields
<1>3. g \in Objects(Seq(Param)) /\ DOMAIN g = DOMAIN m.call_params
  BY <1>2, ObjectsUpdate
<1>5. g[l] = v /\ \A x \in DOMAIN m.call_params : x # l => g[x] = m.call_params[x]
  OBVIOUS
<1> HIDE DEF g
<1>4. /\ r \in Manager /\ r.call_lists = m.call_lists /\ r.syscalls = m.syscalls
      /\ r.trace_all = m.trace_all /\ r.raised = m.raised /\ r.call_params = g
      /\ r.syscall_dict = m.syscall_dict
  BY <1>1, <1>3 DEF Manager
<1> QED
  BY <1>3, <1>4, <1>5 DEF Instances

\* A new Syscall for the calls of a list, and the instance that records it.
LEMMA NewInstanceFacts ==
  ASSUME NEW m, Typed(m), NEW c \in Context, NEW name \in Name,
         NEW list \in DOMAIN m.call_lists, NEW params \in DOMAIN m.call_params,
         NEW r, r = NewInstance(m, c, name, list, params)
  PROVE  \E s \in Nat, inst \in InstanceRec :
           /\ Typed(r) /\ r.call_lists = m.call_lists /\ r.call_params = m.call_params
           /\ r.trace_all = m.trace_all /\ r.raised = m.raised
           /\ s \notin DOMAIN m.syscalls /\ DOMAIN r.syscalls = DOMAIN m.syscalls \cup {s}
           /\ r.syscalls[s] = [context |-> c, hooks |-> Calls(m, list), call_params |-> params]
           /\ \A t \in DOMAIN m.syscalls : r.syscalls[t] = m.syscalls[t]
           /\ inst.name = name /\ inst.call_names = list /\ inst.syscall = s
           /\ inst.param_call_list = [p \in ToSet(m.call_params[params]) |-> list]
           /\ Instances(r, c) = {i \in Instances(m, c) : i.name # name} \cup {inst}
           /\ \A d \in Context \ {c} : Instances(r, d) = Instances(m, d)
<1> DEFINE sys == m.syscalls
           s == Fresh(sys)
           rec == [context |-> c, hooks |-> Calls(m, list), call_params |-> params]
           w == With(sys, rec)
           m1 == [m EXCEPT !.syscalls = w]
           record == [p \in ToSet(m.call_params[params]) |-> list]
           inst == [name |-> name, call_names |-> list, syscall |-> s,
                    param_call_list |-> record]
<1> HIDE DEF sys, rec, record
<1>1. m \in Manager /\ m.syscalls \in Objects(SyscallRec)
  BY Fields DEF Typed
<1>0. r = PutInstance(m1, c, inst)
  BY DEF NewInstance, sys, rec, record
<1>2. /\ m.call_lists \in [DOMAIN m.call_lists -> Seq(Call)] /\ DOMAIN m.call_lists \subseteq Nat
      /\ m.call_params \in [DOMAIN m.call_params -> Seq(Param)] /\ DOMAIN m.call_params \subseteq Nat
  BY <1>1, Fields
<1>3. Calls(m, list) \subseteq Call /\ ToSet(m.call_params[params]) \subseteq Param
  BY <1>2, ListFacts DEF Calls
<1>4. rec \in SyscallRec
  BY <1>2, <1>3 DEF SyscallRec, rec
<1>5. /\ s \in Nat \ {0} /\ s \notin DOMAIN m.syscalls
      /\ w \in Objects(SyscallRec) /\ DOMAIN w = DOMAIN m.syscalls \cup {s}
      /\ w[s] = rec /\ \A t \in DOMAIN m.syscalls : w[t] = m.syscalls[t]
  <2>1. sys \in Objects(SyscallRec)
    BY <1>1 DEF sys
  <2>2. /\ s \in Nat \ {0} /\ s \notin DOMAIN sys
        /\ w \in Objects(SyscallRec) /\ DOMAIN w = DOMAIN sys \cup {s}
        /\ w[s] = rec
    BY <1>4, <2>1, FreshFacts
  <2>3. w = [t \in DOMAIN sys \cup {s} |-> IF t = s THEN rec ELSE sys[t]]
    BY DEF With
  <2> HIDE DEF s, w
  <2> QED
    BY <2>2, <2>3 DEF sys
<1> HIDE DEF s, w
<1>6. record \in UNION {[D -> Nat] : D \in SUBSET Param}
  <2>1. record \in [ToSet(m.call_params[params]) -> Nat]
    BY <1>2 DEF record
  <2> QED
    BY <1>3, <2>1
<1>7. inst \in InstanceRec
  BY <1>2, <1>5, <1>6 DEF InstanceRec
<1>8. /\ inst.name = name /\ inst.call_names = list /\ inst.syscall = s
      /\ inst.param_call_list = record
  OBVIOUS
<1> HIDE DEF inst
<1>9. /\ m1 \in Manager /\ m1.call_lists = m.call_lists /\ m1.call_params = m.call_params
      /\ m1.trace_all = m.trace_all /\ m1.raised = m.raised /\ m1.syscalls = w
      /\ m1.syscall_dict = m.syscall_dict
  BY <1>1, <1>5 DEF Manager
<1> HIDE DEF m1
<1>10. \A d \in Context : Instances(m1, d) = Instances(m, d)
  BY <1>9 DEF Instances
<1>11. /\ r \in Manager
       /\ r.call_lists = m.call_lists /\ r.call_params = m.call_params
       /\ r.syscalls = w /\ r.trace_all = m.trace_all /\ r.raised = m.raised
       /\ Instances(r, c) = {i \in Instances(m, c) : i.name # inst.name} \cup {inst}
       /\ \A d \in Context \ {c} : Instances(r, d) = Instances(m, d)
  BY <1>0, <1>7, <1>9, <1>10, PutFacts
<1>12. Typed(r)
  BY <1>5, <1>11 DEF Typed, NoSyscall
<1>13. s \in Nat
  BY <1>5
<1> QED
  BY <1>5, <1>7, <1>8, <1>11, <1>12, <1>13 DEF rec, record

\* There is room for parameters in an instance: their lists are served by it and held by
\* no other, and no other instance of its context serves them.
Room(m, n, c, name, L, P, w) ==
    /\ \E i \in Instances(m, c) : i.name = name
    /\ L \subseteq DOMAIN m.call_lists
    /\ n # 0 =>
          /\ \A i \in Instances(m, c) : i.name = name =>
                \A l \in L : Calls(m, l) \subseteq Calls(m, i.call_names)
          /\ \A d \in Context : \A k \in Instances(m, d) :
                (d = c /\ k.name = name) \/ Held(k) \cap L = {}
    /\ n = 2 =>
          /\ P \subseteq w[c]
          /\ \A k \in Instances(m, c) : k.name = name \/ Params(m, k) \cap P = {}

\* There is room for a new instance, which may take the place of one of its name.
Vacant(m, n, c, name, list, params, L, P, w) ==
    /\ list \in L /\ L \subseteq DOMAIN m.call_lists
    /\ params \in DOMAIN m.call_params /\ ToSet(m.call_params[params]) \subseteq P
    /\ m.trace_all[c] = NoSyscall
    /\ n # 0 =>
          /\ params # DefaultParams
          /\ \A s \in DOMAIN m.syscalls : m.syscalls[s].call_params # params
          /\ \A l \in L : Calls(m, l) \subseteq Calls(m, list)
          /\ \A d \in Context : \A k \in Instances(m, d) :
                (d = c /\ k.name = name) \/ Held(k) \cap L = {}
    /\ n = 2 =>
          /\ P \subseteq w[c]
          /\ \A k \in Instances(m, c) : k.name = name \/ Params(m, k) \cap P = {}

LEMMA NewInstanceKeeps ==
  ASSUME NEW m, NEW n \in Level, NEW w, Inv(m, n, w), NEW c \in Context, NEW name \in Name,
         NEW list, NEW params, NEW L, NEW P, Vacant(m, n, c, name, list, params, L, P, w),
         NEW r, r = NewInstance(m, c, name, list, params)
  PROVE  /\ Inv(r, n, w) /\ Room(r, n, c, name, L, P, w)
         /\ r.call_lists = m.call_lists /\ r.call_params = m.call_params
<1>1. Typed(m) /\ list \in DOMAIN m.call_lists /\ params \in DOMAIN m.call_params
  BY DEF Inv, Refs, Vacant
<1>2. PICK s \in Nat, inst \in InstanceRec :
        /\ Typed(r) /\ r.call_lists = m.call_lists /\ r.call_params = m.call_params
        /\ r.trace_all = m.trace_all /\ r.raised = m.raised
        /\ s \notin DOMAIN m.syscalls /\ DOMAIN r.syscalls = DOMAIN m.syscalls \cup {s}
        /\ r.syscalls[s] = [context |-> c, hooks |-> Calls(m, list), call_params |-> params]
        /\ \A t \in DOMAIN m.syscalls : r.syscalls[t] = m.syscalls[t]
        /\ inst.name = name /\ inst.call_names = list /\ inst.syscall = s
        /\ inst.param_call_list = [p \in ToSet(m.call_params[params]) |-> list]
        /\ Instances(r, c) = {i \in Instances(m, c) : i.name # name} \cup {inst}
        /\ \A d \in Context \ {c} : Instances(r, d) = Instances(m, d)
  BY <1>1, NewInstanceFacts
<1>3. Held(inst) = {list}
  BY <1>2 DEF Held, Range
<1>4. \A d \in Context : \A i \in Instances(r, d) :
         (d = c /\ i = inst) \/ (i \in Instances(m, d) /\ ~(d = c /\ i.name = name))
  BY <1>2
<1>5. \A l : Calls(r, l) = Calls(m, l)
  BY <1>2 DEF Calls
<1>6. \A d \in Context : \A i \in Instances(m, d) : Params(r, i) = Params(m, i)
  BY <1>2 DEF Params, ParamsOf, Inv, Refs
<1>7. Params(r, inst) = ToSet(m.call_params[params])
  BY <1>2 DEF Params, ParamsOf
<1>8. Refs(r)
  <2>1. \A t \in DOMAIN r.syscalls : r.syscalls[t].call_params \in DOMAIN r.call_params
    BY <1>1, <1>2 DEF Inv, Refs
  <2>2. \A d \in Context : r.trace_all[d] # NoSyscall =>
           /\ r.trace_all[d] \in DOMAIN r.syscalls
           /\ r.syscalls[r.trace_all[d]].context = d /\ Instances(r, d) = {}
    BY <1>2 DEF Inv, Refs, Vacant
  <2>3. \A d \in Context : \A i \in Instances(r, d) :
           /\ i.syscall \in DOMAIN r.syscalls /\ r.syscalls[i.syscall].context = d
           /\ Held(i) \subseteq DOMAIN r.call_lists
    BY <1>1, <1>2, <1>3, <1>4 DEF Inv, Refs
  <2>4. \A d \in Context : \A i, j \in Instances(r, d) :
           i.name = j.name \/ i.syscall = j.syscall => i = j
    BY <1>2, <1>4 DEF Inv, Refs
  <2> QED
    BY <1>2, <2>1, <2>2, <2>3, <2>4 DEF Refs
<1>9. ASSUME n # 0 PROVE Owned(r) /\ Served(r)
  <2>1. \A t, u \in DOMAIN r.syscalls : t # u =>
           r.syscalls[t].call_params # r.syscalls[u].call_params
               \/ r.syscalls[t].call_params = DefaultParams
    BY <1>2, <1>9 DEF Inv, Owned, Vacant
  <2>2. \A d \in Context : \A i \in Instances(r, d) :
           r.syscalls[i.syscall].call_params # DefaultParams
    BY <1>2, <1>4, <1>9 DEF Inv, Refs, Owned, Vacant
  <2>3. \A d, e \in Context : \A i \in Instances(r, d), j \in Instances(r, e) :
           i # j => Held(i) \cap Held(j) = {}
    BY <1>3, <1>4, <1>9 DEF Inv, Owned, Vacant
  <2>4. \A d \in Context : \A i \in Instances(r, d) :
          /\ Calls(r, i.call_names) \subseteq r.syscalls[i.syscall].hooks
          /\ \A p \in DOMAIN i.param_call_list :
                Calls(r, i.param_call_list[p]) \subseteq Calls(r, i.call_names)
          /\ Params(r, i) \subseteq DOMAIN i.param_call_list
    <3> SUFFICES ASSUME NEW d \in Context, NEW i \in Instances(r, d)
                 PROVE  /\ Calls(r, i.call_names) \subseteq r.syscalls[i.syscall].hooks
                        /\ \A p \in DOMAIN i.param_call_list :
                              Calls(r, i.param_call_list[p]) \subseteq Calls(r, i.call_names)
                        /\ Params(r, i) \subseteq DOMAIN i.param_call_list
      OBVIOUS
    <3>1. CASE i = inst
      BY <1>2, <1>5, <1>7, <3>1
    <3>2. CASE i \in Instances(m, d)
      <4>1. i.syscall \in DOMAIN m.syscalls /\ r.syscalls[i.syscall] = m.syscalls[i.syscall]
        BY <1>2, <3>2 DEF Inv, Refs
      <4>2. Params(r, i) = Params(m, i)
        BY <1>6, <3>2
      <4>3. Served(m)
        BY <1>9 DEF Inv
      <4> QED
        BY <1>5, <3>2, <4>1, <4>2, <4>3 DEF Served
    <3> QED
      BY <1>4, <3>1, <3>2
  <2> QED
    BY <1>2, <1>9, <2>1, <2>2, <2>3, <2>4 DEF Inv, Owned, Served
<1>10. ASSUME n = 2 PROVE Asked(r, w)
  BY <1>4, <1>6, <1>7, <1>10 DEF Inv, Asked, Vacant
<1>11. Room(r, n, c, name, L, P, w)
  BY <1>2, <1>4, <1>5, <1>6 DEF Vacant, Room
<1> QED
  BY <1>2, <1>8, <1>9, <1>10, <1>11 DEF Inv

\* What becomes of an instance that takes on parameters, which get one list: it takes on
\* the calls of that list, too.
Added(m, r, c, name, list, params, inst, new) ==
    LET cn == inst.call_names
        l == m.syscalls[inst.syscall].call_params
    IN  /\ r \in Manager /\ r.syscalls = m.syscalls
        /\ r.trace_all = m.trace_all /\ r.raised = m.raised
        /\ inst.name = name
        /\ new.name = name /\ new.call_names = cn /\ new.syscall = inst.syscall
        /\ DOMAIN new.param_call_list = DOMAIN inst.param_call_list \cup ToSet(params)
        /\ \A p \in DOMAIN new.param_call_list :
              new.param_call_list[p] = IF p \in DOMAIN inst.param_call_list
                                       THEN inst.param_call_list[p] ELSE list
        /\ DOMAIN r.call_lists = DOMAIN m.call_lists
        /\ r.call_lists[cn] = AppendNew(m.call_lists[cn], m.call_lists[list])
        /\ \A x \in DOMAIN m.call_lists : x # cn => r.call_lists[x] = m.call_lists[x]
        /\ DOMAIN r.call_params = DOMAIN m.call_params
        /\ r.call_params[l] = AppendNew(m.call_params[l], params)
        /\ \A x \in DOMAIN m.call_params : x # l => r.call_params[x] = m.call_params[x]
        /\ Instances(r, c) = {i \in Instances(m, c) : i.name # name} \cup {new}
        /\ \A d \in Context \ {c} : Instances(r, d) = Instances(m, d)

LEMMA AddFacts ==
  ASSUME NEW m, Refs(m), NEW c \in Context, NEW name, \E i \in Instances(m, c) : i.name = name,
         NEW list \in DOMAIN m.call_lists, NEW params \in Seq(Param),
         NEW r, r = addCallParams(m, c, name, params, list)
  PROVE  \E inst \in Instances(m, c), new \in InstanceRec :
             Added(m, r, c, name, list, params, inst, new)
<1> DEFINE inst == Instance(m, c, name)
           cn == inst.call_names
           l == m.syscalls[inst.syscall].call_params
           old == inst.param_call_list
           record == [p \in DOMAIN old \cup ToSet(params) |->
                         IF p \in DOMAIN old THEN old[p] ELSE list]
           new == [inst EXCEPT !.param_call_list = record]
           names == AppendNew(m.call_lists[cn], m.call_lists[list])
           lists == [m.call_lists EXCEPT ![cn] = names]
           m1 == [m EXCEPT !.call_lists = lists]
           m2 == PutInstance(m1, c, new)
           more == AppendNew(m.call_params[l], params)
<1>1. m \in Manager /\ inst \in Instances(m, c) /\ inst.name = name
  BY DEF Instance, Refs, Typed
<1>2. /\ inst \in InstanceRec /\ inst.syscall \in DOMAIN m.syscalls
      /\ cn \in DOMAIN m.call_lists /\ l \in DOMAIN m.call_params
  BY <1>1, Fields DEF Refs, Held
<1>3. r = SyscallAddCallParams(m2, inst.syscall, params)
  BY DEF addCallParams
<1> HIDE DEF inst
<1>4. /\ m.call_lists \in Objects(Seq(Call)) /\ m.call_lists[cn] \in Seq(Call)
      /\ m.call_lists[list] \in Seq(Call) /\ m.call_params[l] \in Seq(Param)
      /\ list \in Nat /\ m.call_params \in Objects(Seq(Param))
  BY <1>1, <1>2, Fields
<1>5. names \in Seq(Call) /\ more \in Seq(Param)
  BY <1>4, AppendNewFacts
<1> HIDE DEF names, more
<1>6. /\ lists \in Objects(Seq(Call)) /\ DOMAIN lists = DOMAIN m.call_lists /\ lists[cn] = names
      /\ \A x \in DOMAIN m.call_lists : x # cn => lists[x] = m.call_lists[x]
  <2> DEFINE old_lists == m.call_lists
  <2>1. old_lists \in Objects(Seq(Call)) /\ cn \in DOMAIN old_lists
    BY <1>2, <1>4
  <2> HIDE DEF old_lists
  <2>2. \A g : g = [old_lists EXCEPT ![cn] = names] =>
          g \in Objects(Seq(Call)) /\ DOMAIN g = DOMAIN old_lists
    BY <1>5, <2>1, ObjectsUpdate
  <2> QED
    BY <1>2, <2>2 DEF old_lists
<1> HIDE DEF lists
<1>7. /\ m1 \in Manager /\ m1.call_lists = lists /\ m1.call_params = m.call_params
      /\ m1.syscalls = m.syscalls /\ m1.trace_all = m.trace_all /\ m1.raised = m.raised
      /\ m1.syscall_dict = m.syscall_dict
  BY <1>1, <1>6 DEF Manager
<1>8. m2 = PutInstance(m1, c, new)
  OBVIOUS
<1> HIDE DEF m1
<1>9. \A d \in Context : Instances(m1, d) = Instances(m, d)
  BY <1>7 DEF Instances
<1>10. /\ old \in [DOMAIN old -> Nat] /\ DOMAIN old \subseteq Param /\ ToSet(params) \subseteq Param
  BY <1>2, ListFacts DEF InstanceRec
<1>11. /\ DOMAIN record = DOMAIN old \cup ToSet(params)
       /\ \A p \in DOMAIN record : record[p] = IF p \in DOMAIN old THEN old[p] ELSE list
       /\ record \in [DOMAIN old \cup ToSet(params) -> Nat]
  BY <1>4, <1>10
<1> HIDE DEF record
<1>12. record \in UNION {[D -> Nat] : D \in SUBSET Param}
  BY <1>10, <1>11
<1>13. /\ new \in InstanceRec /\ new.name = name /\ new.call_names = cn
       /\ new.syscall = inst.syscall /\ new.param_call_list = record
  BY <1>1, <1>2, <1>12 DEF InstanceRec
<1> HIDE DEF new
<1>14. /\ m2 \in Manager
       /\ m2.call_lists = lists /\ m2.call_params = m.call_params
       /\ m2.syscalls = m.syscalls /\ m2.trace_all = m.trace_all /\ m2.raised = m.raised
       /\ Instances(m2, c) = {i \in Instances(m, c) : i.name # name} \cup {new}
       /\ \A d \in Context \ {c} : Instances(m2, d) = Instances(m, d)
  BY <1>7, <1>8, <1>9, <1>13, PutFacts
<1> HIDE DEF m2
<1>15. r = [m2 EXCEPT !.call_params[l] = more]
  BY <1>3, <1>14 DEF SyscallAddCallParams, more
<1>16. l \in DOMAIN m2.call_params
  BY <1>2, <1>14
<1>17. /\ r \in Manager /\ r.call_lists = m2.call_lists /\ r.syscalls = m2.syscalls
       /\ r.trace_all = m2.trace_all /\ r.raised = m2.raised
       /\ DOMAIN r.call_params = DOMAIN m2.call_params /\ r.call_params[l] = more
       /\ \A x \in DOMAIN m2.call_params : x # l => r.call_params[x] = m2.call_params[x]
       /\ \A d \in Context : Instances(r, d) = Instances(m2, d)
  BY <1>5, <1>14, <1>15, <1>16, ParamsFacts
<1> HIDE DEF old
<1>18. inst \in Instances(m, c) /\ new \in InstanceRec
  BY <1>1, <1>13
<1>19. DOMAIN new.param_call_list = DOMAIN inst.param_call_list \cup ToSet(params)
  BY <1>11, <1>13 DEF old
<1>20. \A p \in DOMAIN new.param_call_list :
          new.param_call_list[p] = IF p \in DOMAIN inst.param_call_list
                                   THEN inst.param_call_list[p] ELSE list
  BY <1>11, <1>13 DEF old
<1>21. /\ DOMAIN r.call_lists = DOMAIN m.call_lists
       /\ r.call_lists[cn] = AppendNew(m.call_lists[cn], m.call_lists[list])
       /\ \A x \in DOMAIN m.call_lists : x # cn => r.call_lists[x] = m.call_lists[x]
  BY <1>6, <1>14, <1>17 DEF names
<1>22. /\ DOMAIN r.call_params = DOMAIN m.call_params
       /\ r.call_params[l] = AppendNew(m.call_params[l], params)
       /\ \A x \in DOMAIN m.call_params : x # l => r.call_params[x] = m.call_params[x]
  BY <1>14, <1>17 DEF more
<1>23. Added(m, r, c, name, list, params, inst, new)
  BY <1>1, <1>13, <1>14, <1>17, <1>19, <1>20, <1>21, <1>22 DEF Added
<1> QED
  BY <1>18, <1>23

LEMMA AddKeeps ==
  ASSUME NEW m, NEW n \in Level, NEW w, Inv(m, n, w), NEW c \in Context, NEW name,
         NEW L, NEW P, Room(m, n, c, name, L, P, w),
         NEW list \in L, NEW params \in Seq(Param), ToSet(params) \subseteq P,
         NEW r, r = addCallParams(m, c, name, params, list)
  PROVE  /\ Inv(r, n, w) /\ Room(r, n, c, name, L, P, w)
         /\ DOMAIN r.call_lists = DOMAIN m.call_lists
         /\ DOMAIN r.call_params = DOMAIN m.call_params
<1>1. /\ Refs(m) /\ (\E i \in Instances(m, c) : i.name = name)
      /\ list \in DOMAIN m.call_lists
  BY DEF Inv, Room
<1>2. PICK inst \in Instances(m, c), new \in InstanceRec :
        Added(m, r, c, name, list, params, inst, new)
  BY <1>1, AddFacts
<1> DEFINE cn == inst.call_names
           l == m.syscalls[inst.syscall].call_params
<1>0. /\ r \in Manager /\ r.syscalls = m.syscalls
      /\ r.trace_all = m.trace_all /\ r.raised = m.raised
      /\ inst.name = name
      /\ new.name = name /\ new.call_names = cn /\ new.syscall = inst.syscall
      /\ DOMAIN new.param_call_list = DOMAIN inst.param_call_list \cup ToSet(params)
      /\ \A p \in DOMAIN new.param_call_list :
            new.param_call_list[p] = IF p \in DOMAIN inst.param_call_list
                                     THEN inst.param_call_list[p] ELSE list
      /\ DOMAIN r.call_lists = DOMAIN m.call_lists
      /\ r.call_lists[cn] = AppendNew(m.call_lists[cn], m.call_lists[list])
      /\ \A x \in DOMAIN m.call_lists : x # cn => r.call_lists[x] = m.call_lists[x]
      /\ DOMAIN r.call_params = DOMAIN m.call_params
      /\ r.call_params[l] = AppendNew(m.call_params[l], params)
      /\ \A x \in DOMAIN m.call_params : x # l => r.call_params[x] = m.call_params[x]
      /\ Instances(r, c) = {i \in Instances(m, c) : i.name # name} \cup {new}
      /\ \A d \in Context \ {c} : Instances(r, d) = Instances(m, d)
  BY <1>2 DEF Added
<1>3. /\ inst \in InstanceRec /\ inst.syscall \in DOMAIN m.syscalls
      /\ cn \in DOMAIN m.call_lists /\ l \in DOMAIN m.call_params
  BY <1>1, Fields DEF Refs, Typed, Held
<1>4. /\ m.call_lists \in [DOMAIN m.call_lists -> Seq(Call)]
      /\ m.call_params \in [DOMAIN m.call_params -> Seq(Param)]
  BY <1>1, Fields DEF Refs, Typed
<1>5. /\ m.call_lists[cn] \in Seq(Call) /\ m.call_lists[list] \in Seq(Call)
      /\ m.call_params[l] \in Seq(Param)
  BY <1>1, <1>3, <1>4
<1>6. Held(new) \subseteq Held(inst) \cup {list}
  BY <1>0 DEF Held, Range
<1>7. \A d \in Context : \A i \in Instances(r, d) :
         (d = c /\ i = new) \/ (i \in Instances(m, d) /\ ~(d = c /\ i.name = name))
  BY <1>0
<1>8. ToSet(r.call_params[l]) = ToSet(m.call_params[l]) \cup ToSet(params)
  BY <1>0, <1>5, AppendNewFacts
<1>9. Params(r, new) = Params(m, inst) \cup ToSet(params)
  BY <1>0, <1>8 DEF Params, ParamsOf
<1>10. Refs(r)
  <2>1. Typed(r)
    BY <1>1, <1>0 DEF Refs, Typed
  <2>2. \A d \in Context : r.trace_all[d] # NoSyscall =>
           /\ r.trace_all[d] \in DOMAIN r.syscalls
           /\ r.syscalls[r.trace_all[d]].context = d /\ Instances(r, d) = {}
    BY <1>1, <1>0 DEF Refs
  <2>3. \A d \in Context : \A i \in Instances(r, d) :
           /\ i.syscall \in DOMAIN r.syscalls /\ r.syscalls[i.syscall].context = d
           /\ Held(i) \subseteq DOMAIN r.call_lists
    BY <1>1, <1>0, <1>6, <1>7 DEF Refs
  <2>4. \A d \in Context : \A i, j \in Instances(r, d) :
           i.name = j.name \/ i.syscall = j.syscall => i = j
    BY <1>1, <1>0, <1>7 DEF Refs
  <2> QED
    BY <1>1, <1>0, <2>1, <2>2, <2>3, <2>4 DEF Refs
<1>11. ASSUME n # 0
       PROVE  /\ \A x \in DOMAIN m.call_lists : Calls(r, x) = Calls(m, x)
              /\ Owned(r) /\ Served(r)
              /\ \A d \in Context : \A i \in Instances(r, d) :
                    ~(d = c /\ i = new) => Params(r, i) = Params(m, i)
  <2>1. Owned(m) /\ Served(m)
    BY <1>11 DEF Inv
  <2>2. Calls(m, list) \subseteq Calls(m, cn)
    BY <1>0, <1>11 DEF Room
  <2>3. r.call_lists[cn] = m.call_lists[cn]
    BY <1>0, <1>5, <2>2, AppendNewFacts DEF Calls
  <2>4. \A x \in DOMAIN m.call_lists : Calls(r, x) = Calls(m, x)
    BY <1>0, <2>3 DEF Calls
  <2>5. \A d \in Context : \A i \in Instances(r, d) :
           ~(d = c /\ i = new) => Params(r, i) = Params(m, i)
    <3> SUFFICES ASSUME NEW d \in Context, NEW i \in Instances(m, d), ~(d = c /\ i.name = name)
                 PROVE  Params(r, i) = Params(m, i)
      BY <1>7
    <3>1. i.syscall # inst.syscall
      BY <1>1, <1>0 DEF Refs
    <3>2. i.syscall \in DOMAIN m.syscalls
      BY <1>1 DEF Refs
    <3>3. m.syscalls[i.syscall].call_params # l
      BY <1>3, <2>1, <3>1, <3>2 DEF Owned
    <3>4. m.syscalls[i.syscall].call_params \in DOMAIN m.call_params
      BY <1>1, <3>2 DEF Refs
    <3> QED
      BY <1>0, <3>3, <3>4 DEF Params, ParamsOf
  <2>6. Owned(r)
    <3>1. \A s, t \in DOMAIN r.syscalls : s # t =>
             r.syscalls[s].call_params # r.syscalls[t].call_params
                 \/ r.syscalls[s].call_params = DefaultParams
      BY <1>0, <2>1 DEF Owned
    <3>2. \A d \in Context : \A i \in Instances(r, d) :
             r.syscalls[i.syscall].call_params # DefaultParams
      BY <1>0, <1>7, <2>1 DEF Owned
    <3>3. \A d \in Context : \A i \in Instances(m, d) :
             ~(d = c /\ i.name = name) => Held(i) \cap Held(new) = {}
      <4> SUFFICES ASSUME NEW d \in Context, NEW i \in Instances(m, d), ~(d = c /\ i.name = name)
                   PROVE  Held(i) \cap Held(new) = {}
        OBVIOUS
      <4>1. Held(i) \cap L = {}
        BY <1>11 DEF Room
      <4>2. i # inst \/ d # c
        BY <1>0
      <4>3. i # inst
        BY <1>1, <1>0, <4>2 DEF Refs
      <4>4. Held(i) \cap Held(inst) = {}
        BY <2>1, <4>3 DEF Owned
      <4> QED
        BY <1>6, <4>1, <4>4
    <3>4. \A d, e \in Context : \A i \in Instances(r, d), j \in Instances(r, e) :
             i # j => Held(i) \cap Held(j) = {}
      BY <1>7, <2>1, <3>3 DEF Owned
    <3> QED
      BY <3>1, <3>2, <3>4 DEF Owned
  <2>7. Served(r)
    <3>1. \A d \in Context : \A i \in Instances(m, d) :
             /\ i.call_names \in DOMAIN m.call_lists
             /\ \A p \in DOMAIN i.param_call_list : i.param_call_list[p] \in DOMAIN m.call_lists
      BY <1>1 DEF Refs, Held, Range
    <3> SUFFICES ASSUME NEW d \in Context, NEW i \in Instances(r, d)
                 PROVE  /\ Calls(r, i.call_names) \subseteq r.syscalls[i.syscall].hooks
                        /\ \A p \in DOMAIN i.param_call_list :
                              Calls(r, i.param_call_list[p]) \subseteq Calls(r, i.call_names)
                        /\ Params(r, i) \subseteq DOMAIN i.param_call_list
      BY <1>0, <2>1 DEF Served
    <3>2. CASE ~(d = c /\ i = new)
      <4>1. i \in Instances(m, d)
        BY <1>7, <3>2
      <4>2. Params(r, i) = Params(m, i)
        BY <2>5, <3>2
      <4> QED
        BY <1>0, <2>1, <2>4, <3>1, <4>1, <4>2 DEF Served
    <3>3. CASE d = c /\ i = new
      <4>1. Calls(r, new.call_names) \subseteq r.syscalls[new.syscall].hooks
        BY <1>0, <1>3, <2>1, <2>4 DEF Served
      <4>2. \A p \in DOMAIN new.param_call_list :
               Calls(r, new.param_call_list[p]) \subseteq Calls(r, new.call_names)
        <5> SUFFICES ASSUME NEW p \in DOMAIN new.param_call_list
                     PROVE  Calls(r, new.param_call_list[p]) \subseteq Calls(r, cn)
          BY <1>0
        <5>1. CASE p \in DOMAIN inst.param_call_list
          <6>1. new.param_call_list[p] = inst.param_call_list[p]
            BY <1>0, <5>1
          <6>2. Calls(m, inst.param_call_list[p]) \subseteq Calls(m, cn)
            BY <2>1, <5>1 DEF Served
          <6>3. inst.param_call_list[p] \in DOMAIN m.call_lists
            BY <3>1, <5>1
          <6> QED
            BY <1>3, <2>4, <6>1, <6>2, <6>3
        <5>2. CASE p \notin DOMAIN inst.param_call_list
          BY <1>1, <1>0, <1>3, <2>2, <2>4, <5>2
        <5> QED
          BY <5>1, <5>2
      <4>3. Params(r, new) \subseteq DOMAIN new.param_call_list
        BY <1>0, <1>9, <2>1 DEF Served
      <4> QED
        BY <3>3, <4>1, <4>2, <4>3
    <3> QED
      BY <3>2, <3>3
  <2> QED
    BY <2>4, <2>5, <2>6, <2>7
<1>12. ASSUME n = 2 PROVE Asked(r, w)
  <2>1. Asked(m, w) /\ P \subseteq w[c]
    BY <1>12 DEF Inv, Room
  <2>2. \A k \in Instances(m, c) : k.name # name =>
           /\ Params(m, k) \cap P = {} /\ Params(m, k) \cap Params(m, inst) = {}
    BY <1>0, <1>12, <2>1 DEF Room, Asked
  <2>3. Params(r, new) \subseteq w[c]
    BY <1>9, <2>1 DEF Asked
  <2>4. \A k \in Instances(m, c) : k.name # name => Params(m, k) \cap Params(r, new) = {}
    BY <1>9, <2>2
  <2>5. \A d \in Context : \A i \in Instances(r, d) : ~(d = c /\ i = new) =>
           /\ i \in Instances(m, d) /\ ~(d = c /\ i.name = name)
           /\ Params(r, i) = Params(m, i)
    BY <1>7, <1>11, <1>12
  <2> QED
    BY <2>1, <2>3, <2>4, <2>5 DEF Asked
<1>13. Room(r, n, c, name, L, P, w)
  <2>1. (\E i \in Instances(r, c) : i.name = name) /\ L \subseteq DOMAIN r.call_lists
    BY <1>0 DEF Room
  <2>2. ASSUME n # 0
        PROVE  /\ \A i \in Instances(r, c) : i.name = name =>
                     \A x \in L : Calls(r, x) \subseteq Calls(r, i.call_names)
               /\ \A d \in Context : \A k \in Instances(r, d) :
                     (d = c /\ k.name = name) \/ Held(k) \cap L = {}
    BY <1>0, <1>3, <1>7, <1>11, <2>2 DEF Room
  <2>3. ASSUME n = 2
        PROVE  /\ P \subseteq w[c]
               /\ \A k \in Instances(r, c) : k.name = name \/ Params(r, k) \cap P = {}
    BY <1>0, <1>7, <1>11, <2>3 DEF Room
  <2> QED
    BY <2>1, <2>2, <2>3 DEF Room
<1> QED
  BY <1>0, <1>10, <1>11, <1>12, <1>13 DEF Inv

\* The parameters of an instance that is replaced, one after the other.
LEMMA AddBackKeeps ==
  ASSUME NEW m, NEW n \in Level, NEW w, Inv(m, n, w), NEW c \in Context, NEW name,
         NEW L, NEW P, Room(m, n, c, name, L, P, w),
         NEW params \in Seq(Param), ToSet(params) \subseteq P,
         NEW lists, \A p \in ToSet(params) : lists[p] \in L,
         NEW r, r = AddBack(m, c, name, params, lists)
  PROVE  /\ Inv(r, n, w) /\ Room(r, n, c, name, L, P, w)
         /\ DOMAIN r.call_lists = DOMAIN m.call_lists
         /\ DOMAIN r.call_params = DOMAIN m.call_params
<1> DEFINE N == Len(params)
           Step(b, i) == addCallParams(b, c, name, <<params[i]>>, lists[params[i]])
           Passes(p, k) == p = [i \in 0 .. k |-> IF i = 0 THEN m ELSE Step(p[i - 1], i)]
           G == {k \in Nat : \E p : Passes(p, k)}
           added == CHOOSE p : Passes(p, N)
<1>1. /\ N \in Nat /\ \A i \in 1 .. N : params[i] \in Param /\ params[i] \in ToSet(params)
  BY ListFacts
<1>2. r = added[N]
  BY DEF AddBack
<1> HIDE DEF N, Step
<1>3. \A k \in 0 .. N : k \in G
  <2>1. 0 \in G
    <3>1. Passes([i \in 0 .. 0 |-> m], 0)
      OBVIOUS
    <3> QED
      BY <3>1
  <2>2. ASSUME NEW k \in 1 .. N, k - 1 \in G PROVE k \in G
    <3>1. PICK p : Passes(p, k - 1)
      BY <2>2
    <3>2. k \in Nat /\ k - 1 \in 0 .. k - 1 /\ \A i \in 1 .. k : i - 1 \in 0 .. k - 1
      BY <1>1
    <3> DEFINE q == [i \in 0 .. k |-> IF i < k THEN p[i] ELSE Step(p[k - 1], k)]
    <3>3. Passes(q, k)
      BY <3>1, <3>2
    <3> HIDE DEF q
    <3> QED
      BY <3>2, <3>3
  <2> HIDE DEF G
  <2> QED
    BY <1>1, <2>1, <2>2, Upward
<1>4. Passes(added, N)
  <2>1. N \in 0 .. N
    BY <1>1
  <2>2. N \in G
    BY <1>3, <2>1
  <2>3. \E p : Passes(p, N)
    BY <2>2
  <2> QED
    BY <2>3
<1> HIDE DEF added
<1>5. added[0] = m /\ \A i \in 1 .. N : added[i] = Step(added[i - 1], i)
  BY <1>1, <1>4
<1> DEFINE Good(b) == /\ Inv(b, n, w) /\ Room(b, n, c, name, L, P, w)
                      /\ DOMAIN b.call_lists = DOMAIN m.call_lists
                      /\ DOMAIN b.call_params = DOMAIN m.call_params
           U == {i \in 0 .. N : Good(added[i])}
<1>6. Good(added[0])
  BY <1>5
<1>7. ASSUME NEW i \in 1 .. N, Good(added[i - 1]) PROVE Good(added[i])
  <2> DEFINE b == added[i - 1]
             e == added[i]
             one == <<params[i]>>
             list == lists[params[i]]
  <2>1. e = addCallParams(b, c, name, one, list)
    BY <1>5 DEF Step
  <2>2. one \in Seq(Param) /\ ToSet(one) = {params[i]}
    BY <1>1 DEF ToSet
  <2>3. list \in L /\ ToSet(one) \subseteq P
    BY <1>1, <2>2
  <2>4. /\ Inv(b, n, w) /\ Room(b, n, c, name, L, P, w)
        /\ DOMAIN b.call_lists = DOMAIN m.call_lists
        /\ DOMAIN b.call_params = DOMAIN m.call_params
    BY <1>7
  <2> HIDE DEF b, e, one, list
  <2>5. /\ Inv(e, n, w) /\ Room(e, n, c, name, L, P, w)
        /\ DOMAIN e.call_lists = DOMAIN b.call_lists
        /\ DOMAIN e.call_params = DOMAIN b.call_params
    BY <2>1, <2>2, <2>3, <2>4, AddKeeps, SMTT(60)
  <2> QED
    BY <2>4, <2>5 DEF e
<1> HIDE DEF Good
<1>8. \A i \in 0 .. N : i \in U
  <2>1. 0 \in U
    BY <1>1, <1>6
  <2>2. ASSUME NEW i \in 1 .. N, i - 1 \in U PROVE i \in U
    <3>1. Good(added[i - 1]) /\ i \in 0 .. N
      BY <1>1, <2>2
    <3>2. Good(added[i])
      BY <1>7, <3>1
    <3> QED
      BY <3>1, <3>2
  <2> HIDE DEF U
  <2> QED
    BY <1>1, <2>1, <2>2, Upward
<1>9. Good(added[N])
  <2>1. N \in 0 .. N
    BY <1>1
  <2> QED
    BY <1>8, <2>1
<1> QED
  BY <1>2, <1>9 DEF Good

-----------------------------------------------------------------------------
(* Requests to watch                                                       *)

\* There is a new list of calls, and nothing else is new.
Longer(m, r, new, v) ==
    /\ new \in Nat /\ new \notin DOMAIN m.call_lists
    /\ r.call_params = m.call_params /\ r.syscalls = m.syscalls
    /\ r.trace_all = m.trace_all /\ r.raised = m.raised
    /\ DOMAIN r.call_lists = DOMAIN m.call_lists \cup {new} /\ r.call_lists[new] = v
    /\ \A x \in DOMAIN m.call_lists : r.call_lists[x] = m.call_lists[x]
    /\ \A c \in Context : Instances(r, c) = Instances(m, c)

LEMMA ListAdded ==
  ASSUME NEW m, NEW n \in Level, NEW w, Inv(m, n, w), NEW v \in Seq(Call),
         NEW r, r = [m EXCEPT !.call_lists = With(@, v)],
         NEW new, new = Fresh(m.call_lists)
  PROVE  Inv(r, n, w) /\ Longer(m, r, new, v)
<1> DEFINE lists == m.call_lists
           more == With(lists, v)
<1>1. m \in Manager /\ lists \in Objects(Seq(Call)) /\ Refs(m)
  BY Fields DEF Inv, Refs, Typed
<1>2. new = Fresh(lists)
  OBVIOUS
<1>3. r = [m EXCEPT !.call_lists = more]
  OBVIOUS
<1> HIDE DEF lists
<1>4. /\ new \in Nat \ {0} /\ new \notin DOMAIN lists /\ more \in Objects(Seq(Call))
      /\ DOMAIN more = DOMAIN lists \cup {new} /\ more[new] = v
  <2>1. lists \in Objects(Seq(Call))
    BY <1>1
  <2>2. /\ Fresh(lists) \in Nat \ {0} /\ Fresh(lists) \notin DOMAIN lists
        /\ more \in Objects(Seq(Call)) /\ DOMAIN more = DOMAIN lists \cup {Fresh(lists)}
        /\ more[Fresh(lists)] = v
    BY <2>1, FreshFacts
  <2> QED
    BY <1>2, <2>2
<1>5. \A x \in DOMAIN lists : more[x] = lists[x]
  BY <1>2, <1>4 DEF With
<1> HIDE DEF more
<1>6. /\ r \in Manager /\ r.call_lists = more /\ r.call_params = m.call_params
      /\ r.syscalls = m.syscalls /\ r.trace_all = m.trace_all /\ r.raised = m.raised
      /\ r.syscall_dict = m.syscall_dict
  BY <1>1, <1>3, <1>4 DEF Manager
<1>7. \A c \in Context : Instances(r, c) = Instances(m, c)
  BY <1>6 DEF Instances
<1>8. \A x \in DOMAIN m.call_lists : Calls(r, x) = Calls(m, x)
  BY <1>5, <1>6 DEF Calls, lists
<1>9. \A c \in Context : \A i \in Instances(m, c) :
         Held(i) \subseteq DOMAIN m.call_lists /\ Params(r, i) = Params(m, i)
  BY <1>1, <1>6 DEF Refs, Params, ParamsOf
<1>10. Typed(r) /\ DOMAIN m.call_lists \subseteq DOMAIN r.call_lists
  BY <1>1, <1>4, <1>6 DEF Refs, Typed, lists
<1>11. Less(m, r, n)
  BY <1>1, <1>6, <1>7, <1>8, <1>9, <1>10 DEF Less, Inv, Refs, Served
<1>12. Inv(r, n, w)
  BY <1>11, LessKeeps
<1> QED
  BY <1>4, <1>5, <1>6, <1>7, <1>12 DEF lists, Longer

\* What a caller hands to watchSyscall: a list of calls and a list of parameters that
\* nobody else has, with parameters that are not served yet.
Request(m, n, c, list, params, w) ==
    /\ list \in DOMAIN m.call_lists /\ params \in DOMAIN m.call_params
    /\ n # 0 =>
          /\ params # DefaultParams
          /\ \A s \in DOMAIN m.syscalls : m.syscalls[s].call_params # params
          /\ \A d \in Context : \A k \in Instances(m, d) : list \notin Held(k)
    /\ n = 2 =>
          /\ ToSet(m.call_params[params]) \subseteq w[c]
          /\ \A k \in Instances(m, c) : Params(m, k) \cap ToSet(m.call_params[params]) = {}

\* What the instances found have: their parameters, the lists of these, and their calls.
LEMMA FoundParams ==
  ASSUME NEW m, Refs(m), NEW c \in Context, NEW found \in Seq(InstanceRec),
         ToSet(found) \subseteq Instances(m, c),
         NEW old, old = AppendNew(<<>>, FlattenSeq([k \in DOMAIN found |->
                                                       ParamsOf(m, found[k].syscall)]))
  PROVE  old \in Seq(Param) /\ \A p \in ToSet(old) : \E f \in ToSet(found) : p \in Params(m, f)
<1> DEFINE ss == [k \in DOMAIN found |-> ParamsOf(m, found[k].syscall)]
           flat == FlattenSeq(ss)
<1>1. /\ DOMAIN found = 1 .. Len(found) /\ Len(found) \in Nat
      /\ \A k \in 1 .. Len(found) : found[k] \in ToSet(found)
  BY ListFacts
<1>2. m \in Manager
  BY DEF Refs, Typed
<1>3. m.call_params \in [DOMAIN m.call_params -> Seq(Param)]
  BY <1>2, Fields
<1>4. \A f \in ToSet(found) : ParamsOf(m, f.syscall) \in Seq(Param)
  BY <1>3 DEF Refs, ParamsOf
<1>5. ss \in Seq(Seq(Param)) /\ Len(ss) = Len(found)
  BY <1>1, <1>4
<1>6. \A k \in 1 .. Len(found) : ss[k] = ParamsOf(m, found[k].syscall)
  BY <1>1
<1> HIDE DEF ss
<1>7. flat \in Seq(Param) /\ ToSet(flat) = UNION {ToSet(ss[k]) : k \in 1 .. Len(ss)}
  BY <1>5, FlattenFacts
<1>8. old = AppendNew(<<>>, flat)
  BY DEF ss
<1> HIDE DEF flat
<1>9. <<>> \in Seq(Param) /\ ToSet(<<>>) = {}
  BY EmptySeq, ListFacts
<1>10. old \in Seq(Param) /\ ToSet(old) = ToSet(flat)
  <2> DEFINE none == <<>>
  <2>1. none \in Seq(Param) /\ flat \in Seq(Param) /\ old = AppendNew(none, flat)
    BY <1>7, <1>8, <1>9
  <2> HIDE DEF none
  <2>2. old \in Seq(Param) /\ ToSet(old) = ToSet(none) \cup ToSet(flat)
    BY <2>1, AppendNewFacts
  <2> QED
    BY <1>9, <2>2 DEF none
<1>11. ASSUME NEW p \in ToSet(old) PROVE \E f \in ToSet(found) : p \in Params(m, f)
  <2>1. PICK k \in 1 .. Len(ss) : p \in ToSet(ss[k])
    BY <1>7, <1>10
  <2>2. found[k] \in ToSet(found) /\ p \in Params(m, found[k])
    BY <1>1, <1>5, <1>6, <2>1 DEF Params
  <2> QED
    BY <2>2
<1> QED
  BY <1>10, <1>11

LEMMA FoundLists ==
  ASSUME NEW found \in Seq(InstanceRec), NEW existing, existing = ListsFound(found)
  PROVE  \A p \in DOMAIN existing : \E f \in ToSet(found) :
            p \in DOMAIN f.param_call_list /\ existing[p] = f.param_call_list[p]
<1> SUFFICES ASSUME NEW p \in DOMAIN existing
             PROVE  \E f \in ToSet(found) :
                        p \in DOMAIN f.param_call_list /\ existing[p] = f.param_call_list[p]
  OBVIOUS
<1> DEFINE I == {k \in 1 .. Len(found) : p \in DOMAIN found[k].param_call_list}
           first == IF I # {} THEN Min(I) ELSE 0
<1>1. /\ Len(found) \in Nat /\ \A k \in 1 .. Len(found) : found[k] \in ToSet(found)
      /\ \A x : x \in ToSet(found) <=> \E k \in 1 .. Len(found) : found[k] = x
  BY ListFacts
<1>2. PICK f \in ToSet(found) : p \in DOMAIN f.param_call_list
  BY DEF ListsFound
<1>3. I # {} /\ I \in SUBSET Nat
  BY <1>1, <1>2
<1>4. Min(I) \in I
  <2> HIDE DEF I
  <2>1. \E k \in I : \A l \in I : k <= l
    BY <1>3, LeastNumber
  <2> QED
    BY <2>1 DEF Min
<1>5. existing[p] = found[first].param_call_list[p]
  BY DEF ListsFound, SelectInSeq
<1>6. first \in I
  BY <1>3, <1>4
<1> HIDE DEF first
<1> QED
  BY <1>1, <1>5, <1>6

LEMMA FoundCalls ==
  ASSUME NEW m, Refs(m), NEW c \in Context, NEW found \in Seq(InstanceRec),
         ToSet(found) \subseteq Instances(m, c), NEW list \in DOMAIN m.call_lists
  PROVE  /\ NewCallList(m, list, found) \in Seq(Call)
         /\ Calls(m, list) \subseteq ToSet(NewCallList(m, list, found))
         /\ \A f \in ToSet(found) : Calls(m, f.call_names) \subseteq ToSet(NewCallList(m, list, found))
<1> DEFINE served == UNION {Calls(m, i.call_names) : i \in ToSet(found)}
           rest == served \ Calls(m, list)
           s == m.call_lists[list]
           t == SetToSeq(rest)
<1>1. m.call_lists \in [DOMAIN m.call_lists -> Seq(Call)]
  BY Fields DEF Refs, Typed
<1>2. \A l \in DOMAIN m.call_lists : Calls(m, l) \subseteq Call
  BY <1>1, ListFacts DEF Calls
<1>3. \A f \in ToSet(found) : f.call_names \in DOMAIN m.call_lists
  BY DEF Refs, Held
<1>4. served \subseteq Call
  BY <1>2, <1>3
<1>5. \A f \in ToSet(found) : Calls(m, f.call_names) \subseteq served
  OBVIOUS
<1> HIDE DEF served
<1>6. IsFiniteSet(rest) /\ rest \subseteq Call
  BY <1>4, FS_Subset, SyscallAssumption
<1> HIDE DEF rest
<1>7. t \in Seq(rest) /\ ToSet(t) = rest
  BY <1>6, OrderFacts
<1>8. t \in Seq(Call)
  BY <1>6, <1>7
<1>9. s \in Seq(Call) /\ ToSet(s) = Calls(m, list)
  BY <1>1 DEF Calls
<1>10. NewCallList(m, list, found) = s \o t
  BY DEF NewCallList, served, rest
<1> HIDE DEF s, t
<1>11. s \o t \in Seq(Call) /\ ToSet(s \o t) = ToSet(s) \cup ToSet(t)
  BY <1>8, <1>9, ListConcat
<1> QED
  BY <1>5, <1>7, <1>9, <1>10, <1>11 DEF rest

\* One new instance takes over from those found.
LEMMA ConsolidateKeeps ==
  ASSUME NEW m, NEW n \in Level, NEW w, Inv(m, n, w), NEW c \in Context, NEW name \in Name,
         NEW found \in Seq(InstanceRec), ToSet(found) \subseteq Instances(m, c), found # <<>>,
         NEW list, NEW params, Request(m, n, c, list, params, w),
         NEW r, r = Consolidate(m, c, name, found, list, params)
  PROVE  /\ Inv(r, n, w)
         /\ DOMAIN m.call_lists \subseteq DOMAIN r.call_lists
         /\ DOMAIN m.call_params \subseteq DOMAIN r.call_params
<1> DEFINE nl == Fresh(m.call_lists)
           old == AppendNew(<<>>, FlattenSeq([k \in DOMAIN found |->
                                                 ParamsOf(m, found[k].syscall)]))
           existing == ListsFound(found)
           v == NewCallList(m, list, found)
           ret == Retired(m, c, found)
           m1 == [ret EXCEPT !.call_lists = With(@, v)]
           m2 == NewInstance(m1, c, name, nl, params)
           back == Keep(old, DOMAIN existing)
           L == {nl} \cup {existing[p] : p \in DOMAIN existing}
           P == ToSet(m.call_params[params]) \cup ToSet(back)
<1>1. /\ Refs(m) /\ list \in DOMAIN m.call_lists /\ params \in DOMAIN m.call_params
      /\ n # 0 => Owned(m) /\ Served(m)
      /\ n = 2 => Asked(m, w)
  BY DEF Inv, Request
<1>2. r = AddBack(m2, c, name, back, existing)
  <2>1. ret.call_lists = m.call_lists
    <3>1. \A f \in ToSet(found) : f \in Instances(m, c)
      OBVIOUS
    <3> QED
      BY <1>1, <3>1, RetiredFacts
  <2> QED
    BY <2>1 DEF Consolidate
<1>3. old \in Seq(Param) /\ \A p \in ToSet(old) : \E f \in ToSet(found) : p \in Params(m, f)
  BY <1>1, FoundParams
<1>4. \A p \in DOMAIN existing : \E f \in ToSet(found) :
            p \in DOMAIN f.param_call_list /\ existing[p] = f.param_call_list[p]
  BY FoundLists
<1> HIDE DEF old, existing
<1>5. back \in Seq(Param) /\ ToSet(back) = ToSet(old) \cap DOMAIN existing
  BY <1>3, KeepFacts
<1> HIDE DEF back
<1>6. /\ v \in Seq(Call) /\ Calls(m, list) \subseteq ToSet(v)
      /\ \A f \in ToSet(found) : Calls(m, f.call_names) \subseteq ToSet(v)
  BY <1>1, FoundCalls
<1> HIDE DEF v
<1>7. /\ ret.call_lists = m.call_lists /\ ret.call_params = m.call_params
      /\ ret.trace_all = m.trace_all
      /\ \A s \in DOMAIN ret.syscalls :
            s \in DOMAIN m.syscalls /\ ret.syscalls[s] = m.syscalls[s]
      /\ Instances(ret, c) = {i \in Instances(m, c) : \A f \in ToSet(found) : i.name # f.name}
      /\ \A d \in Context \ {c} : Instances(ret, d) = Instances(m, d)
      /\ Less(m, ret, n)
  <2>1. \A f \in ToSet(found) : \E i \in Instances(m, c) : i.name = f.name /\ i.syscall = f.syscall
    OBVIOUS
  <2>2. n # 0 => ~m.raised
    BY <1>1 DEF Served
  <2> QED
    BY <1>1, <2>1, <2>2, RetiredFacts
<1> HIDE DEF ret
<1>8. Inv(ret, n, w)
  BY <1>7, LessKeeps
<1>9. nl = Fresh(ret.call_lists) /\ m1 = [ret EXCEPT !.call_lists = With(@, v)]
  BY <1>7
<1> HIDE DEF nl, m1
<1>10. /\ Inv(m1, n, w) /\ nl \in Nat /\ nl \notin DOMAIN m.call_lists
       /\ m1.call_params = m.call_params /\ m1.syscalls = ret.syscalls
       /\ m1.trace_all = m.trace_all
       /\ DOMAIN m1.call_lists = DOMAIN m.call_lists \cup {nl} /\ m1.call_lists[nl] = v
       /\ \A x \in DOMAIN m.call_lists : m1.call_lists[x] = m.call_lists[x]
       /\ \A d \in Context : Instances(m1, d) = Instances(ret, d)
  <2>1. v \in Seq(Call)
    BY <1>6
  <2>2. Inv(m1, n, w) /\ Longer(ret, m1, nl, v)
    BY <1>8, <1>9, <2>1, ListAdded, SMTT(20)
  <2> QED
    BY <1>7, <2>2 DEF Longer
<1>11. Calls(m1, nl) = ToSet(v) /\ \A x \in DOMAIN m.call_lists : Calls(m1, x) = Calls(m, x)
  BY <1>10 DEF Calls
<1>12. \A f \in ToSet(found) : \A p \in DOMAIN f.param_call_list :
          f.param_call_list[p] \in Held(f) /\ f.param_call_list[p] \in DOMAIN m.call_lists
  BY <1>1 DEF Refs, Held, Range
<1>13. \A l \in L : l = nl \/ \E f \in ToSet(found) : \E p \in DOMAIN f.param_call_list :
                                 l = f.param_call_list[p]
  BY <1>4
<1>14. nl \in L /\ \A p \in DOMAIN existing : existing[p] \in L
  OBVIOUS
<1> HIDE DEF L
<1>15. \A d \in Context : \A k \in Instances(m1, d) :
          /\ k \in Instances(m, d)
          /\ \A f \in ToSet(found) : k # f
          /\ Params(m1, k) = Params(m, k)
  <2> SUFFICES ASSUME NEW d \in Context, NEW k \in Instances(m1, d)
               PROVE  /\ k \in Instances(m, d)
                      /\ \A f \in ToSet(found) : k # f
                      /\ Params(m1, k) = Params(m, k)
    OBVIOUS
  <2>1. k \in Instances(ret, d) /\ k \in Instances(m, d)
    BY <1>7, <1>10
  <2>2. k.syscall \in DOMAIN ret.syscalls
    BY <1>8, <2>1 DEF Inv, Refs
  <2>3. Params(m1, k) = Params(m, k)
    BY <1>7, <1>10, <2>2 DEF Params, ParamsOf
  <2>4. ASSUME NEW f \in ToSet(found), k = f PROVE FALSE
    <3>1. f \in Instances(m, c)
      OBVIOUS
    <3>2. CASE d = c
      BY <1>7, <2>1, <2>4, <3>2
    <3>3. CASE d # c
      BY <1>1, <2>1, <2>4, <3>1, <3>3 DEF Refs
    <3> QED
      BY <3>2, <3>3
  <2> QED
    BY <2>1, <2>3, <2>4
<1>16. Vacant(m1, n, c, name, nl, params, L, P, w)
  <2>1. nl \in L /\ L \subseteq DOMAIN m1.call_lists
    BY <1>10, <1>12, <1>13, <1>14
  <2>2. /\ params \in DOMAIN m1.call_params /\ ToSet(m1.call_params[params]) \subseteq P
    BY <1>1, <1>10
  <2>3. m1.trace_all[c] = NoSyscall
    <3>1. ToSet(found) # {}
      BY ListFacts
    <3>2. Instances(m, c) # {}
      BY <3>1
    <3> QED
      BY <1>1, <1>10, <3>2 DEF Refs
  <2>4. ASSUME n # 0
        PROVE  /\ params # DefaultParams
               /\ \A s \in DOMAIN m1.syscalls : m1.syscalls[s].call_params # params
               /\ \A l \in L : Calls(m1, l) \subseteq Calls(m1, nl)
               /\ \A d \in Context : \A k \in Instances(m1, d) : Held(k) \cap L = {}
    <3>1. /\ params # DefaultParams
          /\ \A s \in DOMAIN m1.syscalls : m1.syscalls[s].call_params # params
      BY <1>7, <1>10, <2>4 DEF Request
    <3>2. ASSUME NEW f \in ToSet(found), NEW p \in DOMAIN f.param_call_list
          PROVE  Calls(m1, f.param_call_list[p]) \subseteq Calls(m1, nl)
      <4>1. Calls(m, f.param_call_list[p]) \subseteq Calls(m, f.call_names)
        BY <1>1, <2>4 DEF Served
      <4> QED
        BY <1>6, <1>11, <1>12, <4>1
    <3>3. \A l \in L : Calls(m1, l) \subseteq Calls(m1, nl)
      BY <1>13, <3>2
    <3>4. ASSUME NEW d \in Context, NEW k \in Instances(m1, d), NEW l \in L, l \in Held(k)
          PROVE  FALSE
      <4>1. k \in Instances(m, d) /\ Held(k) \subseteq DOMAIN m.call_lists
        BY <1>1, <1>15 DEF Refs
      <4>2. l # nl
        BY <1>10, <3>4, <4>1
      <4>3. PICK f \in ToSet(found) : l \in Held(f)
        BY <1>12, <1>13, <4>2
      <4>4. k # f /\ f \in Instances(m, c)
        BY <1>15
      <4> QED
        BY <1>1, <2>4, <3>4, <4>1, <4>3, <4>4 DEF Owned
    <3> QED
      BY <3>1, <3>3, <3>4
  <2>5. ASSUME n = 2
        PROVE  /\ P \subseteq w[c]
               /\ \A k \in Instances(m1, c) : Params(m1, k) \cap P = {}
    <3>1. Asked(m, w)
      BY <1>1, <2>5
    <3>2. ToSet(back) \subseteq w[c]
      BY <1>3, <1>5, <3>1 DEF Asked
    <3>3. P \subseteq w[c]
      BY <2>5, <3>2 DEF Request
    <3>4. ASSUME NEW k \in Instances(m1, c), NEW p \in P, p \in Params(m1, k) PROVE FALSE
      <4>1. k \in Instances(m, c) /\ p \in Params(m, k)
        BY <1>15, <3>4
      <4>2. CASE p \in ToSet(m.call_params[params])
        BY <2>5, <4>1, <4>2 DEF Request
      <4>3. CASE p \in ToSet(back)
        <5>1. PICK f \in ToSet(found) : p \in Params(m, f)
          BY <1>3, <1>5, <4>3
        <5>2. f \in Instances(m, c) /\ k # f
          BY <1>15
        <5> QED
          BY <3>1, <4>1, <5>1, <5>2 DEF Asked
      <4> QED
        BY <4>2, <4>3
    <3> QED
      BY <3>3, <3>4
  <2> QED
    BY <2>1, <2>2, <2>3, <2>4, <2>5 DEF Vacant
<1> HIDE DEF P
<1>17. /\ Inv(m2, n, w) /\ Room(m2, n, c, name, L, P, w)
       /\ m2.call_lists = m1.call_lists /\ m2.call_params = m1.call_params
  BY <1>10, <1>16, NewInstanceKeeps, SMTT(60)
<1> HIDE DEF m2
<1>18. ToSet(back) \subseteq P /\ \A p \in ToSet(back) : existing[p] \in L
  BY <1>5, <1>14 DEF P
<1>19. /\ Inv(r, n, w)
       /\ DOMAIN r.call_lists = DOMAIN m2.call_lists
       /\ DOMAIN r.call_params = DOMAIN m2.call_params
  BY <1>2, <1>5, <1>17, <1>18, AddBackKeeps, SMTT(60)
<1> QED
  BY <1>10, <1>17, <1>19

\* A Syscall that no instance has gets parameters.
LEMMA TracedKeeps ==
  ASSUME NEW m, NEW n \in Level, NEW w, Inv(m, n, w), NEW s \in DOMAIN m.syscalls,
         \A c \in Context : \A i \in Instances(m, c) : i.syscall # s,
         NEW params \in Seq(Param), NEW r, r = SyscallAddCallParams(m, s, params)
  PROVE  /\ Inv(r, n, w)
         /\ DOMAIN r.call_lists = DOMAIN m.call_lists
         /\ DOMAIN r.call_params = DOMAIN m.call_params
<1> DEFINE l == m.syscalls[s].call_params
           v == AppendNew(m.call_params[l], params)
<1>1. m \in Manager /\ Refs(m) /\ l \in DOMAIN m.call_params
  BY DEF Inv, Refs, Typed
<1>2. m.call_params \in [DOMAIN m.call_params -> Seq(Param)]
  BY <1>1, Fields
<1>3. v \in Seq(Param)
  BY <1>1, <1>2, AppendNewFacts
<1>4. r = [m EXCEPT !.call_params[l] = v]
  BY DEF SyscallAddCallParams
<1> HIDE DEF v
<1>5. /\ r \in Manager /\ r.call_lists = m.call_lists /\ r.syscalls = m.syscalls
      /\ r.trace_all = m.trace_all /\ r.raised = m.raised
      /\ DOMAIN r.call_params = DOMAIN m.call_params
      /\ \A x \in DOMAIN m.call_params : x # l => r.call_params[x] = m.call_params[x]
      /\ \A c \in Context : Instances(r, c) = Instances(m, c)
  BY <1>1, <1>3, <1>4, ParamsFacts
<1>6. ASSUME n # 0, NEW c \in Context, NEW i \in Instances(m, c)
      PROVE  Params(r, i) = Params(m, i)
  <2>1. i.syscall \in DOMAIN m.syscalls /\ i.syscall # s
    BY <1>1 DEF Refs
  <2>2. Owned(m)
    BY <1>6 DEF Inv
  <2>3. m.syscalls[i.syscall].call_params # l
    BY <2>1, <2>2 DEF Owned
  <2>4. m.syscalls[i.syscall].call_params \in DOMAIN m.call_params
    BY <1>1, <2>1 DEF Refs
  <2> QED
    BY <1>5, <2>3, <2>4 DEF Params, ParamsOf
<1>7. \A x : Calls(r, x) = Calls(m, x)
  BY <1>5 DEF Calls
<1>8. Typed(r)
  BY <1>1, <1>5 DEF Refs, Typed
<1>9. Less(m, r, n)
  <2>1. /\ DOMAIN m.call_lists \subseteq DOMAIN r.call_lists
        /\ DOMAIN m.call_params \subseteq DOMAIN r.call_params
        /\ DOMAIN r.syscalls \subseteq DOMAIN m.syscalls
        /\ \A t \in DOMAIN r.syscalls : r.syscalls[t] = m.syscalls[t]
    BY <1>5
  <2>2. \A c \in Context :
          /\ r.trace_all[c] \in {NoSyscall, m.trace_all[c]}
          /\ r.trace_all[c] # NoSyscall => r.trace_all[c] \in DOMAIN r.syscalls
          /\ Instances(r, c) \subseteq Instances(m, c)
          /\ \A i \in Instances(r, c) : i.syscall \in DOMAIN r.syscalls
    BY <1>1, <1>5 DEF Refs
  <2>3. n # 0 => ~r.raised
    BY <1>5 DEF Inv, Served
  <2>4. n # 0 => \A c \in Context : \A i \in Instances(r, c) :
                    /\ \A x \in Held(i) : Calls(r, x) = Calls(m, x)
                    /\ Params(r, i) \subseteq Params(m, i)
    BY <1>5, <1>6, <1>7
  <2> QED
    BY <1>8, <2>1, <2>2, <2>3, <2>4 DEF Less
<1> QED
  BY <1>5, <1>9, LessKeeps

LEMMA FirstFacts ==
  ASSUME NEW V, NEW s \in Seq(V)
  PROVE  /\ s = <<>> <=> ToSet(s) = {}
         /\ s # <<>> => s[1] \in ToSet(s)
<1>1. /\ s = <<>> <=> ToSet(s) = {}
      /\ s = <<>> <=> Len(s) = 0
      /\ Len(s) \in Nat /\ \A i \in 1 .. Len(s) : s[i] \in ToSet(s)
  BY ListFacts
<1> QED
  BY <1>1

\* A request to watch keeps what was true, whichever way it is served.
LEMMA WatchKeeps ==
  ASSUME NEW m, NEW n \in Level, NEW w, Inv(m, n, w), NEW c \in Context, NEW name \in Name,
         NEW list, NEW params, Request(m, n, c, list, params, w),
         NEW r, r = watchSyscall(m, c, name, list, params)
  PROVE  /\ Inv(r, n, w)
         /\ DOMAIN m.call_lists \subseteq DOMAIN r.call_lists
         /\ DOMAIN m.call_params \subseteq DOMAIN r.call_params
<1> DEFINE found == findCalls(m, c, list)
           names == m.call_params[params]
           hasAllCalls == Calls(m, list) \subseteq Calls(m, found[1].call_names)
<1>1. /\ Refs(m) /\ m \in Manager /\ list \in DOMAIN m.call_lists
      /\ params \in DOMAIN m.call_params
  BY DEF Inv, Refs, Typed, Request
<1>2. names \in Seq(Param)
  BY <1>1, Fields
<1>3. /\ found \in Seq(InstanceRec) /\ ToSet(found) \subseteq Instances(m, c)
      /\ found # <<>> => found[1] \in Instances(m, c)
  <2> DEFINE S == {i \in Instances(m, c) : Calls(m, i.call_names) \cap Calls(m, list) # {}}
  <2>1. found = Keep(m.syscall_dict[c], S)
    BY DEF findCalls
  <2>2. \A x \in S : x \in Instances(m, c)
    OBVIOUS
  <2> HIDE DEF found, S
  <2>3. m.syscall_dict[c] \in Seq(InstanceRec)
    BY <1>1, Fields
  <2>4. found \in Seq(InstanceRec) /\ ToSet(found) = ToSet(m.syscall_dict[c]) \cap S
    BY <2>1, <2>3, KeepFacts
  <2>5. found # <<>> => found[1] \in ToSet(found)
    BY <2>4, FirstFacts
  <2> QED
    BY <2>2, <2>4, <2>5
<1>4. r = IF found = <<>> /\ m.trace_all[c] # NoSyscall
          THEN SyscallAddCallParams(m, m.trace_all[c], names)
          ELSE IF found = <<>>
          THEN NewInstance(m, c, name, list, params)
          ELSE IF Len(found) = 1 /\ hasAllCalls
          THEN addCallParams(m, c, found[1].name, names, list)
          ELSE Consolidate(m, c, name, found, list, params)
  BY DEF watchSyscall
<1> HIDE DEF found
<1>5. CASE found = <<>> /\ m.trace_all[c] # NoSyscall
  <2> DEFINE s == m.trace_all[c]
  <2>1. s \in DOMAIN m.syscalls /\ m.syscalls[s].context = c /\ Instances(m, c) = {}
    BY <1>1, <1>5 DEF Refs
  <2>2. \A d \in Context : \A i \in Instances(m, d) : i.syscall # s
    BY <1>1, <2>1 DEF Refs
  <2>3. r = SyscallAddCallParams(m, s, names)
    BY <1>4, <1>5
  <2> HIDE DEF s
  <2>4. /\ Inv(r, n, w)
        /\ DOMAIN r.call_lists = DOMAIN m.call_lists
        /\ DOMAIN r.call_params = DOMAIN m.call_params
    BY <1>2, <2>1, <2>2, <2>3, TracedKeeps, SMTT(60)
  <2> QED
    BY <2>4
<1>6. CASE found = <<>> /\ m.trace_all[c] = NoSyscall
  <2> DEFINE L == {list}
             P == ToSet(names)
  <2>1. Vacant(m, n, c, name, list, params, L, P, w)
    BY <1>1, <1>6 DEF Vacant, Request
  <2>2. r = NewInstance(m, c, name, list, params)
    BY <1>4, <1>6
  <2> HIDE DEF L, P
  <2>3. Inv(r, n, w) /\ r.call_lists = m.call_lists /\ r.call_params = m.call_params
    BY <2>1, <2>2, NewInstanceKeeps, SMTT(60)
  <2> QED
    BY <2>3
<1>7. CASE found # <<>> /\ Len(found) = 1 /\ hasAllCalls
  <2> DEFINE L == {list}
             P == ToSet(names)
             known == found[1].name
  <2>1. found[1] \in Instances(m, c)
    BY <1>3, <1>7
  <2>2. \A i \in Instances(m, c) : i.name = known => i = found[1]
    BY <1>1, <2>1 DEF Refs
  <2>3. Room(m, n, c, known, L, P, w)
    BY <1>1, <1>7, <2>1, <2>2 DEF Room, Request
  <2>4. r = addCallParams(m, c, known, names, list) /\ list \in L /\ ToSet(names) \subseteq P
    BY <1>4, <1>7
  <2> HIDE DEF L, P, known, names
  <2>5. /\ Inv(r, n, w)
        /\ DOMAIN r.call_lists = DOMAIN m.call_lists
        /\ DOMAIN r.call_params = DOMAIN m.call_params
    BY <1>2, <2>3, <2>4, AddKeeps, SMTT(60)
  <2> QED
    BY <2>5
<1>8. CASE found # <<>> /\ ~(Len(found) = 1 /\ hasAllCalls)
  <2>1. r = Consolidate(m, c, name, found, list, params)
    BY <1>4, <1>8
  <2>2. /\ found \in Seq(InstanceRec) /\ ToSet(found) \subseteq Instances(m, c)
        /\ found # <<>>
    BY <1>3, <1>8
  <2> QED
    BY <2>1, <2>2, ConsolidateKeeps, SMTT(60)
<1> QED
  BY <1>5, <1>6, <1>7, <1>8

-----------------------------------------------------------------------------
(* Requests that are taken back                                            *)

LEMMA LessAsked ==
  ASSUME NEW m, NEW r, NEW n \in Level, NEW w, NEW v, Inv(m, n, w), Less(m, r, n),
         n = 2 => \A c \in Context : \A i \in Instances(r, c) : Params(r, i) \subseteq v[c]
  PROVE  Inv(r, n, v)
<1>1. Inv(r, n, w)
  BY LessKeeps
<1> QED
  BY <1>1 DEF Inv, Asked

LEMMA InvMore ==
  ASSUME NEW m, NEW n \in Level, NEW w, NEW v, Inv(m, n, w),
         \A c \in Context : w[c] \subseteq v[c]
  PROVE  Inv(m, n, v)
BY DEF Inv, Asked

LEMMA DelKeeps ==
  ASSUME NEW m, NEW n \in Level, NEW w, Inv(m, n, w), NEW c \in Context, NEW names,
         NEW r, r = DelInstance(m, c, names)
  PROVE  Less(m, r, n)
<1>1. m \in Manager /\ Refs(m)
  BY DEF Inv, Refs, Typed
<1>2. /\ r \in Manager
      /\ r.call_lists = m.call_lists /\ r.call_params = m.call_params
      /\ r.syscalls = m.syscalls /\ r.trace_all = m.trace_all /\ r.raised = m.raised
      /\ Instances(r, c) = {i \in Instances(m, c) : i.name \notin names}
      /\ \A d \in Context \ {c} : Instances(r, d) = Instances(m, d)
  BY <1>1, DelFacts
<1>3. \A d \in Context : \A i \in Instances(r, d) : i \in Instances(m, d)
  BY <1>2
<1>4. Typed(r)
  BY <1>1, <1>2 DEF Refs, Typed
<1>5. \A d \in Context : \A i \in Instances(r, d) :
         /\ \A l \in Held(i) : Calls(r, l) = Calls(m, l)
         /\ Params(r, i) = Params(m, i)
  BY <1>2 DEF Calls, Params, ParamsOf
<1>6. n # 0 => ~r.raised
  BY <1>2 DEF Inv, Served
<1> QED
  BY <1>1, <1>2, <1>3, <1>4, <1>5, <1>6 DEF Less, Refs

\* An exception is raised: that matters to the stronger invariants alone.
LEMMA RaisedKeeps ==
  ASSUME NEW m, NEW w, Inv(m, 0, w), NEW b \in BOOLEAN, NEW r, r = [m EXCEPT !.raised = b],
         NEW v
  PROVE  Inv(r, 0, v)
<1>1. m \in Manager /\ Refs(m)
  BY DEF Inv, Refs, Typed
<1>2. /\ r \in Manager
      /\ r.call_lists = m.call_lists /\ r.call_params = m.call_params
      /\ r.syscalls = m.syscalls /\ r.trace_all = m.trace_all
      /\ r.syscall_dict = m.syscall_dict
  BY <1>1 DEF Manager
<1>3. \A c \in Context : Instances(r, c) = Instances(m, c)
  BY <1>2 DEF Instances
<1>4. Refs(r)
  BY <1>1, <1>2, <1>3 DEF Refs, Typed
<1> QED
  BY <1>4 DEF Inv

\* A list of parameters has lost one, and nothing else has changed.
Dropped(m, r, l, p) ==
    /\ r \in Manager /\ r.call_lists = m.call_lists /\ r.syscalls = m.syscalls
    /\ r.trace_all = m.trace_all /\ r.raised = m.raised
    /\ DOMAIN r.call_params = DOMAIN m.call_params
    /\ ToSet(r.call_params[l]) = ToSet(m.call_params[l]) \ {p}
    /\ \A x \in DOMAIN m.call_params : ToSet(r.call_params[x]) \subseteq ToSet(m.call_params[x])
    /\ \A c \in Context : Instances(r, c) = Instances(m, c)

LEMMA DropKeeps ==
  ASSUME NEW m, NEW n \in Level, NEW w, Inv(m, n, w), NEW s \in DOMAIN m.syscalls, NEW p,
         NEW r, r = Drop(m, s, p)
  PROVE  Inv(r, n, w) /\ Less(m, r, n) /\ Dropped(m, r, m.syscalls[s].call_params, p)
<1> DEFINE l == m.syscalls[s].call_params
           v == Keep(m.call_params[l], Param \ {p})
<1>1. m \in Manager /\ Refs(m) /\ l \in DOMAIN m.call_params
  BY DEF Inv, Refs, Typed
<1>2. m.call_params[l] \in Seq(Param)
  BY <1>1, Fields
<1>3. v \in Seq(Param) /\ ToSet(v) = ToSet(m.call_params[l]) \ {p}
  <2>1. ToSet(m.call_params[l]) \subseteq Param
    BY <1>2, ListFacts
  <2>2. v \in Seq(Param) /\ ToSet(v) = ToSet(m.call_params[l]) \cap (Param \ {p})
    BY <1>2, KeepFacts
  <2> QED
    BY <2>1, <2>2
<1>4. r = [m EXCEPT !.call_params[l] = v]
  BY DEF Drop
<1> HIDE DEF v
<1>5. /\ r \in Manager /\ r.call_lists = m.call_lists /\ r.syscalls = m.syscalls
      /\ r.trace_all = m.trace_all /\ r.raised = m.raised
      /\ DOMAIN r.call_params = DOMAIN m.call_params /\ r.call_params[l] = v
      /\ \A x \in DOMAIN m.call_params : x # l => r.call_params[x] = m.call_params[x]
      /\ \A c \in Context : Instances(r, c) = Instances(m, c)
  BY <1>1, <1>3, <1>4, ParamsFacts
<1>6. \A x \in DOMAIN m.call_params : ToSet(r.call_params[x]) \subseteq ToSet(m.call_params[x])
  BY <1>3, <1>5
<1>7. Dropped(m, r, l, p)
  BY <1>3, <1>5, <1>6 DEF Dropped
<1>8. \A c \in Context : \A i \in Instances(m, c) : Params(r, i) \subseteq Params(m, i)
  BY <1>1, <1>5, <1>6 DEF Refs, Params, ParamsOf
<1>9. Typed(r)
  BY <1>1, <1>5 DEF Refs, Typed
<1>10. Less(m, r, n)
  <2>1. \A x : Calls(r, x) = Calls(m, x)
    BY <1>5 DEF Calls
  <2>2. n # 0 => ~r.raised
    BY <1>5 DEF Inv, Served
  <2> QED
    BY <1>1, <1>5, <1>8, <1>9, <2>1, <2>2 DEF Less, Refs
<1> QED
  BY <1>7, <1>10, LessKeeps

\* There is a new list of parameters, and nothing else is new.
Wider(m, r, new, v) ==
    /\ new \in Nat /\ new \notin DOMAIN m.call_params
    /\ r.call_lists = m.call_lists /\ r.syscalls = m.syscalls
    /\ r.trace_all = m.trace_all /\ r.raised = m.raised
    /\ DOMAIN r.call_params = DOMAIN m.call_params \cup {new} /\ r.call_params[new] = v
    /\ \A x \in DOMAIN m.call_params : r.call_params[x] = m.call_params[x]
    /\ \A c \in Context : Instances(r, c) = Instances(m, c)

LEMMA ParamsAdded ==
  ASSUME NEW m, NEW n \in Level, NEW w, Inv(m, n, w), NEW v \in Seq(Param),
         NEW r, r = [m EXCEPT !.call_params = With(@, v)],
         NEW new, new = Fresh(m.call_params)
  PROVE  Inv(r, n, w) /\ Wider(m, r, new, v)
<1> DEFINE lists == m.call_params
           more == With(lists, v)
<1>1. m \in Manager /\ lists \in Objects(Seq(Param)) /\ Refs(m)
  BY Fields DEF Inv, Refs, Typed
<1>2. new = Fresh(lists)
  OBVIOUS
<1>3. r = [m EXCEPT !.call_params = more]
  OBVIOUS
<1> HIDE DEF lists
<1>4. /\ new \in Nat \ {0} /\ new \notin DOMAIN lists /\ more \in Objects(Seq(Param))
      /\ DOMAIN more = DOMAIN lists \cup {new} /\ more[new] = v
  <2>1. lists \in Objects(Seq(Param))
    BY <1>1
  <2>2. /\ Fresh(lists) \in Nat \ {0} /\ Fresh(lists) \notin DOMAIN lists
        /\ more \in Objects(Seq(Param)) /\ DOMAIN more = DOMAIN lists \cup {Fresh(lists)}
        /\ more[Fresh(lists)] = v
    BY <2>1, FreshFacts
  <2> QED
    BY <1>2, <2>2
<1>5. \A x \in DOMAIN lists : more[x] = lists[x]
  BY <1>2, <1>4 DEF With
<1> HIDE DEF more
<1>6. /\ r \in Manager /\ r.call_params = more /\ r.call_lists = m.call_lists
      /\ r.syscalls = m.syscalls /\ r.trace_all = m.trace_all /\ r.raised = m.raised
      /\ r.syscall_dict = m.syscall_dict
  BY <1>1, <1>3, <1>4 DEF Manager
<1>7. \A c \in Context : Instances(r, c) = Instances(m, c)
  BY <1>6 DEF Instances
<1>8. \A x : Calls(r, x) = Calls(m, x)
  BY <1>6 DEF Calls
<1>9. \A c \in Context : \A i \in Instances(m, c) : Params(r, i) = Params(m, i)
  BY <1>1, <1>5, <1>6 DEF Refs, Params, ParamsOf, lists
<1>10. Typed(r) /\ DOMAIN m.call_params \subseteq DOMAIN r.call_params
  BY <1>1, <1>4, <1>6 DEF Refs, Typed, lists
<1>11. Less(m, r, n)
  BY <1>1, <1>6, <1>7, <1>8, <1>9, <1>10 DEF Less, Inv, Refs, Served
<1>12. Inv(r, n, w)
  BY <1>11, LessKeeps
<1> QED
  BY <1>4, <1>5, <1>6, <1>7, <1>12 DEF lists, Wider

\* The elements before the first that is not in a set.
LEMMA PrefixFacts ==
  ASSUME NEW V, NEW s \in Seq(V), NEW u \in 1 .. Len(s)
  PROVE  /\ SubSeq(s, 1, u - 1) \in Seq(V)
         /\ \A x \in ToSet(SubSeq(s, 1, u - 1)) : \E k \in 1 .. Len(s) : k < u /\ s[k] = x
<1> DEFINE n == u - 1
           back == SubSeq(s, 1, n)
<1>1. /\ Len(s) \in Nat /\ \A k \in 1 .. Len(s) : s[k] \in V
  BY ListFacts
<1>2. n \in Nat /\ \A k \in 1 .. n : k \in 1 .. Len(s) /\ k < u
  BY <1>1
<1> HIDE DEF n
<1>3. back \in Seq(V) /\ Len(back) = n /\ \A k \in 1 .. n : back[k] = s[k]
  <2>1. 1 \in Int /\ n \in Int /\ \A k \in 1 .. n : s[k] \in V
    BY <1>1, <1>2
  <2>2. /\ back \in Seq(V) /\ Len(back) = IF 1 <= n THEN n - 1 + 1 ELSE 0
        /\ \A k \in 1 .. n - 1 + 1 : back[k] = s[1 + k - 1]
    BY <2>1, SubSeqProperties
  <2> HIDE DEF back
  <2>3. \A k \in 1 .. n : k \in 1 .. n - 1 + 1 /\ 1 + k - 1 = k
    BY <1>2
  <2> QED
    BY <1>2, <2>2, <2>3
<1> HIDE DEF back
<1>4. \A x : x \in ToSet(back) <=> \E k \in 1 .. Len(back) : back[k] = x
  BY <1>3, ListFacts
<1>5. \A x \in ToSet(back) : \E k \in 1 .. Len(s) : k < u /\ s[k] = x
  BY <1>2, <1>3, <1>4
<1> QED
  BY <1>3, <1>5 DEF back, n

\* The place of the first element that is not in a set, as Redo finds it.
UnknownIn(s, D) ==
    LET I == {k \in 1 .. Len(s) : s[k] \notin D} IN IF I # {} THEN Min(I) ELSE 0

LEMMA UnknownFacts ==
  ASSUME NEW V, NEW s \in Seq(V), NEW D, NEW u, u = UnknownIn(s, D)
  PROVE  /\ u = 0 <=> ToSet(s) \subseteq D
         /\ u # 0 => /\ u \in 1 .. Len(s)
                     /\ \A k \in 1 .. Len(s) : k < u => s[k] \in D
<1> DEFINE I == {k \in 1 .. Len(s) : s[k] \notin D}
<1>1. /\ Len(s) \in Nat /\ \A x : x \in ToSet(s) <=> \E k \in 1 .. Len(s) : s[k] = x
  BY ListFacts
<1>2. u = IF I # {} THEN Min(I) ELSE 0
  BY DEF UnknownIn
<1>3. I \in SUBSET Nat /\ \A k \in 1 .. Len(s) : k \in I <=> s[k] \notin D
  BY <1>1
<1>4. \A k \in I : k \in 1 .. Len(s)
  OBVIOUS
<1> HIDE DEF I
<1>5. CASE I = {}
  BY <1>1, <1>2, <1>3, <1>5
<1>6. CASE I # {}
  <2>1. \E k \in I : \A l \in I : k <= l
    BY <1>3, <1>6, LeastNumber
  <2>2. u \in I /\ \A l \in I : u <= l
    BY <1>2, <1>6, <2>1 DEF Min
  <2>3. u \in 1 .. Len(s) /\ u # 0 /\ s[u] \notin D
    BY <1>3, <1>4, <2>2
  <2>4. \A k \in 1 .. Len(s) : k < u => s[k] \in D
    BY <1>1, <1>3, <2>2, <2>3
  <2> QED
    BY <1>1, <2>3, <2>4
<1> QED
  BY <1>5, <1>6

\* The parameters that are added back to a rebuilt Syscall: those recorded, up to the
\* first that is not.
LEMMA BackFacts ==
  ASSUME NEW s \in Seq(Param), NEW D, NEW u, u = UnknownIn(s, D)
  PROVE  LET back == IF u = 0 THEN s ELSE SubSeq(s, 1, u - 1)
         IN  /\ back \in Seq(Param) /\ ToSet(back) \subseteq ToSet(s)
             /\ ToSet(back) \subseteq D
             /\ u = 0 <=> ToSet(s) \subseteq D
<1>1. /\ u = 0 <=> ToSet(s) \subseteq D
      /\ u # 0 => /\ u \in 1 .. Len(s)
                  /\ \A k \in 1 .. Len(s) : k < u => s[k] \in D
  BY UnknownFacts
<1>2. CASE u = 0
  BY <1>1, <1>2
<1>3. CASE u # 0
  <2> DEFINE back == SubSeq(s, 1, u - 1)
  <2>1. u \in 1 .. Len(s)
    BY <1>1, <1>3
  <2>2. /\ back \in Seq(Param)
        /\ \A x \in ToSet(back) : \E k \in 1 .. Len(s) : k < u /\ s[k] = x
    BY <2>1, PrefixFacts
  <2> HIDE DEF back
  <2>3. \A k \in 1 .. Len(s) : s[k] \in ToSet(s)
    BY ListFacts
  <2>4. ToSet(back) \subseteq ToSet(s) /\ ToSet(back) \subseteq D
    BY <1>1, <1>3, <2>2, <2>3
  <2> QED
    BY <1>1, <1>3, <2>2, <2>4 DEF back
<1> QED
  BY <1>2, <1>3

\* A Syscall that loses a parameter is rebuilt for the parameters that are left.
LEMMA RedoKeeps ==
  ASSUME NEW m, Refs(m), NEW n \in Level, NEW v, NEW c \in Context, NEW inst \in InstanceRec,
         \E j \in Instances(m, c) : j.name = inst.name /\ j.syscall = inst.syscall,
         NEW left, DOMAIN left \subseteq Param,
         \A p \in DOMAIN left : left[p] \in DOMAIN m.call_lists,
         Inv(Retired(m, c, <<inst>>), n, v),
         n # 0 => /\ HasParams(m, inst) /\ Params(m, inst) \subseteq DOMAIN left
                  /\ \A d \in Context : \A k \in Instances(Retired(m, c, <<inst>>), d) :
                        \A p \in DOMAIN left : left[p] \notin Held(k),
         n = 2 => /\ Params(m, inst) \subseteq v[c]
                  /\ \A k \in Instances(Retired(m, c, <<inst>>), c) :
                        Params(m, k) \cap Params(m, inst) = {},
         NEW r, r = Redo(m, c, inst, left)
  PROVE  Inv(r, n, v)
<1> DEFINE one == <<inst>>
           name == inst.name
           old == ParamsOf(m, inst.syscall)
           new_call_list == UNION {Calls(m, left[p]) : p \in DOMAIN left}
           names == SetToSeq(new_call_list)
           none == <<>>
           list == Fresh(m.call_lists)
           params == Fresh(m.call_params)
           ret == Retired(m, c, one)
           m1 == [ret EXCEPT !.call_lists = With(@, names)]
           m2 == [m1 EXCEPT !.call_params = With(@, none)]
           m3 == NewInstance(m2, c, name, list, params)
           unknown == UnknownIn(old, DOMAIN left)
           back == IF unknown = 0 THEN old ELSE SubSeq(old, 1, unknown - 1)
           m4 == AddBack(m3, c, name, back, left)
           L == {list} \cup {left[p] : p \in DOMAIN left}
           P == ToSet(back)
<1>1. m \in Manager /\ inst.syscall \in DOMAIN m.syscalls /\ name \in Name
  BY DEF Refs, Typed, InstanceRec
<1>2. r = IF ~HasParams(m, inst) THEN [m EXCEPT !.raised = TRUE]
          ELSE IF unknown = 0 THEN m4
          ELSE [DelInstance(m4, c, {name}) EXCEPT !.raised = TRUE]
  <2>1. ret.call_lists = m.call_lists /\ ret.call_params = m.call_params
    <3>1. one \in Seq(InstanceRec) /\ ToSet(one) = {inst}
      BY DEF ToSet
    <3> HIDE DEF one
    <3>2. \A f \in ToSet(one) :
             \E j \in Instances(m, c) : j.name = f.name /\ j.syscall = f.syscall
      BY <3>1
    <3> QED
      BY <3>1, <3>2, RetiredFacts
  <2> HIDE DEF unknown
  <2>2. unknown = SelectInSeq(old, LAMBDA p : p \notin DOMAIN left)
    BY DEF SelectInSeq, unknown, UnknownIn
  <2> QED
    BY <2>1, <2>2 DEF Redo
<1>3. CASE ~HasParams(m, inst)
  <2>1. n = 0 /\ r = [m EXCEPT !.raised = TRUE]
    BY <1>2, <1>3
  <2>2. Inv(m, 0, v)
    BY DEF Inv
  <2>3. Inv(r, 0, v)
    BY <2>1, <2>2, RaisedKeeps
  <2> QED
    BY <2>1, <2>3
<1>4. CASE HasParams(m, inst)
  <2>1. one \in Seq(InstanceRec) /\ ToSet(one) = {inst}
    BY DEF ToSet
  <2>2. r = IF unknown = 0 THEN m4
            ELSE [DelInstance(m4, c, {name}) EXCEPT !.raised = TRUE]
    BY <1>2, <1>4
  <2>3. Inv(ret, n, v)
    OBVIOUS
  <2>4. /\ n # 0 => /\ Params(m, inst) \subseteq DOMAIN left
                    /\ \A d \in Context : \A k \in Instances(ret, d) :
                          \A p \in DOMAIN left : left[p] \notin Held(k)
        /\ n = 2 => /\ Params(m, inst) \subseteq v[c]
                    /\ \A k \in Instances(ret, c) : Params(m, k) \cap Params(m, inst) = {}
    OBVIOUS
  <2>5. ret = Retired(m, c, one)
    OBVIOUS
  <2> HIDE DEF one, ret
  <2>6. /\ ret.call_lists = m.call_lists /\ ret.call_params = m.call_params
        /\ ret.trace_all = m.trace_all
        /\ \A s \in DOMAIN ret.syscalls :
              s \in DOMAIN m.syscalls /\ ret.syscalls[s] = m.syscalls[s]
        /\ Instances(ret, c) = {i \in Instances(m, c) : \A f \in ToSet(one) : i.name # f.name}
        /\ \A d \in Context \ {c} : Instances(ret, d) = Instances(m, d)
    <3>1. \A f \in ToSet(one) :
             \E j \in Instances(m, c) : j.name = f.name /\ j.syscall = f.syscall
      BY <2>1
    <3> QED
      BY <2>1, <2>5, <3>1, RetiredFacts
  <2>7. old \in Seq(Param) /\ ToSet(old) = Params(m, inst)
    <3>1. m.call_params \in [DOMAIN m.call_params -> Seq(Param)]
      BY <1>1, Fields
    <3> QED
      BY <1>1, <3>1 DEF Refs, Params, ParamsOf
  <2>8. /\ back \in Seq(Param) /\ ToSet(back) \subseteq ToSet(old)
        /\ ToSet(back) \subseteq DOMAIN left
        /\ unknown = 0 <=> ToSet(old) \subseteq DOMAIN left
    BY <2>7, BackFacts
  <2> HIDE DEF old, unknown, back
  <2>9. names \in Seq(Call) /\ ToSet(names) = new_call_list
    <3>1. m.call_lists \in [DOMAIN m.call_lists -> Seq(Call)]
      BY <1>1, Fields
    <3>2. \A l \in DOMAIN m.call_lists : Calls(m, l) \subseteq Call
      BY <3>1, ListFacts DEF Calls
    <3>3. new_call_list \subseteq Call
      BY <3>2
    <3> HIDE DEF new_call_list
    <3>4. IsFiniteSet(new_call_list)
      BY <3>3, FS_Subset, SyscallAssumption
    <3>5. names \in Seq(new_call_list) /\ ToSet(names) = new_call_list
      BY <3>4, OrderFacts
    <3> QED
      BY <3>3, <3>5
  <2>10. \A p \in DOMAIN left : Calls(m, left[p]) \subseteq new_call_list
    OBVIOUS
  <2> HIDE DEF names, new_call_list, none
  <2>11. none \in Seq(Param) /\ ToSet(none) = {}
    BY EmptySeq, ListFacts DEF none
  <2>12. Inv(m1, n, v) /\ Longer(ret, m1, list, names)
    <3>1. list = Fresh(ret.call_lists)
      BY <2>6
    <3> HIDE DEF list
    <3>2. m1 = [ret EXCEPT !.call_lists = With(@, names)]
      OBVIOUS
    <3> HIDE DEF m1
    <3> QED
      BY <2>3, <2>9, <3>1, <3>2, ListAdded, SMTT(20)
  <2> HIDE DEF list, m1
  <2>13. Inv(m2, n, v) /\ Wider(m1, m2, params, none)
    <3>1. params = Fresh(m1.call_params)
      BY <2>6, <2>12 DEF Longer
    <3>2. m2 = [m1 EXCEPT !.call_params = With(@, none)]
      OBVIOUS
    <3> HIDE DEF params, m2
    <3> QED
      BY <2>11, <2>12, <3>1, <3>2, ParamsAdded, SMTT(20)
  <2> HIDE DEF params, m2
  <2>14. /\ list \in Nat /\ list \notin DOMAIN m.call_lists
         /\ params \in Nat /\ params \notin DOMAIN m.call_params
         /\ m2.syscalls = ret.syscalls /\ m2.trace_all = m.trace_all
         /\ DOMAIN m2.call_lists = DOMAIN m.call_lists \cup {list}
         /\ m2.call_lists[list] = names
         /\ \A x \in DOMAIN m.call_lists : m2.call_lists[x] = m.call_lists[x]
         /\ DOMAIN m2.call_params = DOMAIN m.call_params \cup {params}
         /\ m2.call_params[params] = none
         /\ \A x \in DOMAIN m.call_params : m2.call_params[x] = m.call_params[x]
         /\ \A d \in Context : Instances(m2, d) = Instances(ret, d)
    BY <2>6, <2>12, <2>13 DEF Longer, Wider
  <2>15. /\ Calls(m2, list) = new_call_list
         /\ \A x \in DOMAIN m.call_lists : Calls(m2, x) = Calls(m, x)
    BY <2>9, <2>14 DEF Calls
  <2>16. \A d \in Context : \A k \in Instances(m2, d) :
            k \in Instances(m, d) /\ Params(m2, k) = Params(m, k)
    <3> SUFFICES ASSUME NEW d \in Context, NEW k \in Instances(m2, d)
                 PROVE  k \in Instances(m, d) /\ Params(m2, k) = Params(m, k)
      OBVIOUS
    <3>1. k \in Instances(ret, d) /\ k \in Instances(m, d)
      BY <2>6, <2>14
    <3>2. k.syscall \in DOMAIN ret.syscalls
      BY <2>3, <3>1 DEF Inv, Refs
    <3>3. m.syscalls[k.syscall].call_params \in DOMAIN m.call_params
      BY <3>1 DEF Refs
    <3> QED
      BY <2>6, <2>14, <3>1, <3>2, <3>3 DEF Params, ParamsOf
  <2>17. /\ list \in L /\ \A p \in DOMAIN left : left[p] \in L
         /\ \A l \in L : l = list \/ \E p \in DOMAIN left : l = left[p]
    OBVIOUS
  <2> HIDE DEF L
  <2>18. Vacant(m2, n, c, name, list, params, L, P, v)
    <3>1. L \subseteq DOMAIN m2.call_lists
      BY <2>14, <2>17
    <3>2. params \in DOMAIN m2.call_params /\ ToSet(m2.call_params[params]) \subseteq P
      BY <2>11, <2>14
    <3>3. m2.trace_all[c] = NoSyscall
      BY <2>14 DEF Refs
    <3>4. ASSUME n # 0
          PROVE  /\ params # DefaultParams
                 /\ \A s \in DOMAIN m2.syscalls : m2.syscalls[s].call_params # params
                 /\ \A l \in L : Calls(m2, l) \subseteq Calls(m2, list)
                 /\ \A d \in Context : \A k \in Instances(m2, d) : Held(k) \cap L = {}
      <4>1. params # DefaultParams
        BY <2>14 DEF Refs, Typed
      <4>2. \A s \in DOMAIN m2.syscalls : m2.syscalls[s].call_params # params
        BY <2>6, <2>14 DEF Refs
      <4>3. \A l \in L : Calls(m2, l) \subseteq Calls(m2, list)
        BY <2>10, <2>15, <2>17
      <4>4. ASSUME NEW d \in Context, NEW k \in Instances(m2, d), NEW l \in L, l \in Held(k)
            PROVE  FALSE
        <5>1. k \in Instances(m, d) /\ k \in Instances(ret, d)
          BY <2>14, <2>16
        <5>2. Held(k) \subseteq DOMAIN m.call_lists
          BY <5>1 DEF Refs
        <5> QED
          BY <2>4, <2>14, <2>17, <3>4, <4>4, <5>1, <5>2
      <4> QED
        BY <4>1, <4>2, <4>3, <4>4
    <3>5. ASSUME n = 2
          PROVE  P \subseteq v[c] /\ \A k \in Instances(m2, c) : Params(m2, k) \cap P = {}
      BY <2>4, <2>7, <2>8, <2>14, <2>16, <3>5
    <3> QED
      BY <2>17, <3>1, <3>2, <3>3, <3>4, <3>5 DEF Vacant
  <2>19. ToSet(back) \subseteq P /\ \A p \in ToSet(back) : left[p] \in L
    BY <2>8, <2>17
  <2> HIDE DEF P
  <2>20. Inv(m3, n, v) /\ Room(m3, n, c, name, L, P, v)
    <3> HIDE DEF name
    <3> QED
      BY <1>1, <2>13, <2>18, NewInstanceKeeps, SMTT(60)
  <2> HIDE DEF m3
  <2>21. Inv(m4, n, v)
    <3>1. m4 = AddBack(m3, c, name, back, left)
      OBVIOUS
    <3>2. back \in Seq(Param)
      BY <2>8
    <3> HIDE DEF name, m4
    <3>3. /\ Inv(m4, n, v) /\ Room(m4, n, c, name, L, P, v)
          /\ DOMAIN m4.call_lists = DOMAIN m3.call_lists
          /\ DOMAIN m4.call_params = DOMAIN m3.call_params
      BY <2>19, <2>20, <3>1, <3>2, AddBackKeeps, SMTT(60)
    <3> QED
      BY <3>3
  <2> HIDE DEF m4
  <2>22. CASE unknown = 0
    BY <2>2, <2>21, <2>22
  <2>23. CASE unknown # 0
    <3> DEFINE e == DelInstance(m4, c, {name})
    <3>1. n = 0
      BY <2>4, <2>7, <2>8, <2>23
    <3>2. r = [e EXCEPT !.raised = TRUE]
      BY <2>2, <2>23
    <3>3. Less(m4, e, 0)
      <4> DEFINE gone == {name}
      <4>1. e = DelInstance(m4, c, gone) /\ Inv(m4, 0, v) /\ 0 \in Level
        BY <2>21, <3>1
      <4> HIDE DEF e, gone
      <4> QED
        BY <4>1, DelKeeps
    <3> HIDE DEF e
    <3>4. Inv(e, 0, v)
      BY <2>21, <3>1, <3>3, LessKeeps
    <3>5. Inv(r, 0, v)
      BY <3>2, <3>4, RaisedKeeps
    <3> QED
      BY <3>1, <3>5
  <2> QED
    BY <2>22, <2>23
<1> QED
  BY <1>3, <1>4

\* The requests but for a parameter in a context.
Without(w, c, p) == [d \in Context |-> IF d = c THEN w[d] \ {p} ELSE w[d]]

\* An instance has lost a parameter, and so has its Syscall.
Trimmed(m, r, c, inst, p) ==
    /\ Refs(r) /\ r.call_lists = m.call_lists /\ r.syscalls = m.syscalls
    /\ r.trace_all = m.trace_all /\ r.raised = m.raised
    /\ DOMAIN r.call_params = DOMAIN m.call_params
    /\ \A x \in DOMAIN m.call_params : ToSet(r.call_params[x]) \subseteq ToSet(m.call_params[x])
    /\ Params(r, inst) = Params(m, inst) \ {p}
    /\ \E j \in Instances(r, c) : j.name = inst.name /\ j.syscall = inst.syscall
    /\ \A d \in Context : \A i \in Instances(r, d) :
          (d = c /\ i.name = inst.name) \/ (i \in Instances(m, d) /\ i # inst)

LEMMA TrimKeeps ==
  ASSUME NEW m, NEW n \in Level, NEW w, Inv(m, n, w), NEW c \in Context,
         NEW inst \in Instances(m, c), NEW p \in Params(m, inst),
         NEW left, DOMAIN left = DOMAIN inst.param_call_list \ {p},
         \A q \in DOMAIN left : left[q] = inst.param_call_list[q],
         NEW new \in InstanceRec, new.name = inst.name, new.call_names = inst.call_names,
         new.syscall = inst.syscall, new.param_call_list = left,
         NEW m1, m1 = Drop(m, inst.syscall, p), NEW r, r = PutInstance(m1, c, new)
  PROVE  Inv(r, n, Without(w, c, p)) /\ Trimmed(m, r, c, inst, p)
<1> DEFINE s == inst.syscall
           l == m.syscalls[s].call_params
           v == Without(w, c, p)
<1>1. /\ Refs(m) /\ m \in Manager /\ inst \in InstanceRec /\ s \in DOMAIN m.syscalls
      /\ l \in DOMAIN m.call_params /\ Held(inst) \subseteq DOMAIN m.call_lists
  BY Fields DEF Inv, Refs, Typed
<1>2. /\ DOMAIN left = DOMAIN inst.param_call_list \ {p} /\ DOMAIN left \subseteq Param
      /\ \A q \in DOMAIN left : left[q] = inst.param_call_list[q] /\ left[q] \in Nat
  BY <1>1 DEF InstanceRec
<1>3. /\ new \in InstanceRec /\ new.name = inst.name /\ new.call_names = inst.call_names
      /\ new.syscall = s /\ new.param_call_list = left
  OBVIOUS
<1>4. Inv(m1, n, w) /\ Less(m, m1, n) /\ Dropped(m, m1, l, p)
  <2> HIDE DEF s
  <2>1. m1 = Drop(m, s, p)
    BY DEF s
  <2> QED
    BY <1>1, <2>1, DropKeeps
<1>5. r = PutInstance(m1, c, new)
  OBVIOUS
<1>6. /\ m1 \in Manager /\ m1.call_lists = m.call_lists /\ m1.syscalls = m.syscalls
      /\ m1.trace_all = m.trace_all /\ m1.raised = m.raised
      /\ DOMAIN m1.call_params = DOMAIN m.call_params
      /\ ToSet(m1.call_params[l]) = ToSet(m.call_params[l]) \ {p}
      /\ \A x \in DOMAIN m.call_params : ToSet(m1.call_params[x]) \subseteq ToSet(m.call_params[x])
      /\ \A d \in Context : Instances(m1, d) = Instances(m, d)
  BY <1>4 DEF Dropped
<1>7. /\ r \in Manager
      /\ r.call_lists = m.call_lists /\ r.call_params = m1.call_params
      /\ r.syscalls = m.syscalls /\ r.trace_all = m.trace_all /\ r.raised = m.raised
      /\ Instances(r, c) = {i \in Instances(m, c) : i.name # inst.name} \cup {new}
      /\ \A d \in Context \ {c} : Instances(r, d) = Instances(m, d)
  BY <1>3, <1>5, <1>6, PutFacts
<1>8. \A d \in Context : \A i \in Instances(r, d) :
         (d = c /\ i = new) \/ (i \in Instances(m, d) /\ ~(d = c /\ i.name = inst.name))
  BY <1>7
<1>9. \A d \in Context : \A i \in Instances(m, d) : i = inst => d = c
  BY <1>1 DEF Refs
<1>10. Held(new) \subseteq Held(inst)
  BY <1>2, <1>3 DEF Held, Range
<1>11. \A x : Calls(r, x) = Calls(m, x)
  BY <1>7 DEF Calls
<1>12. Params(r, new) = Params(m, inst) \ {p} /\ Params(r, inst) = Params(m, inst) \ {p}
  BY <1>3, <1>6, <1>7 DEF Params, ParamsOf
<1>13. \A d \in Context : \A i \in Instances(m, d) : Params(r, i) \subseteq Params(m, i)
  BY <1>1, <1>6, <1>7 DEF Refs, Params, ParamsOf
<1>14. Refs(r)
  <2>1. Typed(r)
    BY <1>1, <1>6, <1>7 DEF Refs, Typed
  <2>2. \A d \in Context : r.trace_all[d] # NoSyscall =>
           /\ r.trace_all[d] \in DOMAIN r.syscalls
           /\ r.syscalls[r.trace_all[d]].context = d /\ Instances(r, d) = {}
    BY <1>1, <1>7 DEF Refs
  <2>3. \A d \in Context : \A i \in Instances(r, d) :
           /\ i.syscall \in DOMAIN r.syscalls /\ r.syscalls[i.syscall].context = d
           /\ Held(i) \subseteq DOMAIN r.call_lists
    BY <1>1, <1>3, <1>7, <1>8, <1>10 DEF Refs
  <2>4. \A d \in Context : \A i, j \in Instances(r, d) :
           i.name = j.name \/ i.syscall = j.syscall => i = j
    BY <1>1, <1>3, <1>7, <1>8 DEF Refs
  <2> QED
    BY <1>1, <1>6, <1>7, <2>1, <2>2, <2>3, <2>4 DEF Refs
<1>15. ASSUME n # 0 PROVE Owned(r) /\ Served(r)
  <2>0. Owned(m) /\ Served(m)
    BY <1>15 DEF Inv
  <2>1. \A t, u \in DOMAIN r.syscalls : t # u =>
           r.syscalls[t].call_params # r.syscalls[u].call_params
               \/ r.syscalls[t].call_params = DefaultParams
    BY <1>7, <2>0 DEF Owned
  <2>2. \A d \in Context : \A i \in Instances(r, d) :
           r.syscalls[i.syscall].call_params # DefaultParams
    BY <1>3, <1>7, <1>8, <2>0 DEF Owned
  <2>3. \A d, e \in Context : \A i \in Instances(r, d), j \in Instances(r, e) :
           i # j => Held(i) \cap Held(j) = {}
    <3>1. \A d \in Context : \A i \in Instances(r, d) :
             (d = c /\ i = new) \/ (i \in Instances(m, d) /\ i # inst)
      BY <1>8, <1>9
    <3>2. \A d \in Context : \A i \in Instances(m, d) :
             i # inst => Held(i) \cap Held(inst) = {}
      BY <2>0 DEF Owned
    <3> QED
      BY <1>10, <2>0, <3>1, <3>2 DEF Owned
  <2>4. \A d \in Context : \A i \in Instances(r, d) :
          /\ Calls(r, i.call_names) \subseteq r.syscalls[i.syscall].hooks
          /\ \A q \in DOMAIN i.param_call_list :
                Calls(r, i.param_call_list[q]) \subseteq Calls(r, i.call_names)
          /\ Params(r, i) \subseteq DOMAIN i.param_call_list
    <3> SUFFICES ASSUME NEW d \in Context, NEW i \in Instances(r, d)
                 PROVE  /\ Calls(r, i.call_names) \subseteq r.syscalls[i.syscall].hooks
                        /\ \A q \in DOMAIN i.param_call_list :
                              Calls(r, i.param_call_list[q]) \subseteq Calls(r, i.call_names)
                        /\ Params(r, i) \subseteq DOMAIN i.param_call_list
      OBVIOUS
    <3>1. CASE i = new
      <4>1. /\ Calls(m, inst.call_names) \subseteq m.syscalls[s].hooks
            /\ \A q \in DOMAIN inst.param_call_list :
                  Calls(m, inst.param_call_list[q]) \subseteq Calls(m, inst.call_names)
            /\ Params(m, inst) \subseteq DOMAIN inst.param_call_list
        BY <2>0 DEF Served
      <4>2. Params(r, new) \subseteq DOMAIN new.param_call_list
        BY <1>2, <1>3, <1>12, <4>1
      <4>3. \A q \in DOMAIN new.param_call_list :
               Calls(r, new.param_call_list[q]) \subseteq Calls(r, new.call_names)
        BY <1>2, <1>3, <1>11, <4>1
      <4>4. Calls(r, new.call_names) \subseteq r.syscalls[new.syscall].hooks
        BY <1>3, <1>7, <1>11, <4>1
      <4> QED
        BY <3>1, <4>2, <4>3, <4>4
    <3>2. CASE i \in Instances(m, d)
      BY <1>7, <1>11, <1>13, <2>0, <3>2 DEF Served
    <3> QED
      BY <1>8, <3>1, <3>2
  <2> QED
    BY <1>7, <2>0, <2>1, <2>2, <2>3, <2>4 DEF Owned, Served
<1>16. ASSUME n = 2 PROVE Asked(r, v)
  <2>1. Asked(m, w)
    BY <1>16 DEF Inv
  <2>2. \A d \in Context : v[d] = IF d = c THEN w[d] \ {p} ELSE w[d]
    BY DEF Without
  <2>3. p \in Params(m, inst) /\ Params(m, inst) \subseteq w[c]
    BY <2>1 DEF Asked
  <2>4. \A i \in Instances(m, c) : i.name # inst.name => p \notin Params(m, i)
    BY <2>1, <2>3 DEF Asked
  <2> HIDE DEF v
  <2>5. \A d \in Context : \A i \in Instances(r, d) : Params(r, i) \subseteq v[d]
    <3> SUFFICES ASSUME NEW d \in Context, NEW i \in Instances(r, d)
                 PROVE  Params(r, i) \subseteq v[d]
      OBVIOUS
    <3>1. CASE d = c /\ i = new
      BY <1>12, <2>2, <2>3, <3>1
    <3>2. CASE i \in Instances(m, d) /\ ~(d = c /\ i.name = inst.name)
      <4>1. Params(r, i) \subseteq Params(m, i) /\ Params(m, i) \subseteq w[d]
        BY <1>13, <2>1, <3>2 DEF Asked
      <4> QED
        BY <2>2, <2>4, <3>2, <4>1
    <3> QED
      BY <1>8, <3>1, <3>2
  <2>6. \A i \in Instances(m, c) : i.name # inst.name => Params(m, i) \cap Params(m, inst) = {}
    BY <2>1 DEF Asked
  <2>7. \A d \in Context : \A i, j \in Instances(r, d) :
           i # j => Params(r, i) \cap Params(r, j) = {}
    BY <1>8, <1>12, <1>13, <2>1, <2>6 DEF Asked
  <2> QED
    BY <2>5, <2>7 DEF Asked
<1>17. Trimmed(m, r, c, inst, p)
  <2>1. \E j \in Instances(r, c) : j.name = inst.name /\ j.syscall = inst.syscall
    BY <1>3, <1>7
  <2>2. \A d \in Context : \A i \in Instances(r, d) :
          (d = c /\ i.name = inst.name) \/ (i \in Instances(m, d) /\ i # inst)
    BY <1>3, <1>8, <1>9
  <2> QED
    BY <1>6, <1>7, <1>12, <1>14, <2>1, <2>2 DEF Trimmed
<1> QED
  BY <1>14, <1>15, <1>16, <1>17 DEF Inv

\* The calls of an instance are changed in place: that can be seen in this instance alone.
Shortened(m, r, cn) ==
    /\ Refs(r) /\ r.call_params = m.call_params /\ r.syscalls = m.syscalls
    /\ r.trace_all = m.trace_all /\ r.raised = m.raised
    /\ DOMAIN r.call_lists = DOMAIN m.call_lists
    /\ \A x \in DOMAIN m.call_lists : x # cn => r.call_lists[x] = m.call_lists[x]
    /\ \A d \in Context : Instances(r, d) = Instances(m, d)

LEMMA ShortFacts ==
  ASSUME NEW m, Refs(m), NEW cn \in DOMAIN m.call_lists, NEW v \in Seq(Call),
         NEW r, r = [m EXCEPT !.call_lists[cn] = v]
  PROVE  Shortened(m, r, cn)
<1> DEFINE g == [m.call_lists EXCEPT ![cn] = v]
<1>1. m \in Manager /\ m.call_lists \in Objects(Seq(Call))
  BY Fields DEF Refs, Typed
<1>2. r = [m EXCEPT !.call_lists = g]
  OBVIOUS
<1>3. g \in Objects(Seq(Call)) /\ DOMAIN g = DOMAIN m.call_lists
  BY <1>1, ObjectsUpdate
<1>4. \A x \in DOMAIN m.call_lists : x # cn => g[x] = m.call_lists[x]
  OBVIOUS
<1> HIDE DEF g
<1>5. /\ r \in Manager /\ r.call_lists = g /\ r.call_params = m.call_params
      /\ r.syscalls = m.syscalls /\ r.trace_all = m.trace_all /\ r.raised = m.raised
      /\ r.syscall_dict = m.syscall_dict
  BY <1>1, <1>2, <1>3 DEF Manager
<1>6. \A d \in Context : Instances(r, d) = Instances(m, d)
  BY <1>5 DEF Instances
<1>7. Refs(r)
  <2>1. Typed(r)
    BY <1>5 DEF Refs, Typed
  <2>2. DOMAIN r.call_lists = DOMAIN m.call_lists
    BY <1>3, <1>5
  <2>3. \A d \in Context : \A i \in Instances(r, d) :
           /\ i.syscall \in DOMAIN r.syscalls /\ r.syscalls[i.syscall].context = d
           /\ Held(i) \subseteq DOMAIN r.call_lists
    BY <1>5, <1>6, <2>2 DEF Refs
  <2>4. /\ \A s \in DOMAIN r.syscalls : r.syscalls[s].call_params \in DOMAIN r.call_params
        /\ \A d \in Context : r.trace_all[d] # NoSyscall =>
              /\ r.trace_all[d] \in DOMAIN r.syscalls
              /\ r.syscalls[r.trace_all[d]].context = d /\ Instances(r, d) = {}
    BY <1>5, <1>6 DEF Refs
  <2>5. \A d \in Context : \A i, j \in Instances(r, d) :
           i.name = j.name \/ i.syscall = j.syscall => i = j
    BY <1>6 DEF Refs
  <2> QED
    BY <2>1, <2>3, <2>4, <2>5 DEF Refs
<1> QED
  BY <1>3, <1>4, <1>5, <1>6, <1>7 DEF Shortened

LEMMA CallsLeftFacts ==
  ASSUME NEW m, Refs(m), NEW c \in Context, NEW inst \in Instances(m, c), NEW p
  PROVE  CallsLeft(m, inst, p) \in Seq(Call)
<1> DEFINE list == inst.param_call_list[p]
           names == m.call_lists[inst.call_names]
           half == Len(names) \div 2
           t == [k \in 1 .. half |-> names[2 * k]]
           S == Call \ Calls(m, list)
<1>1. names \in Seq(Call)
  BY Fields DEF Refs, Typed, Held
<1>2. CallsLeft(m, inst, p) = IF list = inst.call_names THEN t ELSE Keep(names, S)
  BY DEF CallsLeft
<1> HIDE DEF names, S
<1>3. Keep(names, S) \in Seq(Call)
  BY <1>1, KeepFacts
<1>4. t \in Seq(Call)
  <2>1. Len(names) \in Nat /\ \A k \in 1 .. Len(names) : names[k] \in Call
    BY <1>1, ListFacts
  <2>2. half \in Nat /\ \A k \in 1 .. half : 2 * k \in 1 .. Len(names)
    BY <2>1
  <2> HIDE DEF half
  <2>3. \A k \in 1 .. half : names[2 * k] \in Call
    BY <2>1, <2>2
  <2> QED
    BY <2>2, <2>3
<1> QED
  BY <1>2, <1>3, <1>4

\* Once a parameter of an instance is gone, with or without the instance, the requests
\* but for it are served.
LEMMA GoneKeeps ==
  ASSUME NEW m, NEW n \in Level, NEW w, Inv(m, n, w), NEW c \in Context,
         NEW inst \in Instances(m, c), NEW p \in Params(m, inst),
         NEW r, Less(m, r, n), \A i \in Instances(r, c) : i.name # inst.name
  PROVE  Inv(r, n, Without(w, c, p))
<1> DEFINE v == Without(w, c, p)
<1>1. ASSUME n = 2 PROVE \A d \in Context : \A i \in Instances(r, d) : Params(r, i) \subseteq v[d]
  <2> SUFFICES ASSUME NEW d \in Context, NEW i \in Instances(r, d)
               PROVE  Params(r, i) \subseteq v[d]
    OBVIOUS
  <2>1. Asked(m, w)
    BY <1>1 DEF Inv
  <2>2. i \in Instances(m, d) /\ Params(r, i) \subseteq Params(m, i)
    BY <1>1 DEF Less
  <2>3. Params(m, i) \subseteq w[d]
    BY <2>1, <2>2 DEF Asked
  <2>4. d = c => p \notin Params(m, i)
    BY <2>1, <2>2 DEF Asked
  <2>5. v[d] = IF d = c THEN w[d] \ {p} ELSE w[d]
    BY DEF Without
  <2> QED
    BY <2>2, <2>3, <2>4, <2>5
<1> HIDE DEF v
<1>2. Inv(r, n, v)
  BY <1>1, LessAsked
<1> QED
  BY <1>2 DEF v

\* A parameter that an instance serves is taken out of it.
LEMMA RmCallParamKeeps ==
  ASSUME NEW m, NEW n \in Level, NEW w, Inv(m, n, w), NEW c \in Context,
         NEW inst \in Instances(m, c), NEW p \in Params(m, inst),
         NEW r, r = rmCallParam(m, c, inst, p)
  PROVE  Inv(r, n, Without(w, c, p))
<1> DEFINE s == inst.syscall
           cn == inst.call_names
           v == Without(w, c, p)
           one == <<inst>>
           known == DOMAIN inst.param_call_list
           m1 == Drop(m, s, p)
           left == Restrict(inst.param_call_list, known \ {p})
           m2 == PutInstance(m1, c, [inst EXCEPT !.param_call_list = left])
           rest == CallsLeft(m, inst, p)
           m3 == [m2 EXCEPT !.call_lists[cn] = rest]
<1>1. /\ Refs(m) /\ m \in Manager /\ inst \in InstanceRec /\ s \in DOMAIN m.syscalls
      /\ Held(inst) \subseteq DOMAIN m.call_lists /\ known \subseteq Param
      /\ cn \in Held(inst) /\ \A q \in known : inst.param_call_list[q] \in Held(inst)
  <2>1. /\ Refs(m) /\ m \in Manager /\ inst \in InstanceRec /\ s \in DOMAIN m.syscalls
        /\ Held(inst) \subseteq DOMAIN m.call_lists
    BY Fields DEF Inv, Refs, Typed
  <2> QED
    BY <2>1 DEF InstanceRec, Held, Range
<1>2. r = IF p \notin known
          THEN [m1 EXCEPT !.raised = Cardinality(known) # 1]
          ELSE IF known = {p}
          THEN Retired(m1, c, one)
          ELSE IF Calls(m, inst.param_call_list[p]) = {}
          THEN m2
          ELSE Redo(m3, c, inst, left)
  BY DEF rmCallParam
<1>3. Inv(m1, n, w) /\ Less(m, m1, n) /\ \A d \in Context : Instances(m1, d) = Instances(m, d)
  <2> DEFINE l == m.syscalls[s].call_params
  <2>1. m1 = Drop(m, s, p)
    OBVIOUS
  <2> HIDE DEF m1, s, l
  <2>2. Inv(m1, n, w) /\ Less(m, m1, n) /\ Dropped(m, m1, m.syscalls[s].call_params, p)
    BY <1>1, <2>1, DropKeeps
  <2> QED
    BY <2>2 DEF Dropped
<1>4. one \in Seq(InstanceRec) /\ ToSet(one) = {inst}
  BY <1>1 DEF ToSet
<1>5. Inv(m2, n, v) /\ Trimmed(m, m2, c, inst, p)
  <2> DEFINE new == [inst EXCEPT !.param_call_list = left]
  <2>1. m2 = PutInstance(m1, c, new) /\ m1 = Drop(m, inst.syscall, p)
    OBVIOUS
  <2> HIDE DEF m1, m2
  <2>2. /\ DOMAIN left = DOMAIN inst.param_call_list \ {p}
        /\ \A q \in DOMAIN left : left[q] = inst.param_call_list[q]
    BY DEF Restrict
  <2>3. left \in UNION {[D -> Nat] : D \in SUBSET Param}
    <3>1. PICK D \in SUBSET Param : inst.param_call_list \in [D -> Nat]
      BY <1>1 DEF InstanceRec
    <3>2. left \in [D \ {p} -> Nat] /\ D \ {p} \in SUBSET Param
      BY <3>1 DEF Restrict
    <3> QED
      BY <3>2
  <2> HIDE DEF left
  <2>4. /\ new \in InstanceRec /\ new.name = inst.name /\ new.call_names = inst.call_names
        /\ new.syscall = inst.syscall /\ new.param_call_list = left
    BY <1>1, <2>3 DEF InstanceRec
  <2> HIDE DEF new, s, known
  <2>5. Inv(m2, n, Without(w, c, p)) /\ Trimmed(m, m2, c, inst, p)
    BY <2>1, <2>2, <2>4, TrimKeeps, SMTT(60)
  <2> QED
    BY <2>5
<1>6. /\ DOMAIN left = known \ {p} /\ \A q \in DOMAIN left : left[q] = inst.param_call_list[q]
  BY DEF Restrict
<1> HIDE DEF one, m1, left, m2, rest
<1>7. CASE p \notin known
  <2>1. n = 0
    BY <1>7 DEF Inv, Served
  <2> DEFINE b == Cardinality(known) # 1
  <2>2. b \in BOOLEAN /\ r = [m1 EXCEPT !.raised = b]
    BY <1>2, <1>7
  <2> HIDE DEF b
  <2>3. Inv(m1, 0, w)
    BY <1>3, <2>1
  <2> HIDE DEF v
  <2>4. Inv(r, 0, v)
    BY <2>2, <2>3, RaisedKeeps
  <2> QED
    BY <2>1, <2>4 DEF v
<1>8. CASE p \in known /\ known = {p}
  <2>1. r = Retired(m1, c, one)
    BY <1>2, <1>8
  <2>2. \A f \in ToSet(one) : \E j \in Instances(m1, c) : j.name = f.name /\ j.syscall = f.syscall
    BY <1>3, <1>4
  <2>3. Refs(m1) /\ (n # 0 => ~m1.raised)
    BY <1>3 DEF Inv, Served
  <2>4. /\ Instances(r, c) = {i \in Instances(m1, c) : \A f \in ToSet(one) : i.name # f.name}
        /\ Less(m1, r, n)
    BY <1>4, <2>1, <2>2, <2>3, RetiredFacts
  <2>5. Less(m, r, n)
    BY <1>3, <2>4 DEF Less
  <2>6. \A i \in Instances(r, c) : i.name # inst.name
    BY <1>4, <2>4
  <2> QED
    BY <2>5, <2>6, GoneKeeps
<1>9. CASE p \in known /\ known # {p} /\ Calls(m, inst.param_call_list[p]) = {}
  BY <1>2, <1>5, <1>9
<1>10. CASE p \in known /\ known # {p} /\ Calls(m, inst.param_call_list[p]) # {}
  <2>1. r = Redo(m3, c, inst, left)
    BY <1>2, <1>10
  <2>2. Trimmed(m, m2, c, inst, p)
    BY <1>5
  <2>3. /\ Refs(m2) /\ m2.call_lists = m.call_lists /\ m2.syscalls = m.syscalls
        /\ m2.trace_all = m.trace_all /\ m2.raised = m.raised
        /\ DOMAIN m2.call_params = DOMAIN m.call_params
        /\ \A x \in DOMAIN m.call_params : ToSet(m2.call_params[x]) \subseteq ToSet(m.call_params[x])
        /\ Params(m2, inst) = Params(m, inst) \ {p}
        /\ \E j \in Instances(m2, c) : j.name = inst.name /\ j.syscall = inst.syscall
        /\ \A d \in Context : \A i \in Instances(m2, d) :
              (d = c /\ i.name = inst.name) \/ (i \in Instances(m, d) /\ i # inst)
    BY <2>2 DEF Trimmed
  <2>4. Shortened(m2, m3, cn)
    <3>1. cn \in DOMAIN m2.call_lists
      BY <1>1, <2>3
    <3>2. rest \in Seq(Call)
      BY <1>1, CallsLeftFacts DEF rest
    <3> DEFINE k == cn
    <3>3. m3 = [m2 EXCEPT !.call_lists[k] = rest] /\ k \in DOMAIN m2.call_lists
      BY <3>1
    <3> HIDE DEF m3, k
    <3>4. Shortened(m2, m3, k)
      BY <2>3, <3>2, <3>3, ShortFacts
    <3> QED
      BY <3>4 DEF k
  <2> HIDE DEF m3
  <2>5. /\ Refs(m3) /\ m3.call_params = m2.call_params /\ m3.syscalls = m.syscalls
        /\ m3.trace_all = m.trace_all /\ m3.raised = m.raised
        /\ DOMAIN m3.call_lists = DOMAIN m.call_lists
        /\ \A x \in DOMAIN m.call_lists : x # cn => m3.call_lists[x] = m.call_lists[x]
        /\ \A d \in Context : Instances(m3, d) = Instances(m2, d)
    BY <2>3, <2>4 DEF Shortened
  <2> DEFINE ret == Retired(m3, c, one)
  <2>6. ret = Retired(m3, c, <<inst>>)
    BY DEF one
  <2>7. /\ ret.call_lists = m3.call_lists /\ ret.call_params = m3.call_params
        /\ ret.trace_all = m3.trace_all /\ ret.raised = m3.raised
        /\ Instances(ret, c) = {i \in Instances(m3, c) : \A f \in ToSet(one) : i.name # f.name}
        /\ \A d \in Context \ {c} : Instances(ret, d) = Instances(m3, d)
        /\ Less(m3, ret, 0)
    <3>1. \A f \in ToSet(one) : \E j \in Instances(m3, c) : j.name = f.name /\ j.syscall = f.syscall
      BY <1>4, <2>3, <2>5
    <3>2. ret = Retired(m3, c, one)
      OBVIOUS
    <3> HIDE DEF ret
    <3> QED
      BY <1>4, <2>5, <3>1, <3>2, RetiredFacts DEF Level
  <2> HIDE DEF ret
  <2>8. \A d \in Context : \A i \in Instances(ret, d) :
           i \in Instances(m, d) /\ i # inst /\ i \in Instances(m3, d)
    BY <1>4, <2>3, <2>5, <2>7
  <2>9. \A d \in Context : \A i \in Instances(m, d) : i.syscall \in DOMAIN m.syscalls
    BY <1>1 DEF Refs
  <2>10. \A d \in Context : \A i \in Instances(ret, d) :
            i.syscall \in DOMAIN ret.syscalls /\ ret.syscalls[i.syscall] = m.syscalls[i.syscall]
    BY <2>5, <2>7 DEF Less
  <2>11. \A d \in Context : \A i \in Instances(ret, d) : Params(ret, i) \subseteq Params(m, i)
    <3> SUFFICES ASSUME NEW d \in Context, NEW i \in Instances(ret, d)
                 PROVE  Params(ret, i) \subseteq Params(m, i)
      OBVIOUS
    <3> DEFINE x == m.syscalls[i.syscall].call_params
    <3>1. x \in DOMAIN m.call_params /\ ret.syscalls[i.syscall].call_params = x
      BY <1>1, <2>8, <2>9, <2>10 DEF Refs
    <3>2. ret.call_params = m2.call_params
      BY <2>5, <2>7
    <3>3. ToSet(m2.call_params[x]) \subseteq ToSet(m.call_params[x])
      BY <2>3, <3>1
    <3> QED
      BY <3>1, <3>2, <3>3 DEF Params, ParamsOf
  <2>12. ASSUME n # 0, NEW d \in Context, NEW i \in Instances(ret, d)
         PROVE  /\ Held(i) \cap Held(inst) = {}
                /\ \A l \in Held(i) : Calls(ret, l) = Calls(m, l)
    <3>1. Owned(m)
      BY <2>12 DEF Inv
    <3>2. Held(i) \cap Held(inst) = {} /\ Held(i) \subseteq DOMAIN m.call_lists
      BY <1>1, <2>8, <3>1 DEF Owned, Refs
    <3> QED
      BY <1>1, <2>5, <2>7, <3>2 DEF Calls
  <2>13. Less(m, ret, n)
    <3>1. Typed(ret)
      BY <2>7 DEF Less
    <3>2. /\ DOMAIN m.call_lists \subseteq DOMAIN ret.call_lists
          /\ DOMAIN m.call_params \subseteq DOMAIN ret.call_params
          /\ DOMAIN ret.syscalls \subseteq DOMAIN m.syscalls
          /\ \A t \in DOMAIN ret.syscalls : ret.syscalls[t] = m.syscalls[t]
      BY <2>3, <2>5, <2>7 DEF Less
    <3>3. \A d \in Context :
            /\ ret.trace_all[d] \in {NoSyscall, m.trace_all[d]}
            /\ ret.trace_all[d] # NoSyscall => ret.trace_all[d] \in DOMAIN ret.syscalls
            /\ Instances(ret, d) \subseteq Instances(m, d)
            /\ \A i \in Instances(ret, d) : i.syscall \in DOMAIN ret.syscalls
      BY <2>5, <2>7, <2>8, <2>10 DEF Less
    <3>4. n # 0 => ~ret.raised
      BY <2>5, <2>7 DEF Inv, Served
    <3> QED
      BY <2>11, <2>12, <3>1, <3>2, <3>3, <3>4 DEF Less
  <2>14. Inv(ret, n, v)
    <3>1. \A i \in Instances(ret, c) : i.name # inst.name
      BY <1>4, <2>7
    <3> QED
      BY <2>13, <3>1, GoneKeeps
  <2>15. Params(m3, inst) = Params(m, inst) \ {p}
    BY <2>3, <2>5 DEF Params, ParamsOf
  <2>16. ASSUME n # 0
         PROVE  /\ HasParams(m3, inst) /\ Params(m3, inst) \subseteq DOMAIN left
                /\ \A d \in Context : \A k \in Instances(ret, d) :
                      \A q \in DOMAIN left : left[q] \notin Held(k)
    <3>1. Served(m)
      BY <2>16 DEF Inv
    <3>2. /\ Calls(m, inst.param_call_list[p]) \subseteq m.syscalls[s].hooks
          /\ Params(m, inst) \subseteq known
      BY <1>10, <3>1 DEF Served
    <3>3. HasParams(m3, inst)
      BY <1>10, <2>5, <3>2 DEF HasParams
    <3>4. \A d \in Context : \A k \in Instances(ret, d) :
             \A q \in DOMAIN left : left[q] \notin Held(k)
      BY <1>1, <1>6, <2>12, <2>16
    <3> QED
      BY <1>6, <2>15, <3>2, <3>3, <3>4
  <2>17. ASSUME n = 2
         PROVE  /\ Params(m3, inst) \subseteq v[c]
                /\ \A k \in Instances(ret, c) : Params(m3, k) \cap Params(m3, inst) = {}
    <3>1. Asked(m, w)
      BY <2>17 DEF Inv
    <3>2. v[c] = w[c] \ {p}
      BY DEF Without
    <3>3. Params(m3, inst) \subseteq v[c]
      BY <2>15, <3>1, <3>2 DEF Asked
    <3>4. \A k \in Instances(ret, c) :
             k \in Instances(m, c) /\ k # inst /\ Params(m3, k) = Params(ret, k)
      BY <2>5, <2>7, <2>8, <2>10 DEF Params, ParamsOf
    <3> QED
      BY <2>11, <2>15, <3>1, <3>3, <3>4 DEF Asked
  <2>18. /\ \E j \in Instances(m3, c) : j.name = inst.name /\ j.syscall = inst.syscall
         /\ DOMAIN left \subseteq Param /\ \A q \in DOMAIN left : left[q] \in DOMAIN m3.call_lists
    BY <1>1, <1>6, <2>3, <2>5
  <2> HIDE DEF v, s, cn, known
  <2>19. Inv(r, n, v)
    BY <1>1, <2>1, <2>5, <2>6, <2>14, <2>16, <2>17, <2>18, RedoKeeps, SMTT(60)
  <2> QED
    BY <2>19 DEF v
<1> QED
  BY <1>7, <1>8, <1>9, <1>10

\* The request of a context for a parameter is taken back.
LEMMA RmKeeps ==
  ASSUME NEW m, NEW n \in Level, NEW w, Inv(m, n, w), NEW c \in Context, NEW p,
         NEW r, r = rmSyscall(m, c, p)
  PROVE  Inv(r, n, Without(w, c, p))
<1> DEFINE S == {i \in Instances(m, c) : hasCallParam(m, i.syscall, p)}
           found == Keep(m.syscall_dict[c], S)
           v == Without(w, c, p)
           names == {p}
<1>1. m \in Manager /\ Refs(m)
  BY DEF Inv, Refs, Typed
<1>2. r = IF found = <<>> THEN DelInstance(m, c, names) ELSE rmCallParam(m, c, found[1], p)
  BY DEF rmSyscall, findInstanceByParams
<1>3. \A i \in Instances(m, c) : i \in S <=> p \in Params(m, i)
  <2>1. m.call_params \in [DOMAIN m.call_params -> Seq(Param)]
    BY <1>1, Fields
  <2>2. \A i \in Instances(m, c) : ParamsOf(m, i.syscall) \in Seq(Param)
    BY <1>1, <2>1 DEF Refs, ParamsOf
  <2>3. \A i \in Instances(m, c) : Contains(ParamsOf(m, i.syscall), p) <=> p \in Params(m, i)
    BY <2>2, ListFacts DEF Params
  <2> QED
    BY <2>3 DEF hasCallParam
<1>4. S \subseteq Instances(m, c)
  OBVIOUS
<1> HIDE DEF S
<1>5. found \in Seq(InstanceRec) /\ ToSet(found) = S
  <2>1. m.syscall_dict[c] \in Seq(InstanceRec) /\ Instances(m, c) = ToSet(m.syscall_dict[c])
    BY <1>1, Fields DEF Instances
  <2>2. found = Keep(m.syscall_dict[c], S)
    OBVIOUS
  <2> HIDE DEF found
  <2>3. found \in Seq(InstanceRec) /\ ToSet(found) = ToSet(m.syscall_dict[c]) \cap S
    BY <2>1, <2>2, KeepFacts
  <2> QED
    BY <1>4, <2>1, <2>3
<1> HIDE DEF found
<1>6. /\ found = <<>> <=> S = {}
      /\ found # <<>> => found[1] \in S
  BY <1>5, FirstFacts
<1>7. CASE found = <<>>
  <2>1. r = DelInstance(m, c, names)
    BY <1>2, <1>7
  <2> HIDE DEF names
  <2>2. Less(m, r, n)
    BY <2>1, DelKeeps
  <2>3. ASSUME n = 2 PROVE \A d \in Context : \A i \in Instances(r, d) : Params(r, i) \subseteq v[d]
    <3> SUFFICES ASSUME NEW d \in Context, NEW i \in Instances(r, d)
                 PROVE  Params(r, i) \subseteq v[d]
      OBVIOUS
    <3>1. i \in Instances(m, d) /\ Params(r, i) \subseteq Params(m, i)
      BY <2>2, <2>3 DEF Less
    <3>2. Params(m, i) \subseteq w[d]
      BY <2>3, <3>1 DEF Inv, Asked
    <3>3. d = c => p \notin Params(m, i)
      BY <1>3, <1>6, <1>7, <3>1
    <3>4. v[d] = IF d = c THEN w[d] \ {p} ELSE w[d]
      BY DEF Without
    <3> QED
      BY <3>1, <3>2, <3>3, <3>4
  <2> HIDE DEF v
  <2>4. Inv(r, n, v)
    BY <2>2, <2>3, LessAsked
  <2> QED
    BY <2>4 DEF v
<1>8. CASE found # <<>>
  <2> DEFINE inst == found[1]
  <2>1. r = rmCallParam(m, c, inst, p)
    BY <1>2, <1>8
  <2>2. inst \in Instances(m, c) /\ p \in Params(m, inst)
    BY <1>3, <1>4, <1>6, <1>8
  <2> HIDE DEF inst
  <2> QED
    BY <2>1, <2>2, RmCallParamKeeps
<1> QED
  BY <1>7, <1>8

\* The requests of all contexts for a parameter are taken back, one after the other.
LEMMA EverywhereKeeps ==
  ASSUME NEW m, NEW n \in Level, NEW w, Inv(m, n, w), NEW p,
         NEW r, r = rmSyscallEverywhere(m, p)
  PROVE  Inv(r, n, [d \in Context |-> w[d] \ {p}])
<1> DEFINE N == Len(Contexts)
           Step(b, i) == IF b.raised THEN b ELSE rmSyscall(b, Contexts[i], p)
           Passes(f, k) == f = [i \in 0 .. k |-> IF i = 0 THEN m ELSE Step(f[i - 1], i)]
           G == {k \in Nat : \E f : Passes(f, k)}
           done == CHOOSE f : Passes(f, N)
           all == [d \in Context |-> w[d] \ {p}]
<1>1. /\ N \in Nat /\ \A i \in 1 .. N : Contexts[i] \in Context
      /\ \A d \in Context : \E i \in 1 .. N : Contexts[i] = d
  BY SyscallAssumption, ListFacts DEF Context
<1>2. r = done[N]
  BY DEF rmSyscallEverywhere
<1> HIDE DEF N, Step
<1>3. \A k \in 0 .. N : k \in G
  <2>1. 0 \in G
    <3>1. Passes([i \in 0 .. 0 |-> m], 0)
      OBVIOUS
    <3> QED
      BY <3>1
  <2>2. ASSUME NEW k \in 1 .. N, k - 1 \in G PROVE k \in G
    <3>1. PICK f : Passes(f, k - 1)
      BY <2>2
    <3>2. k \in Nat /\ k - 1 \in 0 .. k - 1 /\ \A i \in 1 .. k : i - 1 \in 0 .. k - 1
      BY <1>1
    <3> DEFINE q == [i \in 0 .. k |-> IF i < k THEN f[i] ELSE Step(f[k - 1], k)]
    <3>3. Passes(q, k)
      BY <3>1, <3>2
    <3> HIDE DEF q
    <3> QED
      BY <3>2, <3>3
  <2> HIDE DEF G
  <2> QED
    BY <1>1, <2>1, <2>2, Upward
<1>4. Passes(done, N)
  <2>1. N \in 0 .. N
    BY <1>1
  <2>2. N \in G
    BY <1>3, <2>1
  <2>3. \E f : Passes(f, N)
    BY <2>2
  <2> QED
    BY <2>3
<1> HIDE DEF done
<1>5. done[0] = m /\ \A i \in 1 .. N : done[i] = Step(done[i - 1], i)
  BY <1>1, <1>4
<1> DEFINE Left(k) == [d \in Context |-> IF \E i \in 1 .. k : Contexts[i] = d
                                         THEN w[d] \ {p} ELSE w[d]]
           Good(b, k) == Inv(b, n, Left(k))
           U == {i \in 0 .. N : Good(done[i], i)}
<1>6. Good(done[0], 0)
  <2>1. \A d \in Context : w[d] \subseteq Left(0)[d]
    OBVIOUS
  <2> DEFINE v == Left(0)
  <2> HIDE DEF v
  <2>2. Inv(m, n, v)
    BY <2>1, InvMore DEF v
  <2> QED
    BY <1>5, <2>2 DEF v
<1>7. ASSUME NEW i \in 1 .. N, Good(done[i - 1], i - 1) PROVE Good(done[i], i)
  <2> DEFINE b == done[i - 1]
             e == done[i]
             c == Contexts[i]
             u == Left(i - 1)
             v == Left(i)
  <2>1. c \in Context /\ Inv(b, n, u)
    BY <1>1, <1>7
  <2>2. e = IF b.raised THEN b ELSE rmSyscall(b, c, p)
    BY <1>5 DEF Step
  <2>3. \A j \in 1 .. i - 1 : j \in 1 .. i
    BY <1>1
  <2>4. \A j \in 1 .. i : j \in 1 .. i - 1 \/ j = i
    BY <1>1
  <2>5. \A d \in Context : Without(u, c, p)[d] \subseteq v[d]
    BY <2>3, <2>4 DEF Without
  <2> HIDE DEF b, e, c, u, v
  <2>6. CASE b.raised
    <3>1. n = 0
      BY <2>1, <2>6 DEF Inv, Served
    <3>2. Inv(e, n, v)
      BY <2>1, <2>2, <2>6, <3>1 DEF Inv
    <3> QED
      BY <3>2 DEF e, v
  <2>7. CASE ~b.raised
    <3>1. e = rmSyscall(b, c, p)
      BY <2>2, <2>7
    <3>2. Inv(e, n, Without(u, c, p))
      BY <2>1, <3>1, RmKeeps
    <3> DEFINE x == Without(u, c, p)
    <3>3. Inv(e, n, x) /\ \A d \in Context : x[d] \subseteq v[d]
      BY <2>5, <3>2
    <3> HIDE DEF x
    <3>4. Inv(e, n, v)
      BY <3>3, InvMore
    <3> QED
      BY <3>4 DEF e, v
  <2> QED
    BY <2>6, <2>7
<1> HIDE DEF Good
<1>8. \A i \in 0 .. N : i \in U
  <2>1. 0 \in U
    BY <1>1, <1>6
  <2>2. ASSUME NEW i \in 1 .. N, i - 1 \in U PROVE i \in U
    <3>1. Good(done[i - 1], i - 1) /\ i \in 0 .. N
      BY <1>1, <2>2
    <3>2. Good(done[i], i)
      BY <1>7, <3>1
    <3> QED
      BY <3>1, <3>2
  <2> HIDE DEF U
  <2> QED
    BY <1>1, <2>1, <2>2, Upward
<1>9. Good(done[N], N)
  <2>1. N \in 0 .. N
    BY <1>1
  <2> QED
    BY <1>8, <2>1
<1>10. Inv(r, n, all)
  <2> DEFINE v == Left(N)
  <2>1. Inv(r, n, v)
    BY <1>2, <1>9 DEF Good
  <2>2. \A d \in Context : v[d] \subseteq all[d]
    BY <1>1
  <2> HIDE DEF v, all
  <2> QED
    BY <2>1, <2>2, InvMore
<1> QED
  BY <1>10

-----------------------------------------------------------------------------
(* Requests of several contexts, and of all parameters                     *)

\* A request is handed to one context after the other.
LEMMA WatchInTurnKeeps ==
  ASSUME NEW m, NEW n \in Level, NEW w, Inv(m, n, w), NEW contexts \in Seq(Context),
         n # 0 => Len(contexts) = 1, NEW name \in Name, NEW list, NEW params,
         \A k \in 1 .. Len(contexts) : Request(m, n, contexts[k], list, params, w),
         NEW r, r = WatchInTurn(m, contexts, name, list, params)
  PROVE  Inv(r, n, w)
<1> DEFINE N == Len(contexts)
           Step(b, i) == watchSyscall(b, contexts[i], name, list, params)
           Passes(f, k) == f = [i \in 0 .. k |-> IF i = 0 THEN m ELSE Step(f[i - 1], i)]
           G == {k \in Nat : \E f : Passes(f, k)}
           watched == CHOOSE f : Passes(f, N)
<1>1. /\ N \in Nat /\ \A i \in 1 .. N : contexts[i] \in Context
      /\ n # 0 => N = 1
      /\ \A i \in 1 .. N : Request(m, n, contexts[i], list, params, w)
  BY ListFacts
<1>2. r = watched[N]
  BY DEF WatchInTurn
<1> HIDE DEF N, Step
<1>3. \A k \in 0 .. N : k \in G
  <2>1. 0 \in G
    <3>1. Passes([i \in 0 .. 0 |-> m], 0)
      OBVIOUS
    <3> QED
      BY <3>1
  <2>2. ASSUME NEW k \in 1 .. N, k - 1 \in G PROVE k \in G
    <3>1. PICK f : Passes(f, k - 1)
      BY <2>2
    <3>2. k \in Nat /\ k - 1 \in 0 .. k - 1 /\ \A i \in 1 .. k : i - 1 \in 0 .. k - 1
      BY <1>1
    <3> DEFINE q == [i \in 0 .. k |-> IF i < k THEN f[i] ELSE Step(f[k - 1], k)]
    <3>3. Passes(q, k)
      BY <3>1, <3>2
    <3> HIDE DEF q
    <3> QED
      BY <3>2, <3>3
  <2> HIDE DEF G
  <2> QED
    BY <1>1, <2>1, <2>2, Upward
<1>4. Passes(watched, N)
  <2>1. N \in 0 .. N
    BY <1>1
  <2>2. N \in G
    BY <1>3, <2>1
  <2>3. \E f : Passes(f, N)
    BY <2>2
  <2> QED
    BY <2>3
<1> HIDE DEF watched
<1>5. watched[0] = m /\ \A i \in 1 .. N : watched[i] = Step(watched[i - 1], i)
  BY <1>1, <1>4
<1> DEFINE Good(b, k) == /\ Inv(b, n, w)
                         /\ \A j \in k + 1 .. N : Request(b, n, contexts[j], list, params, w)
           U == {i \in 0 .. N : Good(watched[i], i)}
<1>6. Good(watched[0], 0)
  BY <1>1, <1>5
<1>7. ASSUME NEW i \in 1 .. N, Good(watched[i - 1], i - 1) PROVE Good(watched[i], i)
  <2> DEFINE b == watched[i - 1]
             e == watched[i]
             c == contexts[i]
  <2>1. c \in Context /\ Inv(b, n, w) /\ e = watchSyscall(b, c, name, list, params)
    BY <1>1, <1>5, <1>7 DEF Step
  <2>2. Request(b, n, c, list, params, w)
    <3>1. i \in i - 1 + 1 .. N
      BY <1>1
    <3> QED
      BY <1>7, <3>1
  <2> HIDE DEF b, e, c
  <2>3. /\ Inv(e, n, w)
        /\ DOMAIN b.call_lists \subseteq DOMAIN e.call_lists
        /\ DOMAIN b.call_params \subseteq DOMAIN e.call_params
    BY <2>1, <2>2, WatchKeeps, SMTT(60)
  <2>4. ASSUME NEW j \in i + 1 .. N PROVE Request(e, n, contexts[j], list, params, w)
    <3>1. n = 0
      BY <1>1
    <3> QED
      BY <2>2, <2>3, <3>1 DEF Request
  <2> QED
    BY <2>3, <2>4 DEF e
<1> HIDE DEF Good
<1>8. \A i \in 0 .. N : i \in U
  <2>1. 0 \in U
    BY <1>1, <1>6
  <2>2. ASSUME NEW i \in 1 .. N, i - 1 \in U PROVE i \in U
    <3>1. Good(watched[i - 1], i - 1) /\ i \in 0 .. N
      BY <1>1, <2>2
    <3>2. Good(watched[i], i)
      BY <1>7, <3>1
    <3> QED
      BY <3>1, <3>2
  <2> HIDE DEF U
  <2> QED
    BY <1>1, <2>1, <2>2, Upward
<1>9. Good(watched[N], N)
  <2>1. N \in 0 .. N
    BY <1>1
  <2> QED
    BY <1>8, <2>1
<1> QED
  BY <1>2, <1>9 DEF Good

\* Everything of the tool is stopped.
LEMMA RmAllKeeps ==
  ASSUME NEW m, NEW n \in Level, NEW w, Inv(m, n, w), NEW v, NEW r, r = rmAllSyscalls(m)
  PROVE  Inv(r, n, v)
<1> DEFINE gone == {i.syscall : i \in UNION {Instances(m, c) : c \in Context}}
                       \cup Range(m.trace_all)
           m1 == stopTrace(m, gone)
           dict == [c \in Context |-> <<>>]
           trace == [c \in Context |-> NoSyscall]
<1>1. m \in Manager /\ Refs(m)
  BY DEF Inv, Refs, Typed
<1>2. r = [m1 EXCEPT !.syscall_dict = dict, !.trace_all = trace]
  BY DEF rmAllSyscalls
<1> HIDE DEF gone
<1>3. /\ m1 \in Manager
      /\ m1.call_lists = m.call_lists /\ m1.call_params = m.call_params /\ m1.raised = m.raised
      /\ DOMAIN m1.syscalls = DOMAIN m.syscalls \ gone
      /\ \A s \in DOMAIN m1.syscalls : m1.syscalls[s] = m.syscalls[s]
  BY <1>1, StopFacts
<1> HIDE DEF m1
<1>4. /\ dict \in [Context -> Seq(InstanceRec)] /\ trace \in [Context -> Nat]
      /\ \A c \in Context : ToSet(dict[c]) = {} /\ trace[c] = NoSyscall
  <2> DEFINE none == <<>>
  <2>1. none \in Seq(InstanceRec) /\ ToSet(none) = {}
    BY EmptySeq, ListFacts
  <2>2. dict = [c \in Context |-> none] /\ \A c \in Context : trace[c] = NoSyscall
    OBVIOUS
  <2>3. trace \in [Context -> Nat]
    BY DEF NoSyscall
  <2> HIDE DEF none, dict, trace
  <2> QED
    BY <2>1, <2>2, <2>3
<1> HIDE DEF dict, trace
<1>5. /\ r \in Manager /\ r.call_lists = m.call_lists /\ r.call_params = m.call_params
      /\ r.syscalls = m1.syscalls /\ r.trace_all = trace /\ r.raised = m.raised
      /\ \A c \in Context : Instances(r, c) = {}
  <2>1. /\ r \in Manager /\ r.call_lists = m.call_lists /\ r.call_params = m.call_params
        /\ r.syscalls = m1.syscalls /\ r.trace_all = trace /\ r.raised = m.raised
        /\ r.syscall_dict = dict
    BY <1>2, <1>3, <1>4 DEF Manager
  <2> QED
    BY <1>4, <2>1 DEF Instances
<1>6. Typed(r)
  BY <1>1, <1>3, <1>5 DEF Refs, Typed
<1>7. n # 0 => ~r.raised
  BY <1>5 DEF Inv, Served
<1>8. Less(m, r, n)
  BY <1>1, <1>3, <1>4, <1>5, <1>6, <1>7 DEF Less
<1> QED
  BY <1>5, <1>8, LessAsked

\* A context's instances are stopped for a Syscall that traces all calls.
LEMMA RmByContextKeeps ==
  ASSUME NEW m, NEW n \in Level, NEW w, Inv(m, n, w), NEW c \in Context,
         NEW r, r = rmSyscallByContext(m, c)
  PROVE  Inv(r, n, w) /\ Instances(r, c) = {}
<1> DEFINE stopped == {i \in Instances(m, c) : HasParams(m, i)}
           gone == {i.syscall : i \in stopped} \cup {m.trace_all[c]}
           m1 == stopTrace(m, gone)
           none == <<>>
           dict == [m.syscall_dict EXCEPT ![c] = none]
           trace == [m.trace_all EXCEPT ![c] = NoSyscall]
<1>1. m \in Manager /\ Refs(m)
  BY DEF Inv, Refs, Typed
<1>2. r = [m1 EXCEPT !.syscall_dict[c] = none, !.trace_all[c] = NoSyscall]
  BY DEF rmSyscallByContext
<1>3. \A s \in gone : s = m.trace_all[c] \/ \E i \in Instances(m, c) : i.syscall = s
  OBVIOUS
<1> HIDE DEF gone
<1>4. /\ m1 \in Manager
      /\ m1.call_lists = m.call_lists /\ m1.call_params = m.call_params /\ m1.raised = m.raised
      /\ m1.syscall_dict = m.syscall_dict /\ m1.trace_all = m.trace_all
      /\ DOMAIN m1.syscalls = DOMAIN m.syscalls \ gone
      /\ \A s \in DOMAIN m1.syscalls : m1.syscalls[s] = m.syscalls[s]
  BY <1>1, StopFacts
<1> HIDE DEF m1
<1>5. none \in Seq(InstanceRec) /\ ToSet(none) = {}
  BY EmptySeq, ListFacts
<1> HIDE DEF none
<1>6. /\ dict \in [Context -> Seq(InstanceRec)] /\ trace \in [Context -> Nat]
      /\ dict[c] = none /\ trace[c] = NoSyscall
      /\ \A d \in Context \ {c} : dict[d] = m.syscall_dict[d] /\ trace[d] = m.trace_all[d]
  <2>1. m.syscall_dict \in [Context -> Seq(InstanceRec)] /\ m.trace_all \in [Context -> Nat]
    BY <1>1, Fields
  <2> QED
    BY <1>5, <2>1 DEF NoSyscall
<1>7. /\ r \in Manager /\ r.call_lists = m.call_lists /\ r.call_params = m.call_params
      /\ r.syscalls = m1.syscalls /\ r.trace_all = trace /\ r.raised = m.raised
      /\ Instances(r, c) = {} /\ \A d \in Context \ {c} : Instances(r, d) = Instances(m, d)
  <2>1. r = [m1 EXCEPT !.syscall_dict = dict, !.trace_all = trace]
    BY <1>2, <1>4
  <2> HIDE DEF dict, trace
  <2>2. /\ r \in Manager /\ r.call_lists = m.call_lists /\ r.call_params = m.call_params
        /\ r.syscalls = m1.syscalls /\ r.trace_all = trace /\ r.raised = m.raised
        /\ r.syscall_dict = dict
    BY <1>4, <1>6, <2>1 DEF Manager
  <2> QED
    BY <1>5, <1>6, <2>2 DEF Instances
<1> HIDE DEF dict, trace
<1>8. Typed(r)
  BY <1>1, <1>4, <1>7 DEF Refs, Typed
<1>9. n # 0 => ~r.raised
  BY <1>7 DEF Inv, Served
<1>10. \A d \in Context \ {c} : trace[d] # NoSyscall => trace[d] \notin gone
  BY <1>1, <1>3, <1>6 DEF Refs
<1>11. \A d \in Context \ {c} : \A i \in Instances(m, d) : i.syscall \notin gone
  <2> SUFFICES ASSUME NEW d \in Context \ {c}, NEW i \in Instances(m, d), i.syscall \in gone
               PROVE  FALSE
    OBVIOUS
  <2>1. i.syscall \in DOMAIN m.syscalls /\ m.syscalls[i.syscall].context = d
    BY <1>1 DEF Refs
  <2>2. i.syscall # NoSyscall
    BY <1>1, <2>1 DEF Refs, Typed
  <2>3. CASE i.syscall = m.trace_all[c]
    BY <1>1, <2>1, <2>2, <2>3 DEF Refs
  <2>4. CASE \E j \in Instances(m, c) : j.syscall = i.syscall
    BY <1>1, <2>1, <2>4 DEF Refs
  <2> QED
    BY <1>3, <2>3, <2>4
<1>12. \A d \in Context : /\ r.trace_all[d] \in {NoSyscall, m.trace_all[d]}
                          /\ r.trace_all[d] # NoSyscall => r.trace_all[d] \in DOMAIN r.syscalls
                          /\ Instances(r, d) \subseteq Instances(m, d)
                          /\ \A i \in Instances(r, d) : i.syscall \in DOMAIN r.syscalls
  <2> SUFFICES ASSUME NEW d \in Context
               PROVE  /\ r.trace_all[d] \in {NoSyscall, m.trace_all[d]}
                      /\ r.trace_all[d] # NoSyscall => r.trace_all[d] \in DOMAIN r.syscalls
                      /\ Instances(r, d) \subseteq Instances(m, d)
                      /\ \A i \in Instances(r, d) : i.syscall \in DOMAIN r.syscalls
    OBVIOUS
  <2>1. CASE d = c
    BY <1>6, <1>7, <2>1
  <2>2. CASE d # c
    BY <1>1, <1>4, <1>6, <1>7, <1>10, <1>11, <2>2 DEF Refs
  <2> QED
    BY <2>1, <2>2
<1>13. \A d \in Context : \A i \in Instances(r, d) :
          /\ \A l \in Held(i) : Calls(r, l) = Calls(m, l)
          /\ Params(r, i) = Params(m, i)
  BY <1>4, <1>7, <1>12 DEF Calls, Params, ParamsOf
<1>14. Less(m, r, n)
  BY <1>1, <1>4, <1>7, <1>8, <1>9, <1>12, <1>13 DEF Less
<1> QED
  BY <1>7, <1>14, LessKeeps

LEMMA RemovedFacts ==
  ASSUME NEW m, Refs(m), NEW c \in Context
  PROVE  removed_params(m, c) \in Seq(Param)
<1> DEFINE s == m.syscall_dict[c]
           Its(i) == IF HasParams(m, i) THEN ParamsOf(m, i.syscall) ELSE <<>>
           ss == [k \in DOMAIN s |-> Its(s[k])]
<1>1. m \in Manager /\ s \in Seq(InstanceRec)
  BY Fields DEF Refs, Typed
<1>2. DOMAIN s = 1 .. Len(s) /\ Len(s) \in Nat /\ \A k \in 1 .. Len(s) : s[k] \in Instances(m, c)
  BY <1>1, ListFacts DEF Instances
<1>3. \A i \in Instances(m, c) : ParamsOf(m, i.syscall) \in Seq(Param)
  <2>1. m.call_params \in [DOMAIN m.call_params -> Seq(Param)]
    BY <1>1, Fields
  <2> QED
    BY <2>1 DEF Refs, ParamsOf
<1>4. \A i \in Instances(m, c) : Its(i) \in Seq(Param)
  BY <1>3, EmptySeq
<1>5. removed_params(m, c) = FlattenSeq(ss)
  BY DEF removed_params
<1> HIDE DEF s, Its
<1>6. ss \in Seq(Seq(Param))
  BY <1>2, <1>4
<1> HIDE DEF ss
<1>7. FlattenSeq(ss) \in Seq(Param)
  BY <1>6, FlattenFacts
<1> QED
  BY <1>5, <1>7

LEMMA WatchAllKeeps ==
  ASSUME NEW m, NEW n \in Level, NEW w, Inv(m, n, w), NEW c \in Context,
         NEW r, r = watchAllSyscalls(m, c)
  PROVE  Inv(r, n, w)
<1> DEFINE m1 == rmSyscallByContext(m, c)
           sys == m1.syscalls
           s == Fresh(sys)
           rec == [context |-> c, hooks |-> Call, call_params |-> DefaultParams]
           more == With(sys, rec)
           m2 == [m1 EXCEPT !.trace_all[c] = s, !.syscalls = more]
           trace == [m1.trace_all EXCEPT ![c] = s]
           removed == removed_params(m, c)
<1>1. removed \in Seq(Param)
  BY RemovedFacts DEF Inv
<1>2. r = SyscallAddCallParams(m2, s, removed)
  BY DEF watchAllSyscalls
<1>3. Inv(m1, n, w) /\ Instances(m1, c) = {}
  BY RmByContextKeeps
<1> HIDE DEF m1, removed
<1>4. m1 \in Manager /\ Refs(m1) /\ sys \in Objects(SyscallRec)
  BY <1>3, Fields DEF Inv, Refs, Typed
<1>5. rec \in SyscallRec /\ rec.context = c /\ rec.hooks = Call /\ rec.call_params = DefaultParams
  BY DEF SyscallRec, DefaultParams
<1> HIDE DEF rec
<1>6. /\ s \in Nat \ {0} /\ s \notin DOMAIN m1.syscalls
      /\ more \in Objects(SyscallRec) /\ DOMAIN more = DOMAIN m1.syscalls \cup {s}
      /\ more[s] = rec /\ \A t \in DOMAIN m1.syscalls : more[t] = m1.syscalls[t]
  <2> HIDE DEF sys
  <2>1. /\ s \in Nat \ {0} /\ s \notin DOMAIN sys
        /\ more \in Objects(SyscallRec) /\ DOMAIN more = DOMAIN sys \cup {s}
        /\ more[s] = rec
    BY <1>4, <1>5, FreshFacts
  <2>2. more = [t \in DOMAIN sys \cup {s} |-> IF t = s THEN rec ELSE sys[t]]
    BY DEF With
  <2> HIDE DEF s, more
  <2> QED
    BY <2>1, <2>2 DEF sys
<1> HIDE DEF s, more, sys
<1>7. /\ trace \in [Context -> Nat] /\ trace[c] = s
      /\ \A d \in Context \ {c} : trace[d] = m1.trace_all[d]
  <2>1. m1.trace_all \in [Context -> Nat]
    BY <1>4, Fields
  <2> QED
    BY <1>6, <2>1
<1>8. /\ m2 \in Manager /\ m2.call_lists = m1.call_lists /\ m2.call_params = m1.call_params
      /\ m2.syscalls = more /\ m2.trace_all = trace /\ m2.raised = m1.raised
      /\ m2.syscall_dict = m1.syscall_dict
  <2>1. m2 = [m1 EXCEPT !.trace_all = trace, !.syscalls = more]
    OBVIOUS
  <2> HIDE DEF m2, trace
  <2> QED
    BY <1>4, <1>6, <1>7, <2>1 DEF Manager
<1> HIDE DEF m2, trace
<1>9. \A d \in Context : Instances(m2, d) = Instances(m1, d)
  BY <1>8 DEF Instances
<1>10. \A x : Calls(m2, x) = Calls(m1, x)
  BY <1>8 DEF Calls
<1>11. \A d \in Context : \A i \in Instances(m1, d) :
          /\ i.syscall \in DOMAIN m1.syscalls /\ i.syscall # s
          /\ m2.syscalls[i.syscall] = m1.syscalls[i.syscall]
          /\ Params(m2, i) = Params(m1, i)
  BY <1>4, <1>6, <1>8 DEF Refs, Params, ParamsOf
<1>12. Refs(m2)
  <2>1. Typed(m2)
    BY <1>4, <1>6, <1>8 DEF Refs, Typed, NoSyscall
  <2>2. \A t \in DOMAIN m2.syscalls : m2.syscalls[t].call_params \in DOMAIN m2.call_params
    BY <1>4, <1>5, <1>6, <1>8 DEF Refs, Typed
  <2>3. \A d \in Context : m2.trace_all[d] # NoSyscall =>
           /\ m2.trace_all[d] \in DOMAIN m2.syscalls
           /\ m2.syscalls[m2.trace_all[d]].context = d /\ Instances(m2, d) = {}
    BY <1>3, <1>4, <1>5, <1>6, <1>7, <1>8, <1>9 DEF Refs
  <2>4. \A d \in Context : \A i \in Instances(m2, d) :
           /\ i.syscall \in DOMAIN m2.syscalls /\ m2.syscalls[i.syscall].context = d
           /\ Held(i) \subseteq DOMAIN m2.call_lists
    BY <1>4, <1>6, <1>8, <1>9, <1>11 DEF Refs
  <2>5. \A d \in Context : \A i, j \in Instances(m2, d) :
           i.name = j.name \/ i.syscall = j.syscall => i = j
    BY <1>4, <1>9 DEF Refs
  <2> QED
    BY <2>1, <2>2, <2>3, <2>4, <2>5 DEF Refs
<1>13. ASSUME n # 0 PROVE Owned(m2) /\ Served(m2)
  <2>1. Owned(m1) /\ Served(m1)
    BY <1>3, <1>13 DEF Inv
  <2>2. Owned(m2)
    BY <1>5, <1>6, <1>8, <1>9, <1>11, <2>1 DEF Owned
  <2>3. Served(m2)
    BY <1>8, <1>9, <1>10, <1>11, <2>1 DEF Served
  <2> QED
    BY <2>2, <2>3
<1>14. ASSUME n = 2 PROVE Asked(m2, w)
  BY <1>3, <1>9, <1>11, <1>14 DEF Inv, Asked
<1>15. Inv(m2, n, w)
  BY <1>12, <1>13, <1>14 DEF Inv
<1>16. s \in DOMAIN m2.syscalls /\ \A d \in Context : \A i \in Instances(m2, d) : i.syscall # s
  BY <1>6, <1>8, <1>9, <1>11
<1>17. /\ Inv(r, n, w)
       /\ DOMAIN r.call_lists = DOMAIN m2.call_lists
       /\ DOMAIN r.call_params = DOMAIN m2.call_params
  BY <1>1, <1>2, <1>15, <1>16, TracedKeeps, SMTT(60)
<1> QED
  BY <1>17

\* The dmods are taken out of all instances, and those without other parameters go.
LEMMA RmDmodsKeeps ==
  ASSUME NEW m, NEW n \in Level, NEW w, Inv(m, n, w), NEW r, r = rmAllDmods(m)
  PROVE  Inv(r, n, [c \in Context |-> w[c] \ Dmod])
<1> DEFINE Having(c) == {i \in Instances(m, c) : ToSet(ParamsOf(m, i.syscall)) \cap Dmod # {}}
           lists == {m.syscalls[i.syscall].call_params : i \in UNION {Having(c) : c \in Context}}
           S == Param \ Dmod
           less == [l \in DOMAIN m.call_params |->
                       IF l \in lists THEN Keep(m.call_params[l], S) ELSE m.call_params[l]]
           m1 == [m EXCEPT !.call_params = less]
           Idle(c) == {i \in Having(c) : ParamsOf(m1, i.syscall) = <<>>}
           gone == {i.syscall : i \in UNION {Idle(c) : c \in Context}}
           m2 == stopTrace(m1, gone)
           dict == [c \in Context |-> Keep(m2.syscall_dict[c], Instances(m, c) \ Idle(c))]
           v == [c \in Context |-> w[c] \ Dmod]
<1>1. m \in Manager /\ Refs(m)
  BY DEF Inv, Refs, Typed
<1>2. r = [m2 EXCEPT !.syscall_dict = dict]
  BY DEF rmAllDmods
<1>3. \A c \in Context : \A i \in Instances(m, c) :
         Params(m, i) \cap Dmod # {} => m.syscalls[i.syscall].call_params \in lists
  BY DEF Params
<1>4. /\ \A c \in Context : Idle(c) \subseteq Instances(m, c)
      /\ \A s \in gone : \E c \in Context : \E i \in Idle(c) : s = i.syscall
      /\ \A c \in Context : \A i \in Idle(c) : i.syscall \in gone
  OBVIOUS
<1>5. m.call_params \in Objects(Seq(Param)) /\ m.call_params \in [DOMAIN m.call_params -> Seq(Param)]
  BY <1>1, Fields
<1> HIDE DEF lists, S, Idle, gone
<1>6. \A l \in DOMAIN m.call_params :
         Keep(m.call_params[l], S) \in Seq(Param)
           /\ ToSet(Keep(m.call_params[l], S)) = ToSet(m.call_params[l]) \cap S
  BY <1>5, KeepFacts
<1>7. /\ less \in Objects(Seq(Param)) /\ DOMAIN less = DOMAIN m.call_params
      /\ \A l \in DOMAIN m.call_params : ToSet(less[l]) \subseteq ToSet(m.call_params[l])
      /\ \A l \in lists : l \in DOMAIN m.call_params => ToSet(less[l]) \cap Dmod = {}
  <2>1. DOMAIN less = DOMAIN m.call_params /\ less \in [DOMAIN m.call_params -> Seq(Param)]
    BY <1>5, <1>6
  <2>2. less \in Objects(Seq(Param))
    BY <1>5, <2>1, ObjectsFacts
  <2>3. \A l \in DOMAIN m.call_params : ToSet(less[l]) \subseteq ToSet(m.call_params[l])
    BY <1>6
  <2>4. \A l \in lists : l \in DOMAIN m.call_params => ToSet(less[l]) \cap Dmod = {}
    BY <1>6 DEF S
  <2> QED
    BY <2>1, <2>2, <2>3, <2>4
<1> HIDE DEF less
<1>8. /\ m1 \in Manager /\ m1.call_lists = m.call_lists /\ m1.call_params = less
      /\ m1.syscalls = m.syscalls /\ m1.trace_all = m.trace_all /\ m1.raised = m.raised
      /\ m1.syscall_dict = m.syscall_dict
  BY <1>1, <1>7 DEF Manager
<1> HIDE DEF m1
<1>9. /\ m2 \in Manager
      /\ m2.call_lists = m.call_lists /\ m2.call_params = less /\ m2.trace_all = m.trace_all
      /\ m2.syscall_dict = m.syscall_dict /\ m2.raised = m.raised
      /\ DOMAIN m2.syscalls = DOMAIN m.syscalls \ gone
      /\ \A s \in DOMAIN m2.syscalls : m2.syscalls[s] = m.syscalls[s]
  <2>1. m2 = stopTrace(m1, gone)
    OBVIOUS
  <2> HIDE DEF m2
  <2>2. /\ m2 \in Manager
        /\ m2.call_lists = m1.call_lists /\ m2.call_params = m1.call_params
        /\ m2.syscall_dict = m1.syscall_dict
        /\ m2.trace_all = m1.trace_all /\ m2.raised = m1.raised
        /\ DOMAIN m2.syscalls = DOMAIN m1.syscalls \ gone
        /\ \A s \in DOMAIN m2.syscalls : m2.syscalls[s] = m1.syscalls[s]
    BY <1>8, <2>1, StopFacts
  <2> QED
    BY <1>8, <2>2
<1> HIDE DEF m2
<1>10. \A c \in Context : /\ m.syscall_dict[c] \in Seq(InstanceRec)
                          /\ Instances(m, c) = ToSet(m.syscall_dict[c])
  BY <1>1, Fields DEF Instances
<1>11. /\ dict \in [Context -> Seq(InstanceRec)]
       /\ \A c \in Context : ToSet(dict[c]) = Instances(m, c) \ Idle(c)
  <2>1. ASSUME NEW c \in Context
        PROVE  dict[c] \in Seq(InstanceRec) /\ ToSet(dict[c]) = Instances(m, c) \ Idle(c)
    <3> DEFINE K == Instances(m, c) \ Idle(c)
               e == Keep(m.syscall_dict[c], K)
    <3>1. dict[c] = e
      BY <1>9
    <3>2. K \subseteq ToSet(m.syscall_dict[c])
      BY <1>10
    <3> HIDE DEF K
    <3>3. e \in Seq(InstanceRec) /\ ToSet(e) = ToSet(m.syscall_dict[c]) \cap K
      BY <1>10, KeepFacts
    <3> HIDE DEF e, dict
    <3> QED
      BY <3>1, <3>2, <3>3 DEF K
  <2>2. dict = [c \in Context |-> dict[c]]
    OBVIOUS
  <2> HIDE DEF dict
  <2> QED
    BY <2>1, <2>2
<1> HIDE DEF dict
<1>12. /\ r \in Manager /\ r.call_lists = m.call_lists /\ r.call_params = less
       /\ r.syscalls = m2.syscalls /\ r.trace_all = m.trace_all /\ r.raised = m.raised
       /\ \A c \in Context : Instances(r, c) = Instances(m, c) \ Idle(c)
  <2>1. /\ r \in Manager /\ r.call_lists = m.call_lists /\ r.call_params = less
        /\ r.syscalls = m2.syscalls /\ r.trace_all = m.trace_all /\ r.raised = m.raised
        /\ r.syscall_dict = dict
    BY <1>2, <1>9, <1>11 DEF Manager
  <2> QED
    BY <1>11, <2>1 DEF Instances
<1>13. Typed(r)
  BY <1>1, <1>7, <1>9, <1>12 DEF Refs, Typed
<1>14. \A c \in Context : \A i \in Instances(r, c) : i.syscall \in DOMAIN r.syscalls
  <2> SUFFICES ASSUME NEW c \in Context, NEW i \in Instances(r, c), i.syscall \in gone
               PROVE  FALSE
    BY <1>1, <1>9, <1>12 DEF Refs
  <2>1. PICK d \in Context : \E j \in Idle(d) : i.syscall = j.syscall
    BY <1>4
  <2>2. PICK j \in Idle(d) : i.syscall = j.syscall
    BY <2>1
  <2>3. i \in Instances(m, c) /\ i \notin Idle(c) /\ j \in Instances(m, d)
    BY <1>4, <1>12
  <2>4. c = d
    BY <1>1, <2>2, <2>3 DEF Refs
  <2> QED
    BY <1>1, <2>2, <2>3, <2>4 DEF Refs
<1>15. \A c \in Context : r.trace_all[c] # NoSyscall => r.trace_all[c] \in DOMAIN r.syscalls
  <2> SUFFICES ASSUME NEW c \in Context, m.trace_all[c] # NoSyscall, m.trace_all[c] \in gone
               PROVE  FALSE
    BY <1>1, <1>9, <1>12 DEF Refs
  <2>1. PICK d \in Context : \E j \in Idle(d) : m.trace_all[c] = j.syscall
    BY <1>4
  <2>2. PICK j \in Instances(m, d) : m.trace_all[c] = j.syscall
    BY <1>4, <2>1
  <2>3. c = d
    BY <1>1, <2>2 DEF Refs
  <2> QED
    BY <1>1, <2>2, <2>3 DEF Refs
<1>16. \A c \in Context : \A i \in Instances(r, c) :
          /\ i \in Instances(m, c)
          /\ m.syscalls[i.syscall].call_params \in DOMAIN m.call_params
          /\ Params(r, i) = ToSet(less[m.syscalls[i.syscall].call_params])
          /\ Params(m, i) = ToSet(m.call_params[m.syscalls[i.syscall].call_params])
  BY <1>1, <1>9, <1>12, <1>14 DEF Refs, Params, ParamsOf
<1>17. \A c \in Context : \A i \in Instances(r, c) :
          Params(r, i) \subseteq Params(m, i) /\ Params(r, i) \cap Dmod = {}
  <2> SUFFICES ASSUME NEW c \in Context, NEW i \in Instances(r, c)
               PROVE  Params(r, i) \subseteq Params(m, i) /\ Params(r, i) \cap Dmod = {}
    OBVIOUS
  <2>1. Params(r, i) \subseteq Params(m, i)
    BY <1>7, <1>16
  <2>2. CASE Params(m, i) \cap Dmod = {}
    BY <2>1, <2>2
  <2>3. CASE Params(m, i) \cap Dmod # {}
    BY <1>3, <1>7, <1>16, <2>1, <2>3
  <2> QED
    BY <2>1, <2>2, <2>3
<1>18. Less(m, r, n)
  <2>1. n # 0 => ~r.raised
    BY <1>12 DEF Inv, Served
  <2>2. \A l : Calls(r, l) = Calls(m, l)
    BY <1>12 DEF Calls
  <2>3. \A c \in Context : Instances(r, c) \subseteq Instances(m, c)
    BY <1>12
  <2> QED
    BY <1>7, <1>9, <1>12, <1>13, <1>14, <1>15, <1>17, <2>1, <2>2, <2>3 DEF Less
<1>19. ASSUME n = 2 PROVE \A c \in Context : \A i \in Instances(r, c) : Params(r, i) \subseteq v[c]
  <2>1. \A c \in Context : \A i \in Instances(m, c) : Params(m, i) \subseteq w[c]
    BY <1>19 DEF Inv, Asked
  <2> QED
    BY <1>16, <1>17, <2>1
<1> HIDE DEF v
<1>20. Inv(r, n, v)
  BY <1>18, <1>19, LessAsked
<1> QED
  BY <1>20 DEF v

-----------------------------------------------------------------------------
(* New numbers for the objects                                             *)

\* The lists name every object that the manager leads to.
Listed(m, lists, params, syscalls) ==
    /\ lists \in Seq(Nat) /\ params \in Seq(Nat) /\ syscalls \in Seq(Nat)
    /\ IsInjective(syscalls)
    /\ ToSet(lists) \subseteq DOMAIN m.call_lists
    /\ ToSet(params) \subseteq DOMAIN m.call_params \ {DefaultParams}
    /\ ToSet(syscalls) \subseteq DOMAIN m.syscalls
    /\ \A s \in ToSet(syscalls) : m.syscalls[s].call_params \in ToSet(params) \cup {DefaultParams}
    /\ \A c \in Context :
          /\ m.trace_all[c] # NoSyscall => m.trace_all[c] \in ToSet(syscalls)
          /\ \A i \in Instances(m, c) : i.syscall \in ToSet(syscalls) /\ Held(i) \subseteq ToSet(lists)

\* An instance with its objects known by their places.
Moved(i, j, lists, syscalls) ==
    /\ j \in InstanceRec /\ j.name = i.name
    /\ j.call_names = Place(lists, i.call_names) /\ j.syscall = Place(syscalls, i.syscall)
    /\ DOMAIN j.param_call_list = DOMAIN i.param_call_list
    /\ \A p \in DOMAIN i.param_call_list :
          j.param_call_list[p] = Place(lists, i.param_call_list[p])

LEMMA MovedFacts ==
  ASSUME NEW i \in InstanceRec, NEW lists \in Seq(Nat), NEW syscalls \in Seq(Nat),
         NEW j, j = [i EXCEPT !.call_names = Place(lists, @), !.syscall = Place(syscalls, @),
                              !.param_call_list = [p \in DOMAIN @ |-> Place(lists, @[p])]]
  PROVE  Moved(i, j, lists, syscalls)
<1> DEFINE cn == Place(lists, i.call_names)
           s == Place(syscalls, i.syscall)
           f == [p \in DOMAIN i.param_call_list |-> Place(lists, i.param_call_list[p])]
<1>1. j = [i EXCEPT !.call_names = cn, !.syscall = s, !.param_call_list = f]
  OBVIOUS
<1>2. \A x : Place(lists, x) \in Nat /\ Place(syscalls, x) \in Nat
  BY PlaceFacts
<1>3. f \in UNION {[D -> Nat] : D \in SUBSET Param}
  <2>1. DOMAIN i.param_call_list \in SUBSET Param
    BY DEF InstanceRec
  <2>2. f \in [DOMAIN i.param_call_list -> Nat]
    BY <1>2
  <2> QED
    BY <2>1, <2>2
<1>4. /\ DOMAIN f = DOMAIN i.param_call_list
      /\ \A p \in DOMAIN i.param_call_list : f[p] = Place(lists, i.param_call_list[p])
  OBVIOUS
<1>5. cn \in Nat /\ s \in Nat
  BY <1>2
<1> HIDE DEF cn, s, f
<1>6. /\ j \in InstanceRec /\ j.name = i.name /\ j.call_names = cn /\ j.syscall = s
      /\ j.param_call_list = f
  BY <1>1, <1>3, <1>5 DEF InstanceRec
<1> QED
  BY <1>4, <1>6 DEF Moved, cn, s

\* What the numbered manager holds, object by object.
Renumbered(m, r, lists, params, syscalls) ==
    /\ r \in Manager /\ ~r.raised
    /\ DOMAIN r.call_lists = 1 .. Len(lists)
    /\ \A k \in 1 .. Len(lists) : r.call_lists[k] = m.call_lists[lists[k]]
    /\ DOMAIN r.call_params = 1 .. Len(params) \cup {DefaultParams}
    /\ r.call_params[DefaultParams] = m.call_params[DefaultParams]
    /\ \A k \in 1 .. Len(params) : r.call_params[k] = m.call_params[params[k]]
    /\ DOMAIN r.syscalls = 1 .. Len(syscalls)
    /\ \A k \in 1 .. Len(syscalls) :
          /\ r.syscalls[k].context = m.syscalls[syscalls[k]].context
          /\ r.syscalls[k].hooks = m.syscalls[syscalls[k]].hooks
          /\ r.syscalls[k].call_params = Place(params, m.syscalls[syscalls[k]].call_params)
    /\ \A c \in Context :
          /\ r.trace_all[c] = Place(syscalls, m.trace_all[c])
          /\ \A j \in Instances(r, c) : \E i \in Instances(m, c) : Moved(i, j, lists, syscalls)

LEMMA NumberedFacts ==
  ASSUME NEW m, Typed(m), NEW lists, NEW params, NEW syscalls, Listed(m, lists, params, syscalls),
         NEW r, r = Numbered(m, lists, params, syscalls)
  PROVE  Renumbered(m, r, lists, params, syscalls)
<1> DEFINE cl == [k \in DOMAIN lists |-> m.call_lists[lists[k]]]
           cp == [k \in DOMAIN params \cup {DefaultParams} |->
                     m.call_params[IF k = DefaultParams THEN DefaultParams ELSE params[k]]]
           sy == [k \in DOMAIN syscalls |->
                     [m.syscalls[syscalls[k]] EXCEPT !.call_params = Place(params, @)]]
           M(i) == [i EXCEPT !.call_names = Place(lists, @), !.syscall = Place(syscalls, @),
                             !.param_call_list = [p \in DOMAIN @ |-> Place(lists, @[p])]]
           sd == [c \in Context |-> [k \in DOMAIN m.syscall_dict[c] |-> M(m.syscall_dict[c][k])]]
           ta == [c \in Context |-> Place(syscalls, m.trace_all[c])]
<1>1. r = [call_lists |-> cl, call_params |-> cp, syscalls |-> sy, syscall_dict |-> sd,
           trace_all |-> ta, raised |-> FALSE]
  BY DEF Numbered
<1>2. m \in Manager /\ DefaultParams \in DOMAIN m.call_params
  BY DEF Typed
<1>3. /\ lists \in Seq(Nat) /\ params \in Seq(Nat) /\ syscalls \in Seq(Nat)
      /\ ToSet(lists) \subseteq DOMAIN m.call_lists
      /\ ToSet(params) \subseteq DOMAIN m.call_params \ {DefaultParams}
      /\ ToSet(syscalls) \subseteq DOMAIN m.syscalls
  BY DEF Listed
<1>4. /\ DOMAIN lists = 1 .. Len(lists) /\ Len(lists) \in Nat
      /\ \A k \in 1 .. Len(lists) : lists[k] \in DOMAIN m.call_lists
  BY <1>3, ListFacts
<1>5. /\ DOMAIN params = 1 .. Len(params) /\ Len(params) \in Nat
      /\ \A k \in 1 .. Len(params) : params[k] \in DOMAIN m.call_params
  BY <1>3, ListFacts
<1>6. /\ DOMAIN syscalls = 1 .. Len(syscalls) /\ Len(syscalls) \in Nat
      /\ \A k \in 1 .. Len(syscalls) : syscalls[k] \in DOMAIN m.syscalls
  BY <1>3, ListFacts
<1>7. /\ cl \in Objects(Seq(Call)) /\ DOMAIN cl = 1 .. Len(lists)
      /\ \A k \in 1 .. Len(lists) : cl[k] = m.call_lists[lists[k]]
  <2>1. m.call_lists \in [DOMAIN m.call_lists -> Seq(Call)]
    BY <1>2, Fields
  <2>2. DOMAIN cl = 1 .. Len(lists) /\ \A k \in 1 .. Len(lists) : cl[k] = m.call_lists[lists[k]]
    BY <1>4
  <2>3. cl \in [1 .. Len(lists) -> Seq(Call)]
    BY <1>4, <2>1
  <2>4. IsFiniteSet(1 .. Len(lists)) /\ 1 .. Len(lists) \subseteq Nat
    BY <1>4, FS_Interval
  <2> QED
    BY <2>2, <2>3, <2>4, ObjectsFacts
<1>8. /\ cp \in Objects(Seq(Param)) /\ DOMAIN cp = 1 .. Len(params) \cup {DefaultParams}
      /\ cp[DefaultParams] = m.call_params[DefaultParams]
      /\ \A k \in 1 .. Len(params) : cp[k] = m.call_params[params[k]]
  <2> DEFINE D == 1 .. Len(params) \cup {DefaultParams}
  <2>1. m.call_params \in [DOMAIN m.call_params -> Seq(Param)]
    BY <1>2, Fields
  <2>2. \A k \in 1 .. Len(params) : k # DefaultParams
    BY <1>5 DEF DefaultParams
  <2>3. /\ DOMAIN cp = D
        /\ cp[DefaultParams] = m.call_params[DefaultParams]
        /\ \A k \in 1 .. Len(params) : cp[k] = m.call_params[params[k]]
    BY <1>5, <2>2
  <2>4. cp \in [D -> Seq(Param)]
    BY <1>2, <1>5, <2>1
  <2>5. IsFiniteSet(D) /\ D \subseteq Nat
    <3>1. IsFiniteSet(1 .. Len(params)) /\ 1 .. Len(params) \subseteq Nat /\ DefaultParams \in Nat
      BY <1>5, FS_Interval DEF DefaultParams
    <3> QED
      BY <3>1, FS_AddElement
  <2> QED
    BY <2>3, <2>4, <2>5, ObjectsFacts
<1>9. /\ sy \in Objects(SyscallRec) /\ DOMAIN sy = 1 .. Len(syscalls)
      /\ \A k \in 1 .. Len(syscalls) :
            /\ sy[k].context = m.syscalls[syscalls[k]].context
            /\ sy[k].hooks = m.syscalls[syscalls[k]].hooks
            /\ sy[k].call_params = Place(params, m.syscalls[syscalls[k]].call_params)
  <2>1. m.syscalls \in [DOMAIN m.syscalls -> SyscallRec]
    BY <1>2, Fields
  <2>2. \A x : Place(params, x) \in Nat
    BY <1>3, PlaceFacts
  <2>3. DOMAIN sy = 1 .. Len(syscalls)
    BY <1>6
  <2>4. ASSUME NEW k \in 1 .. Len(syscalls)
        PROVE  /\ sy[k] \in SyscallRec
               /\ sy[k].context = m.syscalls[syscalls[k]].context
               /\ sy[k].hooks = m.syscalls[syscalls[k]].hooks
               /\ sy[k].call_params = Place(params, m.syscalls[syscalls[k]].call_params)
    <3> DEFINE old == m.syscalls[syscalls[k]]
               new == Place(params, old.call_params)
    <3>1. old \in SyscallRec /\ new \in Nat
      BY <1>6, <2>1, <2>2
    <3>2. sy[k] = [old EXCEPT !.call_params = new]
      BY <1>6
    <3> HIDE DEF sy, old, new
    <3>3. /\ sy[k] \in SyscallRec /\ sy[k].context = old.context /\ sy[k].hooks = old.hooks
          /\ sy[k].call_params = new
      BY <3>1, <3>2 DEF SyscallRec
    <3> QED
      BY <3>3 DEF old, new
  <2>5. sy \in [1 .. Len(syscalls) -> SyscallRec]
    <3>1. sy = [k \in 1 .. Len(syscalls) |-> sy[k]]
      BY <1>6
    <3> HIDE DEF sy
    <3> QED
      BY <2>4, <3>1
  <2>6. IsFiniteSet(1 .. Len(syscalls)) /\ 1 .. Len(syscalls) \subseteq Nat
    BY <1>6, FS_Interval
  <2> HIDE DEF sy
  <2> QED
    BY <2>3, <2>4, <2>5, <2>6, ObjectsFacts
<1>10. ASSUME NEW i \in InstanceRec PROVE Moved(i, M(i), lists, syscalls)
  <2> DEFINE j == M(i)
  <2>1. j = [i EXCEPT !.call_names = Place(lists, @), !.syscall = Place(syscalls, @),
                      !.param_call_list = [p \in DOMAIN @ |-> Place(lists, @[p])]]
    OBVIOUS
  <2> HIDE DEF j
  <2>2. Moved(i, j, lists, syscalls)
    BY <1>3, <2>1, MovedFacts
  <2> QED
    BY <2>2 DEF j
<1> HIDE DEF M
<1>11. /\ sd \in [Context -> Seq(InstanceRec)]
       /\ \A c \in Context : \A j \in ToSet(sd[c]) :
             \E i \in Instances(m, c) : Moved(i, j, lists, syscalls)
  <2>1. ASSUME NEW c \in Context
        PROVE  /\ sd[c] \in Seq(InstanceRec)
               /\ \A j \in ToSet(sd[c]) : \E i \in Instances(m, c) : Moved(i, j, lists, syscalls)
    <3> DEFINE s == m.syscall_dict[c]
               t == [k \in DOMAIN s |-> M(s[k])]
    <3>1. s \in Seq(InstanceRec) /\ Instances(m, c) = ToSet(s)
      BY <1>2, Fields DEF Instances
    <3>2. sd[c] = t
      OBVIOUS
    <3> HIDE DEF s, sd
    <3>3. /\ DOMAIN s = 1 .. Len(s) /\ Len(s) \in Nat
          /\ \A k \in 1 .. Len(s) : s[k] \in InstanceRec /\ s[k] \in ToSet(s)
      BY <3>1, ListFacts
    <3>4. \A k \in 1 .. Len(s) : M(s[k]) \in InstanceRec /\ Moved(s[k], M(s[k]), lists, syscalls)
      BY <1>10, <3>3 DEF Moved
    <3>5. t \in Seq(InstanceRec) /\ Len(t) = Len(s) /\ \A k \in 1 .. Len(s) : t[k] = M(s[k])
      BY <3>3, <3>4
    <3> HIDE DEF t
    <3>6. \A j : j \in ToSet(t) <=> \E k \in 1 .. Len(t) : t[k] = j
      BY <3>5, ListFacts
    <3>7. \A j \in ToSet(t) : \E i \in ToSet(s) : Moved(i, j, lists, syscalls)
      BY <3>3, <3>4, <3>5, <3>6
    <3> QED
      BY <3>1, <3>2, <3>5, <3>7
  <2>2. sd = [c \in Context |-> sd[c]]
    OBVIOUS
  <2> HIDE DEF sd
  <2> QED
    BY <2>1, <2>2
<1>12. ta \in [Context -> Nat] /\ \A c \in Context : ta[c] = Place(syscalls, m.trace_all[c])
  BY <1>3, PlaceFacts
<1> HIDE DEF cl, cp, sy, sd, ta
<1>13. /\ r \in Manager /\ r.call_lists = cl /\ r.call_params = cp /\ r.syscalls = sy
       /\ r.syscall_dict = sd /\ r.trace_all = ta /\ r.raised = FALSE
  BY <1>1, <1>7, <1>8, <1>9, <1>11, <1>12 DEF Manager
<1>14. \A c \in Context : Instances(r, c) = ToSet(sd[c])
  BY <1>13 DEF Instances
<1> QED
  BY <1>7, <1>8, <1>9, <1>11, <1>12, <1>13, <1>14 DEF Renumbered

\* The places tell the objects apart as their old numbers did.
LEMMA NumberedKeeps ==
  ASSUME NEW m, NEW n \in Level, NEW w, Inv(m, n, w), NEW lists, NEW params, NEW syscalls,
         Listed(m, lists, params, syscalls), NEW r, Renumbered(m, r, lists, params, syscalls)
  PROVE  Inv(r, n, w)
<1>1. /\ Refs(m) /\ m \in Manager
      /\ n # 0 => Owned(m) /\ Served(m)
      /\ n = 2 => Asked(m, w)
  BY DEF Inv, Refs, Typed
<1>2. /\ lists \in Seq(Nat) /\ params \in Seq(Nat) /\ syscalls \in Seq(Nat)
      /\ ToSet(lists) \subseteq DOMAIN m.call_lists
      /\ ToSet(params) \subseteq DOMAIN m.call_params \ {DefaultParams}
      /\ ToSet(syscalls) \subseteq DOMAIN m.syscalls
      /\ \A s \in ToSet(syscalls) : m.syscalls[s].call_params \in ToSet(params) \cup {DefaultParams}
      /\ \A c \in Context :
            /\ m.trace_all[c] # NoSyscall => m.trace_all[c] \in ToSet(syscalls)
            /\ \A i \in Instances(m, c) :
                  i.syscall \in ToSet(syscalls) /\ Held(i) \subseteq ToSet(lists)
  BY DEF Listed
<1> DEFINE L(x) == Place(lists, x)
           P(x) == Place(params, x)
           S(x) == Place(syscalls, x)
<1>3. /\ \A x \in ToSet(lists) : L(x) \in 1 .. Len(lists) /\ lists[L(x)] = x
      /\ \A x \in ToSet(params) : P(x) \in 1 .. Len(params) /\ params[P(x)] = x
      /\ \A x \in ToSet(syscalls) : S(x) \in 1 .. Len(syscalls) /\ syscalls[S(x)] = x
      /\ \A x : x \notin ToSet(params) => P(x) = 0
      /\ \A x : x \notin ToSet(syscalls) => S(x) = 0
  <2>1. \A x \in ToSet(lists) : L(x) \in 1 .. Len(lists) /\ lists[L(x)] = x
    BY <1>2, PlaceFacts
  <2>2. /\ \A x \in ToSet(params) : P(x) \in 1 .. Len(params) /\ params[P(x)] = x
        /\ \A x : x \notin ToSet(params) => P(x) = 0
    BY <1>2, PlaceFacts
  <2>3. /\ \A x \in ToSet(syscalls) : S(x) \in 1 .. Len(syscalls) /\ syscalls[S(x)] = x
        /\ \A x : x \notin ToSet(syscalls) => S(x) = 0
    BY <1>2, PlaceFacts
  <2> QED
    BY <2>1, <2>2, <2>3
<1>4. /\ r \in Manager /\ ~r.raised
      /\ DOMAIN r.call_lists = 1 .. Len(lists)
      /\ \A k \in 1 .. Len(lists) : r.call_lists[k] = m.call_lists[lists[k]]
      /\ DOMAIN r.call_params = 1 .. Len(params) \cup {DefaultParams}
      /\ r.call_params[DefaultParams] = m.call_params[DefaultParams]
      /\ \A k \in 1 .. Len(params) : r.call_params[k] = m.call_params[params[k]]
      /\ DOMAIN r.syscalls = 1 .. Len(syscalls)
      /\ \A k \in 1 .. Len(syscalls) :
            /\ r.syscalls[k].context = m.syscalls[syscalls[k]].context
            /\ r.syscalls[k].hooks = m.syscalls[syscalls[k]].hooks
            /\ r.syscalls[k].call_params = P(m.syscalls[syscalls[k]].call_params)
      /\ \A c \in Context :
            /\ r.trace_all[c] = S(m.trace_all[c])
            /\ \A j \in Instances(r, c) : \E i \in Instances(m, c) : Moved(i, j, lists, syscalls)
  BY DEF Renumbered
<1>5. \A i, j : Moved(i, j, lists, syscalls) =>
         /\ j.name = i.name /\ j.call_names = L(i.call_names) /\ j.syscall = S(i.syscall)
         /\ DOMAIN j.param_call_list = DOMAIN i.param_call_list
         /\ \A p \in DOMAIN i.param_call_list : j.param_call_list[p] = L(i.param_call_list[p])
  BY DEF Moved
<1> HIDE DEF L, P, S
<1>6. /\ Len(lists) \in Nat /\ Len(params) \in Nat /\ Len(syscalls) \in Nat
      /\ \A k \in 1 .. Len(syscalls) : syscalls[k] \in ToSet(syscalls)
  BY <1>2, ListFacts
<1>7. \A s \in ToSet(syscalls) :
         /\ S(s) \in 1 .. Len(syscalls)
         /\ r.syscalls[S(s)].context = m.syscalls[s].context
         /\ r.syscalls[S(s)].hooks = m.syscalls[s].hooks
         /\ r.syscalls[S(s)].call_params = P(m.syscalls[s].call_params)
  BY <1>3, <1>4
<1>8. \A x \in ToSet(lists) : L(x) \in DOMAIN r.call_lists /\ Calls(r, L(x)) = Calls(m, x)
  BY <1>3, <1>4 DEF Calls
<1>9. \A s \in ToSet(syscalls) : LET l == m.syscalls[s].call_params IN
         /\ P(l) \in DOMAIN r.call_params
         /\ r.call_params[P(l)] = m.call_params[l]
         /\ P(l) = DefaultParams <=> l = DefaultParams
  <2> SUFFICES ASSUME NEW s \in ToSet(syscalls), NEW l, l = m.syscalls[s].call_params
               PROVE  /\ P(l) \in DOMAIN r.call_params
                      /\ r.call_params[P(l)] = m.call_params[l]
                      /\ P(l) = DefaultParams <=> l = DefaultParams
    OBVIOUS
  <2>1. l \in ToSet(params) \/ l = DefaultParams
    BY <1>2
  <2>2. CASE l = DefaultParams
    <3>1. P(l) = DefaultParams
      BY <1>2, <1>3, <2>2 DEF DefaultParams
    <3> QED
      BY <1>4, <2>2, <3>1
  <2>3. CASE l \in ToSet(params)
    <3>1. P(l) \in 1 .. Len(params) /\ params[P(l)] = l
      BY <1>3, <2>3
    <3>2. P(l) # DefaultParams /\ l # DefaultParams
      BY <1>2, <1>6, <2>3, <3>1 DEF DefaultParams
    <3> QED
      BY <1>4, <3>1, <3>2
  <2> QED
    BY <2>1, <2>2, <2>3
<1>10. \A s, t \in ToSet(syscalls) :
          P(m.syscalls[s].call_params) = P(m.syscalls[t].call_params)
             => m.syscalls[s].call_params = m.syscalls[t].call_params
  <2> SUFFICES ASSUME NEW s \in ToSet(syscalls), NEW t \in ToSet(syscalls),
                      NEW k, k = m.syscalls[s].call_params,
                      NEW l, l = m.syscalls[t].call_params, P(k) = P(l)
               PROVE  k = l
    OBVIOUS
  <2>1. /\ k \in ToSet(params) \cup {DefaultParams} /\ l \in ToSet(params) \cup {DefaultParams}
        /\ P(k) = DefaultParams <=> k = DefaultParams
        /\ P(l) = DefaultParams <=> l = DefaultParams
    BY <1>2, <1>9
  <2>2. \A x \in ToSet(params) : params[P(x)] = x
    BY <1>3
  <2> QED
    BY <2>1, <2>2
<1>11. ASSUME NEW c \in Context, NEW j \in Instances(r, c)
       PROVE  \E i \in Instances(m, c) :
                 /\ Moved(i, j, lists, syscalls)
                 /\ Held(j) = {L(l) : l \in Held(i)} /\ Params(r, j) = Params(m, i)
                 /\ i.syscall \in ToSet(syscalls) /\ Held(i) \subseteq ToSet(lists)
  <2>1. PICK i \in Instances(m, c) : Moved(i, j, lists, syscalls)
    BY <1>4
  <2>2. i.syscall \in ToSet(syscalls) /\ Held(i) \subseteq ToSet(lists)
    BY <1>2
  <2>3. Held(j) = {L(l) : l \in Held(i)}
    BY <1>5, <2>1 DEF Held, Range
  <2>4. Params(r, j) = Params(m, i)
    BY <1>5, <1>7, <1>9, <2>1, <2>2 DEF Params, ParamsOf
  <2> QED
    BY <2>1, <2>2, <2>3, <2>4
<1>12. Refs(r)
  <2>1. Typed(r)
    BY <1>4, <1>6 DEF Typed, NoSyscall
  <2>2. \A s \in DOMAIN r.syscalls : r.syscalls[s].call_params \in DOMAIN r.call_params
    BY <1>4, <1>6, <1>9
  <2>3. \A c \in Context : r.trace_all[c] # NoSyscall =>
           /\ r.trace_all[c] \in DOMAIN r.syscalls
           /\ r.syscalls[r.trace_all[c]].context = c /\ Instances(r, c) = {}
    <3> SUFFICES ASSUME NEW c \in Context, r.trace_all[c] # NoSyscall
                 PROVE  /\ r.trace_all[c] \in DOMAIN r.syscalls
                        /\ r.syscalls[r.trace_all[c]].context = c /\ Instances(r, c) = {}
      OBVIOUS
    <3>1. m.trace_all[c] \in ToSet(syscalls)
      BY <1>3, <1>4 DEF NoSyscall
    <3>2. m.trace_all[c] # NoSyscall
      BY <1>1, <1>2, <3>1 DEF Refs, Typed
    <3>3. m.syscalls[m.trace_all[c]].context = c /\ Instances(m, c) = {}
      BY <1>1, <3>2 DEF Refs
    <3> QED
      BY <1>4, <1>7, <3>1, <3>3
  <2>4. ASSUME NEW c \in Context, NEW j \in Instances(r, c)
        PROVE  /\ j.syscall \in DOMAIN r.syscalls /\ r.syscalls[j.syscall].context = c
               /\ Held(j) \subseteq DOMAIN r.call_lists
    <3>1. PICK i \in Instances(m, c) :
             /\ Moved(i, j, lists, syscalls)
             /\ Held(j) = {L(l) : l \in Held(i)}
             /\ i.syscall \in ToSet(syscalls) /\ Held(i) \subseteq ToSet(lists)
      BY <1>11
    <3>2. m.syscalls[i.syscall].context = c
      BY <1>1 DEF Refs
    <3> QED
      BY <1>4, <1>5, <1>7, <1>8, <3>1, <3>2
  <2>5. ASSUME NEW c \in Context, NEW j \in Instances(r, c), NEW k \in Instances(r, c),
               j.name = k.name \/ j.syscall = k.syscall
        PROVE  j = k
    <3>1. PICK i \in Instances(m, c) :
             Moved(i, j, lists, syscalls) /\ i.syscall \in ToSet(syscalls)
      BY <1>11
    <3>2. PICK h \in Instances(m, c) :
             Moved(h, k, lists, syscalls) /\ h.syscall \in ToSet(syscalls)
      BY <1>11
    <3>3. i.name = h.name \/ i.syscall = h.syscall
      BY <1>3, <1>5, <2>5, <3>1, <3>2
    <3>4. i = h
      BY <1>1, <3>3 DEF Refs
    <3>5. /\ j \in InstanceRec /\ k \in InstanceRec /\ j.name = k.name
          /\ j.call_names = k.call_names /\ j.syscall = k.syscall
          /\ DOMAIN j.param_call_list = DOMAIN k.param_call_list
          /\ \A p \in DOMAIN j.param_call_list : j.param_call_list[p] = k.param_call_list[p]
      BY <3>1, <3>2, <3>4 DEF Moved
    <3>6. j.param_call_list = k.param_call_list
      <4>1. /\ j.param_call_list = [p \in DOMAIN j.param_call_list |-> j.param_call_list[p]]
            /\ k.param_call_list = [p \in DOMAIN k.param_call_list |-> k.param_call_list[p]]
        BY <3>5 DEF InstanceRec
      <4> QED
        BY <3>5, <4>1
    <3> QED
      BY <3>5, <3>6 DEF InstanceRec
  <2> QED
    BY <2>1, <2>2, <2>3, <2>4, <2>5 DEF Refs
<1>13. ASSUME n # 0 PROVE Owned(r)
  <2>1. Owned(m)
    BY <1>1, <1>13
  <2>2. ASSUME NEW s \in DOMAIN r.syscalls, NEW t \in DOMAIN r.syscalls, s # t
        PROVE  r.syscalls[s].call_params # r.syscalls[t].call_params
                   \/ r.syscalls[s].call_params = DefaultParams
    <3>1. s \in 1 .. Len(syscalls) /\ t \in 1 .. Len(syscalls)
      BY <1>4
    <3>2. syscalls[s] # syscalls[t]
      <4>1. DOMAIN syscalls = 1 .. Len(syscalls)
        BY <1>2, ListFacts
      <4> QED
        BY <2>2, <3>1, <4>1 DEF Listed, IsInjective
    <3>3. /\ syscalls[s] \in ToSet(syscalls) /\ syscalls[t] \in ToSet(syscalls)
          /\ r.syscalls[s].call_params = P(m.syscalls[syscalls[s]].call_params)
          /\ r.syscalls[t].call_params = P(m.syscalls[syscalls[t]].call_params)
      BY <1>4, <1>6, <3>1
    <3>4. m.syscalls[syscalls[s]].call_params # m.syscalls[syscalls[t]].call_params
             \/ m.syscalls[syscalls[s]].call_params = DefaultParams
      BY <1>2, <2>1, <3>2, <3>3 DEF Owned
    <3> QED
      BY <1>9, <1>10, <3>3, <3>4
  <2>3. ASSUME NEW c \in Context, NEW j \in Instances(r, c)
        PROVE  r.syscalls[j.syscall].call_params # DefaultParams
    <3>1. PICK i \in Instances(m, c) :
             Moved(i, j, lists, syscalls) /\ i.syscall \in ToSet(syscalls)
      BY <1>11
    <3> QED
      BY <1>5, <1>7, <1>9, <2>1, <3>1 DEF Owned
  <2>4. ASSUME NEW c \in Context, NEW d \in Context, NEW j \in Instances(r, c),
               NEW k \in Instances(r, d), j # k
        PROVE  Held(j) \cap Held(k) = {}
    <3>1. PICK i \in Instances(m, c) :
             /\ Moved(i, j, lists, syscalls)
             /\ Held(j) = {L(l) : l \in Held(i)}
             /\ i.syscall \in ToSet(syscalls) /\ Held(i) \subseteq ToSet(lists)
      BY <1>11
    <3>2. PICK h \in Instances(m, d) :
             /\ Moved(h, k, lists, syscalls)
             /\ Held(k) = {L(l) : l \in Held(h)}
             /\ h.syscall \in ToSet(syscalls) /\ Held(h) \subseteq ToSet(lists)
      BY <1>11
    <3>3. i # h
      <4>1. SUFFICES ASSUME i = h PROVE FALSE
        OBVIOUS
      <4>2. j.name = k.name
        BY <1>5, <3>1, <3>2, <4>1
      <4>3. c = d
        BY <1>1, <4>1 DEF Refs
      <4> QED
        BY <1>12, <2>4, <4>2, <4>3 DEF Refs
    <3>4. Held(i) \cap Held(h) = {}
      BY <2>1, <3>3 DEF Owned
    <3> QED
      BY <1>3, <3>1, <3>2, <3>4
  <2> QED
    BY <2>2, <2>3, <2>4 DEF Owned
<1>14. ASSUME n # 0 PROVE Served(r)
  <2>1. Served(m)
    BY <1>1, <1>14
  <2>2. ASSUME NEW c \in Context, NEW j \in Instances(r, c)
        PROVE  /\ Calls(r, j.call_names) \subseteq r.syscalls[j.syscall].hooks
               /\ \A p \in DOMAIN j.param_call_list :
                     Calls(r, j.param_call_list[p]) \subseteq Calls(r, j.call_names)
               /\ Params(r, j) \subseteq DOMAIN j.param_call_list
    <3>1. PICK i \in Instances(m, c) :
             /\ Moved(i, j, lists, syscalls) /\ Params(r, j) = Params(m, i)
             /\ i.syscall \in ToSet(syscalls) /\ Held(i) \subseteq ToSet(lists)
      BY <1>11
    <3>2. i.call_names \in Held(i) /\ \A p \in DOMAIN i.param_call_list : i.param_call_list[p] \in Held(i)
      BY DEF Held, Range
    <3>3. /\ Calls(r, j.call_names) = Calls(m, i.call_names)
          /\ \A p \in DOMAIN i.param_call_list :
                Calls(r, j.param_call_list[p]) = Calls(m, i.param_call_list[p])
      BY <1>5, <1>8, <3>1, <3>2
    <3>4. r.syscalls[j.syscall].hooks = m.syscalls[i.syscall].hooks
      BY <1>5, <1>7, <3>1
    <3>5. DOMAIN j.param_call_list = DOMAIN i.param_call_list
      BY <1>5, <3>1
    <3> QED
      BY <2>1, <3>1, <3>3, <3>4, <3>5 DEF Served
  <2> QED
    BY <1>4, <2>2 DEF Served
<1>15. ASSUME n = 2 PROVE Asked(r, w)
  <2>1. Asked(m, w)
    BY <1>1, <1>15
  <2>2. ASSUME NEW c \in Context, NEW j \in Instances(r, c), NEW k \in Instances(r, c), j # k
        PROVE  Params(r, j) \cap Params(r, k) = {}
    <3>1. PICK i \in Instances(m, c) :
             Moved(i, j, lists, syscalls) /\ Params(r, j) = Params(m, i)
      BY <1>11
    <3>2. PICK h \in Instances(m, c) :
             Moved(h, k, lists, syscalls) /\ Params(r, k) = Params(m, h)
      BY <1>11
    <3>3. j.name # k.name
      BY <1>12, <2>2 DEF Refs
    <3>4. i # h
      BY <1>5, <3>1, <3>2, <3>3
    <3> QED
      BY <2>1, <3>1, <3>2, <3>4 DEF Asked
  <2>3. \A c \in Context : \A j \in Instances(r, c) : Params(r, j) \subseteq w[c]
    BY <1>11, <2>1 DEF Asked
  <2> QED
    BY <2>2, <2>3 DEF Asked
<1> QED
  BY <1>12, <1>13, <1>14, <1>15 DEF Inv

LEMMA FirstTimes ==
  ASSUME NEW V, NEW t \in Seq(V), NEW r, r = AppendNew(<<>>, t)
  PROVE  r \in Seq(V) /\ ToSet(r) = ToSet(t) /\ IsInjective(r)
<1>1. <<>> \in Seq(V) /\ ToSet(<<>>) = {}
  BY EmptySeq, ListFacts
<1>2. IsInjective(<<>>)
  BY DEF IsInjective
<1>3. SUFFICES ASSUME NEW none \in Seq(V), IsInjective(none), ToSet(none) = {},
                      NEW q, q = AppendNew(none, t)
               PROVE  q \in Seq(V) /\ ToSet(q) = ToSet(t) /\ IsInjective(q)
  BY <1>1, <1>2
<1>4. q \in Seq(V) /\ ToSet(q) = ToSet(none) \cup ToSet(t)
  BY <1>3, AppendNewFacts
<1>5. IsInjective(q)
  BY <1>3, AppendNewFacts
<1> QED
  BY <1>3, <1>4, <1>5

LEMMA ListsOfFacts ==
  ASSUME NEW i \in InstanceRec
  PROVE  ListsOf(i) \in Seq(Nat) /\ ToSet(ListsOf(i)) = Held(i)
<1> DEFINE f == i.param_call_list
           D == DOMAIN f
           names == SetToSeq(D)
           one == <<i.call_names>>
           rest == [k \in DOMAIN names |-> f[names[k]]]
<1>1. /\ D \subseteq Param /\ i.call_names \in Nat
      /\ \A p \in D : f[p] \in Nat
  BY DEF InstanceRec
<1>2. IsFiniteSet(D)
  BY <1>1, FS_Subset, SyscallAssumption
<1>3. ListsOf(i) = one \o rest
  BY DEF ListsOf
<1>4. Held(i) = {i.call_names} \cup {f[p] : p \in D}
  BY DEF Held, Range
<1> HIDE DEF f, D
<1>5. names \in Seq(D) /\ ToSet(names) = D
  BY <1>2, OrderFacts
<1> HIDE DEF names
<1>6. /\ DOMAIN names = 1 .. Len(names) /\ Len(names) \in Nat
      /\ \A k \in 1 .. Len(names) : names[k] \in D
      /\ \A p : p \in D <=> \E k \in 1 .. Len(names) : names[k] = p
  BY <1>5, ListFacts
<1>7. rest \in Seq(Nat) /\ Len(rest) = Len(names) /\ \A k \in 1 .. Len(names) : rest[k] = f[names[k]]
  BY <1>1, <1>6
<1> HIDE DEF rest
<1>8. \A x : x \in ToSet(rest) <=> \E k \in 1 .. Len(rest) : rest[k] = x
  BY <1>7, ListFacts
<1>9. ToSet(rest) = {f[p] : p \in D}
  BY <1>6, <1>7, <1>8
<1>10. one \in Seq(Nat) /\ ToSet(one) = {i.call_names}
  BY <1>1 DEF ToSet
<1> HIDE DEF one
<1>11. one \o rest \in Seq(Nat) /\ ToSet(one \o rest) = ToSet(one) \cup ToSet(rest)
  BY <1>7, <1>10, ListConcat
<1> QED
  BY <1>3, <1>4, <1>9, <1>10, <1>11

\* All instances, one context after the other.
LEMMA InstancesFacts ==
  ASSUME NEW m \in Manager
  PROVE  /\ AllInstances(m) \in Seq(InstanceRec)
         /\ ToSet(AllInstances(m)) = UNION {Instances(m, c) : c \in Context}
<1> DEFINE ss == [k \in DOMAIN Contexts |-> m.syscall_dict[Contexts[k]]]
<1>1. /\ DOMAIN Contexts = 1 .. Len(Contexts) /\ Len(Contexts) \in Nat
      /\ \A k \in 1 .. Len(Contexts) : Contexts[k] \in Context
      /\ \A c \in Context : \E k \in 1 .. Len(Contexts) : Contexts[k] = c
  BY SyscallAssumption, ListFacts DEF Context
<1>2. \A c \in Context : m.syscall_dict[c] \in Seq(InstanceRec)
  BY Fields
<1>3. /\ ss \in Seq(Seq(InstanceRec)) /\ Len(ss) = Len(Contexts)
      /\ \A k \in 1 .. Len(Contexts) : ss[k] = m.syscall_dict[Contexts[k]]
  BY <1>1, <1>2
<1>4. AllInstances(m) = FlattenSeq(ss)
  BY DEF AllInstances
<1> HIDE DEF ss
<1>5. AllInstances(m) \in Seq(InstanceRec) /\ ToSet(AllInstances(m)) = UNION {ToSet(ss[k]) : k \in 1 .. Len(ss)}
  BY <1>3, <1>4, FlattenFacts
<1>6. \A k \in 1 .. Len(Contexts) : ToSet(ss[k]) = Instances(m, Contexts[k])
  BY <1>3 DEF Instances
<1>7. ToSet(AllInstances(m)) = UNION {Instances(m, c) : c \in Context}
  BY <1>1, <1>3, <1>5, <1>6
<1> QED
  BY <1>5, <1>7

\* What refers to an object is listed, so that numbering anew loses nothing.
LEMMA CollectedKeeps ==
  ASSUME NEW m, NEW n \in Level, NEW w, Inv(m, n, w), NEW r, r = Collected(m)
  PROVE  Inv(r, n, w)
<1> DEFINE instances == AllInstances(m)
           h1 == [k \in DOMAIN instances |-> instances[k].syscall]
           h2 == [k \in DOMAIN Contexts |-> m.trace_all[Contexts[k]]]
           h == h1 \o h2
           held == Keep(h, DOMAIN m.syscalls)
           hooked == {s \in DOMAIN m.syscalls : m.syscalls[s].hooks # {}}
           hs == SetToSeq(hooked)
           first == AppendNew(<<>>, held)
           syscalls == AppendNew(first, hs)
           ls == [k \in DOMAIN instances |-> ListsOf(instances[k])]
           flat == FlattenSeq(ls)
           lists == AppendNew(<<>>, flat)
           ps == [k \in DOMAIN syscalls |-> m.syscalls[syscalls[k]].call_params]
           all == AppendNew(<<>>, ps)
           params == Keep(all, DOMAIN m.call_params \ {DefaultParams})
<1>1. r = Numbered(m, lists, params, syscalls)
  BY DEF Collected
<1>2. Refs(m) /\ Typed(m) /\ m \in Manager
  BY DEF Inv, Refs, Typed
<1>3. /\ instances \in Seq(InstanceRec)
      /\ ToSet(instances) = UNION {Instances(m, c) : c \in Context}
  BY <1>2, InstancesFacts
<1>4. /\ m.trace_all \in [Context -> Nat] /\ DOMAIN m.syscalls \subseteq Nat
      /\ m.syscalls \in [DOMAIN m.syscalls -> SyscallRec]
      /\ IsFiniteSet(DOMAIN m.syscalls)
  BY <1>2, Fields, ObjectsFacts
<1>5. /\ DOMAIN Contexts = 1 .. Len(Contexts) /\ Len(Contexts) \in Nat
      /\ \A k \in 1 .. Len(Contexts) : Contexts[k] \in Context
      /\ \A c \in Context : \E k \in 1 .. Len(Contexts) : Contexts[k] = c
  BY SyscallAssumption, ListFacts DEF Context
<1> HIDE DEF instances
<1>6. /\ DOMAIN instances = 1 .. Len(instances) /\ Len(instances) \in Nat
      /\ \A k \in 1 .. Len(instances) : instances[k] \in InstanceRec
      /\ \A i \in ToSet(instances) : \E k \in 1 .. Len(instances) : instances[k] = i
      /\ \A k \in 1 .. Len(instances) : instances[k] \in ToSet(instances)
  BY <1>3, ListFacts
<1>7. /\ h1 \in Seq(Nat) /\ Len(h1) = Len(instances)
      /\ \A k \in 1 .. Len(instances) : h1[k] = instances[k].syscall
  BY <1>6 DEF InstanceRec
<1>8. /\ h2 \in Seq(Nat) /\ Len(h2) = Len(Contexts)
      /\ \A k \in 1 .. Len(Contexts) : h2[k] = m.trace_all[Contexts[k]]
  BY <1>4, <1>5
<1>9. /\ \A k \in 1 .. Len(instances) : ListsOf(instances[k]) \in Seq(Nat)
      /\ \A k \in 1 .. Len(instances) : ToSet(ListsOf(instances[k])) = Held(instances[k])
  BY <1>6, ListsOfFacts
<1>10. /\ ls \in Seq(Seq(Nat)) /\ Len(ls) = Len(instances)
       /\ \A k \in 1 .. Len(instances) : ls[k] = ListsOf(instances[k])
  BY <1>6, <1>9
<1> HIDE DEF h1, h2, ls
<1>11. h \in Seq(Nat) /\ ToSet(h) = ToSet(h1) \cup ToSet(h2)
  BY <1>7, <1>8, ListConcat
<1> HIDE DEF h
<1>12. held \in Seq(Nat) /\ ToSet(held) = ToSet(h) \cap DOMAIN m.syscalls
  BY <1>11, KeepFacts
<1> HIDE DEF held
<1>13. hs \in Seq(Nat) /\ ToSet(hs) \subseteq DOMAIN m.syscalls
  <2>1. IsFiniteSet(hooked) /\ hooked \subseteq Nat /\ hooked \subseteq DOMAIN m.syscalls
    <3>1. hooked \subseteq DOMAIN m.syscalls
      OBVIOUS
    <3> HIDE DEF hooked
    <3> QED
      BY <1>4, <3>1, FS_Subset
  <2> HIDE DEF hooked
  <2>2. hs \in Seq(hooked) /\ ToSet(hs) = hooked
    BY <2>1, OrderFacts
  <2> HIDE DEF hs
  <2>3. hs \in Seq(Nat)
    BY <2>1, <2>2, SeqMonotonic
  <2> QED
    BY <2>1, <2>2, <2>3
<1> HIDE DEF hs, hooked
<1>14. first \in Seq(Nat) /\ ToSet(first) = ToSet(held) /\ IsInjective(first)
  BY <1>12, FirstTimes
<1> HIDE DEF first
<1>15. syscalls \in Seq(Nat) /\ ToSet(syscalls) = ToSet(first) \cup ToSet(hs)
  BY <1>13, <1>14, AppendNewFacts
<1>16. IsInjective(syscalls)
  BY <1>13, <1>14, AppendNewFacts
<1> HIDE DEF syscalls
<1>17. ToSet(syscalls) \subseteq DOMAIN m.syscalls
  BY <1>12, <1>13, <1>14, <1>15
<1>18. flat \in Seq(Nat) /\ ToSet(flat) = UNION {ToSet(ls[k]) : k \in 1 .. Len(ls)}
  BY <1>10, FlattenFacts
<1> HIDE DEF flat
<1>19. lists \in Seq(Nat) /\ ToSet(lists) = ToSet(flat)
  BY <1>18, FirstTimes
<1> HIDE DEF lists
<1>20. /\ DOMAIN syscalls = 1 .. Len(syscalls) /\ Len(syscalls) \in Nat
       /\ \A k \in 1 .. Len(syscalls) : syscalls[k] \in ToSet(syscalls)
       /\ \A s \in ToSet(syscalls) : \E k \in 1 .. Len(syscalls) : syscalls[k] = s
  BY <1>15, ListFacts
<1>21. /\ ps \in Seq(Nat) /\ Len(ps) = Len(syscalls)
       /\ \A k \in 1 .. Len(syscalls) : ps[k] = m.syscalls[syscalls[k]].call_params
  BY <1>4, <1>17, <1>20 DEF SyscallRec
<1> HIDE DEF ps
<1>22. all \in Seq(Nat) /\ ToSet(all) = ToSet(ps)
  BY <1>21, FirstTimes
<1> HIDE DEF all
<1>23. /\ params \in Seq(Nat)
       /\ ToSet(params) = ToSet(all) \cap (DOMAIN m.call_params \ {DefaultParams})
  BY <1>22, KeepFacts
<1> HIDE DEF params
<1>24. \A s \in ToSet(syscalls) : m.syscalls[s].call_params \in ToSet(params) \cup {DefaultParams}
  <2> SUFFICES ASSUME NEW s \in ToSet(syscalls),
                      m.syscalls[s].call_params # DefaultParams
               PROVE  m.syscalls[s].call_params \in ToSet(params)
    OBVIOUS
  <2>1. PICK k \in 1 .. Len(syscalls) : syscalls[k] = s
    BY <1>20
  <2>2. ps[k] \in ToSet(ps)
    BY <1>21, ListFacts
  <2>3. m.syscalls[s].call_params \in DOMAIN m.call_params
    BY <1>2, <1>17 DEF Refs
  <2> QED
    BY <1>21, <1>22, <1>23, <2>1, <2>2, <2>3
<1>25. ASSUME NEW c \in Context, m.trace_all[c] # NoSyscall
       PROVE  m.trace_all[c] \in ToSet(syscalls)
  <2>1. PICK k \in 1 .. Len(Contexts) : Contexts[k] = c
    BY <1>5
  <2>2. h2[k] \in ToSet(h2)
    BY <1>8, ListFacts
  <2>3. m.trace_all[c] \in DOMAIN m.syscalls
    BY <1>2, <1>25 DEF Refs
  <2> QED
    BY <1>8, <1>11, <1>12, <1>14, <1>15, <2>1, <2>2, <2>3
<1>26. ASSUME NEW c \in Context, NEW i \in Instances(m, c)
       PROVE  i.syscall \in ToSet(syscalls) /\ Held(i) \subseteq ToSet(lists)
  <2>1. i \in ToSet(instances)
    BY <1>3
  <2>2. PICK k \in 1 .. Len(instances) : instances[k] = i
    BY <1>6, <2>1
  <2>3. h1[k] \in ToSet(h1)
    BY <1>7, ListFacts
  <2>4. i.syscall \in DOMAIN m.syscalls
    BY <1>2 DEF Refs
  <2>5. i.syscall \in ToSet(syscalls)
    BY <1>7, <1>11, <1>12, <1>14, <1>15, <2>2, <2>3, <2>4
  <2>6. ToSet(ls[k]) = Held(i)
    BY <1>9, <1>10, <2>2
  <2>7. ToSet(ls[k]) \subseteq ToSet(flat)
    BY <1>10, <1>18
  <2> QED
    BY <1>19, <2>5, <2>6, <2>7
<1>27. ToSet(lists) \subseteq DOMAIN m.call_lists
  <2> SUFFICES ASSUME NEW l \in ToSet(lists) PROVE l \in DOMAIN m.call_lists
    OBVIOUS
  <2>1. PICK k \in 1 .. Len(ls) : l \in ToSet(ls[k])
    BY <1>18, <1>19
  <2>2. l \in Held(instances[k])
    BY <1>9, <1>10, <2>1
  <2>3. PICK c \in Context : instances[k] \in Instances(m, c)
    BY <1>3, <1>6, <1>10
  <2>4. Held(instances[k]) \subseteq DOMAIN m.call_lists
    BY <1>2, <2>3 DEF Refs
  <2> QED
    BY <2>2, <2>4
<1>28. Listed(m, lists, params, syscalls)
  BY <1>15, <1>16, <1>17, <1>19, <1>23, <1>24, <1>25, <1>26, <1>27 DEF Listed
<1>29. Renumbered(m, r, lists, params, syscalls)
  BY <1>1, <1>2, <1>28, NumberedFacts
<1> QED
  BY <1>28, <1>29, NumberedKeeps

-----------------------------------------------------------------------------
(* The requests, one by one                                                *)

\* The first element alone.
LEMMA FirstOnly ==
  ASSUME NEW V, NEW s \in Seq(V), s # <<>>
  PROVE  SubSeq(s, 1, 1) = <<s[1]>>
<1> DEFINE f == SubSeq(s, 1, 1)
<1>1. Len(s) \in Nat /\ Len(s) # 0
  BY EmptySeq
<1>2. s[1] \in V
  BY <1>1
<1>3. f \in Seq(V) /\ Len(f) = 1 /\ f[1] = s[1]
  BY <1>2, SubSeqProperties
<1> HIDE DEF f
<1>4. f = <<s[1]>>
  BY <1>3
<1> QED
  BY <1>4 DEF f

\* runTo: its two lists are new, and no instance has the parameter yet.
LEMMA WatchedKeeps ==
  ASSUME NEW m, NEW n \in Level, NEW w, Inv(m, n, w), NEW p \in Param,
         NEW contexts \in Seq(Context), n # 0 => Len(contexts) = 1,
         \A c \in ToSet(contexts) : p \notin w[c],
         NEW v, \A c \in Context : w[c] \subseteq v[c], \A c \in ToSet(contexts) : p \in v[c],
         NEW r, r = Collected(runTo(m, p, contexts))
  PROVE  Inv(r, n, v)
<1> DEFINE list == Fresh(m.call_lists)
           params == Fresh(m.call_params)
           calls == CallList[p]
           one == <<p>>
           m1 == [m EXCEPT !.call_lists = With(@, calls)]
           m2 == [m1 EXCEPT !.call_params = With(@, one)]
           name == InstanceName[p]
           watched == WatchInTurn(m2, contexts, name, list, params)
<1>1. m \in Manager /\ Refs(m) /\ DefaultParams \in DOMAIN m.call_params
  BY DEF Inv, Refs, Typed
<1>2. calls \in Seq(Call) /\ one \in Seq(Param) /\ ToSet(one) = {p}
  BY SyscallAssumption DEF ToSet
<1>3. r = Collected(watched)
  BY <1>1 DEF Manager, runTo
<1> HIDE DEF calls, one
<1>4. m1 = [m EXCEPT !.call_lists = With(@, calls)] /\ m2 = [m1 EXCEPT !.call_params = With(@, one)]
  OBVIOUS
<1> HIDE DEF m1, m2
<1>5. Inv(m1, n, w) /\ Longer(m, m1, list, calls)
  BY <1>2, <1>4, ListAdded
<1> HIDE DEF list
<1>6. m1.call_params = m.call_params
  BY <1>5 DEF Longer
<1>7. Inv(m2, n, w) /\ Wider(m1, m2, params, one)
  BY <1>2, <1>4, <1>5, <1>6, ParamsAdded
<1> HIDE DEF params
<1>8. Inv(m2, n, v)
  BY <1>7, InvMore
<1>9. ASSUME NEW c \in ToSet(contexts) PROVE Request(m2, n, c, list, params, v)
  <2>1. c \in Context
    BY <1>9, ListFacts
  <2>2. /\ list \in DOMAIN m2.call_lists /\ params \in DOMAIN m2.call_params
        /\ list \notin DOMAIN m.call_lists /\ params \notin DOMAIN m.call_params
        /\ m2.syscalls = m.syscalls /\ m2.call_params[params] = one
        /\ \A d \in Context : Instances(m2, d) = Instances(m, d)
    BY <1>5, <1>6, <1>7 DEF Longer, Wider
  <2>3. params # DefaultParams
    BY <1>1, <2>2
  <2>4. \A s \in DOMAIN m2.syscalls : m2.syscalls[s].call_params # params
    BY <1>1, <2>2 DEF Refs
  <2>5. \A d \in Context : \A k \in Instances(m2, d) : list \notin Held(k)
    BY <1>1, <2>2 DEF Refs
  <2>6. ASSUME n = 2
        PROVE  /\ ToSet(m2.call_params[params]) \subseteq v[c]
               /\ \A k \in Instances(m2, c) :
                     Params(m2, k) \cap ToSet(m2.call_params[params]) = {}
    <3>1. Asked(m2, w)
      BY <1>7, <2>6 DEF Inv
    <3>2. \A k \in Instances(m2, c) : p \notin Params(m2, k)
      BY <1>9, <2>1, <3>1 DEF Asked
    <3> QED
      BY <1>2, <1>9, <2>2, <3>2
  <2> QED
    BY <2>2, <2>3, <2>4, <2>5, <2>6 DEF Request
<1>10. \A k \in 1 .. Len(contexts) : Request(m2, n, contexts[k], list, params, v)
  BY <1>9, ListFacts
<1>11. name \in Name
  BY DEF Name
<1> HIDE DEF name
<1>12. watched = WatchInTurn(m2, contexts, name, list, params)
  OBVIOUS
<1> HIDE DEF watched
<1>13. Inv(watched, n, v)
  BY <1>8, <1>10, <1>11, <1>12, WatchInTurnKeeps, SMTT(30)
<1> QED
  BY <1>3, <1>13, CollectedKeeps

\* rmSyscall, when a module takes its request back.
LEMMA UnwatchedKeeps ==
  ASSUME NEW m, NEW n \in Level, NEW w, Inv(m, n, w), NEW c \in Context, NEW p,
         NEW r, r = Collected(rmSyscall(m, c, p))
  PROVE  Inv(r, n, Without(w, c, p))
<1> DEFINE removed == rmSyscall(m, c, p)
           v == Without(w, c, p)
<1>1. Inv(removed, n, v) /\ r = Collected(removed)
  BY RmKeeps
<1> HIDE DEF removed, v
<1>2. Inv(r, n, v)
  BY <1>1, CollectedKeeps
<1> QED
  BY <1>2 DEF v

\* stopTrackIO: no instance that is left has a parameter of the one that goes.
LEMMA TrackStopped ==
  ASSUME NEW m, NEW n \in Level, NEW w, Inv(m, n, w), NEW c \in Context, NEW p,
         NEW found, found = findInstanceByParams(m, c, p), found # <<>>,
         NEW v, \A d \in Context : v[d] = IF d = c THEN w[d] \ ToSet(ParamsOf(m, found[1].syscall))
                                                   ELSE w[d],
         NEW r, r = Collected(Retired(m, c, SubSeq(found, 1, 1)))
  PROVE  Inv(r, n, v)
<1> DEFINE inst == found[1]
           one == SubSeq(found, 1, 1)
           retired == Retired(m, c, one)
           Having == {i \in Instances(m, c) : hasCallParam(m, i.syscall, p)}
<1>1. Refs(m) /\ m \in Manager
  BY DEF Inv, Refs, Typed
<1>2. m.syscall_dict[c] \in Seq(InstanceRec) /\ Instances(m, c) \subseteq InstanceRec
  BY <1>1, Fields
<1>3. found = Keep(m.syscall_dict[c], Having)
  BY DEF findInstanceByParams
<1> HIDE DEF Having
<1>4. found \in Seq(InstanceRec) /\ ToSet(found) \subseteq Instances(m, c)
  BY <1>2, <1>3, KeepFacts DEF Instances
<1>5. inst \in Instances(m, c) /\ inst \in InstanceRec
  BY <1>2, <1>4, FirstFacts
<1>6. one = <<inst>>
  BY <1>4, FirstOnly
<1>7. r = Collected(retired) /\ retired = Retired(m, c, one)
  OBVIOUS
<1> HIDE DEF one, inst, retired
<1>8. one \in Seq(InstanceRec) /\ ToSet(one) = {inst}
  BY <1>5, <1>6 DEF ToSet
<1>9. \A f \in ToSet(one) : \E i \in Instances(m, c) : i.name = f.name /\ i.syscall = f.syscall
  BY <1>5, <1>8
<1>10. /\ Instances(retired, c) = {i \in Instances(m, c) : \A f \in ToSet(one) : i.name # f.name}
       /\ \A d \in Context \ {c} : Instances(retired, d) = Instances(m, d)
       /\ \A k \in Level : (k # 0 => ~m.raised) => Less(m, retired, k)
  BY <1>1, <1>7, <1>8, <1>9, RetiredFacts
<1>11. n # 0 => ~m.raised
  BY DEF Inv, Served
<1>12. Less(m, retired, n)
  BY <1>10, <1>11
<1>13. ASSUME n = 2, NEW d \in Context, NEW i \in Instances(retired, d)
       PROVE  Params(retired, i) \subseteq v[d]
  <2>1. Asked(m, w)
    BY <1>13 DEF Inv
  <2>2. i \in Instances(m, d) /\ Params(retired, i) \subseteq Params(m, i)
    BY <1>12, <1>13 DEF Less
  <2>3. Params(m, i) \subseteq w[d]
    BY <2>1, <2>2 DEF Asked
  <2>4. CASE d = c
    <3>1. i # inst
      BY <1>8, <1>10, <1>13, <2>4
    <3>2. Params(m, i) \cap Params(m, inst) = {}
      BY <1>5, <2>1, <2>2, <2>4, <3>1 DEF Asked
    <3>3. v[d] = w[d] \ Params(m, inst)
      BY <2>4 DEF Params, inst
    <3> QED
      BY <2>2, <2>3, <3>2, <3>3
  <2>5. CASE d # c
    BY <2>2, <2>3, <2>5
  <2> QED
    BY <2>4, <2>5
<1>14. n = 2 => \A d \in Context : \A i \in Instances(retired, d) : Params(retired, i) \subseteq v[d]
  BY <1>13
<1>15. Inv(retired, n, v)
  BY <1>12, <1>14, LessAsked
<1> QED
  BY <1>7, <1>15, CollectedKeeps

\* There is one dmod at most, so that no Syscall is shared by two.
OneDmod == \A p, q \in Dmod : p = q

\* A dmod is done: either it leaves the one Syscall that has it, or every context.
LEMMA DoneKeeps ==
  ASSUME NEW m, NEW n \in Level, NEW w, Inv(m, n, w), n = 2 => OneDmod,
         NEW s \in DOMAIN m.syscalls, NEW p \in Dmod, hasCallParam(m, s, p),
         NEW v, v = [c \in Context |-> w[c] \ {p}],
         NEW r, r = Collected(IF (ToSet(ParamsOf(m, s)) \cap Dmod) \ {p} # {}
                              THEN Drop(m, s, p) ELSE rmSyscallEverywhere(m, p))
  PROVE  Inv(r, n, v)
<1>1. CASE (ToSet(ParamsOf(m, s)) \cap Dmod) \ {p} # {}
  <2> DEFINE dropped == Drop(m, s, p)
             l == m.syscalls[s].call_params
  <2>1. r = Collected(dropped)
    BY <1>1
  <2>2. Inv(dropped, n, w) /\ Less(m, dropped, n) /\ Dropped(m, dropped, l, p)
    BY DropKeeps
  <2> HIDE DEF dropped
  <2>3. n # 2
    BY <1>1 DEF OneDmod
  <2>4. n = 2 => \A c \in Context : \A i \in Instances(dropped, c) : Params(dropped, i) \subseteq v[c]
    BY <2>3
  <2>5. Inv(dropped, n, v)
    BY <2>2, <2>4, LessAsked
  <2> QED
    BY <2>1, <2>5, CollectedKeeps
<1>2. CASE ~((ToSet(ParamsOf(m, s)) \cap Dmod) \ {p} # {})
  <2> DEFINE removed == rmSyscallEverywhere(m, p)
  <2>1. r = Collected(removed)
    BY <1>2
  <2>2. Inv(removed, n, v)
    BY EverywhereKeeps
  <2> HIDE DEF removed
  <2> QED
    BY <2>1, <2>2, CollectedKeeps
<1> QED
  BY <1>1, <1>2

\* runToSyscall, in the monitor's trace of all calls.
LEMMA AllWatchedKeeps ==
  ASSUME NEW m, NEW n \in Level, NEW w, Inv(m, n, w), NEW c \in Context,
         NEW r, r = Collected(watchAllSyscalls(m, c))
  PROVE  Inv(r, n, w)
<1> DEFINE watched == watchAllSyscalls(m, c)
<1>1. Inv(watched, n, w)
  BY WatchAllKeeps
<1> HIDE DEF watched
<1>2. r = Collected(watched)
  BY DEF watched
<1> QED
  BY <1>1, <1>2, CollectedKeeps

\* stopTrace.
LEMMA TraceStopped ==
  ASSUME NEW m, NEW n \in Level, NEW w, Inv(m, n, w), NEW v,
         NEW r, r = Collected(rmAllSyscalls(m))
  PROVE  Inv(r, n, v)
<1> DEFINE removed == rmAllSyscalls(m)
<1>1. Inv(removed, n, v)
  BY RmAllKeeps
<1> HIDE DEF removed
<1>2. r = Collected(removed)
  BY DEF removed
<1> QED
  BY <1>1, <1>2, CollectedKeeps

\* rmAllDmods.
LEMMA DmodsRemoved ==
  ASSUME NEW m, NEW n \in Level, NEW w, Inv(m, n, w),
         NEW v, v = [c \in Context |-> w[c] \ Dmod],
         NEW r, r = Collected(rmAllDmods(m))
  PROVE  Inv(r, n, v)
<1> DEFINE removed == rmAllDmods(m)
<1>1. Inv(removed, n, v)
  BY RmDmodsKeeps
<1> HIDE DEF removed
<1>2. r = Collected(removed)
  BY DEF removed
<1> QED
  BY <1>1, <1>2, CollectedKeeps

-----------------------------------------------------------------------------
(* The invariants                                                          *)

\* No list of calls or of parameters reaches two contexts.
NoSharing == AllContexts = {} \/ Len(Contexts) = 1

IInv(n) == Inv(mgr, n, wanted) /\ wanted \in [Context -> SUBSET Param]

LEMMA InitKeeps ==
  ASSUME Init, NEW n \in Level
  PROVE  IInv(n)
<1> DEFINE none == <<>>
           params == [l \in {DefaultParams} |-> none]
<1>1. none \in Seq(Call) /\ none \in Seq(Param) /\ none \in Seq(InstanceRec)
  BY EmptySeq
<1>2. DOMAIN none = {} /\ ToSet(none) = {} /\ IsFiniteSet({}) /\ IsFiniteSet({DefaultParams})
  <2>1. DOMAIN none = {}
    OBVIOUS
  <2>2. ToSet(none) = {}
    BY <2>1 DEF ToSet
  <2> QED
    BY <2>1, <2>2, FS_EmptySet, FS_Singleton
<1>3. mgr = [call_lists |-> none, call_params |-> params, syscalls |-> none,
             syscall_dict |-> [c \in Context |-> none],
             trace_all |-> [c \in Context |-> NoSyscall], raised |-> FALSE]
  BY DEF Init
<1>4. none \in [{} -> Seq(Call)] /\ none \in [{} -> SyscallRec]
  BY <1>2
<1> HIDE DEF none
<1>5. none \in Objects(Seq(Call)) /\ none \in Objects(SyscallRec)
  BY <1>2, <1>4, ObjectsFacts
<1>6. params \in Objects(Seq(Param)) /\ DOMAIN params = {DefaultParams} /\ DefaultParams \in Nat
  <2>1. DOMAIN params = {DefaultParams} /\ DefaultParams \in Nat
    BY DEF DefaultParams
  <2>2. params \in [{DefaultParams} -> Seq(Param)]
    BY <1>1
  <2> HIDE DEF params
  <2> QED
    BY <1>2, <2>1, <2>2, ObjectsFacts
<1> HIDE DEF params
<1>7. mgr \in Manager
  BY <1>1, <1>3, <1>5, <1>6 DEF Manager, NoSyscall
<1>8. /\ Typed(mgr) /\ DOMAIN mgr.syscalls = {} /\ ~mgr.raised
      /\ \A c \in Context : mgr.trace_all[c] = NoSyscall /\ Instances(mgr, c) = {}
  BY <1>2, <1>3, <1>6, <1>7 DEF Typed, Instances
<1>9. Refs(mgr) /\ Served(mgr) /\ Asked(mgr, wanted)
  BY <1>8 DEF Refs, Served, Asked
<1>10. Owned(mgr)
  BY <1>8 DEF Owned
<1>11. wanted \in [Context -> SUBSET Param]
  BY DEF Init
<1> QED
  BY <1>9, <1>10, <1>11 DEF Inv, IInv

\* Each action keeps the invariant of its level.
LEMMA NextKeeps ==
  ASSUME NEW n \in Level, IInv(n), n # 0 => NoSharing, n = 2 => OneDmod, [Next]_vars
  PROVE  IInv(n)'
<1> DEFINE W == [Context -> SUBSET Param]
<1>1. Inv(mgr, n, wanted) /\ wanted \in W
  BY DEF IInv
<1>2. SUFFICES Inv(mgr', n, wanted') /\ wanted' \in W
  BY DEF IInv
<1>3. ASSUME NEW p \in Param, NEW contexts \in Seq(Context), n # 0 => Len(contexts) = 1,
             Watch(p, contexts)
      PROVE  Inv(mgr', n, wanted') /\ wanted' \in W
  <2>1. /\ \A c \in ToSet(contexts) : p \notin wanted[c]
        /\ mgr' = Collected(runTo(mgr, p, contexts))
        /\ wanted' = [c \in Context |-> IF c \in ToSet(contexts) THEN wanted[c] \cup {p}
                                                               ELSE wanted[c]]
    BY <1>3 DEF Watch
  <2>2. ToSet(contexts) \subseteq Context
    BY ListFacts
  <2>3. /\ \A c \in Context : wanted[c] \subseteq wanted'[c]
        /\ \A c \in ToSet(contexts) : p \in wanted'[c]
    BY <2>1, <2>2
  <2>4. wanted' \in W
    BY <1>1, <2>1
  <2>5. Inv(mgr', n, wanted')
    BY <1>1, <1>3, <2>1, <2>3, WatchedKeeps
  <2> QED
    BY <2>4, <2>5
<1>4. ASSUME NEW p \in AllContexts, Watch(p, Contexts)
      PROVE  Inv(mgr', n, wanted') /\ wanted' \in W
  <2>1. p \in Param /\ Contexts \in Seq(Context)
    BY SyscallAssumption
  <2>2. n # 0 => Len(Contexts) = 1
    BY DEF NoSharing
  <2> QED
    BY <1>3, <1>4, <2>1, <2>2
<1>5. ASSUME NEW p \in Param \ AllContexts, NEW c \in Context, Watch(p, <<c>>)
      PROVE  Inv(mgr', n, wanted') /\ wanted' \in W
  <2>1. <<c>> \in Seq(Context) /\ Len(<<c>>) = 1
    OBVIOUS
  <2> QED
    BY <1>3, <1>5, <2>1
<1>6. ASSUME NEW p \in Param, NEW c \in Context, Unwatch(p, c)
      PROVE  Inv(mgr', n, wanted') /\ wanted' \in W
  <2>1. mgr' = Collected(rmSyscall(mgr, c, p)) /\ wanted' = [wanted EXCEPT ![c] = @ \ {p}]
    BY <1>6 DEF Unwatch
  <2>2. wanted' \in W /\ wanted' = Without(wanted, c, p)
    BY <1>1, <2>1 DEF Without
  <2>3. Inv(mgr', n, Without(wanted, c, p))
    BY <1>1, <2>1, UnwatchedKeeps
  <2> QED
    BY <2>2, <2>3
<1>7. ASSUME NEW p \in TrackIO, StopTrackIO(p)
      PROVE  Inv(mgr', n, wanted') /\ wanted' \in W
  <2> DEFINE found == findInstanceByParams(mgr, RESimContext, p)
  <2>1. /\ found # <<>> /\ mgr' = Collected(Retired(mgr, RESimContext, SubSeq(found, 1, 1)))
        /\ wanted' = [wanted EXCEPT ![RESimContext] = @ \ ToSet(ParamsOf(mgr, found[1].syscall))]
    BY <1>7 DEF StopTrackIO
  <2>2. found = findInstanceByParams(mgr, RESimContext, p) /\ RESimContext \in Context
    BY SyscallAssumption
  <2> HIDE DEF found
  <2>3. wanted' \in W
    BY <1>1, <2>1, <2>2
  <2>4. \A d \in Context :
           wanted'[d] = IF d = RESimContext
                        THEN wanted[d] \ ToSet(ParamsOf(mgr, found[1].syscall)) ELSE wanted[d]
    BY <1>1, <2>1, <2>2
  <2>5. Inv(mgr', n, wanted')
    BY <1>1, <2>1, <2>2, <2>4, TrackStopped
  <2> QED
    BY <2>3, <2>5
<1>8. ASSUME NEW s \in DOMAIN mgr.syscalls, NEW p \in Dmod, DmodDone(s, p)
      PROVE  Inv(mgr', n, wanted') /\ wanted' \in W
  <2>1. /\ hasCallParam(mgr, s, p) /\ wanted' = [c \in Context |-> wanted[c] \ {p}]
        /\ mgr' = Collected(IF (ToSet(ParamsOf(mgr, s)) \cap Dmod) \ {p} # {}
                            THEN Drop(mgr, s, p) ELSE rmSyscallEverywhere(mgr, p))
    BY <1>8 DEF DmodDone
  <2>2. wanted' \in W
    BY <1>1, <2>1
  <2>3. Inv(mgr', n, wanted')
    BY <1>1, <2>1, DoneKeeps
  <2> QED
    BY <2>2, <2>3
<1>9. ASSUME NEW c \in Context, runToSyscall(c)
      PROVE  Inv(mgr', n, wanted') /\ wanted' \in W
  <2>1. mgr' = Collected(watchAllSyscalls(mgr, c)) /\ wanted' = wanted
    BY <1>9 DEF runToSyscall
  <2>2. Inv(mgr', n, wanted)
    BY <1>1, <2>1, AllWatchedKeeps
  <2> QED
    BY <1>1, <2>1, <2>2
<1>10. ASSUME StopTrace PROVE Inv(mgr', n, wanted') /\ wanted' \in W
  <2>1. mgr' = Collected(rmAllSyscalls(mgr)) /\ wanted' = [c \in Context |-> {}]
    BY <1>10 DEF StopTrace
  <2>2. Inv(mgr', n, wanted')
    BY <1>1, <2>1, TraceStopped
  <2> QED
    BY <2>1, <2>2
<1>11. ASSUME RmAllDmods PROVE Inv(mgr', n, wanted') /\ wanted' \in W
  <2>1. mgr' = Collected(rmAllDmods(mgr)) /\ wanted' = [c \in Context |-> wanted[c] \ Dmod]
    BY <1>11 DEF RmAllDmods
  <2>2. Inv(mgr', n, wanted')
    BY <1>1, <2>1, DmodsRemoved
  <2>3. wanted' \in W
    BY <1>1, <2>1
  <2> QED
    BY <2>2, <2>3
<1>12. CASE UNCHANGED vars
  <2>1. mgr' = mgr /\ wanted' = wanted
    BY <1>12 DEF vars
  <2> QED
    BY <1>1, <2>1
<1> HIDE DEF W
<1> QED
  BY <1>4, <1>5, <1>6, <1>7, <1>8, <1>9, <1>10, <1>11, <1>12 DEF Next

\* However requests come and go, what the manager refers to is in use: the Syscall of an
\* instance or of a trace of all calls is not stopped and is one of its context, and the
\* lists that instances and Syscalls share exist.
THEOREM TypeCorrect == Spec => []TypeOK
<1>1. Init => IInv(0)
  BY InitKeeps DEF Level
<1>2. IInv(0) /\ [Next]_vars => IInv(0)'
  BY NextKeeps DEF Level
<1>3. IInv(0) => TypeOK
  <2> SUFFICES ASSUME IInv(0) PROVE TypeOK
    OBVIOUS
  <2>1. Refs(mgr) /\ mgr \in Manager /\ wanted \in [Context -> SUBSET Param]
    BY DEF IInv, Inv, Refs, Typed
  <2>2. /\ mgr.call_lists \in [DOMAIN mgr.call_lists -> Seq(Call)]
        /\ mgr.call_params \in [DOMAIN mgr.call_params -> Seq(Param)]
        /\ mgr.syscalls \in [DOMAIN mgr.syscalls -> SyscallRec]
    BY <2>1, Fields
  <2>3. \A s \in DOMAIN mgr.syscalls :
           /\ mgr.syscalls[s].context \in Context /\ mgr.syscalls[s].hooks \subseteq Call
           /\ mgr.syscalls[s].call_params \in DOMAIN mgr.call_params
    BY <2>1, <2>2 DEF Refs, SyscallRec
  <2>4. /\ \A l \in DOMAIN mgr.call_lists : Calls(mgr, l) \subseteq Call
        /\ \A l \in DOMAIN mgr.call_params : ToSet(mgr.call_params[l]) \subseteq Param
    BY <2>2, ListFacts DEF Calls
  <2>5. ASSUME NEW c \in Context
        PROVE  /\ mgr.trace_all[c] \in DOMAIN mgr.syscalls \cup {NoSyscall}
               /\ \A i \in Instances(mgr, c) :
                     /\ i.syscall \in DOMAIN mgr.syscalls
                     /\ i.call_names \in DOMAIN mgr.call_lists
                     /\ Range(i.param_call_list) \subseteq DOMAIN mgr.call_lists
    BY <2>1 DEF Refs, Held
  <2> QED
    BY <2>1, <2>3, <2>4, <2>5 DEF TypeOK, ObjectOK
<1> QED
  BY <1>1, <1>2, <1>3, PTL DEF Spec

\* watchAllSyscalls takes over every instance of its context, and later requests join it:
\* no call of a context that traces all calls is handled twice.
THEOREM TraceAllIsAlone == Spec => []TraceAllAlone
<1>1. Init => IInv(0)
  BY InitKeeps DEF Level
<1>2. IInv(0) /\ [Next]_vars => IInv(0)'
  BY NextKeeps DEF Level
<1>3. IInv(0) => TraceAllAlone
  <2> SUFFICES ASSUME IInv(0), NEW c \in Context, mgr.trace_all[c] # NoSyscall
               PROVE  mgr.syscall_dict[c] = <<>>
    BY DEF TraceAllAlone
  <2>1. Refs(mgr) /\ mgr \in Manager
    BY DEF IInv, Inv, Refs, Typed
  <2>2. mgr.syscall_dict[c] \in Seq(InstanceRec)
    BY <2>1, Fields
  <2>3. ToSet(mgr.syscall_dict[c]) = {}
    BY <2>1 DEF Refs, Instances
  <2> QED
    BY <2>2, <2>3, ListFacts
<1> QED
  BY <1>1, <1>2, <1>3, PTL DEF Spec

\* As long as contexts share no lists, the calls that an instance records for a parameter
\* stay hooked by its Syscall, however often that is rebuilt.
THEOREM RecordedAlwaysHooked == NoSharing => (Spec => []RecordedCallsHooked)
<1> SUFFICES ASSUME NoSharing PROVE Spec => []RecordedCallsHooked
  OBVIOUS
<1>1. Init => IInv(1)
  BY InitKeeps DEF Level
<1>2. IInv(1) /\ [Next]_vars => IInv(1)'
  BY NextKeeps DEF Level
<1>3. IInv(1) => RecordedCallsHooked
  BY DEF IInv, Inv, Served, RecordedCallsHooked
<1> QED
  BY <1>1, <1>2, <1>3, PTL DEF Spec

\* With contexts that share no lists and a single dmod, a parameter is in one Syscall of a
\* context at most, so that the one that rmSyscall finds is the one to change.
THEOREM ParamsInOneOfOneDmod == NoSharing /\ OneDmod => (Spec => []ParamInOneSyscall)
<1> SUFFICES ASSUME NoSharing, OneDmod PROVE Spec => []ParamInOneSyscall
  OBVIOUS
<1>1. Init => IInv(2)
  BY InitKeeps DEF Level
<1>2. IInv(2) /\ [Next]_vars => IInv(2)'
  BY NextKeeps DEF Level
<1>3. IInv(2) => ParamInOneSyscall
  BY DEF IInv, Inv, Asked, Params, ParamInOneSyscall
<1> QED
  BY <1>1, <1>2, <1>3, PTL DEF Spec
=============================================================================
