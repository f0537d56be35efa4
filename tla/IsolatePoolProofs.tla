-------------------------- MODULE IsolatePoolProofs --------------------------
(***************************************************************************)
(* Proofs about IsolatePool for every set of calls, workers and handlers.  *)
(***************************************************************************)
EXTENDS IsolatePool, SequenceTheorems, FiniteSetTheorems, WellFoundedInduction, TLAPS

-----------------------------------------------------------------------------
(* Numbers.                                                                *)

(* A set of natural numbers that is not empty has a least member.          *)
LEMMA LeastOf ==
  ASSUME NEW T \in SUBSET Nat, T # {}
  PROVE  \E n \in T : \A m \in T : n <= m
<1> DEFINE Less == OpToRel(<, Nat)
<1>1. PICK n \in T : \A m \in T : <<m, n>> \notin Less
  <2>1. IsWellFoundedOn(Less, Nat)
    BY NatLessThanWellFounded
  <2> HIDE DEF Less
  <2>2. QED
    BY <2>1, WFMin
<1>2. \A m \in T : ~(m < n)
  BY <1>1 DEF OpToRel
<1>3. QED
  BY <1>2

-----------------------------------------------------------------------------
(* Sequences.                                                              *)

Distinct(s) == \A i, j \in DOMAIN s : s[i] = s[j] => i = j

\* t is what remains of s at the positions e, in the same order.
Selects(e, s, t) ==
  /\ e \in [1 .. Len(t) -> 1 .. Len(s)]
  /\ \A i \in 1 .. Len(t) : t[i] = s[e[i]]
  /\ \A i, j \in 1 .. Len(t) : i < j => e[i] < e[j]

(* The defining equation of the function in Kept, up to n.                 *)
KeepsUpTo(f, s, S, n) ==
  f = [i \in 0 .. n |->
         IF i = 0 THEN <<>>
         ELSE IF s[i] \in S THEN f[i - 1] ELSE Append(f[i - 1], s[i])]

LEMMA KeepsExists ==
  ASSUME NEW A, NEW s \in Seq(A), NEW S
  PROVE  \E f : KeepsUpTo(f, s, S, Len(s))
<1> DEFINE Bad == {n \in Nat : n <= Len(s) /\ ~\E f : KeepsUpTo(f, s, S, n)}
<1>1. SUFFICES ASSUME Bad # {}
               PROVE  FALSE
  <2>1. Len(s) \in Nat
    OBVIOUS
  <2>2. QED
    BY <1>1, <2>1
<1>2. PICK n \in Bad : \A m \in Bad : n <= m
  BY <1>1, LeastOf
<1>3. CASE n = 0
  <2> DEFINE f == [i \in 0 .. 0 |-> <<>>]
  <2>1. KeepsUpTo(f, s, S, 0)
    BY DEF KeepsUpTo
  <2>2. QED
    BY <1>2, <1>3, <2>1
<1>4. CASE n # 0
  <2>1. n - 1 \in Nat /\ n - 1 <= Len(s) /\ n - 1 \notin Bad
    BY <1>2, <1>4
  <2>2. PICK g : KeepsUpTo(g, s, S, n - 1)
    BY <2>1
  <2> DEFINE f == [i \in 0 .. n |-> IF i = n THEN IF s[n] \in S THEN g[n - 1] ELSE Append(g[n - 1], s[n])
                                    ELSE g[i]]
  <2>3. \A i \in 0 .. n - 1 : f[i] = g[i]
    BY <2>1
  <2>4. \A i \in 0 .. n : f[i] = IF i = 0 THEN <<>>
                                 ELSE IF s[i] \in S THEN f[i - 1] ELSE Append(f[i - 1], s[i])
    <3> SUFFICES ASSUME NEW i \in 0 .. n
                 PROVE  f[i] = IF i = 0 THEN <<>>
                               ELSE IF s[i] \in S THEN f[i - 1] ELSE Append(f[i - 1], s[i])
      OBVIOUS
    <3>1. CASE i = n
      BY <1>4, <2>1, <2>3, <3>1
    <3>2. CASE i # n
      <4>1. i \in 0 .. n - 1
        BY <3>2
      <4>2. g[i] = IF i = 0 THEN <<>>
                   ELSE IF s[i] \in S THEN g[i - 1] ELSE Append(g[i - 1], s[i])
        BY <2>2, <4>1 DEF KeepsUpTo
      <4>3. i # 0 => f[i - 1] = g[i - 1]
        BY <2>3, <4>1
      <4>4. QED
        BY <2>3, <4>1, <4>2, <4>3
    <3>3. QED
      BY <3>1, <3>2
  <2>5. KeepsUpTo(f, s, S, n)
    BY <2>4 DEF KeepsUpTo
  <2>6. QED
    BY <1>2, <2>5
<1>5. QED
  BY <1>3, <1>4

LEMMA KeptFunction ==
  ASSUME NEW A, NEW s \in Seq(A), NEW S
  PROVE  \E f : Kept(s, S) = f[Len(s)] /\ KeepsUpTo(f, s, S, Len(s))
<1> DEFINE kept[n \in 0 .. Len(s)] ==
             IF n = 0 THEN <<>>
             ELSE IF s[n] \in S THEN kept[n - 1] ELSE Append(kept[n - 1], s[n])
<1>1. \E f : f = [n \in 0 .. Len(s) |->
                    IF n = 0 THEN <<>>
                    ELSE IF s[n] \in S THEN f[n - 1] ELSE Append(f[n - 1], s[n])]
  <2>1. PICK f : KeepsUpTo(f, s, S, Len(s))
    BY KeepsExists
  <2>2. f = [n \in 0 .. Len(s) |->
               IF n = 0 THEN <<>>
               ELSE IF s[n] \in S THEN f[n - 1] ELSE Append(f[n - 1], s[n])]
    BY <2>1 DEF KeepsUpTo
  <2>3. QED
    BY <2>2
<1>2. kept = [n \in 0 .. Len(s) |->
                IF n = 0 THEN <<>>
                ELSE IF s[n] \in S THEN kept[n - 1] ELSE Append(kept[n - 1], s[n])]
  BY <1>1
<1>3. KeepsUpTo(kept, s, S, Len(s))
  BY <1>2 DEF KeepsUpTo
<1>4. Kept(s, S) = kept[Len(s)]
  BY DEF Kept
<1>5. QED
  BY <1>3, <1>4

(* The positions e of the first n members of s that are not in S, as t.    *)
KeptAt(e, t, s, S, n) ==
  /\ Selects(e, s, t)
  /\ \A i \in 1 .. Len(t) : e[i] <= n /\ s[e[i]] \notin S
  /\ \A j \in 1 .. n : s[j] \notin S => \E i \in 1 .. Len(t) : e[i] = j

LEMMA KeptAtNext ==
  ASSUME NEW A, NEW s \in Seq(A), NEW S, NEW n \in 1 .. Len(s),
         NEW t \in Seq(A), NEW e, KeptAt(e, t, s, S, n - 1), s[n] \notin S
  PROVE  \E d : KeptAt(d, Append(t, s[n]), s, S, n)
<1> DEFINE u == Append(t, s[n])
           d == [i \in 1 .. Len(u) |-> IF i = Len(u) THEN n ELSE e[i]]
<1>1. /\ u \in Seq(A) /\ Len(u) = Len(t) + 1 /\ Len(t) \in Nat
      /\ \A i \in 1 .. Len(t) : u[i] = t[i]
      /\ u[Len(t) + 1] = s[n]
  BY AppendProperties, ElementOfSeq, LenProperties
<1>2. \A i \in 1 .. Len(t) : d[i] = e[i] /\ e[i] \in 1 .. Len(s) /\ e[i] <= n - 1 /\ s[e[i]] \notin S /\ t[i] = s[e[i]]
  <2>1. \A i \in 1 .. Len(t) : i \in 1 .. Len(u) /\ i # Len(u)
    BY <1>1
  <2>2. \A i \in 1 .. Len(t) : d[i] = e[i]
    BY <2>1
  <2>3. Selects(e, s, t) /\ \A i \in 1 .. Len(t) : e[i] <= n - 1 /\ s[e[i]] \notin S
    BY DEF KeptAt
  <2>4. \A i \in 1 .. Len(t) : e[i] \in 1 .. Len(s) /\ t[i] = s[e[i]]
    BY ONLY <2>3 DEF Selects
  <2>5. QED
    BY ONLY <2>2, <2>3, <2>4
<1>3. d[Len(t) + 1] = n
  BY <1>1
<1>4. \A i \in 1 .. Len(u) : i \in 1 .. Len(t) \/ i = Len(t) + 1
  BY <1>1
<1> HIDE DEF u, d
<1>5. d \in [1 .. Len(u) -> 1 .. Len(s)]
  BY <1>2, <1>3, <1>4 DEF d
<1>6. ASSUME NEW i \in 1 .. Len(u)
      PROVE  u[i] = s[d[i]] /\ d[i] <= n /\ s[d[i]] \notin S
  <2>1. CASE i \in 1 .. Len(t)
    <3>1. u[i] = t[i] /\ d[i] = e[i] /\ t[i] = s[e[i]] /\ s[e[i]] \notin S
      BY <1>1, <1>2, <2>1
    <3>2. e[i] \in 1 .. Len(s) /\ e[i] <= n - 1 /\ n \in Nat /\ Len(s) \in Nat
      BY <1>2, <2>1
    <3>3. QED
      BY <3>1, <3>2
  <2>2. CASE i = Len(t) + 1
    BY <1>1, <1>3, <2>2
  <2>3. QED
    BY <1>4, <2>1, <2>2
<1>7. \A i, j \in 1 .. Len(u) : i < j => d[i] < d[j]
  <2> SUFFICES ASSUME NEW i \in 1 .. Len(u), NEW j \in 1 .. Len(u), i < j
               PROVE  d[i] < d[j]
    OBVIOUS
  <2>1. i \in 1 .. Len(t)
    BY <1>1
  <2>2. /\ d[i] = e[i] /\ e[i] \in 1 .. Len(s) /\ e[i] <= n - 1
        /\ n \in Nat /\ Len(s) \in Nat
    BY <1>2, <2>1
  <2>3. CASE j = Len(t) + 1
    <3>1. d[j] = n
      BY <1>3, <2>3
    <3>2. QED
      BY ONLY <2>2, <3>1
  <2>4. CASE j \in 1 .. Len(t)
    <3>1. d[j] = e[j]
      BY <1>2, <2>4
    <3>2. e[i] < e[j]
      BY <2>1, <2>4 DEF KeptAt, Selects
    <3>3. QED
      BY <2>2, <3>1, <3>2
  <2>5. QED
    BY <1>4, <2>3, <2>4
<1>8. \A j \in 1 .. n : s[j] \notin S => \E i \in 1 .. Len(u) : d[i] = j
  <2> SUFFICES ASSUME NEW j \in 1 .. n, s[j] \notin S
               PROVE  \E i \in 1 .. Len(u) : d[i] = j
    OBVIOUS
  <2>1. CASE j = n
    BY <1>1, <1>3, <2>1
  <2>2. CASE j # n
    <3>1. j \in 1 .. n - 1
      BY <2>2
    <3>2. PICK i \in 1 .. Len(t) : e[i] = j
      BY <3>1 DEF KeptAt
    <3>3. QED
      BY <1>1, <1>2, <3>2
  <2>3. QED
    BY <2>1, <2>2
<1>9. KeptAt(d, u, s, S, n)
  BY <1>5, <1>6, <1>7, <1>8 DEF KeptAt, Selects
<1>10. QED
  BY <1>9 DEF u

LEMMA KeptPositions ==
  ASSUME NEW A, NEW s \in Seq(A), NEW S
  PROVE  Kept(s, S) \in Seq(A) /\ \E e : KeptAt(e, Kept(s, S), s, S, Len(s))
<1>1. PICK f : Kept(s, S) = f[Len(s)] /\ KeepsUpTo(f, s, S, Len(s))
  BY KeptFunction
<1>2. Len(s) \in Nat
  OBVIOUS
<1> DEFINE Right(n) == f[n] \in Seq(A) /\ \E e : KeptAt(e, f[n], s, S, n)
           Wrong == {n \in 0 .. Len(s) : ~Right(n)}
<1> HIDE DEF Right
<1>3. SUFFICES ASSUME Wrong # {}
               PROVE  FALSE
  <2>1. Right(Len(s))
    BY <1>2, <1>3
  <2>2. QED
    BY <1>1, <2>1 DEF Right
<1>4. PICK n \in Wrong : \A m \in Wrong : n <= m
  <2>1. Wrong \in SUBSET Nat
    BY <1>2
  <2> HIDE DEF Wrong
  <2>2. QED
    BY <1>3, <2>1, LeastOf
<1>5. CASE n = 0
  <2>1. f[0] = <<>>
    BY <1>1, <1>2 DEF KeepsUpTo
  <2>2. KeptAt(<<>>, <<>>, s, S, 0)
    BY <1>2 DEF KeptAt, Selects
  <2>3. Right(0)
    BY <2>1, <2>2 DEF Right
  <2>4. QED
    BY <1>4, <1>5, <2>3
<1>6. CASE n # 0
  <2>1. n \in 1 .. Len(s) /\ n - 1 \in 0 .. Len(s) /\ n - 1 \notin Wrong
    BY <1>2, <1>4, <1>6
  <2>2. f[n] = IF s[n] \in S THEN f[n - 1] ELSE Append(f[n - 1], s[n])
    BY <1>1, <1>4, <1>6 DEF KeepsUpTo
  <2>3. f[n - 1] \in Seq(A)
    BY <2>1 DEF Right
  <2>4. PICK e : KeptAt(e, f[n - 1], s, S, n - 1)
    BY <2>1 DEF Right
  <2>5. CASE s[n] \in S
    <3>1. KeptAt(e, f[n], s, S, n)
      <4>1. f[n] = f[n - 1]
        BY <2>2, <2>5
      <4>2. Len(f[n]) \in Nat
        BY <2>3, <4>1
      <4>3. \A j \in 1 .. n : s[j] \notin S => j \in 1 .. n - 1
        BY <2>1, <2>5
      <4>4. \A i \in 1 .. Len(f[n]) : e[i] <= n
        BY <2>1, <2>4, <4>1 DEF KeptAt, Selects
      <4>5. QED
        BY <2>4, <4>1, <4>3, <4>4 DEF KeptAt
    <3>2. QED
      BY <1>4, <2>2, <2>3, <2>5, <3>1 DEF Right
  <2>6. CASE s[n] \notin S
    <3>1. f[n] = Append(f[n - 1], s[n])
      BY <2>2, <2>6
    <3>2. \E d : KeptAt(d, f[n], s, S, n)
      BY <2>1, <2>3, <2>4, <2>6, <3>1, KeptAtNext
    <3>3. f[n] \in Seq(A)
      BY <2>1, <2>3, <3>1, AppendProperties, ElementOfSeq
    <3>4. QED
      BY <1>4, <3>2, <3>3 DEF Right
  <2>7. QED
    BY <2>5, <2>6
<1>7. QED
  BY <1>5, <1>6

(* Kept leaves the members outside S where they are, in their order.       *)
LEMMA KeptSelects ==
  ASSUME NEW A, NEW s \in Seq(A), NEW S
  PROVE  /\ Kept(s, S) \in Seq(A)
         /\ Elements(Kept(s, S)) = Elements(s) \ S
         /\ \E e : Selects(e, s, Kept(s, S))
<1> DEFINE t == Kept(s, S)
<1>1. t \in Seq(A)
  BY KeptPositions
<1>2. PICK e : KeptAt(e, t, s, S, Len(s))
  BY KeptPositions
<1> HIDE DEF t
<1>3. DOMAIN t = 1 .. Len(t) /\ DOMAIN s = 1 .. Len(s) /\ Len(s) \in Nat
  BY <1>1, LenProperties
<1>4. ASSUME NEW x \in Elements(t)
      PROVE  x \in Elements(s) \ S
  BY <1>2, <1>3 DEF Elements, KeptAt, Selects
<1>5. ASSUME NEW x \in Elements(s) \ S
      PROVE  x \in Elements(t)
  <2>1. PICK j \in 1 .. Len(s) : s[j] = x
    BY <1>3 DEF Elements
  <2>2. PICK i \in 1 .. Len(t) : e[i] = j
    BY <1>2, <2>1 DEF KeptAt
  <2>3. t[i] = x
    BY <1>2, <2>1, <2>2 DEF KeptAt, Selects
  <2>4. QED
    BY <1>3, <2>3 DEF Elements
<1>6. QED
  BY <1>1, <1>2, <1>4, <1>5 DEF KeptAt, t

(* So it leaves no member twice that was there once.                       *)
LEMMA SelectsDistinct ==
  ASSUME NEW A, NEW s \in Seq(A), NEW t \in Seq(A), NEW e, Selects(e, s, t), Distinct(s)
  PROVE  Distinct(t)
<1> SUFFICES ASSUME NEW i \in DOMAIN t, NEW j \in DOMAIN t, t[i] = t[j]
             PROVE  i = j
  BY DEF Distinct
<1>1. i \in 1 .. Len(t) /\ j \in 1 .. Len(t) /\ i \in Nat /\ j \in Nat /\ DOMAIN s = 1 .. Len(s)
  BY LenProperties
<1>2. e[i] \in DOMAIN s /\ e[j] \in DOMAIN s /\ e[i] \in Nat /\ e[j] \in Nat
  BY <1>1 DEF Selects
<1>3. e[i] = e[j]
  BY <1>1, <1>2 DEF Selects, Distinct
<1>4. QED
  BY <1>1, <1>2, <1>3 DEF Selects

(* A sequence that lists a set, each member once, is as long as the set.   *)
LEMMA DistinctLength ==
  ASSUME NEW A, NEW s \in Seq(A), Distinct(s)
  PROVE  IsFiniteSet(Elements(s)) /\ Cardinality(Elements(s)) = Len(s)
<1>1. s \in [1 .. Len(s) -> A] /\ DOMAIN s = 1 .. Len(s) /\ Len(s) \in Nat
  BY LenProperties
<1>2. s \in Bijection(1 .. Len(s), Elements(s))
  BY <1>1 DEF Distinct, Elements, Bijection, Injection, Surjection, IsInjective
<1>3. IsFiniteSet(1 .. Len(s)) /\ Cardinality(1 .. Len(s)) = Len(s)
  <2>1. \A n \in Nat : IsFiniteSet(1 .. n) /\ Cardinality(1 .. n) = n
    BY FS_Interval
  <2>2. QED
    BY <1>1, <2>1
<1>4. QED
  BY <1>2, <1>3, FS_Bijection DEF ExistsBijection

LEMMA AppendElements ==
  ASSUME NEW A, NEW s \in Seq(A), NEW x \in A
  PROVE  /\ Append(s, x) \in Seq(A)
         /\ Elements(Append(s, x)) = Elements(s) \cup {x}
         /\ Distinct(s) /\ x \notin Elements(s) => Distinct(Append(s, x))
<1> DEFINE t == Append(s, x)
<1>1. /\ t \in Seq(A) /\ Len(t) = Len(s) + 1 /\ Len(s) \in Nat
      /\ \A i \in 1 .. Len(s) : t[i] = s[i]
      /\ t[Len(s) + 1] = x
  BY AppendProperties, LenProperties
<1>2. DOMAIN t = 1 .. Len(s) + 1 /\ DOMAIN s = 1 .. Len(s)
  BY <1>1, LenProperties
<1>3. \A i \in DOMAIN t : i \in DOMAIN s \/ i = Len(s) + 1
  BY <1>1, <1>2
<1>4. \A i \in DOMAIN s : i \in DOMAIN t /\ t[i] = s[i] /\ i # Len(s) + 1
  BY <1>1, <1>2
<1>5. Len(s) + 1 \in DOMAIN t
  BY <1>1, <1>2
<1> HIDE DEF t
<1>6. Elements(t) = Elements(s) \cup {x}
  BY <1>1, <1>3, <1>4, <1>5 DEF Elements
<1>7. ASSUME Distinct(s), x \notin Elements(s)
      PROVE  Distinct(t)
  BY <1>1, <1>3, <1>4, <1>7 DEF Distinct, Elements
<1>8. QED
  BY <1>1, <1>6, <1>7 DEF t

LEMMA KeptDistinct ==
  ASSUME NEW A, NEW s \in Seq(A), NEW S, Distinct(s)
  PROVE  Distinct(Kept(s, S))
BY KeptSelects, SelectsDistinct

LEMMA EmptyElements ==
  Elements(<<>>) = {} /\ Distinct(<<>>)
BY DEF Elements, Distinct

(* The last place of a member is one of its places, and there is a last.   *)
IsLast(s, x, i) ==
  i \in DOMAIN s /\ s[i] = x /\ \A j \in DOMAIN s : s[j] = x => j <= i

LEMMA LastCreatedIs ==
  ASSUME NEW A, NEW s \in Seq(A), NEW x \in Elements(s)
  PROVE  IsLast(s, x, LastCreated(s, x))
<1> DEFINE Back == {Len(s) - i : i \in {j \in DOMAIN s : s[j] = x}}
<1>1. DOMAIN s = 1 .. Len(s) /\ Len(s) \in Nat
  BY LenProperties
<1>2. Back \in SUBSET Nat /\ Back # {}
  BY <1>1 DEF Elements
<1>3. PICK b \in Back : \A a \in Back : b <= a
  <2> HIDE DEF Back
  <2>1. QED
    BY <1>2, LeastOf
<1>4. PICK i \in DOMAIN s : s[i] = x /\ b = Len(s) - i
  BY <1>3
<1>5. ASSUME NEW j \in DOMAIN s, s[j] = x
      PROVE  j <= i
  <2>1. Len(s) - j \in Back
    BY <1>5
  <2>2. b <= Len(s) - j
    BY <1>3, <2>1
  <2>3. QED
    BY <1>1, <1>4, <2>2
<1>6. \E n \in DOMAIN s : s[n] = x /\ \A j \in DOMAIN s : s[j] = x => j <= n
  BY <1>4, <1>5
<1>7. QED
  BY <1>6 DEF LastCreated, IsLast

LEMMA LastCreatedUnique ==
  ASSUME NEW A, NEW s \in Seq(A), NEW x, NEW i, IsLast(s, x, i)
  PROVE  LastCreated(s, x) = i /\ i \in 1 .. Len(s)
<1>1. DOMAIN s = 1 .. Len(s) /\ Len(s) \in Nat
  BY LenProperties
<1>2. x \in Elements(s)
  BY DEF IsLast, Elements
<1>3. IsLast(s, x, LastCreated(s, x))
  BY <1>2, LastCreatedIs
<1>4. LastCreated(s, x) \in 1 .. Len(s) /\ i \in 1 .. Len(s)
  BY <1>1, <1>3 DEF IsLast
<1>5. LastCreated(s, x) <= i /\ i <= LastCreated(s, x)
  BY <1>3 DEF IsLast
<1>6. QED
  BY <1>1, <1>4, <1>5

(* A creation makes one handler the last created, and moves no other.      *)
LEMMA LastCreatedAppend ==
  ASSUME NEW A, NEW s \in Seq(A), NEW x \in A
  PROVE  /\ LastCreated(Append(s, x), x) = Len(s) + 1
         /\ \A y \in Elements(s) \ {x} :
              /\ LastCreated(Append(s, x), y) = LastCreated(s, y)
              /\ LastCreated(s, y) \in 1 .. Len(s)
<1> DEFINE t == Append(s, x)
<1>1. /\ t \in Seq(A) /\ Len(t) = Len(s) + 1 /\ Len(s) \in Nat
      /\ \A i \in 1 .. Len(s) : t[i] = s[i]
      /\ t[Len(s) + 1] = x
  BY AppendProperties, LenProperties
<1>2. DOMAIN t = 1 .. Len(s) + 1 /\ DOMAIN s = 1 .. Len(s)
  BY <1>1, LenProperties
<1> HIDE DEF t
<1>3. IsLast(t, x, Len(s) + 1)
  BY <1>1, <1>2 DEF IsLast
<1>4. ASSUME NEW y \in Elements(s) \ {x}
      PROVE  IsLast(s, y, LastCreated(s, y)) /\ IsLast(t, y, LastCreated(s, y))
  <2>1. IsLast(s, y, LastCreated(s, y))
    BY LastCreatedIs
  <2>2. \A j \in DOMAIN t : t[j] = y => j \in DOMAIN s /\ s[j] = y
    BY <1>1, <1>2
  <2>3. LastCreated(s, y) \in DOMAIN t /\ t[LastCreated(s, y)] = y
    BY <1>1, <1>2, <2>1 DEF IsLast
  <2>4. QED
    BY <2>1, <2>2, <2>3 DEF IsLast
<1>5. QED
  BY <1>1, <1>3, <1>4, LastCreatedUnique DEF t

-----------------------------------------------------------------------------
(* What one worker keeps.                                                  *)

(* The least recently used order and the entered isolates are the cached   *)
(* handlers, each once; the innermost was created last.                    *)
Sound(k) ==
  /\ Distinct(k.lru) /\ Elements(k.lru) = Live(k)
  /\ Distinct(k.entered) /\ Elements(k.entered) = Live(k)
  /\ DisposedInReverse(k)

LEMMA EmptySound ==
  NoCache \in Cache /\ Sound(NoCache) /\ Live(NoCache) = {} /\ Len(NoCache.lru) = 0
<1>1. NoCache \in Cache
  BY DEF NoCache, Cache
<1>2. Live(NoCache) = {}
  BY DEF Live, NoCache
<1>3. NoCache.lru = <<>> /\ NoCache.entered = <<>> /\ NoCache.created = <<>>
  BY DEF NoCache
<1>4. DisposedInReverse(NoCache)
  BY <1>2, <1>3 DEF DisposedInReverse
<1>5. QED
  BY <1>1, <1>2, <1>3, <1>4, EmptyElements DEF Sound

LEMMA CacheFields ==
  ASSUME NEW k \in Cache
  PROVE  /\ k.isolates \in [Handlers -> Isolate \cup {NoIsolate}]
         /\ k.lru \in Seq(Handlers) /\ k.created \in Seq(Handlers) /\ k.entered \in Seq(Handlers)
BY DEF Cache

LEMMA WithoutFields ==
  ASSUME NEW k \in Cache, NEW S
  PROVE  /\ Without(k, S) \in Cache
         /\ \A h \in Handlers : Without(k, S).isolates[h] = IF h \in S THEN NoIsolate ELSE k.isolates[h]
         /\ Without(k, S).lru = Kept(k.lru, S)
         /\ Without(k, S).entered = Kept(k.entered, S)
         /\ Without(k, S).created = k.created
         /\ Live(Without(k, S)) = Live(k) \ S
<1>1. Kept(k.lru, S) \in Seq(Handlers) /\ Kept(k.entered, S) \in Seq(Handlers)
  BY CacheFields, KeptSelects
<1>2. [h \in Handlers |-> IF h \in S THEN NoIsolate ELSE k.isolates[h]] \in [Handlers -> Isolate \cup {NoIsolate}]
  BY CacheFields
<1>3. /\ Without(k, S).isolates = [h \in Handlers |-> IF h \in S THEN NoIsolate ELSE k.isolates[h]]
      /\ Without(k, S).lru = Kept(k.lru, S)
      /\ Without(k, S).entered = Kept(k.entered, S)
      /\ Without(k, S).created = k.created
  BY DEF Without, Cache
<1>4. Without(k, S) \in Cache
  BY <1>1, <1>2 DEF Without, Cache
<1>5. QED
  BY <1>3, <1>4 DEF Live

(* Dropping isolates, whichever they are, leaves a sound cache.            *)
LEMMA WithoutSound ==
  ASSUME NEW k \in Cache, NEW S, Sound(k)
  PROVE  Sound(Without(k, S))
<1> DEFINE r == Without(k, S)
<1>1. Distinct(r.lru) /\ Elements(r.lru) = Live(r)
  <2>1. k.lru \in Seq(Handlers) /\ Distinct(k.lru) /\ Elements(k.lru) = Live(k)
    BY CacheFields DEF Sound
  <2>2. Distinct(Kept(k.lru, S)) /\ Elements(Kept(k.lru, S)) = Live(k) \ S
    <3>1. Distinct(Kept(k.lru, S))
      BY ONLY <2>1, KeptDistinct
    <3>2. Elements(Kept(k.lru, S)) = Elements(k.lru) \ S
      BY ONLY <2>1, KeptSelects
    <3>3. QED
      BY <2>1, <3>1, <3>2
  <2>3. QED
    BY <2>2, WithoutFields
<1>2. Distinct(r.entered) /\ Elements(r.entered) = Live(r)
  <2>1. k.entered \in Seq(Handlers) /\ Distinct(k.entered) /\ Elements(k.entered) = Live(k)
    BY CacheFields DEF Sound
  <2>2. Distinct(Kept(k.entered, S)) /\ Elements(Kept(k.entered, S)) = Live(k) \ S
    <3>1. Distinct(Kept(k.entered, S))
      BY ONLY <2>1, KeptDistinct
    <3>2. Elements(Kept(k.entered, S)) = Elements(k.entered) \ S
      BY ONLY <2>1, KeptSelects
    <3>3. QED
      BY <2>1, <3>1, <3>2
  <2>3. QED
    BY <2>2, WithoutFields
<1>3. DisposedInReverse(r)
  <2>1. Live(r) \subseteq Elements(r.created)
    BY WithoutFields DEF Sound, DisposedInReverse
  <2>2. PICK e : Selects(e, k.entered, r.entered)
    BY CacheFields, WithoutFields, KeptSelects
  <2>3. r.entered \in Seq(Handlers) /\ k.entered \in Seq(Handlers) /\ r.created = k.created
    BY CacheFields, WithoutFields
  <2>4. DOMAIN r.entered = 1 .. Len(r.entered) /\ DOMAIN k.entered = 1 .. Len(k.entered)
    BY <2>3, LenProperties
  <2> HIDE DEF r
  <2>5. ASSUME NEW i \in DOMAIN r.entered, NEW j \in DOMAIN r.entered, i < j
        PROVE  LastCreated(r.created, r.entered[i]) < LastCreated(r.created, r.entered[j])
    <3>1. e[i] \in DOMAIN k.entered /\ e[j] \in DOMAIN k.entered /\ e[i] < e[j]
      BY <2>2, <2>4, <2>5 DEF Selects
    <3>2. r.entered[i] = k.entered[e[i]] /\ r.entered[j] = k.entered[e[j]]
      BY <2>2, <2>4 DEF Selects
    <3>3. LastCreated(k.created, k.entered[e[i]]) < LastCreated(k.created, k.entered[e[j]])
      BY <3>1 DEF Sound, DisposedInReverse
    <3>4. QED
      BY <2>3, <3>2, <3>3
  <2>6. QED
    BY <2>1, <2>5 DEF DisposedInReverse
<1>4. QED
  BY <1>1, <1>2, <1>3 DEF Sound

(* A cached isolate becomes the newest of the least recently used order.   *)
LEMMA TouchedSound ==
  ASSUME NEW k \in Cache, Sound(k), NEW h \in Live(k),
         NEW r, r = [k EXCEPT !.lru = Append(Kept(@, {h}), h)]
  PROVE  r \in Cache /\ Sound(r) /\ Live(r) = Live(k) /\ Len(r.lru) = Len(k.lru)
<1> DEFINE others == Kept(k.lru, {h})
<1>1. h \in Handlers
  BY DEF Live
<1>2. others \in Seq(Handlers) /\ Elements(others) = Elements(k.lru) \ {h} /\ Distinct(others)
  BY CacheFields, KeptSelects, KeptDistinct DEF Sound
<1> HIDE DEF others
<1>3. /\ Append(others, h) \in Seq(Handlers)
      /\ Elements(Append(others, h)) = Elements(others) \cup {h}
      /\ Distinct(Append(others, h))
  BY <1>1, <1>2, AppendElements
<1>4. r.isolates = k.isolates /\ r.entered = k.entered /\ r.created = k.created /\ r.lru = Append(others, h)
  BY DEF Cache, others
<1>5. r \in Cache
  BY <1>3, <1>4 DEF Cache, others
<1>6. Live(r) = Live(k)
  BY <1>4 DEF Live
<1>7. Elements(r.lru) = Live(r)
  BY <1>2, <1>3, <1>4, <1>6 DEF Sound
<1>8. Len(r.lru) = Cardinality(Live(k)) /\ Len(k.lru) = Cardinality(Live(k))
  BY <1>3, <1>4, <1>6, <1>7, CacheFields, DistinctLength DEF Sound
<1>9. DisposedInReverse(r)
  BY <1>4, <1>6 DEF Sound, DisposedInReverse
<1>10. QED
  BY <1>3, <1>4, <1>5, <1>6, <1>7, <1>8, <1>9 DEF Sound

(* A new isolate is the newest, the innermost and the last created.        *)
LEMMA CreatedSound ==
  ASSUME NEW k \in Cache, Sound(k), NEW h \in Handlers \ Live(k), NEW i \in Isolate,
         NEW r, r = [isolates |-> [k.isolates EXCEPT ![h] = i],
                     lru |-> Append(k.lru, h),
                     created |-> Append(k.created, h),
                     entered |-> Append(k.entered, h)]
  PROVE  r \in Cache /\ Sound(r) /\ Live(r) = Live(k) \cup {h}
<1>1. /\ k.isolates \in [Handlers -> Isolate \cup {NoIsolate}]
      /\ k.lru \in Seq(Handlers) /\ k.created \in Seq(Handlers) /\ k.entered \in Seq(Handlers)
  BY CacheFields
<1>2. /\ r.isolates = [k.isolates EXCEPT ![h] = i] /\ r.lru = Append(k.lru, h)
      /\ r.created = Append(k.created, h) /\ r.entered = Append(k.entered, h)
  OBVIOUS
<1>3. r \in Cache
  BY <1>1, AppendElements DEF Cache
<1>4. i # NoIsolate
  BY ConstantsAssumption DEF Isolate, NoIsolate, Version
<1>5. Live(r) = Live(k) \cup {h}
  BY <1>1, <1>2, <1>4 DEF Live
<1>6. Distinct(r.lru) /\ Elements(r.lru) = Live(r)
  <2>1. Distinct(k.lru) /\ Elements(k.lru) = Live(k) /\ h \notin Live(k)
    BY DEF Sound
  <2>2. Distinct(Append(k.lru, h)) /\ Elements(Append(k.lru, h)) = Live(k) \cup {h}
    BY <1>1, <2>1, AppendElements
  <2>3. QED
    BY <1>2, <1>5, <2>2
<1>7. Distinct(r.entered) /\ Elements(r.entered) = Live(r)
  <2>1. Distinct(k.entered) /\ Elements(k.entered) = Live(k) /\ h \notin Live(k)
    BY DEF Sound
  <2>2. Distinct(Append(k.entered, h)) /\ Elements(Append(k.entered, h)) = Live(k) \cup {h}
    BY <1>1, <2>1, AppendElements
  <2>3. QED
    BY <1>2, <1>5, <2>2
<1>8. Elements(r.created) = Elements(k.created) \cup {h}
  BY <1>1, <1>2, AppendElements
<1>9. Live(k) \subseteq Elements(k.created)
  BY DEF Sound, DisposedInReverse
<1>10. ASSUME NEW m \in DOMAIN r.entered, NEW n \in DOMAIN r.entered, m < n
       PROVE  LastCreated(r.created, r.entered[m]) < LastCreated(r.created, r.entered[n])
  <2>1. /\ Len(k.entered) \in Nat /\ DOMAIN k.entered = 1 .. Len(k.entered)
        /\ DOMAIN r.entered = 1 .. Len(k.entered) + 1
        /\ \A j \in 1 .. Len(k.entered) : r.entered[j] = k.entered[j]
        /\ r.entered[Len(k.entered) + 1] = h
    BY <1>1, <1>2, AppendProperties, LenProperties
  <2>2. \A j \in DOMAIN k.entered : k.entered[j] \in Elements(k.created) \ {h}
    BY <1>9 DEF Sound, Elements
  <2>3. \A j \in DOMAIN k.entered :
          /\ LastCreated(r.created, k.entered[j]) = LastCreated(k.created, k.entered[j])
          /\ LastCreated(k.created, k.entered[j]) \in 1 .. Len(k.created)
    BY <1>1, <1>2, <2>2, LastCreatedAppend
  <2>4. m \in DOMAIN k.entered
    BY <2>1, <1>10
  <2>5. CASE n \in DOMAIN k.entered
    <3>1. LastCreated(k.created, k.entered[m]) < LastCreated(k.created, k.entered[n])
      BY <1>10, <2>4, <2>5 DEF Sound, DisposedInReverse
    <3>2. QED
      BY <2>1, <2>3, <2>4, <2>5, <3>1
  <2>6. CASE n = Len(k.entered) + 1
    <3>1. LastCreated(r.created, h) = Len(k.created) + 1 /\ Len(k.created) \in Nat
      BY <1>1, <1>2, LastCreatedAppend, LenProperties
    <3>2. LastCreated(k.created, k.entered[m]) \in 1 .. Len(k.created)
      BY <2>3, <2>4
    <3>3. QED
      BY <2>1, <2>3, <2>4, <2>6, <3>1, <3>2
  <2>7. QED
    BY <2>1, <2>5, <2>6
<1>11. DisposedInReverse(r)
  BY <1>5, <1>8, <1>9, <1>10 DEF DisposedInReverse
<1>12. QED
  BY <1>3, <1>5, <1>6, <1>7, <1>11 DEF Sound

(* Loading changes nothing but the code of one isolate.                    *)
Loaded(k, h, v) == [k EXCEPT !.isolates[h].code = v]

LEMMA LoadedSound ==
  ASSUME NEW k \in Cache, Sound(k), NEW h \in Live(k), NEW v \in Version,
         NEW r, r = Loaded(k, h, v)
  PROVE  /\ r \in Cache /\ Sound(r) /\ Live(r) = Live(k) /\ r.lru = k.lru
         /\ r.isolates[h].tag = k.isolates[h].tag /\ r.isolates[h].code = v
         /\ \A g \in Handlers \ {h} : r.isolates[g] = k.isolates[g]
<1>1. h \in Handlers /\ k.isolates[h] \in Isolate
  BY CacheFields DEF Live
<1>2. [k.isolates[h] EXCEPT !.code = v] \in Isolate
  BY <1>1 DEF Isolate, Version
<1>3. [k.isolates[h] EXCEPT !.code = v].tag = k.isolates[h].tag /\ [k.isolates[h] EXCEPT !.code = v].code = v
  BY <1>1 DEF Isolate
<1>4. /\ r.isolates = [k.isolates EXCEPT ![h] = [k.isolates[h] EXCEPT !.code = v]]
      /\ r.lru = k.lru /\ r.entered = k.entered /\ r.created = k.created
  BY CacheFields DEF Cache, Loaded
<1>5. r \in Cache
  BY <1>2, <1>4, CacheFields DEF Cache, Loaded
<1>6. [k.isolates[h] EXCEPT !.code = v] # NoIsolate
  BY <1>2, ConstantsAssumption DEF Isolate, NoIsolate, Version
<1>7. Live(r) = Live(k)
  BY <1>1, <1>4, <1>6, CacheFields DEF Live
<1>8. Sound(r)
  BY <1>4, <1>7 DEF Sound, DisposedInReverse
<1>9. QED
  BY <1>1, <1>3, <1>4, <1>5, <1>7, <1>8, CacheFields

-----------------------------------------------------------------------------
(* The inductive invariant.                                                *)

Coming(w) == {c \in Calls : call[c].pc = "counted" /\ call[c].worker = w}

(* A worker's cache is sound, and within its limit.                        *)
Keeps(w) ==
  /\ Sound(cache[w])
  /\ MaxIsolates > 0 => Len(cache[w].lru) <= MaxIsolates

(* What was sent is no longer a call that is about to be.                  *)
Sent(w) ==
  \A c \in Elements(queue[w]) \cup Elements(batch[w]) :
    call[c].pc \notin {"new", "selected", "counted"}

Busy(w) == IF phase[w] = "executing" THEN 1 ELSE 0

(* The load of a worker is what is on its way, waiting or running there.   *)
Tallied(w) ==
  /\ IsFiniteSet(Coming(w))
  /\ Alive(w) => /\ load[w].queued = Cardinality(Coming(w)) + Len(queue[w]) + Len(batch[w]) - Busy(w)
                 /\ load[w].active = Busy(w)

(* An isolate's tag is no newer than its code, nor its code than the       *)
(* deployed source.                                                        *)
Dated(w) ==
  \A h \in Handlers :
    LET i == cache[w].isolates[h]
    IN  i.tag <= source[h] /\ i.code <= source[h] /\ (i.code = 0 \/ i.tag <= i.code)

(* What executes for a caller is the first of the batch, in an isolate     *)
(* that loaded nothing yet or a source deployed during the call.           *)
Serves(w) ==
  phase[w] = "executing" =>
    LET c == Running(w)
        h == call[c].handler
        code == cache[w].isolates[h].code
    IN  /\ batch[w] # <<>> /\ h \in Cached(w)
        /\ call[c].pc = "waiting" => code = 0 \/ code \in call[c].current

WorkerInv(w) == Keeps(w) /\ Sent(w) /\ Tallied(w) /\ Dated(w) /\ Serves(w)

CallInv(c) ==
  /\ call[c].pc = "waiting" => source[call[c].handler] \in call[c].current
  /\ call[c].pc = "answered" => call[c].ran \in call[c].current

IInv ==
  /\ TypeOK
  /\ \A w \in Workers : WorkerInv(w)
  /\ \A c \in Calls : CallInv(c)

-----------------------------------------------------------------------------
(* Calls that end, and the workers that are not concerned.                 *)

\* A step that at most ends calls: dropped, failed, or answered with a
\* source that was deployed meanwhile.
Settles(c) ==
  /\ call[c].pc = "waiting"
  /\ \/ call'[c].pc \in {"failed", "dropped"}
     \/ call'[c].pc = "answered" /\ call'[c].ran \in call[c].current

Calm ==
  /\ call' \in [Calls -> Call]
  /\ source' = source
  /\ \A c \in Calls :
       /\ call'[c].worker = call[c].worker
       /\ call'[c].handler = call[c].handler
       /\ call'[c].current = call[c].current
       /\ call'[c] = call[c] \/ Settles(c)

Undisturbed(v) ==
  /\ queue'[v] = queue[v] /\ batch'[v] = batch[v] /\ phase'[v] = phase[v]
  /\ cache'[v] = cache[v] /\ load'[v] = load[v]

LEMMA ElementTypes ==
  ASSUME TypeOK, NEW w \in Workers
  PROVE  /\ queue[w] \in Seq(Calls) /\ batch[w] \in Seq(Calls)
         /\ Elements(queue[w]) \subseteq Calls /\ Elements(batch[w]) \subseteq Calls
         /\ Len(queue[w]) \in Nat /\ Len(batch[w]) \in Nat
<1>1. queue[w] \in Seq(Calls) /\ batch[w] \in Seq(Calls)
  BY DEF TypeOK
<1>2. QED
  BY <1>1, LenProperties, ElementOfSeq DEF Elements

LEMMA RunningCall ==
  ASSUME TypeOK, NEW w \in Workers, batch[w] # <<>>
  PROVE  /\ Running(w) \in Calls /\ Running(w) \in Elements(batch[w])
         /\ call[Running(w)] \in Call /\ call[Running(w)].handler \in Handlers
         /\ Tail(batch[w]) \in Seq(Calls) /\ Len(Tail(batch[w])) = Len(batch[w]) - 1
         /\ Elements(Tail(batch[w])) \subseteq Elements(batch[w])
<1>1. batch[w] \in Seq(Calls)
  BY DEF TypeOK
<1>2. /\ Tail(batch[w]) \in Seq(Calls) /\ Len(Tail(batch[w])) = Len(batch[w]) - 1
      /\ \A i \in 1 .. Len(Tail(batch[w])) : Tail(batch[w])[i] = batch[w][i + 1]
  BY <1>1, HeadTailProperties
<1>3. /\ DOMAIN batch[w] = 1 .. Len(batch[w]) /\ DOMAIN Tail(batch[w]) = 1 .. Len(Tail(batch[w]))
      /\ Len(batch[w]) \in Nat \ {0}
  BY <1>1, <1>2, LenProperties, EmptySeq
<1>4. Elements(Tail(batch[w])) \subseteq Elements(batch[w])
  BY <1>2, <1>3 DEF Elements
<1>5. Running(w) = batch[w][1] /\ 1 \in DOMAIN batch[w]
  BY <1>1, <1>3 DEF Running
<1>6. Running(w) \in Calls /\ Running(w) \in Elements(batch[w])
  BY <1>1, <1>3, <1>5, ElementOfSeq DEF Elements
<1>7. call[Running(w)] \in Call /\ call[Running(w)].handler \in Handlers
  BY <1>6 DEF TypeOK, Call
<1>8. QED
  BY <1>2, <1>4, <1>6, <1>7

LEMMA CalmComing ==
  ASSUME Calm, NEW w \in Workers
  PROVE  Coming(w)' = Coming(w)
BY DEF Calm, Settles, Coming

LEMMA CalmCalls ==
  ASSUME IInv, Calm
  PROVE  \A c \in Calls : CallInv(c)'
<1> SUFFICES ASSUME NEW c \in Calls
             PROVE  CallInv(c)'
  OBVIOUS
<1>1. CallInv(c)
  BY DEF IInv
<1>2. /\ call'[c].handler = call[c].handler /\ call'[c].current = call[c].current /\ source' = source
      /\ call'[c] = call[c] \/ Settles(c)
  BY DEF Calm
<1>3. QED
  BY <1>1, <1>2 DEF CallInv, Settles

\* What a worker has been sent stays sent.
LEMMA CalmSent ==
  ASSUME IInv, Calm, NEW w \in Workers,
         Elements(queue'[w]) \cup Elements(batch'[w]) \subseteq Elements(queue[w]) \cup Elements(batch[w])
  PROVE  Sent(w)'
<1>1. Elements(queue[w]) \cup Elements(batch[w]) \subseteq Calls
  BY ElementTypes DEF IInv
<1>2. Sent(w)
  BY DEF IInv, WorkerInv
<1>3. QED
  BY <1>1, <1>2 DEF Sent, Calm, Settles

LEMMA CalmOthers ==
  ASSUME IInv, Calm, NEW v \in Workers, Undisturbed(v)
  PROVE  WorkerInv(v)'
<1>1. WorkerInv(v) /\ TypeOK
  BY DEF IInv
<1>2. Keeps(v)'
  BY <1>1 DEF WorkerInv, Keeps, Undisturbed
<1>3. Sent(v)'
  BY CalmSent DEF Undisturbed
<1>4. Tallied(v)'
  BY <1>1, CalmComing DEF WorkerInv, Tallied, Undisturbed, Busy, Alive
<1>5. Dated(v)'
  BY <1>1 DEF WorkerInv, Dated, Undisturbed, Calm
<1>6. Serves(v)'
  <2> SUFFICES ASSUME phase[v] = "executing"
               PROVE  Serves(v)'
    BY DEF Undisturbed, Serves
  <2>1. Running(v) \in Calls /\ Running(v)' = Running(v)
    BY <1>1, RunningCall DEF WorkerInv, Serves, Undisturbed, Running
  <2>2. /\ call'[Running(v)].handler = call[Running(v)].handler
        /\ call'[Running(v)].current = call[Running(v)].current
        /\ call'[Running(v)].pc = "waiting" => call[Running(v)].pc = "waiting"
    BY <2>1 DEF Calm, Settles
  <2>3. Cached(v)' = Cached(v)
    BY DEF Cached, Live, Undisturbed
  <2>4. QED
    BY <1>1, <2>1, <2>2, <2>3 DEF WorkerInv, Serves, Undisturbed
<1>7. QED
  BY <1>2, <1>3, <1>4, <1>5, <1>6 DEF WorkerInv

LEMMA CalmStep ==
  ASSUME IInv, Calm, TypeOK', NEW w \in Workers, WorkerInv(w)',
         \A v \in Workers \ {w} : Undisturbed(v)
  PROVE  IInv'
BY CalmOthers, CalmCalls DEF IInv

LEMMA UnchangedCalm ==
  ASSUME TypeOK, UNCHANGED <<call, source>>
  PROVE  Calm
BY DEF Calm, TypeOK

LEMMA AnsweredCalm ==
  ASSUME TypeOK, NEW c \in Calls, UNCHANGED source, NEW pc, NEW ran,
         call' = Answered(c, pc, ran),
         \/ pc = "failed" /\ ran = 0
         \/ pc = "answered" /\ ran \in 0 .. MaxVersion /\ (call[c].pc = "waiting" => ran \in call[c].current)
  PROVE  Calm
<1>1. call \in [Calls -> Call]
  BY DEF TypeOK
<1>2. CASE call[c].pc = "waiting"
  <2>1. call' = [call EXCEPT ![c] = [call[c] EXCEPT !.pc = pc, !.ran = ran]]
    BY <1>1, <1>2 DEF Answered
  <2>2. call[c] \in Call /\ 0 \in 0 .. MaxVersion
    BY <1>1, ConstantsAssumption
  <2>3. /\ [call[c] EXCEPT !.pc = pc, !.ran = ran] \in Call
        /\ [call[c] EXCEPT !.pc = pc, !.ran = ran].pc = pc
        /\ [call[c] EXCEPT !.pc = pc, !.ran = ran].ran = ran
        /\ [call[c] EXCEPT !.pc = pc, !.ran = ran].worker = call[c].worker
        /\ [call[c] EXCEPT !.pc = pc, !.ran = ran].handler = call[c].handler
        /\ [call[c] EXCEPT !.pc = pc, !.ran = ran].current = call[c].current
    BY <2>2 DEF Call
  <2>4. call' \in [Calls -> Call] /\ call'[c] = [call[c] EXCEPT !.pc = pc, !.ran = ran]
        /\ \A d \in Calls \ {c} : call'[d] = call[d]
    BY <1>1, <2>1, <2>3
  <2>5. Settles(c)
    BY <1>2, <2>3, <2>4 DEF Settles
  <2>6. QED
    BY <2>3, <2>4, <2>5 DEF Calm
<1>3. CASE call[c].pc # "waiting"
  BY <1>1, <1>3 DEF Answered, Calm
<1>4. QED
  BY <1>2, <1>3

-----------------------------------------------------------------------------
(* The steps of a worker.                                                  *)

LEMMA WorkerTypes ==
  ASSUME TypeOK, NEW w \in Workers
  PROVE  /\ cache[w] \in Cache /\ load[w] \in [queued : Nat, active : Nat]
         /\ phase[w] \in {"idle", "executing", "stopped", "dead"}
         /\ \A h \in Handlers : source[h] \in Nat \ {0} /\ source[h] \in Version
BY ConstantsAssumption DEF TypeOK, Version

LEMMA IdleLoad ==
  ASSUME IInv, NEW w \in Workers, phase[w] = "idle"
  PROVE  /\ Busy(w) = 0
         /\ Cardinality(Coming(w)) \in Nat /\ Len(queue[w]) \in Nat /\ Len(batch[w]) \in Nat
         /\ load[w].queued = Cardinality(Coming(w)) + Len(queue[w]) + Len(batch[w])
         /\ load[w].active = 0
         /\ batch[w] # <<>> => load[w].queued - 1 \in Nat
<1>1. TypeOK /\ Tallied(w)
  BY DEF IInv, WorkerInv
<1>2. Cardinality(Coming(w)) \in Nat
  BY <1>1, FS_CardinalityType DEF Tallied
<1>3. Len(queue[w]) \in Nat /\ Len(batch[w]) \in Nat /\ batch[w] \in Seq(Calls)
  BY <1>1, ElementTypes
<1>4. batch[w] # <<>> => Len(batch[w]) > 0
  BY <1>3
<1>5. Busy(w) = 0 /\ Alive(w)
  BY DEF Busy, Alive
<1>6. PICK a, b, q \in Nat : a = Cardinality(Coming(w)) /\ q = Len(queue[w]) /\ b = Len(batch[w])
  BY <1>2, <1>3
<1>7. load[w].queued = a + q + b - 0 /\ load[w].active = 0
  BY ONLY <1>1, <1>5, <1>6 DEF Tallied
<1>8. load[w].queued = a + q + b
  BY <1>7
<1>9. batch[w] # <<>> => load[w].queued - 1 \in Nat
  BY ONLY <1>4, <1>6, <1>8
<1>10. QED
  BY ONLY <1>5, <1>6, <1>7, <1>8, <1>9

LEMMA UncountedLoad ==
  ASSUME TypeOK, NEW w \in Workers, load[w].queued - 1 \in Nat
  PROVE  /\ Uncounted(w) \in [Workers -> [queued : Nat, active : Nat]]
         /\ Uncounted(w)[w].queued = load[w].queued - 1
         /\ Uncounted(w)[w].active = load[w].active
         /\ \A v \in Workers \ {w} : Uncounted(w)[v] = load[v]
<1>1. load \in [Workers -> [queued : Nat, active : Nat]]
  BY DEF TypeOK
<1>2. [load[w] EXCEPT !.queued = @ - 1] \in [queued : Nat, active : Nat]
  BY <1>1
<1>3. [load[w] EXCEPT !.queued = @ - 1].queued = load[w].queued - 1 /\ [load[w] EXCEPT !.queued = @ - 1].active = load[w].active
  BY <1>1
<1>4. Uncounted(w) = [load EXCEPT ![w] = [load[w] EXCEPT !.queued = @ - 1]]
  BY <1>1 DEF Uncounted
<1>5. QED
  BY <1>1, <1>2, <1>3, <1>4

\* The request at work begins to run.
LEMMA BegunLoad ==
  ASSUME TypeOK, NEW w \in Workers, load[w].queued - 1 \in Nat,
         load' = [Uncounted(w) EXCEPT ![w].active = @ + 1]
  PROVE  /\ load' \in [Workers -> [queued : Nat, active : Nat]]
         /\ \A v \in Workers \ {w} : load'[v] = load[v]
         /\ load'[w].queued = load[w].queued - 1 /\ load'[w].active = load[w].active + 1
<1> DEFINE l == Uncounted(w)
<1>1. /\ l \in [Workers -> [queued : Nat, active : Nat]]
      /\ l[w].queued = load[w].queued - 1 /\ l[w].active = load[w].active
      /\ \A v \in Workers \ {w} : l[v] = load[v]
  BY UncountedLoad
<1>2. load' = [l EXCEPT ![w].active = @ + 1]
  OBVIOUS
<1> HIDE DEF l
<1>3. load' = [l EXCEPT ![w] = [l[w] EXCEPT !.active = @ + 1]]
  BY <1>1, <1>2
<1>4. /\ [l[w] EXCEPT !.active = @ + 1] \in [queued : Nat, active : Nat]
      /\ [l[w] EXCEPT !.active = @ + 1].queued = l[w].queued
      /\ [l[w] EXCEPT !.active = @ + 1].active = l[w].active + 1
  BY <1>1
<1>5. QED
  BY <1>1, <1>3, <1>4

LEMMA BegunTally ==
  ASSUME IInv, NEW w \in Workers, Due(w), UNCHANGED <<call, queue, batch>>,
         phase' = [phase EXCEPT ![w] = "executing"],
         load'[w].queued = load[w].queued - 1, load'[w].active = load[w].active + 1
  PROVE  Tallied(w)'
<1>1. TypeOK /\ Tallied(w) /\ phase[w] = "idle" /\ batch[w] # <<>>
  BY DEF IInv, WorkerInv, Due
<1>2. Coming(w)' = Coming(w) /\ phase'[w] = "executing" /\ Busy(w)' = 1
  BY <1>1 DEF Coming, TypeOK, Busy
<1>3. /\ load[w].queued = Cardinality(Coming(w)) + Len(queue[w]) + Len(batch[w]) /\ load[w].active = 0
      /\ Cardinality(Coming(w)) \in Nat /\ Len(queue[w]) \in Nat /\ Len(batch[w]) \in Nat
  BY <1>1, IdleLoad
<1>4. QED
  BY <1>1, <1>2, <1>3 DEF Tallied

\* The request at work is given up before it runs.
LEMMA ShedLoad ==
  ASSUME IInv, NEW w \in Workers, Due(w), Calm, load' = Uncounted(w),
         batch' = [batch EXCEPT ![w] = Tail(@)], UNCHANGED <<queue, phase>>
  PROVE  /\ load' \in [Workers -> [queued : Nat, active : Nat]]
         /\ \A v \in Workers \ {w} : load'[v] = load[v]
         /\ Tallied(w)'
<1>1. TypeOK /\ Tallied(w) /\ phase[w] = "idle" /\ batch[w] # <<>>
  BY DEF IInv, WorkerInv, Due
<1>2. /\ load' \in [Workers -> [queued : Nat, active : Nat]]
      /\ load'[w].queued = load[w].queued - 1 /\ load'[w].active = load[w].active
      /\ \A v \in Workers \ {w} : load'[v] = load[v]
  BY <1>1, IdleLoad, UncountedLoad
<1>3. Coming(w)' = Coming(w) /\ Busy(w)' = 0
  BY <1>1, CalmComing DEF Busy
<1>4. batch'[w] = Tail(batch[w])
  BY <1>1 DEF TypeOK
<1>5. Len(batch'[w]) = Len(batch[w]) - 1
  BY <1>1, <1>4, RunningCall
<1>6. Tallied(w)'
  <2>1. PICK a, b, q \in Nat :
          /\ a = Cardinality(Coming(w)) /\ q = Len(queue[w]) /\ b = Len(batch[w])
          /\ load[w].queued = a + q + b /\ load[w].active = 0
    BY <1>1, IdleLoad
  <2>2. (a + q + b) - 1 = a + q + (b - 1) - 0
    <3>1. a \in Nat /\ b \in Nat /\ q \in Nat
      BY <2>1
    <3>2. QED
      BY ONLY <3>1
  <2>3. /\ load'[w].queued = (a + q + b) - 1 /\ load'[w].active = 0
        /\ Cardinality(Coming(w)') = a /\ Len(queue'[w]) = q /\ Len(batch'[w]) = b - 1
    BY <1>2, <1>3, <1>5, <2>1
  <2>4. IsFiniteSet(Coming(w)')
    BY <1>1, <1>3 DEF Tallied
  <2>5. QED
    BY ONLY <1>3, <2>2, <2>3, <2>4 DEF Tallied
<1>7. QED
  BY <1>2, <1>6

\* The request at work ends.
LEMMA IdleStep ==
  ASSUME IInv, NEW w \in Workers, NEW answer, phase[w] = "executing", Idle(w, answer), Calm
  PROVE  /\ load' \in [Workers -> [queued : Nat, active : Nat]]
         /\ \A v \in Workers \ {w} : load'[v] = load[v]
         /\ batch' \in [Workers -> Seq(Calls)] /\ batch'[w] = Tail(batch[w])
         /\ \A v \in Workers \ {w} : batch'[v] = batch[v] /\ phase'[v] = phase[v]
         /\ phase' \in [Workers -> {"idle", "executing", "stopped", "dead"}]
         /\ phase'[w] = "idle"
         /\ Tallied(w)' /\ Sent(w)' /\ Serves(w)'
<1>1. TypeOK /\ Tallied(w) /\ batch[w] # <<>>
  BY DEF IInv, WorkerInv, Serves
<1>2. load[w].active = 1 /\ load[w].queued = Cardinality(Coming(w)) + Len(queue[w]) + Len(batch[w]) - 1
  BY <1>1 DEF Tallied, Alive, Busy
<1>3. load \in [Workers -> [queued : Nat, active : Nat]]
  BY <1>1 DEF TypeOK
<1>4. [load[w] EXCEPT !.active = @ - 1] \in [queued : Nat, active : Nat]
  BY <1>2, <1>3
<1>5. load' = [load EXCEPT ![w] = [load[w] EXCEPT !.active = @ - 1]]
  BY <1>3 DEF Idle
<1>6. load' \in [Workers -> [queued : Nat, active : Nat]] /\ \A v \in Workers \ {w} : load'[v] = load[v]
  BY <1>3, <1>4, <1>5
<1>7. load'[w].active = 0 /\ load'[w].queued = load[w].queued
  BY <1>2, <1>3, <1>4, <1>5
<1>8. batch'[w] = Tail(batch[w]) /\ \A v \in Workers \ {w} : batch'[v] = batch[v]
  BY <1>1 DEF Idle, TypeOK
<1>9. /\ batch'[w] \in Seq(Calls) /\ Len(batch'[w]) = Len(batch[w]) - 1
      /\ Elements(batch'[w]) \subseteq Elements(batch[w])
  BY <1>1, <1>8, RunningCall
<1>10. batch' \in [Workers -> Seq(Calls)]
  BY <1>1, <1>8, <1>9 DEF Idle, TypeOK
<1>11. /\ phase' \in [Workers -> {"idle", "executing", "stopped", "dead"}] /\ phase'[w] = "idle"
       /\ \A v \in Workers \ {w} : phase'[v] = phase[v]
  BY <1>1 DEF Idle, TypeOK
<1>12. Sent(w)'
  BY <1>9, CalmSent DEF Idle
<1>13. Coming(w)' = Coming(w) /\ Busy(w)' = 0 /\ queue' = queue
  BY <1>11, CalmComing DEF Busy, Idle
<1>14. Cardinality(Coming(w)) \in Nat /\ Len(queue[w]) \in Nat /\ Len(batch[w]) \in Nat
  BY <1>1, FS_CardinalityType, ElementTypes DEF Tallied
<1>15. Tallied(w)'
  BY <1>1, <1>2, <1>7, <1>9, <1>13, <1>14 DEF Tallied
<1>16. Serves(w)'
  BY <1>11 DEF Serves
<1>17. QED
  BY <1>6, <1>8, <1>10, <1>11, <1>12, <1>15, <1>16

LEMMA WithoutKeeps ==
  ASSUME IInv, NEW w \in Workers, NEW S, UNCHANGED source, cache' = [cache EXCEPT ![w] = Without(cache[w], S)]
  PROVE  /\ cache' \in [Workers -> Cache] /\ Keeps(w)' /\ Dated(w)'
         /\ \A v \in Workers \ {w} : cache'[v] = cache[v]
<1>1. TypeOK /\ Keeps(w) /\ Dated(w) /\ cache[w] \in Cache
  BY WorkerTypes DEF IInv, WorkerInv
<1>2. /\ cache' \in [Workers -> Cache] /\ cache'[w] = Without(cache[w], S)
      /\ \A v \in Workers \ {w} : cache'[v] = cache[v]
  BY <1>1, WithoutFields DEF TypeOK
<1>3. Sound(cache'[w])
  BY <1>1, <1>2, WithoutSound DEF Keeps
<1>4. Len(cache'[w].lru) <= Len(cache[w].lru)
  <2>1. /\ cache[w].lru \in Seq(Handlers) /\ cache'[w].lru \in Seq(Handlers)
        /\ Distinct(cache[w].lru) /\ Distinct(cache'[w].lru)
        /\ Elements(cache[w].lru) = Live(cache[w]) /\ Elements(cache'[w].lru) = Live(cache[w]) \ S
    BY <1>1, <1>2, <1>3, CacheFields, WithoutFields DEF Keeps, Sound
  <2>2. /\ IsFiniteSet(Live(cache[w])) /\ Cardinality(Live(cache[w])) = Len(cache[w].lru)
        /\ Cardinality(Live(cache[w]) \ S) = Len(cache'[w].lru)
    BY <2>1, DistinctLength
  <2>3. Live(cache[w]) \ S \in SUBSET Live(cache[w])
    OBVIOUS
  <2>4. QED
    BY <2>2, <2>3, FS_Subset
<1>5. Keeps(w)'
  <2>1. Len(cache[w].lru) \in Nat /\ Len(cache'[w].lru) \in Nat /\ MaxIsolates \in Nat
    BY <1>1, <1>2, CacheFields, LenProperties, ConstantsAssumption
  <2>2. QED
    BY <1>1, <1>3, <1>4, <2>1 DEF Keeps
<1>6. Dated(w)'
  <2>1. \A h \in Handlers : cache'[w].isolates[h] = NoIsolate \/ cache'[w].isolates[h] = cache[w].isolates[h]
    BY <1>1, <1>2, WithoutFields
  <2>2. NoIsolate.tag = 0 /\ NoIsolate.code = 0
    BY DEF NoIsolate
  <2>3. \A h \in Handlers : 0 <= source[h]
    BY <1>1, WorkerTypes
  <2>4. QED
    BY <1>1, <2>1, <2>2, <2>3 DEF Dated
<1>7. QED
  BY <1>2, <1>5, <1>6

LEMMA EmptyKeeps ==
  ASSUME IInv, NEW w \in Workers, UNCHANGED source, cache' = [cache EXCEPT ![w] = NoCache]
  PROVE  /\ cache' \in [Workers -> Cache] /\ Keeps(w)' /\ Dated(w)'
         /\ \A v \in Workers \ {w} : cache'[v] = cache[v]
<1>1. /\ cache' \in [Workers -> Cache] /\ cache'[w] = NoCache
      /\ \A v \in Workers \ {w} : cache'[v] = cache[v]
  BY EmptySound DEF IInv, TypeOK
<1>2. Keeps(w)'
  BY <1>1, EmptySound, ConstantsAssumption DEF Keeps
<1>3. \A h \in Handlers : 0 <= source[h] /\ cache'[w].isolates[h].tag = 0 /\ cache'[w].isolates[h].code = 0
  BY <1>1, WorkerTypes DEF NoCache, NoIsolate, IInv
<1>4. Dated(w)'
  BY <1>3 DEF Dated
<1>5. QED
  BY <1>1, <1>2, <1>4

LEMMA SubSeqElements ==
  ASSUME NEW A, NEW s \in Seq(A), NEW m \in Nat \ {0}, NEW n \in Nat, n <= Len(s)
  PROVE  /\ SubSeq(s, m, n) \in Seq(A)
         /\ Len(SubSeq(s, m, n)) = IF m <= n THEN n - m + 1 ELSE 0
         /\ Elements(SubSeq(s, m, n)) \subseteq Elements(s)
<1>1. \A i \in m .. n : i \in DOMAIN s /\ s[i] \in A
  BY LenProperties, ElementOfSeq
<1>2. /\ SubSeq(s, m, n) \in Seq(A)
      /\ Len(SubSeq(s, m, n)) = IF m <= n THEN n - m + 1 ELSE 0
      /\ \A i \in 1 .. n - m + 1 : SubSeq(s, m, n)[i] = s[m + i - 1]
  BY <1>1, SubSeqProperties
<1> DEFINE t == SubSeq(s, m, n)
<1>3. \A i \in DOMAIN t : t[i] = s[m + i - 1] /\ m + i - 1 \in m .. n
  <2>1. DOMAIN t = 1 .. Len(t)
    BY <1>2, LenProperties
  <2>2. \A i \in DOMAIN t : i \in 1 .. n - m + 1
    BY <1>2, <2>1
  <2>3. QED
    BY <1>2, <2>2
<1>4. Elements(t) \subseteq Elements(s)
  <2> HIDE DEF t
  <2>1. QED
    BY <1>1, <1>3 DEF Elements
<1>5. QED
  BY <1>2, <1>4

LEMMA TakeStep ==
  ASSUME IInv, NEW w \in Workers, Take(w)
  PROVE  IInv'
<1> DEFINE n == BatchSize(w)
<1>1. /\ TypeOK /\ WorkerInv(w) /\ phase[w] = "idle" /\ batch[w] = <<>>
      /\ UNCHANGED <<call, phase, cache, load, source, command, issued>>
  BY DEF IInv, Take
<1>2. queue[w] \in Seq(Calls) /\ Len(queue[w]) \in Nat /\ queue \in [Workers -> Seq(Calls)] /\ batch \in [Workers -> Seq(Calls)]
  BY <1>1, ElementTypes DEF TypeOK
<1>3. n \in Nat /\ n <= Len(queue[w])
  BY <1>2, ConstantsAssumption DEF BatchSize
<1>4. /\ batch' = [batch EXCEPT ![w] = SubSeq(queue[w], 1, n)]
      /\ queue' = [queue EXCEPT ![w] = SubSeq(queue[w], n + 1, Len(queue[w]))]
  BY <1>2 DEF Take
<1> HIDE DEF n
<1>5. /\ SubSeq(queue[w], 1, n) \in Seq(Calls) /\ Len(SubSeq(queue[w], 1, n)) = n
      /\ Elements(SubSeq(queue[w], 1, n)) \subseteq Elements(queue[w])
  <2>1. Len(SubSeq(queue[w], 1, n)) = IF 1 <= n THEN n - 1 + 1 ELSE 0
    BY <1>2, <1>3, SubSeqElements
  <2>2. QED
    BY <1>2, <1>3, <2>1, SubSeqElements
<1>6. /\ SubSeq(queue[w], n + 1, Len(queue[w])) \in Seq(Calls)
      /\ Len(SubSeq(queue[w], n + 1, Len(queue[w]))) = Len(queue[w]) - n
      /\ Elements(SubSeq(queue[w], n + 1, Len(queue[w]))) \subseteq Elements(queue[w])
  <2>1. n + 1 \in Nat \ {0} /\ Len(queue[w]) <= Len(queue[w])
    BY <1>2, <1>3
  <2>2. Len(SubSeq(queue[w], n + 1, Len(queue[w]))) = IF n + 1 <= Len(queue[w]) THEN Len(queue[w]) - (n + 1) + 1 ELSE 0
    BY <1>2, <2>1, SubSeqElements
  <2>3. Len(SubSeq(queue[w], n + 1, Len(queue[w]))) = Len(queue[w]) - n
    BY <1>2, <1>3, <2>2
  <2>4. QED
    BY <1>2, <2>1, <2>3, SubSeqElements
<1>7. /\ batch' \in [Workers -> Seq(Calls)] /\ queue' \in [Workers -> Seq(Calls)]
      /\ batch'[w] = SubSeq(queue[w], 1, n) /\ queue'[w] = SubSeq(queue[w], n + 1, Len(queue[w]))
      /\ \A v \in Workers \ {w} : batch'[v] = batch[v] /\ queue'[v] = queue[v]
  BY <1>2, <1>4, <1>5, <1>6
<1>8. TypeOK'
  BY <1>1, <1>7 DEF TypeOK
<1>9. Calm
  BY <1>1, UnchangedCalm
<1>10. Tallied(w)'
  <2>1. /\ load[w].queued = Cardinality(Coming(w)) + Len(queue[w]) + Len(batch[w]) /\ load[w].active = 0
        /\ Cardinality(Coming(w)) \in Nat /\ Len(batch[w]) = 0 /\ Busy(w) = 0
    BY <1>1, IdleLoad, EmptySeq
  <2>2. Len(batch'[w]) = n
    BY <1>5, <1>7
  <2>3. Len(queue'[w]) = Len(queue[w]) - n
    BY <1>6, <1>7
  <2>4. load'[w].queued = Cardinality(Coming(w)) + Len(queue'[w]) + Len(batch'[w])
    <3>1. load'[w].queued = Cardinality(Coming(w)) + Len(queue[w]) + Len(batch[w])
      BY <1>1, <2>1
    <3>2. QED
      BY <1>2, <1>3, <2>1, <2>2, <2>3, <3>1
  <2>5. Coming(w)' = Coming(w) /\ Busy(w)' = 0 /\ IsFiniteSet(Coming(w))
    BY <1>1, <2>1 DEF Coming, Busy, WorkerInv, Tallied
  <2>6. QED
    BY <1>1, <1>2, <1>3, <2>1, <2>2, <2>3, <2>4, <2>5 DEF Tallied
<1>11. Sent(w)'
  BY <1>5, <1>6, <1>7, <1>9, CalmSent
<1>12. Keeps(w)' /\ Dated(w)' /\ Serves(w)'
  BY <1>1 DEF WorkerInv, Keeps, Dated, Serves
<1>13. QED
  BY <1>1, <1>7, <1>8, <1>9, <1>10, <1>11, <1>12, CalmStep DEF WorkerInv, Undisturbed

LEMMA TailBatch ==
  ASSUME TypeOK, NEW w \in Workers, batch[w] # <<>>, batch' = [batch EXCEPT ![w] = Tail(@)]
  PROVE  /\ batch' \in [Workers -> Seq(Calls)] /\ batch'[w] = Tail(batch[w])
         /\ \A v \in Workers \ {w} : batch'[v] = batch[v]
         /\ Elements(batch'[w]) \subseteq Elements(batch[w])
<1>1. batch' = [batch EXCEPT ![w] = Tail(batch[w])] /\ batch \in [Workers -> Seq(Calls)]
  BY DEF TypeOK
<1>2. QED
  BY <1>1, RunningCall

LEMMA ExpireStep ==
  ASSUME IInv, NEW w \in Workers, Expire(w)
  PROVE  IInv'
<1>1. /\ TypeOK /\ WorkerInv(w) /\ phase[w] = "idle" /\ batch[w] # <<>> /\ Due(w)
      /\ load' = Uncounted(w) /\ call' = Answered(Running(w), "failed", 0)
      /\ batch' = [batch EXCEPT ![w] = Tail(@)]
      /\ UNCHANGED <<queue, phase, cache, source, command, issued>>
  BY DEF IInv, Expire, Due
<1>2. Calm
  BY <1>1, RunningCall, AnsweredCalm
<1>3. /\ load' \in [Workers -> [queued : Nat, active : Nat]]
      /\ \A v \in Workers \ {w} : load'[v] = load[v]
      /\ Tallied(w)'
  BY <1>1, <1>2, ShedLoad
<1>4. /\ batch' \in [Workers -> Seq(Calls)]
      /\ \A v \in Workers \ {w} : batch'[v] = batch[v]
      /\ Elements(batch'[w]) \subseteq Elements(batch[w])
  BY <1>1, TailBatch
<1>5. TypeOK'
  BY <1>1, <1>2, <1>3, <1>4 DEF TypeOK, Calm
<1>6. Sent(w)'
  BY <1>1, <1>2, <1>4, CalmSent
<1>7. Keeps(w)' /\ Dated(w)' /\ Serves(w)'
  BY <1>1 DEF WorkerInv, Keeps, Dated, Serves
<1>8. QED
  BY <1>1, <1>2, <1>3, <1>4, <1>5, <1>6, <1>7, CalmStep DEF WorkerInv, Undisturbed

\* A thread that panics fails what it was sent, and keeps nothing.
LEMMA PanicStep ==
  ASSUME IInv, NEW w \in Workers, Panic(w),
         load' \in [Workers -> [queued : Nat, active : Nat]],
         \A v \in Workers \ {w} : load'[v] = load[v]
  PROVE  IInv'
<1>1. TypeOK /\ WorkerInv(w) /\ UNCHANGED <<source, issued>>
  BY DEF IInv, Panic
<1>2. Calm
  <2> DEFINE gone == Elements(queue[w]) \cup Elements(batch[w])
  <2>1. call \in [Calls -> Call]
    BY <1>1 DEF TypeOK
  <2>2. call' = [c \in Calls |-> IF c \in gone /\ call[c].pc = "waiting"
                                 THEN [call[c] EXCEPT !.pc = "failed"] ELSE call[c]]
    BY DEF Panic
  <2> HIDE DEF gone
  <2>3. ASSUME NEW c \in Calls
        PROVE  /\ call'[c] \in Call
               /\ call'[c].worker = call[c].worker
               /\ call'[c].handler = call[c].handler
               /\ call'[c].current = call[c].current
               /\ call'[c] = call[c] \/ Settles(c)
    <3>1. call[c] \in Call
      BY <2>1
    <3>2. /\ [call[c] EXCEPT !.pc = "failed"] \in Call
          /\ [call[c] EXCEPT !.pc = "failed"].pc = "failed"
          /\ [call[c] EXCEPT !.pc = "failed"].worker = call[c].worker
          /\ [call[c] EXCEPT !.pc = "failed"].handler = call[c].handler
          /\ [call[c] EXCEPT !.pc = "failed"].current = call[c].current
      BY <3>1 DEF Call
    <3>3. call'[c] = IF c \in gone /\ call[c].pc = "waiting"
                     THEN [call[c] EXCEPT !.pc = "failed"] ELSE call[c]
      BY <2>2
    <3>4. CASE c \in gone /\ call[c].pc = "waiting"
      BY <3>2, <3>3, <3>4 DEF Settles
    <3>5. CASE ~(c \in gone /\ call[c].pc = "waiting")
      BY <3>1, <3>3, <3>5
    <3>6. QED
      BY <3>4, <3>5
  <2>4. call' \in [Calls -> Call]
    BY <2>2, <2>3
  <2>5. QED
    BY <1>1, <2>3, <2>4 DEF Calm
<1>3. /\ phase' \in [Workers -> {"idle", "executing", "stopped", "dead"}] /\ phase'[w] = "dead"
      /\ \A v \in Workers \ {w} : phase'[v] = phase[v]
  BY <1>1 DEF Panic, TypeOK
<1>4. /\ queue' \in [Workers -> Seq(Calls)] /\ queue'[w] = <<>>
      /\ \A v \in Workers \ {w} : queue'[v] = queue[v]
  BY <1>1 DEF Panic, TypeOK
<1>5. /\ batch' \in [Workers -> Seq(Calls)] /\ batch'[w] = <<>>
      /\ \A v \in Workers \ {w} : batch'[v] = batch[v]
  BY <1>1 DEF Panic, TypeOK
<1>6. /\ cache' \in [Workers -> Cache] /\ Keeps(w)' /\ Dated(w)'
      /\ \A v \in Workers \ {w} : cache'[v] = cache[v]
  BY <1>1, EmptyKeeps DEF Panic
<1>7. command' \in [op : {"none", "evict_all", "evict_by_prefix", "kill", "shutdown"},
                    handlers : SUBSET Handlers, pending : SUBSET Workers]
  BY <1>1 DEF Panic, TypeOK
<1>8. TypeOK'
  BY <1>1, <1>2, <1>3, <1>4, <1>5, <1>6, <1>7 DEF TypeOK, Calm
<1>9. Sent(w)'
  BY <1>2, <1>4, <1>5, CalmSent, EmptyElements
<1>10. Tallied(w)'
  BY <1>1, <1>2, <1>3, CalmComing DEF WorkerInv, Tallied, Alive
<1>11. Serves(w)'
  BY <1>3 DEF Serves
<1>12. QED
  BY <1>2, <1>3, <1>4, <1>5, <1>6, <1>8, <1>9, <1>10, <1>11, CalmStep DEF WorkerInv, Undisturbed

\* A worker begins to execute: what its cache must then show.
LEMMA BeginStep ==
  ASSUME IInv, NEW w \in Workers, Due(w), UNCHANGED <<call, queue, batch, source, command, issued>>,
         phase' = [phase EXCEPT ![w] = "executing"],
         load' = [Uncounted(w) EXCEPT ![w].active = @ + 1],
         cache' \in [Workers -> Cache], \A v \in Workers \ {w} : cache'[v] = cache[v],
         Keeps(w)', Dated(w)',
         call[Running(w)].handler \in Cached(w)',
         LET h == call[Running(w)].handler
         IN  cache'[w].isolates[h].code = 0 \/ cache'[w].isolates[h].code = source[h]
  PROVE  IInv'
<1>1. TypeOK /\ WorkerInv(w) /\ phase[w] = "idle" /\ batch[w] # <<>> /\ load[w].queued - 1 \in Nat
  BY IdleLoad DEF IInv, Due
<1>2. /\ load' \in [Workers -> [queued : Nat, active : Nat]]
      /\ \A v \in Workers \ {w} : load'[v] = load[v]
      /\ load'[w].queued = load[w].queued - 1 /\ load'[w].active = load[w].active + 1
  BY <1>1, BegunLoad
<1>3. Tallied(w)'
  BY <1>2, BegunTally
<1>4. /\ phase' \in [Workers -> {"idle", "executing", "stopped", "dead"}] /\ phase'[w] = "executing"
      /\ \A v \in Workers \ {w} : phase'[v] = phase[v]
  BY <1>1 DEF TypeOK
<1>5. TypeOK'
  BY <1>1, <1>2, <1>4 DEF TypeOK
<1>6. Calm
  BY <1>1, UnchangedCalm
<1>7. Sent(w)'
  BY <1>1 DEF WorkerInv, Sent
<1>8. Serves(w)'
  <2>1. Running(w) \in Calls /\ Running(w)' = Running(w)
    BY <1>1, RunningCall DEF Running
  <2>2. CallInv(Running(w))
    BY <2>1 DEF IInv
  <2> DEFINE h == call[Running(w)].handler
  <2>3. batch'[w] # <<>> /\ h \in Cached(w)'
    BY <1>1
  <2>4. call[Running(w)].pc = "waiting" => cache'[w].isolates[h].code = 0 \/ cache'[w].isolates[h].code \in call[Running(w)].current
    BY <2>2 DEF CallInv
  <2>5. QED
    BY <2>1, <2>3, <2>4 DEF Serves
<1>9. QED
  BY <1>2, <1>3, <1>4, <1>5, <1>6, <1>7, <1>8, CalmStep DEF WorkerInv, Undisturbed

LEMMA HitStep ==
  ASSUME IInv, NEW w \in Workers, Hit(w)
  PROVE  IInv'
<1> DEFINE h == call[Running(w)].handler
           r == [cache[w] EXCEPT !.lru = Append(Kept(@, {h}), h)]
<1>1. TypeOK /\ WorkerInv(w) /\ phase[w] = "idle" /\ batch[w] # <<>> /\ cache[w] \in Cache /\ h \in Handlers
  BY WorkerTypes, RunningCall DEF IInv, Hit, Due
<1>2. Due(w) /\ h \in Live(cache[w]) /\ cache[w].isolates[h].tag = source[h]
  BY DEF Hit, Valid, Cached
<1>3. Sound(cache[w])
  BY <1>1 DEF WorkerInv, Keeps
<1>4. cache' = [cache EXCEPT ![w] = r]
  BY DEF Hit
<1>5. r.isolates = cache[w].isolates
  BY <1>1 DEF Cache
<1>6. r \in Cache /\ Sound(r) /\ Live(r) = Live(cache[w]) /\ Len(r.lru) = Len(cache[w].lru)
  <2>1. PICK k : k = cache[w]
    OBVIOUS
  <2>2. k \in Cache /\ Sound(k) /\ h \in Live(k) /\ r = [k EXCEPT !.lru = Append(Kept(@, {h}), h)]
    BY <1>1, <1>2, <1>3, <2>1
  <2> HIDE DEF r
  <2>3. QED
    BY ONLY <2>1, <2>2, TouchedSound
<1> HIDE DEF r
<1>7. cache' \in [Workers -> Cache] /\ cache'[w] = r /\ \A v \in Workers \ {w} : cache'[v] = cache[v]
  BY <1>1, <1>4, <1>6 DEF TypeOK
<1>8. Keeps(w)'
  BY <1>1, <1>6, <1>7 DEF WorkerInv, Keeps
<1>9. UNCHANGED source
  BY DEF Hit
<1>10. Dated(w)'
  BY <1>1, <1>5, <1>7, <1>9 DEF WorkerInv, Dated
<1>11. h \in Cached(w)'
  BY <1>2, <1>6, <1>7 DEF Cached
<1>12. cache'[w].isolates[h].code = 0 \/ cache'[w].isolates[h].code = source[h]
  <2>1. /\ cache[w].isolates[h].code <= source[h]
        /\ cache[w].isolates[h].code = 0 \/ cache[w].isolates[h].tag <= cache[w].isolates[h].code
    BY <1>1 DEF WorkerInv, Dated
  <2>2. cache[w].isolates[h] \in Isolate
    BY <1>1, <1>2, CacheFields DEF Live
  <2>3. cache[w].isolates[h].code \in Nat /\ source[h] \in Nat
    BY <1>1, <2>2, WorkerTypes, ConstantsAssumption DEF Isolate
  <2>4. QED
    BY <1>2, <1>5, <1>7, <2>1, <2>3
<1>13. /\ UNCHANGED <<call, queue, batch, source, command, issued>>
       /\ phase' = [phase EXCEPT ![w] = "executing"]
       /\ load' = [Uncounted(w) EXCEPT ![w].active = @ + 1]
  BY DEF Hit
<1>14. QED
  BY <1>2, <1>7, <1>8, <1>10, <1>11, <1>12, <1>13, BeginStep

LEMMA ConcatElements ==
  ASSUME NEW A, NEW s \in Seq(A), NEW t \in Seq(A)
  PROVE  Elements(s \o t) = Elements(s) \cup Elements(t)
<1> DEFINE u == s \o t
<1>1. /\ u \in Seq(A) /\ Len(u) = Len(s) + Len(t)
      /\ \A i \in 1 .. Len(s) + Len(t) : u[i] = IF i <= Len(s) THEN s[i] ELSE t[i - Len(s)]
      /\ Len(s) \in Nat /\ Len(t) \in Nat
  BY ConcatProperties, LenProperties
<1>2. DOMAIN u = 1 .. Len(s) + Len(t) /\ DOMAIN s = 1 .. Len(s) /\ DOMAIN t = 1 .. Len(t)
  BY <1>1, LenProperties
<1> HIDE DEF u
<1>3. ASSUME NEW i \in DOMAIN s
      PROVE  i \in DOMAIN u /\ u[i] = s[i]
  BY <1>1, <1>2
<1>4. ASSUME NEW i \in DOMAIN t
      PROVE  Len(s) + i \in DOMAIN u /\ u[Len(s) + i] = t[i]
  BY <1>1, <1>2
<1>5. ASSUME NEW i \in DOMAIN u
      PROVE  (i \in DOMAIN s /\ u[i] = s[i]) \/ (i - Len(s) \in DOMAIN t /\ u[i] = t[i - Len(s)])
  BY <1>1, <1>2
<1>6. Elements(u) = Elements(s) \cup Elements(t)
  BY <1>3, <1>4, <1>5 DEF Elements
<1>7. QED
  BY <1>6 DEF u

\* What a miss drops makes room for one isolate of the handler.
LEMMA DisplacedRoom ==
  ASSUME IInv, NEW w \in Workers, NEW h \in Handlers,
         NEW L, L = Live(cache[w]) \ Elements(Displaced(w, h))
  PROVE  /\ h \notin L /\ IsFiniteSet(L)
         /\ MaxIsolates > 0 => Cardinality(L) < MaxIsolates
<1> DEFINE all == Live(cache[w])
           others == Kept(cache[w].lru, {h})
           full == MaxIsolates > 0 /\ Cardinality(Cached(w) \ {h}) >= MaxIsolates
           s == IF h \in Cached(w) THEN <<h>> ELSE <<>>
           t == IF full /\ others # <<>> THEN <<Head(others)>> ELSE <<>>
<1>1. cache[w] \in Cache /\ Keeps(w) /\ MaxIsolates \in Nat
  BY WorkerTypes, ConstantsAssumption DEF IInv, WorkerInv
<1>2. cache[w].lru \in Seq(Handlers) /\ Elements(cache[w].lru) = all /\ Distinct(cache[w].lru) /\ Cached(w) = all
  BY <1>1, CacheFields DEF Keeps, Sound, Cached
<1>3. IsFiniteSet(all) /\ Cardinality(all) = Len(cache[w].lru)
  BY <1>2, DistinctLength
<1>4. others \in Seq(Handlers) /\ Elements(others) = all \ {h}
  BY <1>2, KeptSelects
<1>5. others # <<>> => Head(others) \in all \ {h} /\ Head(others) \in Handlers
  <2> HIDE DEF others
  <2>1. SUFFICES ASSUME others # <<>>
                 PROVE  Head(others) \in all \ {h}
    BY <1>4 DEF Live
  <2>2. Head(others) = others[1] /\ 1 \in DOMAIN others
    BY <1>4, <2>1
  <2>3. QED
    BY <1>4, <2>2 DEF Elements
<1>6. others = <<>> => all \ {h} = {}
  BY <1>4, EmptyElements
<1>7. Displaced(w, h) = s \o t
  BY DEF Displaced
<1> HIDE DEF others
<1>8. s \in Seq(Handlers) /\ t \in Seq(Handlers)
  BY <1>5
<1>9. Elements(s) = (IF h \in all THEN {h} ELSE {}) /\ Elements(t) = (IF full /\ others # <<>> THEN {Head(others)} ELSE {})
  <2>1. \A x : Elements(<<x>>) = {x}
    BY DEF Elements
  <2>2. QED
    BY <1>2, <2>1, EmptyElements
<1> HIDE DEF s, t
<1>10. Elements(Displaced(w, h)) = Elements(s) \cup Elements(t)
  BY <1>7, <1>8, ConcatElements
<1> HIDE DEF all
<1>11. L = (all \ {h}) \ Elements(t)
  BY <1>9, <1>10 DEF all
<1>12. IsFiniteSet(all \ {h}) /\ Cardinality(all \ {h}) \in Nat /\ Cardinality(all \ {h}) <= Cardinality(all)
  <2>1. all \ {h} \in SUBSET all
    OBVIOUS
  <2>2. QED
    BY <1>3, <2>1, FS_Subset, FS_CardinalityType
<1>13. IsFiniteSet(L)
  <2>1. L \in SUBSET (all \ {h})
    BY <1>11
  <2>2. QED
    BY <1>12, <2>1, FS_Subset
<1>14. ASSUME MaxIsolates > 0
       PROVE  Cardinality(L) < MaxIsolates
  <2>1. CASE full /\ others # <<>>
    <3>1. L = (all \ {h}) \ {Head(others)} /\ Head(others) \in all \ {h}
      BY <1>5, <1>9, <1>11, <2>1
    <3>2. Cardinality(L) = Cardinality(all \ {h}) - 1
      <4>1. PICK A, x, B : A = all \ {h} /\ x = Head(others) /\ B = L
        OBVIOUS
      <4>2. IsFiniteSet(A) /\ x \in A /\ B = A \ {x}
        BY <1>12, <3>1, <4>1
      <4>3. Cardinality(B) = Cardinality(A) - 1
        BY ONLY <4>2, FS_RemoveElement
      <4>4. QED
        BY <4>1, <4>3
    <3>3. Cardinality(all) <= MaxIsolates
      BY <1>1, <1>3, <1>14 DEF Keeps
    <3>4. Cardinality(all) \in Nat
      BY <1>3, FS_CardinalityType
    <3>5. QED
      BY <1>1, <1>12, <3>2, <3>3, <3>4
  <2>2. CASE ~full
    <3>1. L = all \ {h}
      BY <1>9, <1>11, <2>2
    <3>2. Cached(w) \ {h} = L
      BY <1>2, <3>1
    <3>3. ~(Cardinality(L) >= MaxIsolates)
      BY <1>14, <2>2, <3>2
    <3>4. Cardinality(L) \in Nat
      BY <1>12, <3>1
    <3>5. QED
      BY <1>1, <3>3, <3>4
  <2>3. CASE full /\ others = <<>>
    <3>1. Cardinality(all \ {h}) = 0
      BY <1>6, <2>3, FS_EmptySet
    <3>2. QED
      BY <1>1, <1>2, <1>14, <2>3, <3>1
  <2>4. QED
    BY <2>1, <2>2, <2>3
<1>15. QED
  BY <1>11, <1>13, <1>14

LEMMA MissStep ==
  ASSUME IInv, NEW w \in Workers, Miss(w)
  PROVE  IInv'
<1> DEFINE h == call[Running(w)].handler
           D == Elements(Displaced(w, h))
           rest == Without(cache[w], D)
           i == [tag |-> source[h], code |-> 0]
           r == [isolates |-> [rest.isolates EXCEPT ![h] = i],
                 lru |-> Append(rest.lru, h),
                 created |-> Append(rest.created, h),
                 entered |-> Append(rest.entered, h)]
<1>1. TypeOK /\ WorkerInv(w) /\ Due(w) /\ phase[w] = "idle" /\ batch[w] # <<>>
  BY DEF IInv, Miss, Due
<1>2. cache[w] \in Cache /\ h \in Handlers /\ Running(w) \in Calls /\ source[h] \in Version /\ source[h] \in Nat
  BY <1>1, WorkerTypes, RunningCall
<1>3. /\ rest \in Cache /\ Sound(rest) /\ Live(rest) = Live(cache[w]) \ D
      /\ \A g \in Handlers : rest.isolates[g] = IF g \in D THEN NoIsolate ELSE cache[w].isolates[g]
  <2>1. Sound(cache[w])
    BY <1>1 DEF WorkerInv, Keeps
  <2> HIDE DEF D
  <2>2. QED
    BY <1>2, <2>1, WithoutFields, WithoutSound
<1>4. /\ h \notin Live(rest) /\ IsFiniteSet(Live(rest))
      /\ MaxIsolates > 0 => Cardinality(Live(rest)) < MaxIsolates
  <2> HIDE DEF rest, h
  <2>1. QED
    BY <1>2, <1>3, DisplacedRoom
<1>5. CASE /\ cache' = [cache EXCEPT ![w] = r]
           /\ phase' = [phase EXCEPT ![w] = "executing"]
           /\ load' = [Uncounted(w) EXCEPT ![w].active = @ + 1]
           /\ UNCHANGED <<call, queue, batch, source, command, issued>>
  <2>1. i \in Isolate /\ i.tag = source[h] /\ i.code = 0 /\ i # NoIsolate
    BY <1>2, ConstantsAssumption DEF Isolate, Version, NoIsolate
  <2> HIDE DEF i
  <2>2. r \in Cache /\ Sound(r) /\ Live(r) = Live(rest) \cup {h}
    <3> HIDE DEF rest, h
    <3>1. QED
      BY <1>2, <1>3, <1>4, <2>1, CreatedSound
  <2>3. \A g \in Handlers : r.isolates[g] = IF g = h THEN i ELSE rest.isolates[g]
    BY <1>3, CacheFields
  <2> HIDE DEF r
  <2>4. /\ cache' \in [Workers -> Cache] /\ cache'[w] = r
        /\ \A v \in Workers \ {w} : cache'[v] = cache[v]
    BY <1>1, <1>5, <2>2 DEF TypeOK
  <2>5. Len(r.lru) = Cardinality(Live(r)) /\ IsFiniteSet(Live(r))
    BY <2>2, CacheFields, DistinctLength DEF Sound
  <2>6. Cardinality(Live(r)) = Cardinality(Live(rest)) + 1
    BY <1>4, <2>2, FS_AddElement
  <2>7. Cardinality(Live(rest)) \in Nat /\ MaxIsolates \in Nat
    BY <1>4, FS_CardinalityType, ConstantsAssumption
  <2>8. Keeps(w)'
    BY <1>4, <2>2, <2>4, <2>5, <2>6, <2>7 DEF Keeps
  <2>9. Dated(w)'
    <3> SUFFICES ASSUME NEW g \in Handlers
                 PROVE  LET x == cache'[w].isolates[g]
                        IN  x.tag <= source[g] /\ x.code <= source[g] /\ (x.code = 0 \/ x.tag <= x.code)
      BY <1>5 DEF Dated
    <3>1. source[g] \in Nat /\ NoIsolate.tag = 0 /\ NoIsolate.code = 0
      BY <1>1, WorkerTypes DEF NoIsolate
    <3>2. CASE g = h
      BY <2>1, <2>3, <2>4, <3>1, <3>2
    <3>3. CASE g # h
      <4>1. cache'[w].isolates[g] = NoIsolate \/ cache'[w].isolates[g] = cache[w].isolates[g]
        BY <1>3, <2>3, <2>4, <3>3
      <4>2. QED
        BY <1>1, <3>1, <4>1 DEF WorkerInv, Dated
    <3>4. QED
      BY <3>2, <3>3
  <2>10. h \in Cached(w)' /\ cache'[w].isolates[h].code = 0
    BY <1>2, <2>1, <2>2, <2>3, <2>4 DEF Cached
  <2> HIDE DEF h
  <2>11. QED
    BY <1>1, <1>5, <2>4, <2>8, <2>9, <2>10, BeginStep DEF h
<1>6. CASE /\ cache' = [cache EXCEPT ![w] = rest]
           /\ load' = Uncounted(w)
           /\ call' = Answered(Running(w), "failed", 0)
           /\ batch' = [batch EXCEPT ![w] = Tail(@)]
           /\ UNCHANGED <<queue, phase, source, command, issued>>
  <2>1. Calm
    BY <1>1, <1>2, <1>6, AnsweredCalm
  <2>2. /\ load' \in [Workers -> [queued : Nat, active : Nat]]
        /\ \A v \in Workers \ {w} : load'[v] = load[v]
        /\ Tallied(w)'
    BY <1>1, <1>6, <2>1, ShedLoad
  <2>3. /\ batch' \in [Workers -> Seq(Calls)]
        /\ \A v \in Workers \ {w} : batch'[v] = batch[v]
        /\ Elements(batch'[w]) \subseteq Elements(batch[w])
    BY <1>1, <1>6, TailBatch
  <2>4. /\ cache' \in [Workers -> Cache] /\ Keeps(w)' /\ Dated(w)'
        /\ \A v \in Workers \ {w} : cache'[v] = cache[v]
    BY <1>6, WithoutKeeps
  <2>5. TypeOK'
    BY <1>1, <1>6, <2>1, <2>2, <2>3, <2>4 DEF TypeOK, Calm
  <2>6. Sent(w)'
    BY <1>6, <2>1, <2>3, CalmSent
  <2>7. Serves(w)'
    BY <1>1, <1>6 DEF Serves
  <2>8. QED
    BY <1>6, <2>1, <2>2, <2>3, <2>4, <2>5, <2>6, <2>7, CalmStep DEF WorkerInv, Undisturbed
<1>7. CASE load' = Uncounted(w) /\ Panic(w)
  BY <1>1, <1>7, IdleLoad, UncountedLoad, PanicStep
<1>8. QED
  BY <1>5, <1>6, <1>7 DEF Miss, Created

LEMMA LoadHandlerStep ==
  ASSUME IInv, NEW w \in Workers, LoadHandler(w)
  PROVE  IInv'
<1> DEFINE h == call[Running(w)].handler
           r == Loaded(cache[w], h, source[h])
<1>1. /\ TypeOK /\ WorkerInv(w) /\ phase[w] = "executing"
      /\ UNCHANGED <<call, queue, batch, phase, load, source, command, issued>>
  BY DEF IInv, LoadHandler
<1>2. batch[w] # <<>> /\ h \in Cached(w)
  BY <1>1 DEF WorkerInv, Serves
<1>3. cache[w] \in Cache /\ Sound(cache[w]) /\ h \in Live(cache[w]) /\ h \in Handlers /\ source[h] \in Version /\ source[h] \in Nat
  BY <1>1, <1>2, WorkerTypes DEF WorkerInv, Keeps, Cached, Live
<1>4. cache' = [cache EXCEPT ![w] = r]
  BY DEF LoadHandler, Loaded
<1>5. /\ r \in Cache /\ Sound(r) /\ Live(r) = Live(cache[w]) /\ r.lru = cache[w].lru
      /\ r.isolates[h].tag = cache[w].isolates[h].tag /\ r.isolates[h].code = source[h]
      /\ \A g \in Handlers \ {h} : r.isolates[g] = cache[w].isolates[g]
  <2>1. PICK k, v : k = cache[w] /\ v = source[h]
    OBVIOUS
  <2>2. /\ k \in Cache /\ Sound(k) /\ h \in Live(k) /\ h \in Handlers
        /\ v \in Version /\ r = Loaded(k, h, v)
    BY <1>3, <2>1
  <2> HIDE DEF r
  <2>3. QED
    BY <2>1, <2>2, LoadedSound
<1> HIDE DEF r
<1>6. cache' \in [Workers -> Cache] /\ cache'[w] = r /\ \A v \in Workers \ {w} : cache'[v] = cache[v]
  BY <1>1, <1>4, <1>5 DEF TypeOK
<1>7. TypeOK' /\ Calm
  BY <1>1, <1>6, UnchangedCalm DEF TypeOK
<1>8. Keeps(w)'
  BY <1>1, <1>5, <1>6 DEF WorkerInv, Keeps
<1>9. Sent(w)'
  BY <1>1 DEF WorkerInv, Sent
<1>10. Tallied(w)'
  BY <1>1, <1>7, CalmComing DEF WorkerInv, Tallied, Busy, Alive
<1>11. Dated(w)'
  <2> SUFFICES ASSUME NEW g \in Handlers
               PROVE  LET x == cache'[w].isolates[g]
                      IN  x.tag <= source[g] /\ x.code <= source[g] /\ (x.code = 0 \/ x.tag <= x.code)
    BY <1>1 DEF Dated
  <2>1. Dated(w)
    BY <1>1 DEF WorkerInv
  <2>2. CASE g = h
    <3>1. cache[w].isolates[h].tag <= source[h]
      BY <1>3, <2>1 DEF Dated
    <3>2. QED
      BY <1>3, <1>5, <1>6, <2>2, <3>1
  <2>3. CASE g # h
    BY <1>5, <1>6, <2>1, <2>3 DEF Dated
  <2>4. QED
    BY <2>2, <2>3
<1>12. Serves(w)'
  <2>1. Running(w) \in Calls /\ Running(w)' = Running(w)
    BY <1>1, <1>2, RunningCall DEF Running
  <2>2. CallInv(Running(w))
    BY <2>1 DEF IInv
  <2>3. h \in Cached(w)'
    BY <1>3, <1>5, <1>6 DEF Cached
  <2>4. call[Running(w)].pc = "waiting" => cache'[w].isolates[h].code \in call[Running(w)].current
    BY <1>5, <1>6, <2>2 DEF CallInv
  <2>5. QED
    BY <1>1, <1>2, <2>1, <2>3, <2>4 DEF Serves
<1>13. QED
  BY <1>1, <1>6, <1>7, <1>8, <1>9, <1>10, <1>11, <1>12, CalmStep DEF WorkerInv, Undisturbed

LEMMA RunsWithin ==
  ASSUME IInv, NEW w \in Workers, phase[w] = "executing"
  PROVE  /\ batch[w] # <<>> /\ Running(w) \in Calls
         /\ LET code == cache[w].isolates[call[Running(w)].handler].code
            IN  /\ code \in 0 .. MaxVersion
                /\ call[Running(w)].pc = "waiting" /\ code # 0 => code \in call[Running(w)].current
<1> DEFINE h == call[Running(w)].handler
<1>1. TypeOK /\ Serves(w)
  BY DEF IInv, WorkerInv
<1>2. batch[w] # <<>> /\ h \in Cached(w)
  BY <1>1 DEF Serves
<1>3. Running(w) \in Calls /\ h \in Handlers
  BY <1>1, <1>2, RunningCall
<1>4. cache[w].isolates[h] \in Isolate
  BY <1>1, <1>2, WorkerTypes, CacheFields DEF Cached, Live
<1>5. cache[w].isolates[h].code \in 0 .. MaxVersion
  BY <1>4 DEF Isolate
<1>6. QED
  BY <1>1, <1>2, <1>3, <1>5 DEF Serves

\* Complete and Fail end a request and keep its isolate.
LEMMA EndStep ==
  ASSUME IInv, NEW w \in Workers, NEW answer, phase[w] = "executing",
         Idle(w, answer), Calm, UNCHANGED cache
  PROVE  IInv'
<1>1. TypeOK /\ WorkerInv(w) /\ UNCHANGED <<queue, source, command, issued>>
  BY DEF IInv, Idle
<1>2. /\ load' \in [Workers -> [queued : Nat, active : Nat]]
      /\ \A v \in Workers \ {w} : load'[v] = load[v]
      /\ batch' \in [Workers -> Seq(Calls)]
      /\ \A v \in Workers \ {w} : batch'[v] = batch[v] /\ phase'[v] = phase[v]
      /\ phase' \in [Workers -> {"idle", "executing", "stopped", "dead"}]
      /\ Tallied(w)' /\ Sent(w)' /\ Serves(w)'
  BY IdleStep
<1>3. TypeOK'
  BY <1>1, <1>2 DEF TypeOK, Calm
<1>4. Keeps(w)' /\ Dated(w)'
  BY <1>1 DEF WorkerInv, Keeps, Dated
<1>5. QED
  BY <1>1, <1>2, <1>3, <1>4, CalmStep DEF WorkerInv, Undisturbed

LEMMA CompleteStep ==
  ASSUME IInv, NEW w \in Workers, Complete(w)
  PROVE  IInv'
<1> DEFINE code == cache[w].isolates[call[Running(w)].handler].code
<1>1. phase[w] = "executing" /\ code # 0 /\ Idle(w, Answered(Running(w), "answered", code)) /\ UNCHANGED cache
  BY DEF Complete, Returns
<1>2. TypeOK /\ Running(w) \in Calls /\ code \in 0 .. MaxVersion /\ (call[Running(w)].pc = "waiting" => code \in call[Running(w)].current)
  BY <1>1, RunsWithin DEF IInv
<1>3. call' = Answered(Running(w), "answered", code) /\ UNCHANGED source
  BY <1>1 DEF Idle
<1> HIDE DEF code
<1>4. Calm
  BY <1>2, <1>3, AnsweredCalm
<1>5. QED
  BY <1>1, <1>4, EndStep

LEMMA FailStep ==
  ASSUME IInv, NEW w \in Workers, Fail(w)
  PROVE  IInv'
<1>1. phase[w] = "executing" /\ Idle(w, Answered(Running(w), "failed", 0)) /\ UNCHANGED cache
  BY DEF Fail, Returns
<1>2. TypeOK /\ Running(w) \in Calls
  BY <1>1, RunsWithin DEF IInv
<1>3. call' = Answered(Running(w), "failed", 0) /\ UNCHANGED source
  BY <1>1 DEF Idle
<1>4. Calm
  BY <1>2, <1>3, AnsweredCalm
<1>5. QED
  BY <1>1, <1>4, EndStep

LEMMA TimeOutStep ==
  ASSUME IInv, NEW w \in Workers, TimeOut(w)
  PROVE  IInv'
<1> DEFINE h == call[Running(w)].handler
<1>1. TypeOK /\ WorkerInv(w) /\ phase[w] = "executing" /\ Running(w) \in Calls
  BY RunsWithin DEF IInv, TimeOut, Returns
<1>2. CASE /\ Idle(w, Answered(Running(w), "failed", 0))
           /\ cache' = [cache EXCEPT ![w] = ForgetTimedOut(w, h)]
  <2>1. call' = Answered(Running(w), "failed", 0) /\ UNCHANGED <<queue, source, command, issued>>
    BY <1>2 DEF Idle
  <2>2. Calm
    BY <1>1, <2>1, AnsweredCalm
  <2>3. /\ load' \in [Workers -> [queued : Nat, active : Nat]]
        /\ \A v \in Workers \ {w} : load'[v] = load[v]
        /\ batch' \in [Workers -> Seq(Calls)]
        /\ \A v \in Workers \ {w} : batch'[v] = batch[v] /\ phase'[v] = phase[v]
        /\ phase' \in [Workers -> {"idle", "executing", "stopped", "dead"}]
        /\ Tallied(w)' /\ Sent(w)' /\ Serves(w)'
    BY <1>1, <1>2, <2>2, IdleStep
  <2>4. /\ cache' \in [Workers -> Cache] /\ Keeps(w)' /\ Dated(w)'
        /\ \A v \in Workers \ {w} : cache'[v] = cache[v]
    BY <1>2, <2>1, WithoutKeeps DEF ForgetTimedOut
  <2>5. TypeOK'
    BY <1>1, <2>1, <2>2, <2>3, <2>4 DEF TypeOK, Calm
  <2>6. QED
    BY <2>1, <2>2, <2>3, <2>4, <2>5, CalmStep DEF WorkerInv, Undisturbed
<1>3. CASE load' = [load EXCEPT ![w].active = @ - 1] /\ Panic(w)
  <2>1. load \in [Workers -> [queued : Nat, active : Nat]] /\ load[w].active = 1
    BY <1>1 DEF TypeOK, WorkerInv, Tallied, Alive, Busy
  <2>2. [load[w] EXCEPT !.active = @ - 1] \in [queued : Nat, active : Nat]
    BY <2>1
  <2>3. load' = [load EXCEPT ![w] = [load[w] EXCEPT !.active = @ - 1]]
    BY <1>3, <2>1
  <2>4. load' \in [Workers -> [queued : Nat, active : Nat]] /\ \A v \in Workers \ {w} : load'[v] = load[v]
    BY <2>1, <2>2, <2>3
  <2>5. QED
    BY <1>3, <2>4, PanicStep
<1>4. QED
  BY <1>2, <1>3 DEF TimeOut

LEMMA RepliedType ==
  ASSUME TypeOK, NEW w \in Workers
  PROVE  Replied(w) \in [op : {"none", "evict_all", "evict_by_prefix", "kill", "shutdown"},
                         handlers : SUBSET Handlers, pending : SUBSET Workers]
BY DEF TypeOK, Replied

LEMMA EvictStep ==
  ASSUME IInv, NEW w \in Workers, Evict(w)
  PROVE  IInv'
<1> DEFINE S == Cached(w) \cap command.handlers
<1>1. TypeOK /\ WorkerInv(w) /\ phase[w] = "idle"
  BY DEF IInv, Evict, Receives
<1>2. CASE /\ cache' = [cache EXCEPT ![w] = Without(@, S)]
           /\ command' = Replied(w)
           /\ UNCHANGED <<call, queue, batch, phase, load, source, issued>>
  <2>1. cache' = [cache EXCEPT ![w] = Without(cache[w], S)]
    BY <1>2
  <2>2. /\ cache' \in [Workers -> Cache] /\ Keeps(w)' /\ Dated(w)'
        /\ \A v \in Workers \ {w} : cache'[v] = cache[v]
    <3> HIDE DEF S
    <3>1. QED
      BY <1>2, <2>1, WithoutKeeps
  <2>3. Calm
    BY <1>1, <1>2, UnchangedCalm
  <2>4. TypeOK'
    BY <1>1, <1>2, <2>2, RepliedType DEF TypeOK
  <2>5. Sent(w)' /\ Serves(w)'
    BY <1>1, <1>2 DEF WorkerInv, Sent, Serves
  <2>6. Tallied(w)'
    BY <1>1, <1>2, <2>3, CalmComing DEF WorkerInv, Tallied, Busy, Alive
  <2>7. QED
    BY <1>2, <2>2, <2>3, <2>4, <2>5, <2>6, CalmStep DEF WorkerInv, Undisturbed
<1>3. CASE Panic(w) /\ UNCHANGED load
  BY <1>1, <1>3, PanicStep DEF TypeOK
<1>4. QED
  BY <1>2, <1>3 DEF Evict

LEMMA DisposeAllStep ==
  ASSUME IInv, NEW w \in Workers, DisposeAll(w)
  PROVE  IInv' /\ phase'[w] # "dead"
<1>1. TypeOK /\ WorkerInv(w) /\ phase[w] = "idle" /\ batch[w] = <<>>
  BY DEF IInv, DisposeAll, Receives
<1>2. DisposedInReverse(cache[w])
  BY <1>1 DEF WorkerInv, Keeps, Sound
<1>3. /\ cache' = [cache EXCEPT ![w] = NoCache] /\ command' = Replied(w)
      /\ UNCHANGED <<call, batch, load, source, issued>>
  BY <1>2 DEF DisposeAll
<1>4. \/ phase' = [phase EXCEPT ![w] = "stopped"] /\ queue' = [queue EXCEPT ![w] = <<>>]
      \/ UNCHANGED <<phase, queue>>
  BY <1>2 DEF DisposeAll
<1>5. /\ phase' \in [Workers -> {"idle", "executing", "stopped", "dead"}]
      /\ phase'[w] = "stopped" \/ (phase'[w] = "idle" /\ queue' = queue)
      /\ queue' \in [Workers -> Seq(Calls)]
      /\ Elements(queue'[w]) \subseteq Elements(queue[w])
      /\ \A v \in Workers \ {w} : queue'[v] = queue[v] /\ phase'[v] = phase[v]
  BY <1>1, <1>4, EmptyElements DEF TypeOK
<1>6. /\ cache' \in [Workers -> Cache] /\ Keeps(w)' /\ Dated(w)'
      /\ \A v \in Workers \ {w} : cache'[v] = cache[v]
  BY <1>3, EmptyKeeps
<1>7. Calm
  BY <1>1, <1>3, UnchangedCalm
<1>8. TypeOK'
  BY <1>1, <1>3, <1>5, <1>6, RepliedType DEF TypeOK
<1>9. Sent(w)'
  BY <1>3, <1>5, <1>7, CalmSent
<1>10. Tallied(w)'
  BY <1>1, <1>3, <1>5, <1>7, CalmComing DEF WorkerInv, Tallied, Alive, Busy
<1>11. Serves(w)'
  BY <1>5 DEF Serves
<1>12. IInv'
  BY <1>3, <1>5, <1>6, <1>7, <1>8, <1>9, <1>10, <1>11, CalmStep DEF WorkerInv, Undisturbed
<1>13. QED
  BY <1>5, <1>12

-----------------------------------------------------------------------------
(* The steps of the callers and of the administrator.                      *)

LEMMA CancelStep ==
  ASSUME IInv, NEW c \in Calls, Cancel(c)
  PROVE  IInv'
<1>1. TypeOK /\ UNCHANGED <<queue, batch, phase, cache, load, source, command, issued>>
  BY DEF IInv, Cancel
<1>2. Calm
  <2>1. call \in [Calls -> Call] /\ call[c].pc = "waiting" /\ call' = [call EXCEPT ![c] = [call[c] EXCEPT !.pc = "dropped"]]
    BY <1>1 DEF TypeOK, Cancel
  <2>2. /\ [call[c] EXCEPT !.pc = "dropped"] \in Call
        /\ [call[c] EXCEPT !.pc = "dropped"].pc = "dropped"
        /\ [call[c] EXCEPT !.pc = "dropped"].worker = call[c].worker
        /\ [call[c] EXCEPT !.pc = "dropped"].handler = call[c].handler
        /\ [call[c] EXCEPT !.pc = "dropped"].current = call[c].current
    BY <2>1 DEF Call
  <2>3. call' \in [Calls -> Call] /\ call'[c] = [call[c] EXCEPT !.pc = "dropped"] /\ \A d \in Calls \ {c} : call'[d] = call[d]
    BY <2>1, <2>2
  <2>4. QED
    BY <1>1, <2>1, <2>2, <2>3 DEF Calm, Settles
<1>3. TypeOK'
  BY <1>1, <1>2 DEF TypeOK, Calm
<1>4. \A v \in Workers : Undisturbed(v)
  BY <1>1 DEF Undisturbed
<1>5. QED
  BY <1>2, <1>3, <1>4, CalmOthers, CalmCalls DEF IInv

LEMMA IssueStep ==
  ASSUME IInv, NEW op \in {"evict_all", "evict_by_prefix", "kill", "shutdown"},
         NEW handlers \in SUBSET Handlers, NEW targets \in SUBSET Workers,
         Issue(op, handlers, targets)
  PROVE  IInv'
<1>1. TypeOK /\ UNCHANGED <<call, queue, batch, phase, cache, load, source>>
  BY DEF IInv, Issue
<1>2. TypeOK'
  <2>1. issued' \in 0 .. MaxCommands
    BY <1>1, ConstantsAssumption DEF TypeOK, Issue
  <2>2. {w \in targets : Alive(w)} \in SUBSET Workers
    OBVIOUS
  <2>3. command' \in [op : {"none", "evict_all", "evict_by_prefix", "kill", "shutdown"},
                      handlers : SUBSET Handlers, pending : SUBSET Workers]
    BY <2>2 DEF Issue
  <2>4. QED
    BY <1>1, <2>1, <2>3 DEF TypeOK
<1>3. Calm /\ \A v \in Workers : Undisturbed(v)
  BY <1>1, UnchangedCalm DEF Undisturbed
<1>4. QED
  BY <1>2, <1>3, CalmOthers, CalmCalls DEF IInv

\* A call that is not yet waiting moves on towards its worker.
LEMMA MovedCall ==
  ASSUME TypeOK, NEW c \in Calls, NEW p \in {"counted", "failed"}, call' = [call EXCEPT ![c].pc = p]
  PROVE  /\ call' \in [Calls -> Call]
         /\ call'[c].pc = p /\ call'[c].worker = call[c].worker /\ call'[c].handler = call[c].handler
         /\ \A d \in Calls \ {c} : call'[d] = call[d]
<1>1. call \in [Calls -> Call] /\ call' = [call EXCEPT ![c] = [call[c] EXCEPT !.pc = p]]
  BY DEF TypeOK
<1>2. /\ [call[c] EXCEPT !.pc = p] \in Call
      /\ [call[c] EXCEPT !.pc = p].pc = p
      /\ [call[c] EXCEPT !.pc = p].worker = call[c].worker
      /\ [call[c] EXCEPT !.pc = p].handler = call[c].handler
  BY <1>1 DEF Call
<1>3. QED
  BY <1>1, <1>2

\* Nothing a worker has is about a call that was not sent.
LEMMA NotRunning ==
  ASSUME IInv, NEW c \in Calls, call[c].pc \in {"new", "selected", "counted"}, NEW w \in Workers
  PROVE  /\ c \notin Elements(queue[w]) \cup Elements(batch[w])
         /\ phase[w] = "executing" => Running(w) \in Calls \ {c}
<1>1. TypeOK /\ Sent(w) /\ Serves(w)
  BY DEF IInv, WorkerInv
<1>2. c \notin Elements(queue[w]) \cup Elements(batch[w])
  BY <1>1 DEF Sent
<1>3. phase[w] = "executing" => Running(w) \in Calls /\ Running(w) \in Elements(batch[w])
  BY <1>1, RunningCall DEF Serves
<1>4. QED
  BY <1>2, <1>3

\* A call that is not yet waiting moves, and the others do not.
LEMMA EarlyCall ==
  ASSUME IInv, NEW c \in Calls, call[c].pc \in {"new", "selected", "counted"},
         call' \in [Calls -> Call], \A d \in Calls \ {c} : call'[d] = call[d],
         call'[c].pc \in {"selected", "counted", "failed"},
         UNCHANGED <<queue, batch, phase, cache, source>>
  PROVE  /\ \A d \in Calls : CallInv(d)'
         /\ \A v \in Workers : Keeps(v)' /\ Sent(v)' /\ Dated(v)' /\ Serves(v)'
<1>1. \A d \in Calls : CallInv(d)'
  <2> SUFFICES ASSUME NEW d \in Calls
               PROVE  CallInv(d)'
    OBVIOUS
  <2>1. CallInv(d)
    BY DEF IInv
  <2>2. CASE d = c
    BY <2>2 DEF CallInv
  <2>3. CASE d # c
    <3>1. call'[d] = call[d]
      BY <2>3
    <3>2. QED
      BY <2>1, <3>1 DEF CallInv
  <2>4. QED
    BY <2>2, <2>3
<1>2. ASSUME NEW v \in Workers
      PROVE  Keeps(v)' /\ Sent(v)' /\ Dated(v)' /\ Serves(v)'
  <2>1. WorkerInv(v) /\ TypeOK
    BY DEF IInv
  <2>2. c \notin Elements(queue[v]) \cup Elements(batch[v]) /\ (phase[v] = "executing" => Running(v) \in Calls \ {c})
    BY NotRunning
  <2>3. Keeps(v)' /\ Dated(v)'
    BY <2>1 DEF WorkerInv, Keeps, Dated
  <2>4. Sent(v)'
    <3>1. Elements(queue[v]) \cup Elements(batch[v]) \subseteq Calls
      BY <2>1, ElementTypes
    <3>2. QED
      BY <2>1, <2>2, <3>1 DEF WorkerInv, Sent
  <2>5. Serves(v)'
    <3> SUFFICES ASSUME phase[v] = "executing"
                 PROVE  Serves(v)'
      BY DEF Serves
    <3>1. Running(v)' = Running(v) /\ call'[Running(v)] = call[Running(v)] /\ Cached(v)' = Cached(v)
      BY <2>2 DEF Running, Cached
    <3>2. QED
      BY <2>1, <3>1 DEF WorkerInv, Serves
  <2>6. QED
    BY <2>3, <2>4, <2>5
<1>3. QED
  BY <1>1, <1>2

LEMMA SelectStep ==
  ASSUME IInv, NEW c \in Calls, NEW h \in Handlers, Select(c, h)
  PROVE  IInv'
<1>1. /\ TypeOK /\ call[c].pc = "new"
      /\ UNCHANGED <<queue, batch, phase, cache, load, source, command, issued>>
  BY DEF IInv, Select
<1>2. PICK w \in SelectWorker(h) :
        call' = [call EXCEPT ![c].pc = "selected", ![c].worker = w, ![c].handler = h]
  BY DEF Select
<1>3. w \in Workers
  BY <1>2, ConstantsAssumption DEF SelectWorker
<1> DEFINE r == [[[call[c] EXCEPT !.pc = "selected"] EXCEPT !.worker = w] EXCEPT !.handler = h]
<1>4. call \in [Calls -> Call] /\ call' = [call EXCEPT ![c] = r]
  BY <1>1, <1>2 DEF TypeOK
<1>5. r \in Call /\ r.pc = "selected"
  BY <1>3, <1>4 DEF Call
<1> HIDE DEF r
<1>6. call' \in [Calls -> Call] /\ call'[c].pc = "selected" /\ \A d \in Calls \ {c} : call'[d] = call[d]
  BY <1>4, <1>5
<1>7. TypeOK'
  BY <1>1, <1>6 DEF TypeOK
<1>8. /\ \A d \in Calls : CallInv(d)'
      /\ \A v \in Workers : Keeps(v)' /\ Sent(v)' /\ Dated(v)' /\ Serves(v)'
  BY <1>1, <1>6, EarlyCall
<1>9. ASSUME NEW v \in Workers
      PROVE  Tallied(v)'
  <2>1. Coming(v)' = Coming(v)
    BY <1>1, <1>6 DEF Coming
  <2>2. Tallied(v)
    BY DEF IInv, WorkerInv
  <2>3. QED
    BY <1>1, <2>1, <2>2 DEF Tallied, Busy, Alive
<1>10. QED
  BY <1>7, <1>8, <1>9 DEF IInv, WorkerInv

LEMMA CountStep ==
  ASSUME IInv, NEW c \in Calls, Count(c)
  PROVE  IInv'
<1>1. /\ TypeOK /\ call[c].pc = "selected"
      /\ UNCHANGED <<queue, batch, phase, cache, source, command, issued>>
  BY DEF IInv, Count
<1>2. PICK w \in Workers : w = call[c].worker
  BY <1>1 DEF TypeOK, Call
<1>3. /\ call' \in [Calls -> Call] /\ call'[c].pc = "counted" /\ call'[c].worker = w
      /\ \A d \in Calls \ {c} : call'[d] = call[d]
  BY <1>1, <1>2, MovedCall DEF Count
<1>4. load \in [Workers -> [queued : Nat, active : Nat]] /\ load' = [load EXCEPT ![w] = [load[w] EXCEPT !.queued = @ + 1]]
  BY <1>1, <1>2 DEF Count, TypeOK
<1>5. /\ [load[w] EXCEPT !.queued = @ + 1] \in [queued : Nat, active : Nat]
      /\ [load[w] EXCEPT !.queued = @ + 1].queued = load[w].queued + 1
      /\ [load[w] EXCEPT !.queued = @ + 1].active = load[w].active
  BY <1>2, <1>4
<1>6. /\ load' \in [Workers -> [queued : Nat, active : Nat]]
      /\ load'[w].queued = load[w].queued + 1 /\ load'[w].active = load[w].active
      /\ \A v \in Workers \ {w} : load'[v] = load[v]
  BY <1>2, <1>4, <1>5
<1>7. TypeOK'
  BY <1>1, <1>3, <1>6 DEF TypeOK
<1>8. /\ \A d \in Calls : CallInv(d)'
      /\ \A v \in Workers : Keeps(v)' /\ Sent(v)' /\ Dated(v)' /\ Serves(v)'
  BY <1>1, <1>3, EarlyCall
<1>9. ASSUME NEW v \in Workers
      PROVE  Tallied(v)'
  <2>1. Tallied(v) /\ Cardinality(Coming(v)) \in Nat /\ Len(queue[v]) \in Nat /\ Len(batch[v]) \in Nat
    BY <1>1, FS_CardinalityType, ElementTypes DEF IInv, WorkerInv, Tallied
  <2>2. (Alive(v))' = Alive(v) /\ Busy(v)' = Busy(v) /\ Busy(v) \in Nat
    BY <1>1 DEF Alive, Busy
  <2>3. CASE v = w
    <3>1. Coming(w)' = Coming(w) \cup {c} /\ c \notin Coming(w)
      BY <1>1, <1>3 DEF Coming
    <3>2. IsFiniteSet(Coming(w)') /\ Cardinality(Coming(w)') = Cardinality(Coming(w)) + 1
      BY <2>1, <2>3, <3>1, FS_AddElement DEF Tallied
    <3>3. Alive(w) => /\ load[w].queued = Cardinality(Coming(w)) + Len(queue[w]) + Len(batch[w]) - Busy(w)
                      /\ load[w].active = Busy(w)
      BY <2>1, <2>3 DEF Tallied
    <3>4. Cardinality(Coming(w)) \in Nat /\ Len(queue[w]) \in Nat /\ Len(batch[w]) \in Nat /\ Busy(w) \in Nat
      BY <2>1, <2>2, <2>3
    <3>5. Alive(w) => /\ load'[w].queued = Cardinality(Coming(w)') + Len(queue[w]) + Len(batch[w]) - Busy(w)
                      /\ load'[w].active = Busy(w)
      <4>1. load'[w].queued = load[w].queued + 1 /\ load'[w].active = load[w].active /\ load[w].queued \in Nat
        BY <1>4, <1>6
      <4>2. Cardinality(Coming(w)') = Cardinality(Coming(w)) + 1
        BY <3>2
      <4> DEFINE q == Len(queue[w])
                 b == Len(batch[w])
      <4>3. /\ q \in Nat /\ b \in Nat
            /\ Alive(w) => load[w].queued = Cardinality(Coming(w)) + q + b - Busy(w) /\ load[w].active = Busy(w)
        BY <3>3, <3>4
      <4> HIDE DEF q, b
      <4>4. Alive(w) => load'[w].queued = Cardinality(Coming(w)') + q + b - Busy(w) /\ load'[w].active = Busy(w)
        BY <3>4, <4>1, <4>2, <4>3
      <4>5. QED
        BY <4>4 DEF q, b
    <3>6. (Alive(w))' = Alive(w) /\ Busy(w)' = Busy(w) /\ queue' = queue /\ batch' = batch
      BY <1>1, <2>2, <2>3
    <3>7. Tallied(w)'
      BY <3>2, <3>5, <3>6 DEF Tallied
    <3>8. QED
      BY <2>3, <3>7
  <2>4. CASE v # w
    <3>1. Coming(v)' = Coming(v)
      BY <1>1, <1>3, <2>4 DEF Coming
    <3>2. QED
      BY <1>1, <1>6, <2>1, <2>2, <2>4, <3>1 DEF Tallied
  <2>5. QED
    BY <2>3, <2>4
<1>10. QED
  BY <1>7, <1>8, <1>9 DEF IInv, WorkerInv

\* The worker's thread is gone: the count stays, for nobody.
LEMMA SendFails ==
  ASSUME IInv, NEW c \in Calls, Send(c), ~Alive(call[c].worker)
  PROVE  IInv'
<1> DEFINE w == call[c].worker
<1>1. /\ TypeOK /\ call[c].pc = "counted" /\ call' = [call EXCEPT ![c].pc = "failed"]
      /\ UNCHANGED <<queue, batch, phase, cache, load, source, command, issued>>
  BY DEF IInv, Send
<1>2. /\ call' \in [Calls -> Call] /\ call'[c].pc = "failed" /\ call'[c].worker = w
      /\ \A d \in Calls \ {c} : call'[d] = call[d]
  BY <1>1, MovedCall
<1>3. w \in Workers
  BY <1>1 DEF TypeOK, Call
<1>4. TypeOK'
  BY <1>1, <1>2 DEF TypeOK
<1>5. /\ \A d \in Calls : CallInv(d)'
      /\ \A v \in Workers : Keeps(v)' /\ Sent(v)' /\ Dated(v)' /\ Serves(v)'
  BY <1>1, <1>2, EarlyCall
<1>6. ASSUME NEW v \in Workers
      PROVE  Tallied(v)'
  <2>1. Tallied(v)
    BY DEF IInv, WorkerInv
  <2>2. CASE v = w
    <3>1. Coming(w)' = Coming(w) \ {c}
      BY <1>1, <1>2 DEF Coming
    <3>2. IsFiniteSet(Coming(w)')
      BY <2>1, <2>2, <3>1, FS_RemoveElement DEF Tallied
    <3>3. QED
      BY <1>1, <2>2, <3>2 DEF Tallied, Alive
  <2>3. CASE v # w
    <3>1. Coming(v)' = Coming(v)
      BY <1>1, <1>2, <2>3 DEF Coming
    <3>2. QED
      BY <1>1, <2>1, <3>1 DEF Tallied, Alive, Busy
  <2>4. QED
    BY <2>2, <2>3
<1>7. QED
  BY <1>4, <1>5, <1>6 DEF IInv, WorkerInv

LEMMA SendArrives ==
  ASSUME IInv, NEW c \in Calls, Send(c), Alive(call[c].worker)
  PROVE  IInv'
<1> DEFINE h == call[c].handler
           r == [[call[c] EXCEPT !.pc = "waiting"] EXCEPT !.current = {source[h]}]
<1>1. /\ TypeOK /\ call[c].pc = "counted"
      /\ UNCHANGED <<batch, phase, cache, load, source, command, issued>>
  BY DEF IInv, Send
<1>2. h \in Handlers /\ source[h] \in Version /\ call[c] \in Call
  BY <1>1 DEF TypeOK, Call
<1>3. PICK w \in Workers : w = call[c].worker
  BY <1>1 DEF TypeOK, Call
<1>4. call \in [Calls -> Call] /\ call' = [call EXCEPT ![c] = r]
  BY <1>1 DEF Send, TypeOK
<1>5. r \in Call /\ r.pc = "waiting" /\ r.worker = w /\ r.handler = h /\ r.current = {source[h]}
  BY <1>3, <1>2 DEF Call
<1> HIDE DEF r
<1>6. call' \in [Calls -> Call] /\ call'[c] = r /\ \A d \in Calls \ {c} : call'[d] = call[d]
  BY <1>4, <1>5
<1>7. queue[w] \in Seq(Calls) /\ queue \in [Workers -> Seq(Calls)] /\ queue' = [queue EXCEPT ![w] = Append(queue[w], c)]
  BY <1>3, <1>1, <1>2 DEF TypeOK, Send
<1>8. /\ Append(queue[w], c) \in Seq(Calls) /\ Len(Append(queue[w], c)) = Len(queue[w]) + 1
      /\ Elements(Append(queue[w], c)) = Elements(queue[w]) \cup {c}
  BY <1>7, AppendProperties, AppendElements
<1> HIDE DEF h
<1>9. /\ queue' \in [Workers -> Seq(Calls)] /\ Len(queue'[w]) = Len(queue[w]) + 1
      /\ Elements(queue'[w]) = Elements(queue[w]) \cup {c}
      /\ \A v \in Workers \ {w} : queue'[v] = queue[v]
  BY <1>2, <1>7, <1>8
<1>10. TypeOK'
  BY <1>1, <1>6, <1>9 DEF TypeOK
<1>11. ASSUME NEW d \in Calls
       PROVE  CallInv(d)'
  <2>1. CallInv(d)
    BY DEF IInv
  <2>2. CASE d = c
    BY <1>1, <1>5, <1>6, <2>2 DEF CallInv
  <2>3. CASE d # c
    <3>1. call'[d] = call[d]
      BY <1>6, <2>3
    <3>2. QED
      BY <1>1, <2>1, <3>1 DEF CallInv
  <2>4. QED
    BY <2>2, <2>3
<1>12. ASSUME NEW v \in Workers
       PROVE  WorkerInv(v)'
  <2>1. WorkerInv(v)
    BY DEF IInv
  <2>2. c \notin Elements(batch[v]) /\ (phase[v] = "executing" => Running(v) \in Calls \ {c})
    BY <1>1, NotRunning
  <2>3. Keeps(v)' /\ Dated(v)'
    BY <1>1, <2>1 DEF WorkerInv, Keeps, Dated
  <2>4. Sent(v)'
    <3>1. Elements(queue[v]) \cup Elements(batch[v]) \subseteq Calls
      BY <1>1, ElementTypes
    <3>2. Elements(queue'[v]) \subseteq Elements(queue[v]) \cup {c}
      BY <1>9
    <3>3. \A d \in Elements(queue'[v]) \cup Elements(batch'[v]) : call'[d].pc \notin {"new", "selected", "counted"}
      BY <1>1, <1>5, <1>6, <2>1, <3>1, <3>2 DEF WorkerInv, Sent
    <3>4. QED
      BY <3>3 DEF Sent
  <2>5. Serves(v)'
    <3> SUFFICES ASSUME phase[v] = "executing"
                 PROVE  Serves(v)'
      BY <1>1 DEF Serves
    <3>1. Running(v)' = Running(v) /\ call'[Running(v)] = call[Running(v)] /\ Cached(v)' = Cached(v)
      BY <1>1, <1>6, <2>2 DEF Running, Cached
    <3>2. QED
      BY <1>1, <2>1, <3>1 DEF WorkerInv, Serves
  <2>6. Tallied(v)'
    <3>1. Tallied(v) /\ Cardinality(Coming(v)) \in Nat /\ Len(queue[v]) \in Nat /\ Len(batch[v]) \in Nat
      BY <1>1, <2>1, FS_CardinalityType, ElementTypes DEF WorkerInv, Tallied
    <3>2. (Alive(v))' = Alive(v) /\ Busy(v)' = Busy(v) /\ Busy(v) \in Nat
      BY <1>1 DEF Alive, Busy
    <3>3. CASE v = w
      <4>1. Coming(w)' = Coming(w) \ {c} /\ c \in Coming(w)
        BY <1>3, <1>1, <1>5, <1>6 DEF Coming
      <4>2. IsFiniteSet(Coming(w)') /\ Cardinality(Coming(w)') = Cardinality(Coming(w)) - 1
        <5>1. PICK A, B : A = Coming(w) /\ B = Coming(w)'
          OBVIOUS
        <5>2. IsFiniteSet(A) /\ c \in A /\ B = A \ {c}
          BY <3>1, <3>3, <4>1, <5>1 DEF Tallied
        <5>3. IsFiniteSet(B) /\ Cardinality(B) = Cardinality(A) - 1
          BY ONLY <5>2, FS_RemoveElement
        <5>4. QED
          BY ONLY <5>1, <5>3
      <4>3. Alive(w) => /\ load[w].queued = Cardinality(Coming(w)) + Len(queue[w]) + Len(batch[w]) - Busy(w)
                        /\ load[w].active = Busy(w)
        BY <3>1, <3>3 DEF Tallied
      <4>4. Tallied(w)'
        <5>1. PICK a, b, q, k \in Nat :
                a = Cardinality(Coming(w)) /\ b = Len(batch[w]) /\ q = Len(queue[w]) /\ k = Busy(w)
          BY <3>1, <3>2, <3>3
        <5>2. a + q + b - k = (a - 1) + (q + 1) + b - k
          BY <5>1
        <5>3. /\ Cardinality(Coming(w)') = a - 1 /\ Len(batch'[w]) = b
              /\ Len(queue'[w]) = q + 1 /\ Busy(w)' = k /\ load' = load
          BY <1>1, <1>9, <3>2, <3>3, <4>2, <5>1
        <5>4. Alive(w)' => load[w].queued = a + q + b - k /\ load[w].active = k
          BY <3>2, <3>3, <4>3, <5>1
        <5>5. QED
          BY ONLY <4>2, <5>2, <5>3, <5>4 DEF Tallied
      <4>5. QED
        BY <3>3, <4>4
    <3>4. CASE v # w
      <4>1. Coming(v)' = Coming(v) /\ queue'[v] = queue[v]
        <5>1. \A d \in Calls : call'[d].worker = call[d].worker
          BY <1>3, <1>5, <1>6
        <5>2. \A d \in Calls : d \in Coming(v)' <=> d \in Coming(v)
          BY <1>1, <1>3, <1>5, <1>6, <3>4, <5>1 DEF Coming
        <5>3. queue'[v] = queue[v]
          BY <1>9, <3>4
        <5>4. Coming(v)' \subseteq Calls /\ Coming(v) \subseteq Calls
          BY DEF Coming
        <5>5. QED
          BY ONLY <5>2, <5>3, <5>4
      <4>2. QED
        BY <1>1, <3>1, <3>2, <4>1 DEF Tallied
    <3>5. QED
      BY <3>3, <3>4
  <2>7. QED
    BY <2>3, <2>4, <2>5, <2>6 DEF WorkerInv
<1>13. QED
  BY <1>10, <1>11, <1>12 DEF IInv

\* A new source is noted by every call that waits for the handler.
LEMMA DeployStep ==
  ASSUME IInv, NEW h \in Handlers, Deploy(h)
  PROVE  IInv'
<1>1. /\ TypeOK /\ source[h] < MaxVersion
      /\ UNCHANGED <<queue, batch, phase, cache, load, command, issued>>
  BY DEF IInv, Deploy
<1>2. source \in [Handlers -> Version] /\ source' = [source EXCEPT ![h] = source[h] + 1] /\ call \in [Calls -> Call]
  BY <1>1 DEF TypeOK, Deploy
<1>3. source[h] + 1 \in Version /\ source[h] \in Nat
  BY <1>1, <1>2, ConstantsAssumption DEF Version
<1>4. /\ source' \in [Handlers -> Version] /\ source'[h] = source[h] + 1
      /\ \A g \in Handlers \ {h} : source'[g] = source[g]
  BY <1>2, <1>3
<1>5. \A g \in Handlers : source[g] \in Nat /\ source'[g] \in Nat /\ source[g] <= source'[g]
  BY <1>2, <1>3, <1>4, ConstantsAssumption DEF Version
<1>6. call' = [c \in Calls |->
        IF call[c].pc = "waiting" /\ call[c].handler = h
        THEN [call[c] EXCEPT !.current = @ \cup {source[h] + 1}] ELSE call[c]]
  BY DEF Deploy
<1>7. ASSUME NEW c \in Calls
      PROVE  /\ call'[c] \in Call
             /\ call'[c].pc = call[c].pc /\ call'[c].worker = call[c].worker
             /\ call'[c].handler = call[c].handler /\ call'[c].ran = call[c].ran
             /\ call[c].current \subseteq call'[c].current
             /\ call[c].pc = "waiting" /\ call[c].handler = h => source[h] + 1 \in call'[c].current
  <2>1. call[c] \in Call
    BY <1>2
  <2> DEFINE r == [call[c] EXCEPT !.current = @ \cup {source[h] + 1}]
  <2>2. /\ r \in Call /\ r.pc = call[c].pc /\ r.worker = call[c].worker /\ r.handler = call[c].handler
        /\ r.ran = call[c].ran /\ r.current = call[c].current \cup {source[h] + 1}
    BY <1>3, <2>1 DEF Call
  <2>3. call'[c] = IF call[c].pc = "waiting" /\ call[c].handler = h THEN r ELSE call[c]
    BY <1>6
  <2> HIDE DEF r
  <2>4. CASE call[c].pc = "waiting" /\ call[c].handler = h
    BY <2>2, <2>3, <2>4
  <2>5. CASE ~(call[c].pc = "waiting" /\ call[c].handler = h)
    BY <2>1, <2>3, <2>5
  <2>6. QED
    BY <2>4, <2>5
<1>8. call' \in [Calls -> Call]
  BY <1>6, <1>7
<1>9. TypeOK'
  BY <1>1, <1>4, <1>8 DEF TypeOK
<1>10. ASSUME NEW c \in Calls
       PROVE  CallInv(c)'
  <2>1. CallInv(c) /\ call[c].handler \in Handlers
    BY <1>2 DEF IInv, Call
  <2>2. CASE call[c].handler = h
    BY <1>4, <1>7, <2>1, <2>2 DEF CallInv
  <2>3. CASE call[c].handler # h
    <3>1. source'[call[c].handler] = source[call[c].handler]
      BY <1>4, <2>1, <2>3
    <3>2. QED
      BY <1>7, <2>1, <3>1 DEF CallInv
  <2>4. QED
    BY <2>2, <2>3
<1>11. ASSUME NEW v \in Workers
       PROVE  WorkerInv(v)'
  <2>1. WorkerInv(v) /\ Elements(queue[v]) \cup Elements(batch[v]) \subseteq Calls
    BY <1>1, ElementTypes DEF IInv
  <2>2. Keeps(v)'
    BY <1>1, <2>1 DEF WorkerInv, Keeps
  <2>3. Sent(v)'
    BY <1>1, <1>7, <2>1 DEF WorkerInv, Sent
  <2>4. Coming(v)' = Coming(v)
    BY <1>7 DEF Coming
  <2>5. Tallied(v)'
    BY <1>1, <2>1, <2>4 DEF WorkerInv, Tallied, Busy, Alive
  <2>6. Dated(v)'
    <3> SUFFICES ASSUME NEW g \in Handlers
                 PROVE  LET x == cache'[v].isolates[g]
                        IN  x.tag <= source'[g] /\ x.code <= source'[g] /\ (x.code = 0 \/ x.tag <= x.code)
      BY DEF Dated
    <3>1. cache[v].isolates[g] \in Isolate \cup {NoIsolate}
      BY <1>1, WorkerTypes, CacheFields
    <3>2. cache[v].isolates[g].tag \in Nat /\ cache[v].isolates[g].code \in Nat
      BY <3>1, ConstantsAssumption DEF Isolate, NoIsolate, Version
    <3>3. QED
      BY <1>1, <1>5, <2>1, <3>2 DEF WorkerInv, Dated
  <2>7. Serves(v)'
    <3> SUFFICES ASSUME phase[v] = "executing"
                 PROVE  Serves(v)'
      BY <1>1 DEF Serves
    <3>1. Running(v)' = Running(v) /\ Running(v) \in Calls /\ Cached(v)' = Cached(v)
      BY <1>1, RunsWithin DEF Running, Cached
    <3>2. QED
      BY <1>1, <1>7, <2>1, <3>1 DEF WorkerInv, Serves
  <2>8. QED
    BY <2>2, <2>3, <2>5, <2>6, <2>7 DEF WorkerInv
<1>12. QED
  BY <1>9, <1>10, <1>11 DEF IInv

-----------------------------------------------------------------------------
(* The theorems.                                                           *)

LEMMA InitIInv ==
  Init => IInv
<1> SUFFICES ASSUME Init
             PROVE  IInv
  OBVIOUS
<1>1. TypeOK
  <2>1. 1 \in Version /\ 0 \in 0 .. MaxVersion /\ 0 \in 0 .. MaxCommands
    BY ConstantsAssumption DEF Version
  <2>2. (CHOOSE w \in Workers : TRUE) \in Workers /\ (CHOOSE h \in Handlers : TRUE) \in Handlers
    BY ConstantsAssumption
  <2>3. call \in [Calls -> Call]
    BY <2>1, <2>2 DEF Init, Call
  <2>4. queue \in [Workers -> Seq(Calls)] /\ batch \in [Workers -> Seq(Calls)]
    BY DEF Init
  <2>5. cache \in [Workers -> Cache]
    BY EmptySound DEF Init
  <2>6. command \in [op : {"none", "evict_all", "evict_by_prefix", "kill", "shutdown"},
                     handlers : SUBSET Handlers, pending : SUBSET Workers]
    BY DEF Init, NoCommand
  <2>7. QED
    BY <2>1, <2>3, <2>4, <2>5, <2>6 DEF Init, TypeOK
<1>2. ASSUME NEW w \in Workers
      PROVE  WorkerInv(w)
  <2>1. Keeps(w)
    BY EmptySound, ConstantsAssumption DEF Init, Keeps
  <2>2. Sent(w)
    BY EmptyElements DEF Init, Sent
  <2>3. Tallied(w)
    <3>1. Coming(w) = {}
      BY DEF Init, Coming
    <3>2. Len(queue[w]) = 0 /\ Len(batch[w]) = 0 /\ Busy(w) = 0
      BY DEF Init, Busy
    <3>3. QED
      BY <3>1, <3>2, FS_EmptySet DEF Init, Tallied
  <2>4. Dated(w)
    BY DEF Init, Dated, NoCache, NoIsolate
  <2>5. Serves(w)
    BY DEF Init, Serves
  <2>6. QED
    BY <2>1, <2>2, <2>3, <2>4, <2>5 DEF WorkerInv
<1>3. \A c \in Calls : CallInv(c)
  BY DEF Init, CallInv
<1>4. QED
  BY <1>1, <1>2, <1>3 DEF IInv

LEMMA NextIInv ==
  IInv /\ [Next]_vars => IInv'
<1> SUFFICES ASSUME IInv, [Next]_vars
             PROVE  IInv'
  OBVIOUS
<1>1. ASSUME NEW c \in Calls, NEW h \in Handlers, Select(c, h)
      PROVE  IInv'
  BY <1>1, SelectStep
<1>2. ASSUME NEW c \in Calls, Cancel(c)
      PROVE  IInv'
  BY <1>2, CancelStep
<1>3. CASE EvictAll
  BY <1>3, IssueStep DEF EvictAll
<1>4. CASE DropPool
  BY <1>4, IssueStep DEF DropPool
<1>5. ASSUME NEW S \in Prefixes, EvictByPrefix(S)
      PROVE  IInv'
  <2>1. S \in SUBSET Handlers
    BY ConstantsAssumption
  <2>2. QED
    BY <1>5, <2>1, IssueStep DEF EvictByPrefix
<1>6. ASSUME NEW h \in Handlers, KillIsolate(h)
      PROVE  IInv'
  <2>1. {h} \in SUBSET Handlers /\ {Home[h]} \in SUBSET Workers
    BY ConstantsAssumption
  <2>2. QED
    BY <1>6, <2>1, IssueStep DEF KillIsolate
<1>7. ASSUME NEW h \in Handlers, Deploy(h)
      PROVE  IInv'
  BY <1>7, DeployStep
<1>8. ASSUME NEW c \in Calls, Caller(c)
      PROVE  IInv'
  BY <1>8, CountStep, SendArrives, SendFails DEF Caller
<1>9. ASSUME NEW w \in Workers, Worker(w)
      PROVE  IInv'
  BY <1>9, TakeStep, ExpireStep, HitStep, MissStep, LoadHandlerStep, CompleteStep,
     FailStep, TimeOutStep, EvictStep, DisposeAllStep DEF Worker
<1>10. CASE UNCHANGED vars
  <2>1. TypeOK /\ TypeOK'
    BY <1>10 DEF IInv, TypeOK, vars
  <2>2. Calm /\ \A v \in Workers : Undisturbed(v)
    BY <1>10, <2>1, UnchangedCalm DEF vars, Undisturbed
  <2>3. QED
    BY <2>1, <2>2, CalmOthers, CalmCalls DEF IInv
<1>11. QED
  BY <1>1, <1>2, <1>3, <1>4, <1>5, <1>6, <1>7, <1>8, <1>9, <1>10 DEF Next, Environment

(* The inductive invariant holds of every pool.                            *)
THEOREM Invariance == Spec => []IInv
  BY InitIInv, NextIInv, PTL DEF Spec

(* Every variable has its type, the counters of WorkerLoad included.       *)
THEOREM TypeCorrect == Spec => []TypeOK
<1>1. IInv => TypeOK
  BY DEF IInv
<1>2. QED
  BY <1>1, Invariance, PTL

(* lru_order and the cache agree, and the limit holds.                     *)
THEOREM CacheCorrect == Spec => []CacheAgrees
<1>1. IInv => CacheAgrees
  <2> SUFFICES ASSUME IInv, NEW w \in Workers
               PROVE  /\ Elements(cache[w].lru) = Cached(w)
                      /\ Len(cache[w].lru) = Cardinality(Cached(w))
                      /\ MaxIsolates > 0 => Cardinality(Cached(w)) <= MaxIsolates
    BY DEF CacheAgrees
  <2>1. Keeps(w) /\ cache[w].lru \in Seq(Handlers)
    BY WorkerTypes, CacheFields DEF IInv, WorkerInv
  <2>2. Elements(cache[w].lru) = Cached(w) /\ Distinct(cache[w].lru)
    BY <2>1 DEF Keeps, Sound, Cached
  <2>3. Len(cache[w].lru) = Cardinality(Cached(w))
    BY <2>1, <2>2, DistinctLength
  <2>4. QED
    BY <2>1, <2>2, <2>3 DEF Keeps
<1>2. QED
  BY <1>1, Invariance, PTL

(* A worker's load is what it has been or will be sent and has not ended.  *)
THEOREM LoadCorrect == Spec => []LoadExact
<1>1. IInv => LoadExact
  BY DEF IInv, WorkerInv, Tallied, LoadExact, Coming, Busy
<1>2. QED
  BY <1>1, Invariance, PTL

(* No result comes from a source that had been replaced before the call.   *)
THEOREM CodeCorrect == Spec => []FreshCode
<1>1. IInv => FreshCode
  BY DEF IInv, CallInv, FreshCode
<1>2. QED
  BY <1>1, Invariance, PTL

(* Disposing all isolates never fails V8's assertion.                      *)
THEOREM DisposalSafe == Spec => DisposalNeverPanics
<1>1. IInv /\ [Next]_vars => [\A w \in Workers : DisposeAll(w) => phase'[w] # "dead"]_vars
  BY DisposeAllStep
<1>2. QED
  BY <1>1, Invariance, PTL DEF Spec, DisposalNeverPanics

=============================================================================
