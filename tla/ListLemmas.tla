------------------------------ MODULE ListLemmas ------------------------------
(***************************************************************************)
(* Facts about natural numbers and sequences that the proofs of the        *)
(* components share: induction over a set of numbers, sums along a list,   *)
(* and the concatenation of a sequence of sequences, piece by piece.       *)
(***************************************************************************)
EXTENDS Naturals, Sequences, SequencesExt, WellFoundedInduction, TLAPS

Less == {ss \in Nat \X Nat : ss[1] < ss[2]}

\* There is no infinite descent of natural numbers.
LEMMA LessWellFounded == IsWellFoundedOn(Less, Nat)
BY NatLessThanWellFounded, Zenon DEF OpToRel, Less

\* A nonempty set of natural numbers has a least one.
LEMMA LeastNat ==
    ASSUME NEW T \in SUBSET Nat, T # {}
    PROVE  \E x \in T : \A y \in T : x <= y
<1>1. PICK x \in T : \A y \in T : <<y, x>> \notin Less
  BY LessWellFounded, WFMin
<1>2. ASSUME NEW y \in T
      PROVE  x <= y
  <2>1. y < x => <<y, x>> \in Less
    BY DEF Less
  <2>2. QED
    BY <1>1, <2>1
<1>3. QED
  BY <1>2

\* Induction: a set with 0 that has the successor of each of its members.
LEMMA SetInduction ==
    ASSUME NEW G \in SUBSET Nat, 0 \in G, \A n \in G : n + 1 \in G
    PROVE  G = Nat
<1> DEFINE T == Nat \ G
<1> SUFFICES ASSUME T # {}
             PROVE  FALSE
  OBVIOUS
<1>1. PICK x \in T : \A y \in T : x <= y
  BY LeastNat
<1>2. x # 0 /\ x \in Nat
  OBVIOUS
<1>3. x - 1 \in Nat /\ ~(x <= x - 1) /\ (x - 1) + 1 = x
  BY <1>2
<1>4. QED
  BY <1>1, <1>3

-----------------------------------------------------------------------------
\* f holds the sums of w along 1 .. n.
SumsOf(f, w, n) == f = [i \in 0 .. n |-> IF i = 0 THEN 0 ELSE f[i - 1] + w[i]]

\* The sums along a list of numbers exist, so a recursive definition has them.
LEMMA SumsExist ==
    ASSUME NEW w, NEW n \in Nat, \A i \in 1 .. n : w[i] \in Nat
    PROVE  /\ \E f : SumsOf(f, w, n)
           /\ \A f : SumsOf(f, w, n) => f \in [0 .. n -> Nat]
<1> DEFINE G == {m \in Nat : m <= n => \E f \in [0 .. m -> Nat] : SumsOf(f, w, m)}
<1>1. 0 \in G
  <2>1. [i \in 0 .. 0 |-> 0] \in [0 .. 0 -> Nat] /\ SumsOf([i \in 0 .. 0 |-> 0], w, 0)
    BY DEF SumsOf
  <2>2. QED
    BY <2>1
<1>2. ASSUME NEW m \in G
      PROVE  m + 1 \in G
  <2> SUFFICES ASSUME m + 1 <= n
               PROVE  \E f \in [0 .. m + 1 -> Nat] : SumsOf(f, w, m + 1)
    OBVIOUS
  <2>1. PICK f \in [0 .. m -> Nat] : SumsOf(f, w, m)
    OBVIOUS
  <2> DEFINE g == [i \in 0 .. m + 1 |-> IF i = m + 1 THEN f[m] + w[m + 1] ELSE f[i]]
  <2>2. g \in [0 .. m + 1 -> Nat]
    OBVIOUS
  <2>3. ASSUME NEW i \in 0 .. m + 1
        PROVE  g[i] = IF i = 0 THEN 0 ELSE g[i - 1] + w[i]
    <3>1. CASE i = m + 1
      BY <3>1
    <3>2. CASE i # m + 1
      <4>1. i \in 0 .. m /\ g[i] = f[i] /\ (i # 0 => i - 1 \in 0 .. m /\ g[i - 1] = f[i - 1])
        BY <3>2
      <4>2. QED
        BY <2>1, <4>1 DEF SumsOf
    <3>3. QED
      BY <3>1, <3>2
  <2>4. SumsOf(g, w, m + 1)
    BY <2>3 DEF SumsOf
  <2>5. QED
    BY <2>2, <2>4
<1>3. n \in G
  BY <1>1, <1>2, SetInduction
<1>4. ASSUME NEW f, SumsOf(f, w, n)
      PROVE  f \in [0 .. n -> Nat]
  <2> DEFINE H == {m \in Nat : m <= n => f[m] \in Nat}
  <2>1. 0 \in H
    BY <1>4 DEF SumsOf
  <2>2. ASSUME NEW m \in H
        PROVE  m + 1 \in H
    BY <1>4 DEF SumsOf
  <2>3. H = Nat
    BY <2>1, <2>2, SetInduction
  <2>4. \A i \in 0 .. n : f[i] \in Nat
    BY <2>3
  <2>5. QED
    BY <1>4, <2>4 DEF SumsOf
<1>5. QED
  BY <1>3, <1>4

-----------------------------------------------------------------------------
\* f holds the concatenations of the first members of s.
JoinsOf(f, s) == f = [i \in 1 .. Len(s) |-> IF i = 1 THEN s[i] ELSE f[i - 1] \o s[i]]

JoinsUpTo(f, s, n) == \A i \in 1 .. n : f[i] = IF i = 1 THEN s[i] ELSE f[i - 1] \o s[i]

\* A beginning of a sequence, member by member.
LEMMA FirstOf ==
    ASSUME NEW X, NEW s \in Seq(X), NEW k \in 0 .. Len(s)
    PROVE  /\ SubSeq(s, 1, k) \in Seq(X)
           /\ Len(SubSeq(s, 1, k)) = k
           /\ \A i \in 1 .. k : SubSeq(s, 1, k)[i] = s[i]
OBVIOUS

\* The concatenations exist, ...
LEMMA JoinsExist ==
    ASSUME NEW X, NEW s \in Seq(Seq(X))
    PROVE  \E f \in [1 .. Len(s) -> Seq(X)] : JoinsOf(f, s)
<1> DEFINE n == Len(s)
           Step(f, i) == IF i = 1 THEN s[i] ELSE f[i - 1] \o s[i]
           Joined(m) == \E f \in [1 .. m -> Seq(X)] : \A i \in 1 .. m : f[i] = Step(f, i)
           G == {m \in Nat : m <= n => Joined(m)}
<1>1. n \in Nat /\ \A i \in 1 .. n : s[i] \in Seq(X)
  OBVIOUS
<1> HIDE DEF n
<1>2. 0 \in G
  <2>1. <<>> \in [1 .. 0 -> Seq(X)] /\ 1 .. 0 = {}
    OBVIOUS
  <2>2. QED
    BY <2>1 DEF Joined, G
<1> HIDE DEF Joined, G
<1>3. ASSUME NEW m \in G
      PROVE  m + 1 \in G
  <2> SUFFICES ASSUME m + 1 <= n
               PROVE  Joined(m + 1)
    BY <1>1 DEF G
  <2>0. m \in Nat /\ Joined(m)
    BY <1>1 DEF G
  <2>1. PICK f \in [1 .. m -> Seq(X)] : \A i \in 1 .. m : f[i] = Step(f, i)
    BY <2>0 DEF Joined
  <2> DEFINE g == [i \in 1 .. m + 1 |-> IF i = m + 1 THEN Step(f, i) ELSE f[i]]
  <2>2. m \in Nat /\ s[m + 1] \in Seq(X)
    BY <1>1, <2>0
  <2>3. Step(f, m + 1) \in Seq(X)
    <3>1. CASE m = 0
      BY <2>2, <3>1
    <3>2. CASE m # 0
      <4>1. f[m] \in Seq(X)
        BY <2>2, <3>2
      <4>2. f[m] \o s[m + 1] \in Seq(X)
        BY <2>2, <4>1
      <4>3. QED
        BY <2>2, <3>2, <4>2
    <3>3. QED
      BY <3>1, <3>2
  <2>4. g \in [1 .. m + 1 -> Seq(X)]
    BY <2>2, <2>3
  <2>5. ASSUME NEW i \in 1 .. m + 1
        PROVE  g[i] = Step(g, i)
    <3>1. i - 1 \in 1 .. m => g[i - 1] = f[i - 1]
      BY <2>2
    <3>2. i # 1 => i - 1 \in 1 .. m
      BY <2>2
    <3>3. g[i] = Step(f, i)
      <4>1. CASE i = m + 1
        BY <4>1
      <4>2. CASE i # m + 1
        <5>1. i \in 1 .. m
          BY <2>2, <4>2
        <5>2. QED
          BY <2>1, <4>2, <5>1
      <4>3. QED
        BY <4>1, <4>2
    <3>4. QED
      BY <3>1, <3>2, <3>3
  <2>6. QED
    BY <2>4, <2>5 DEF Joined
<1>4. n \in G
  <2>1. G \in SUBSET Nat
    BY DEF G
  <2>2. QED
    BY <1>1, <1>2, <1>3, <2>1, SetInduction
<1>5. PICK f \in [1 .. n -> Seq(X)] : \A i \in 1 .. n : f[i] = Step(f, i)
  <2>1. Joined(n)
    BY <1>1, <1>4 DEF G
  <2>2. QED
    BY <2>1 DEF Joined
<1>6. JoinsOf(f, s)
  BY <1>5 DEF JoinsOf, n
<1>7. QED
  BY <1>6 DEF n

\* ... and are those of every beginning of the sequence.
LEMMA JoinsUnique ==
    ASSUME NEW s, NEW n \in Nat, NEW f, NEW g,
           JoinsUpTo(f, s, n), JoinsUpTo(g, s, n)
    PROVE  \A i \in 1 .. n : f[i] = g[i]
<1> USE DEF JoinsUpTo
<1> DEFINE G == {m \in Nat : m + 1 \in 1 .. n => f[m + 1] = g[m + 1]}
<1>1. 0 \in G
  OBVIOUS
<1>2. ASSUME NEW m \in G
      PROVE  m + 1 \in G
  <2> SUFFICES ASSUME (m + 1) + 1 \in 1 .. n
               PROVE  f[(m + 1) + 1] = g[(m + 1) + 1]
    OBVIOUS
  <2>1. m + 1 \in 1 .. n /\ (m + 1) + 1 # 1 /\ ((m + 1) + 1) - 1 = m + 1
    OBVIOUS
  <2>2. f[m + 1] = g[m + 1]
    BY <2>1
  <2>3. QED
    BY <2>1, <2>2
<1>3. G = Nat
  BY <1>1, <1>2, SetInduction
<1>4. ASSUME NEW i \in 1 .. n
      PROVE  f[i] = g[i]
  <2>1. i - 1 \in Nat /\ (i - 1) + 1 = i
    OBVIOUS
  <2>2. i - 1 \in G
    BY <1>3, <2>1
  <2>3. QED
    BY <2>1, <2>2
<1>5. QED
  BY <1>4

\* FlattenSeq of a beginning is the concatenation up to there.
LEMMA FlattenJoins ==
    ASSUME NEW X, NEW s \in Seq(Seq(X)), NEW k \in 1 .. Len(s),
           NEW f \in [1 .. Len(s) -> Seq(X)], JoinsOf(f, s)
    PROVE  FlattenSeq(SubSeq(s, 1, k)) = f[k]
<1> DEFINE t == SubSeq(s, 1, k)
<1>1. t \in Seq(Seq(X)) /\ Len(t) = k /\ \A i \in 1 .. k : t[i] = s[i]
  BY FirstOf
<1>2. k \in Nat /\ k # 0 /\ Len(s) \in Nat /\ k <= Len(s)
  OBVIOUS
<1> HIDE DEF t
<1>3. FlattenSeq(t) = (CHOOSE g : JoinsOf(g, t))[k]
  <2>1. Len(t) # 0
    BY <1>1, <1>2
  <2>2. FlattenSeq(t) = (CHOOSE g : JoinsOf(g, t))[Len(t)]
    BY <2>1, Zenon DEF FlattenSeq, JoinsOf
  <2>3. QED
    BY <1>1, <2>2
<1>4. \E g : JoinsOf(g, t)
  BY <1>1, JoinsExist
<1>5. PICK g : g = (CHOOSE h : JoinsOf(h, t)) /\ JoinsOf(g, t)
  BY <1>4
<1>6. \A i \in 1 .. k : g[i] = IF i = 1 THEN t[i] ELSE g[i - 1] \o t[i]
  BY <1>1, <1>2, <1>5 DEF JoinsOf
<1>7. JoinsUpTo(g, s, k)
  BY <1>1, <1>6 DEF JoinsUpTo
<1>8. JoinsUpTo(f, s, k)
  <2>1. \A i \in 1 .. Len(s) : f[i] = IF i = 1 THEN s[i] ELSE f[i - 1] \o s[i]
    BY DEF JoinsOf
  <2>2. \A i \in 1 .. k : i \in 1 .. Len(s)
    BY <1>2
  <2>3. QED
    BY <2>1, <2>2 DEF JoinsUpTo
<1>9. g[k] = f[k]
  <2>1. \A i \in 1 .. k : g[i] = f[i]
    BY <1>2, <1>7, <1>8, JoinsUnique
  <2>2. QED
    BY <1>2, <2>1
<1>10. QED
  BY <1>3, <1>5, <1>9 DEF t

\* FlattenSeq, one member after the other: nothing, and then what was there with
\* the next member behind it, up to the whole.
LEMMA FlattenFirst ==
    ASSUME NEW X, NEW s \in Seq(Seq(X))
    PROVE  /\ FlattenSeq(SubSeq(s, 1, 0)) = <<>>
           /\ \A k \in 0 .. Len(s) : FlattenSeq(SubSeq(s, 1, k)) \in Seq(X)
           /\ \A k \in 1 .. Len(s) :
                FlattenSeq(SubSeq(s, 1, k)) = FlattenSeq(SubSeq(s, 1, k - 1)) \o s[k]
           /\ FlattenSeq(SubSeq(s, 1, Len(s))) = FlattenSeq(s)
<1>1. PICK f \in [1 .. Len(s) -> Seq(X)] : JoinsOf(f, s)
  BY JoinsExist
<1>2. Len(s) \in Nat
  OBVIOUS
<1>3. FlattenSeq(SubSeq(s, 1, 0)) = <<>>
  <2>1. Len(SubSeq(s, 1, 0)) = 0 /\ SubSeq(s, 1, 0) = <<>>
    BY <1>2
  <2>2. QED
    BY <2>1 DEF FlattenSeq
<1>4. \A k \in 1 .. Len(s) : FlattenSeq(SubSeq(s, 1, k)) = f[k] /\ f[k] \in Seq(X)
  BY <1>1, FlattenJoins
<1>5. ASSUME NEW k \in 1 .. Len(s)
      PROVE  FlattenSeq(SubSeq(s, 1, k)) = FlattenSeq(SubSeq(s, 1, k - 1)) \o s[k]
  <2>1. f[k] = IF k = 1 THEN s[k] ELSE f[k - 1] \o s[k]
    BY <1>1, <1>2 DEF JoinsOf
  <2>2. s[k] \in Seq(X)
    OBVIOUS
  <2>3. CASE k = 1
    <3>1. <<>> \o s[k] = s[k]
      BY <2>2
    <3>2. k - 1 = 0
      BY <2>3
    <3>3. QED
      BY <1>3, <1>4, <2>1, <2>3, <3>1, <3>2
  <2>4. CASE k # 1
    <3>1. k - 1 \in 1 .. Len(s)
      BY <1>2, <2>4
    <3>2. QED
      BY <1>4, <2>1, <2>4, <3>1
  <2>5. QED
    BY <2>3, <2>4
<1>6. ASSUME NEW k \in 0 .. Len(s)
      PROVE  FlattenSeq(SubSeq(s, 1, k)) \in Seq(X)
  <2>1. CASE k = 0
    <3>1. FlattenSeq(SubSeq(s, 1, k)) = <<>>
      BY <1>3, <2>1
    <3>2. <<>> \in Seq(X)
      OBVIOUS
    <3>3. QED
      BY <3>1, <3>2
  <2>2. CASE k # 0
    <3>1. k \in 1 .. Len(s)
      BY <1>2, <2>2
    <3>2. QED
      BY <1>4, <3>1
  <2>3. QED
    BY <2>1, <2>2
<1>7. SubSeq(s, 1, Len(s)) = s
  OBVIOUS
<1>8. QED
  BY <1>3, <1>5, <1>6, <1>7

\* The sequence q starts with the members of p.
Starts(p, q) == Len(p) <= Len(q) /\ \A i \in 1 .. Len(p) : q[i] = p[i]

LEMMA StartsLonger ==
    ASSUME NEW X, NEW p \in Seq(X), NEW q \in Seq(X), NEW r \in Seq(X), Starts(p, q)
    PROVE  Starts(p, q \o r)
<1>1. /\ Len(q \o r) = Len(q) + Len(r)
      /\ Len(p) \in Nat /\ Len(q) \in Nat /\ Len(r) \in Nat
      /\ \A i \in 1 .. Len(q) : (q \o r)[i] = q[i]
  OBVIOUS
<1>2. \A i \in 1 .. Len(p) : i \in 1 .. Len(q)
  BY <1>1 DEF Starts
<1>3. QED
  BY <1>1, <1>2 DEF Starts

\* A longer beginning starts with a shorter one.
LEMMA FlattenGrows ==
    ASSUME NEW X, NEW s \in Seq(Seq(X)), NEW j \in 0 .. Len(s), NEW k \in 0 .. Len(s), j <= k
    PROVE  Starts(FlattenSeq(SubSeq(s, 1, j)), FlattenSeq(SubSeq(s, 1, k)))
<1> DEFINE P(m) == FlattenSeq(SubSeq(s, 1, m))
           G == {d \in Nat : j + d <= Len(s) => Starts(P(j), P(j + d))}
<1>1. /\ \A m \in 0 .. Len(s) : P(m) \in Seq(X)
      /\ \A m \in 1 .. Len(s) : P(m) = P(m - 1) \o s[m]
  BY FlattenFirst
<1>2. Len(s) \in Nat /\ \A m \in 1 .. Len(s) : s[m] \in Seq(X)
  OBVIOUS
<1> HIDE DEF P
<1>3. 0 \in G
  <2>1. j + 0 = j /\ Len(P(j)) \in Nat
    BY <1>1, <1>2
  <2>2. QED
    BY <2>1 DEF Starts
<1>4. ASSUME NEW d \in G
      PROVE  d + 1 \in G
  <2> SUFFICES ASSUME j + (d + 1) <= Len(s)
               PROVE  Starts(P(j), P(j + (d + 1)))
    OBVIOUS
  <2> DEFINE m == j + (d + 1)
  <2>1. m \in 1 .. Len(s) /\ m - 1 \in 0 .. Len(s) /\ m - 1 = j + d /\ j + d <= Len(s)
    BY <1>2
  <2>2. Starts(P(j), P(m - 1))
    BY <2>1
  <2>3. P(m - 1) \in Seq(X) /\ s[m] \in Seq(X) /\ P(j) \in Seq(X)
    BY <1>1, <1>2, <2>1
  <2>4. P(m) = P(m - 1) \o s[m]
    BY <1>1, <2>1
  <2>5. Starts(P(j), P(m))
    BY <2>2, <2>3, <2>4, StartsLonger
  <2>6. QED
    BY <2>5
<1>5. k - j \in G
  <2>1. G = Nat
    BY <1>3, <1>4, SetInduction
  <2>2. k - j \in Nat
    BY <1>2
  <2>3. QED
    BY <2>1, <2>2
<1>6. j + (k - j) = k /\ k <= Len(s)
  BY <1>2
<1>7. Starts(P(j), P(k))
  BY <1>5, <1>6
<1>8. QED
  BY <1>7 DEF P

-----------------------------------------------------------------------------
\* The members of a sequence, and of a concatenation.
LEMMA MemberOf ==
    ASSUME NEW X, NEW s \in Seq(X), NEW i \in 1 .. Len(s)
    PROVE  s[i] \in X
OBVIOUS

LEMMA ConcatMembers ==
    ASSUME NEW X, NEW s \in Seq(X), NEW t \in Seq(X), NEW w, w = s \o t
    PROVE  /\ w \in Seq(X)
           /\ Len(w) = Len(s) + Len(t) /\ Len(s) \in Nat /\ Len(t) \in Nat
           /\ \A i \in 1 .. Len(s) : w[i] = s[i]
           /\ \A i \in 1 .. Len(t) : w[Len(s) + i] = t[i]
OBVIOUS

\* Sequences with the same members are equal.
LEMMA SameMembers ==
    ASSUME NEW X, NEW s \in Seq(X), NEW t \in Seq(X), Len(s) = Len(t),
           \A i \in 1 .. Len(s) : s[i] = t[i]
    PROVE  s = t
OBVIOUS

\* A sequence whose members are the first of another one is a beginning of it.
LEMMA PrefixByMembers ==
    ASSUME NEW X, NEW s \in Seq(X), NEW t \in Seq(X), Len(s) <= Len(t),
           \A i \in 1 .. Len(s) : s[i] = t[i]
    PROVE  IsPrefix(s, t)
<1>1. Len(s) \in 0 .. Len(t) /\ Len(s) \in 0 .. Len(s)
  OBVIOUS
<1>2. SubSeq(s, 1, Len(s)) = SubSeq(t, 1, Len(s))
  BY <1>1, FirstOf, SameMembers
<1>3. QED
  BY <1>2 DEF IsPrefix
=============================================================================
