----------------------------- MODULE TreeProofs -----------------------------
(* Theorems about the connections' tree (D): what a change makes of a layout, *)
(* and that each write of it undoes nobody's.                                *)
EXTENDS Console, Integers, FiniteSetTheorems, SequenceTheorems, WellFoundedInduction, TLAPS

\* What the variables hold.
stored == v1
exists == v2
created == v3
page == v4
changes == v5
mishaps == v6
USE DEF
  stored, exists, created, page, changes, mishaps

LEMMA LeastPlace ==
  ASSUME NEW V \in SUBSET Nat, V # {}
  PROVE  \E n \in V : \A m \in V : n <= m
<1> DEFINE Less == {ss \in Nat \X Nat : ss[1] < ss[2]}
<1>1. IsWellFoundedOn(Less, Nat)
  <2>1. Less = OpToRel(<, Nat)
    BY DEF OpToRel
  <2> QED BY <2>1, NatLessThanWellFounded
<1>2. PICK n \in V : \A m \in V : <<m, n>> \notin Less
  BY <1>1, WFMin
<1>3. \A i, j \in Nat : i < j => <<i, j>> \in Less
  OBVIOUS
<1> HIDE DEF Less
<1>4. n \in Nat /\ \A m \in V : m \in Nat /\ ~(m < n)
  BY <1>2, <1>3
<1> QED BY <1>4

-----------------------------------------------------------------------------
(* Sequences. *)

\* Induction: what holds of zero and of the number after any it holds of.
LEMMA EveryNat ==
  ASSUME NEW V, 0 \in V, \A n \in Nat : n \in V => n + 1 \in V
  PROVE  Nat \subseteq V
<1>1. SUFFICES ASSUME Nat \ V # {} PROVE FALSE
  OBVIOUS
<1>2. PICK n \in Nat \ V : \A m \in Nat \ V : n <= m
  BY <1>1, LeastPlace
<1>3. n # 0
  BY <1>2
<1>4. n - 1 \in Nat /\ ~(n <= n - 1) /\ n = n - 1 + 1
  BY <1>2, <1>3
<1> QED BY <1>2, <1>4

\* The same of sequences: of the empty one, and of one more element.
LEMMA EverySeq ==
  ASSUME NEW V, NEW W, <<>> \in W, \A s \in Seq(V), x \in V : s \in W => Append(s, x) \in W
  PROVE  Seq(V) \subseteq W
<1> DEFINE Good == {n \in Nat : \A s \in Seq(V) : Len(s) = n => s \in W}
<1>1. 0 \in Good
  OBVIOUS
<1>2. ASSUME NEW n \in Nat, n \in Good PROVE n + 1 \in Good
  <2> SUFFICES ASSUME NEW s \in Seq(V), Len(s) = n + 1 PROVE s \in W
    OBVIOUS
  <2>1. s # <<>>
    BY <1>2
  <2>2. PICK t \in Seq(V), x \in V : s = Append(t, x)
    BY <2>1, SequenceEmptyOrAppend
  <2>3. Len(t) = n
    BY <2>2
  <2> QED BY <1>2, <2>2, <2>3
<1>3. Nat \subseteq Good
  <2> HIDE DEF Good
  <2> QED BY <1>1, <1>2, EveryNat
<1> QED BY <1>3

\* What Only keeps of the first i of s.
Keeps(s, Z, n, f) ==
  f = [i \in 0..n |-> IF i = 0 THEN <<>> ELSE IF s[i] \in Z THEN Append(f[i - 1], s[i]) ELSE f[i - 1]]

LEMMA KeepsExist ==
  ASSUME NEW s, NEW Z, NEW len \in Nat
  PROVE  \E f : Keeps(s, Z, len, f)
<1> DEFINE Good == {n \in Nat : \E f : Keeps(s, Z, n, f)}
<1>1. 0 \in Good
  <2>1. Keeps(s, Z, 0, [i \in 0..0 |-> <<>>])
    BY DEF Keeps
  <2> QED BY <2>1
<1>2. ASSUME NEW m \in Nat, m \in Good PROVE m + 1 \in Good
  <2>1. PICK f : Keeps(s, Z, m, f)
    BY <1>2
  <2>2. PICK n \in Nat : n = m + 1
    OBVIOUS
  <2>3. PICK x : x = IF s[n] \in Z THEN Append(f[m], s[n]) ELSE f[m]
    OBVIOUS
  <2>4. PICK g : g = [i \in 0..n |-> IF i = n THEN x ELSE f[i]]
    OBVIOUS
  <2>5. \A i \in 0..n : g[i] = IF i = 0 THEN <<>> ELSE IF s[i] \in Z THEN Append(g[i - 1], s[i]) ELSE g[i - 1]
    <3> SUFFICES ASSUME NEW i \in 0..n
                 PROVE  g[i] = IF i = 0 THEN <<>> ELSE IF s[i] \in Z THEN Append(g[i - 1], s[i]) ELSE g[i - 1]
      OBVIOUS
    <3>1. CASE i = n
      <4>1. g[i] = x /\ g[i - 1] = f[m] /\ i # 0
        BY <2>2, <2>4, <3>1
      <4> QED BY <2>3, <3>1, <4>1
    <3>2. CASE i # n
      <4>1. i \in 0..m /\ g[i] = f[i] /\ (i # 0 => g[i - 1] = f[i - 1])
        BY <2>2, <2>4, <3>2
      <4>2. f[i] = IF i = 0 THEN <<>> ELSE IF s[i] \in Z THEN Append(f[i - 1], s[i]) ELSE f[i - 1]
        BY <2>1, <4>1 DEF Keeps
      <4> QED BY <4>1, <4>2
    <3> QED BY <3>1, <3>2
  <2>6. Keeps(s, Z, n, g)
    BY <2>4, <2>5 DEF Keeps
  <2> QED BY <2>2, <2>6
<1>3. Nat \subseteq Good
  <2> HIDE DEF Good
  <2> QED BY <1>1, <1>2, EveryNat
<1> QED BY <1>3

\* Step by step.
Builds(s, Z, n, f) ==
  /\ f[0] = <<>>
  /\ \A i \in Nat : i < n => f[i + 1] = IF s[i + 1] \in Z THEN Append(f[i], s[i + 1]) ELSE f[i]

LEMMA KeepsNext ==
  ASSUME NEW s, NEW Z, NEW n \in Nat, NEW f, Keeps(s, Z, n, f)
  PROVE  Builds(s, Z, n, f)
<1>1. f[0] = <<>>
  BY DEF Keeps
<1>2. ASSUME NEW i \in Nat, i < n
      PROVE  f[i + 1] = IF s[i + 1] \in Z THEN Append(f[i], s[i + 1]) ELSE f[i]
  <2>1. PICK j : j = i + 1
    OBVIOUS
  <2>2. j \in 0..n /\ j # 0 /\ j - 1 = i
    BY <1>2, <2>1
  <2>3. f[j] = IF s[j] \in Z THEN Append(f[j - 1], s[j]) ELSE f[j - 1]
    BY <2>2 DEF Keeps
  <2> QED BY <2>1, <2>2, <2>3
<1> QED BY <1>1, <1>2 DEF Builds

LEMMA KeptIs ==
  ASSUME NEW s, NEW Z, NEW len \in Nat, len = Len(s)
  PROVE  \E f : Builds(s, Z, len, f) /\ D!Only(s, Z) = f[len]
<1>1. PICK f : f = CHOOSE g : Keeps(s, Z, len, g)
  OBVIOUS
<1>2. Keeps(s, Z, len, f)
  BY <1>1, KeepsExist
<1>3. D!Only(s, Z) = f[len]
  BY <1>1 DEF D!Only, Keeps
<1>4. Builds(s, Z, len, f)
  BY <1>2, KeepsNext, Zenon
<1> QED BY <1>3, <1>4

\* Only keeps in their order the elements of s that are in Z: it keeps none of
\* an empty sequence, and one more of a longer one if that is in Z.
LEMMA OnlyEmpty == \A Z : D!Only(<<>>, Z) = <<>>
<1> SUFFICES ASSUME NEW Z PROVE D!Only(<<>>, Z) = <<>>
  OBVIOUS
<1>1. Len(<<>>) = 0
  OBVIOUS
<1>2. PICK f : Builds(<<>>, Z, 0, f) /\ D!Only(<<>>, Z) = f[0]
  BY <1>1, KeptIs
<1> QED BY <1>2 DEF Builds

LEMMA OnlyAppend ==
  ASSUME NEW V, NEW s \in Seq(V), NEW x \in V, NEW Z
  PROVE  D!Only(Append(s, x), Z) = IF x \in Z THEN Append(D!Only(s, Z), x) ELSE D!Only(s, Z)
<1>1. PICK n \in Nat : n = Len(s)
  OBVIOUS
<1>2. PICK t : t = Append(s, x)
  OBVIOUS
<1>3. Len(t) = n + 1 /\ t[n + 1] = x /\ \A i \in 1..n : t[i] = s[i]
  BY <1>1, <1>2, AppendProperties
<1>4. PICK f : Builds(s, Z, n, f) /\ D!Only(s, Z) = f[n]
  BY <1>1, KeptIs
<1>5. PICK g : Builds(t, Z, n + 1, g) /\ D!Only(t, Z) = g[n + 1]
  BY <1>3, KeptIs
<1>6. /\ f[0] = <<>>
      /\ \A i \in Nat : i < n => f[i + 1] = IF s[i + 1] \in Z THEN Append(f[i], s[i + 1]) ELSE f[i]
  BY <1>4 DEF Builds
<1>7. /\ g[0] = <<>>
      /\ \A i \in Nat : i < n + 1 => g[i + 1] = IF t[i + 1] \in Z THEN Append(g[i], t[i + 1]) ELSE g[i]
  BY <1>5 DEF Builds
<1>8. \A i \in 0..n : f[i] = g[i]
  <2> DEFINE Good == {i \in Nat : i \in 0..n => f[i] = g[i]}
  <2>1. 0 \in Good
    BY <1>6, <1>7
  <2>2. ASSUME NEW i \in Nat, i \in Good PROVE i + 1 \in Good
    <3>1. SUFFICES ASSUME i + 1 \in 0..n PROVE f[i + 1] = g[i + 1]
      OBVIOUS
    <3>2. i < n /\ i < n + 1 /\ i \in 0..n /\ i + 1 \in 1..n
      BY <3>1
    <3>3. f[i] = g[i] /\ t[i + 1] = s[i + 1]
      BY <1>3, <2>2, <3>2
    <3> QED BY <1>6, <1>7, <3>2, <3>3
  <2>3. Nat \subseteq Good
    <3> HIDE DEF Good
    <3> QED BY <2>1, <2>2, EveryNat
  <2> QED BY <2>3
<1>9. g[n + 1] = IF x \in Z THEN Append(g[n], x) ELSE g[n]
  BY <1>3, <1>7
<1>10. f[n] = g[n]
  BY <1>8
<1> QED BY <1>2, <1>4, <1>5, <1>9, <1>10

LEMMA SetOf ==
  ASSUME NEW V, NEW s \in Seq(V)
  PROVE  /\ D!ToSet(s) \subseteq V
         /\ \A x : x \in D!ToSet(s) <=> \E i \in 1..Len(s) : s[i] = x
         /\ D!ToSet(s) = {} <=> s = <<>>
<1>1. DOMAIN s = 1..Len(s)
  OBVIOUS
<1>2. \A x : x \in D!ToSet(s) <=> \E i \in 1..Len(s) : s[i] = x
  BY <1>1 DEF D!ToSet
<1>3. D!ToSet(s) \subseteq V
  BY <1>2
<1>4. D!ToSet(s) = {} <=> s = <<>>
  <2>1. ASSUME s # <<>> PROVE s[1] \in D!ToSet(s)
    BY <1>2, <2>1
  <2>2. ASSUME s = <<>> PROVE D!ToSet(s) = {}
    BY <1>1, <2>2 DEF D!ToSet
  <2> QED BY <2>1, <2>2
<1> QED BY <1>2, <1>3, <1>4

LEMMA SetOfMore ==
  ASSUME NEW V, NEW s \in Seq(V), NEW x \in V
  PROVE  Append(s, x) \in Seq(V) /\ D!ToSet(Append(s, x)) = D!ToSet(s) \cup {x}
<1>1. PICK t : t = Append(s, x)
  OBVIOUS
<1>2. t \in Seq(V) /\ Len(t) = Len(s) + 1 /\ t[Len(s) + 1] = x /\ \A i \in 1..Len(s) : t[i] = s[i]
  BY <1>1, AppendProperties
<1>3. \A y : y \in D!ToSet(t) <=> y \in D!ToSet(s) \cup {x}
  <2>1. ASSUME NEW y, y \in D!ToSet(t) PROVE y \in D!ToSet(s) \cup {x}
    <3>1. PICK i \in 1..Len(t) : t[i] = y
      BY <1>2, <2>1, SetOf
    <3>2. CASE i = Len(s) + 1
      BY <1>2, <3>1, <3>2
    <3>3. CASE i # Len(s) + 1
      <4>1. i \in 1..Len(s) /\ s[i] = y
        BY <1>2, <3>1, <3>3
      <4> QED BY <4>1, SetOf
    <3> QED BY <3>2, <3>3
  <2>2. ASSUME NEW y, y \in D!ToSet(s) PROVE y \in D!ToSet(t)
    <3>1. PICK i \in 1..Len(s) : s[i] = y
      BY <2>2, SetOf
    <3>2. i \in 1..Len(t) /\ t[i] = y
      BY <1>2, <3>1
    <3> QED BY <1>2, <3>2, SetOf
  <2>3. x \in D!ToSet(t)
    <3>1. Len(s) + 1 \in 1..Len(t)
      BY <1>2
    <3> QED BY <1>2, <3>1, SetOf
  <2> QED BY <2>1, <2>2, <2>3
<1> QED BY <1>1, <1>2, <1>3

LEMMA SetOfFew == D!ToSet(<<>>) = {} /\ \A x : D!ToSet(<<x>>) = {x}
BY DEF D!ToSet

LEMMA OnlyLaws ==
  ASSUME NEW V, NEW Z, NEW s \in Seq(V)
  PROVE  /\ D!Only(s, Z) \in Seq(V) /\ D!ToSet(D!Only(s, Z)) = D!ToSet(s) \cap Z
         /\ D!ToSet(s) \subseteq Z => D!Only(s, Z) = s
<1> DEFINE P(t) == /\ D!Only(t, Z) \in Seq(V) /\ D!ToSet(D!Only(t, Z)) = D!ToSet(t) \cap Z
                   /\ D!ToSet(t) \subseteq Z => D!Only(t, Z) = t
           W == {t \in Seq(V) : P(t)}
<1>1. <<>> \in W
  <2>1. D!Only(<<>>, Z) = <<>>
    BY OnlyEmpty
  <2>2. D!ToSet(<<>>) = {}
    BY SetOfFew
  <2>3. <<>> \in Seq(V)
    OBVIOUS
  <2>4. P(<<>>)
    BY <2>1, <2>2, <2>3
  <2> QED BY <2>3, <2>4
<1>2. ASSUME NEW t \in Seq(V), NEW x \in V, t \in W PROVE Append(t, x) \in W
  <2>1. PICK u : u = Append(t, x)
    OBVIOUS
  <2>2. PICK k : k = D!Only(t, Z)
    OBVIOUS
  <2>3. k \in Seq(V) /\ D!ToSet(k) = D!ToSet(t) \cap Z /\ (D!ToSet(t) \subseteq Z => k = t)
    BY <1>2, <2>2
  <2>4. u \in Seq(V) /\ D!ToSet(u) = D!ToSet(t) \cup {x}
    BY <2>1, SetOfMore
  <2>5. D!Only(u, Z) = IF x \in Z THEN Append(k, x) ELSE k
    BY <2>1, <2>2, OnlyAppend
  <2>6. Append(k, x) \in Seq(V) /\ D!ToSet(Append(k, x)) = D!ToSet(k) \cup {x}
    BY <2>3, SetOfMore
  <2>7. D!Only(u, Z) \in Seq(V) /\ D!ToSet(D!Only(u, Z)) = D!ToSet(u) \cap Z
    BY <2>3, <2>4, <2>5, <2>6
  <2>8. D!ToSet(u) \subseteq Z => D!Only(u, Z) = u
    BY <2>1, <2>3, <2>4, <2>5
  <2> QED BY <2>1, <2>4, <2>7, <2>8
<1>3. Seq(V) \subseteq W
  <2> HIDE DEF W
  <2> QED BY <1>1, <1>2, EverySeq
<1> QED BY <1>3

LEMMA OnlyIs ==
  ASSUME NEW V, NEW Z, NEW s \in Seq(V)
  PROVE  D!Only(s, Z) \in Seq(V) /\ D!ToSet(D!Only(s, Z)) = D!ToSet(s) \cap Z
BY OnlyLaws, Zenon

LEMMA OnlyAll ==
  ASSUME NEW V, NEW Z, NEW s \in Seq(V), D!ToSet(s) \subseteq Z
  PROVE  D!Only(s, Z) = s
BY OnlyLaws, Zenon

LEMMA OnlyTwice ==
  ASSUME NEW V, NEW Z, NEW Y, NEW s \in Seq(V)
  PROVE  D!Only(D!Only(s, Z), Y) = D!Only(s, Z \cap Y)
<1> DEFINE P(t) == D!Only(D!Only(t, Z), Y) = D!Only(t, Z \cap Y)
           W == {t \in Seq(V) : P(t)}
<1>1. <<>> \in W
  BY OnlyEmpty
<1>2. ASSUME NEW t \in Seq(V), NEW x \in V, t \in W PROVE Append(t, x) \in W
  <2>1. PICK u \in Seq(V) : u = Append(t, x)
    BY AppendProperties
  <2>2. PICK k : k = D!Only(t, Z) /\ k \in Seq(V)
    BY OnlyIs
  <2>3. D!Only(k, Y) = D!Only(t, Z \cap Y)
    BY <1>2, <2>2
  <2>4. D!Only(u, Z) = IF x \in Z THEN Append(k, x) ELSE k
    BY <2>1, <2>2, OnlyAppend
  <2>5. D!Only(u, Z \cap Y) = IF x \in Z \cap Y THEN Append(D!Only(t, Z \cap Y), x) ELSE D!Only(t, Z \cap Y)
    BY <2>1, OnlyAppend
  <2>6. D!Only(Append(k, x), Y) = IF x \in Y THEN Append(D!Only(k, Y), x) ELSE D!Only(k, Y)
    BY <2>2, OnlyAppend, SMTT(30)
  <2>7. D!Only(D!Only(u, Z), Y) = D!Only(u, Z \cap Y)
    <3>1. CASE x \in Z
      <4>1. D!Only(u, Z) = Append(k, x) /\ (x \in Z \cap Y <=> x \in Y)
        BY <2>4, <3>1
      <4> QED BY <2>3, <2>5, <2>6, <4>1
    <3>2. CASE x \notin Z
      <4>1. D!Only(u, Z) = k /\ x \notin Z \cap Y
        BY <2>4, <3>2
      <4> QED BY <2>3, <2>5, <4>1
    <3> QED BY <3>1, <3>2
  <2> QED BY <2>1, <2>7
<1>3. Seq(V) \subseteq W
  <2> HIDE DEF W
  <2> QED BY <1>1, <1>2, EverySeq
<1> QED BY <1>3

\* Only what is in s matters, and it keeps nothing of what is elsewhere.
LEMMA OnlyAgrees ==
  ASSUME NEW V, NEW Z, NEW Y, NEW s \in Seq(V), D!ToSet(s) \cap Z = D!ToSet(s) \cap Y
  PROVE  D!Only(s, Z) = D!Only(s, Y)
<1>1. PICK E : E = D!ToSet(s)
  OBVIOUS
<1>2. D!Only(s, E) = s
  BY <1>1, OnlyAll
<1>3. D!Only(s, Z) = D!Only(s, E \cap Z) /\ D!Only(s, Y) = D!Only(s, E \cap Y)
  <2>1. D!Only(D!Only(s, E), Z) = D!Only(s, E \cap Z) /\ D!Only(D!Only(s, E), Y) = D!Only(s, E \cap Y)
    BY OnlyTwice
  <2> QED BY <1>2, <2>1
<1>4. E \cap Z = E \cap Y
  BY <1>1
<1> QED BY <1>3, <1>4

LEMMA OnlyNone ==
  ASSUME NEW V, NEW Z, NEW s \in Seq(V), D!ToSet(s) \cap Z = {}
  PROVE  D!Only(s, Z) = <<>>
<1>1. D!Only(s, Z) \in Seq(V) /\ D!ToSet(D!Only(s, Z)) = {}
  BY OnlyIs
<1> QED BY <1>1, SetOf

LEMMA SetOfBoth ==
  ASSUME NEW V, NEW s \in Seq(V), NEW t \in Seq(V)
  PROVE  s \o t \in Seq(V) /\ D!ToSet(s \o t) = D!ToSet(s) \cup D!ToSet(t)
<1>1. PICK u, m, n : u = s \o t /\ m = Len(s) /\ n = Len(t)
  OBVIOUS
<1>2. /\ u \in Seq(V) /\ Len(u) = m + n /\ m \in Nat /\ n \in Nat
      /\ \A i \in 1..m + n : u[i] = IF i <= m THEN s[i] ELSE t[i - m]
  BY <1>1, ConcatProperties
<1>3. ASSUME NEW x, x \in D!ToSet(u) PROVE x \in D!ToSet(s) \cup D!ToSet(t)
  <2>1. PICK i \in 1..m + n : u[i] = x
    BY <1>2, <1>3, SetOf
  <2>2. CASE i <= m
    <3>1. i \in 1..m /\ s[i] = x
      BY <1>2, <2>1, <2>2
    <3> QED BY <1>1, <3>1, SetOf
  <2>3. CASE ~(i <= m)
    <3>1. i - m \in 1..n /\ t[i - m] = x
      BY <1>2, <2>1, <2>3
    <3> QED BY <1>1, <3>1, SetOf
  <2> QED BY <2>2, <2>3
<1>4. ASSUME NEW x, x \in D!ToSet(s) PROVE x \in D!ToSet(u)
  <2>1. PICK i \in 1..m : s[i] = x
    BY <1>1, <1>4, SetOf
  <2>2. i \in 1..m + n /\ u[i] = x
    BY <1>2, <2>1
  <2> QED BY <1>2, <2>2, SetOf
<1>5. ASSUME NEW x, x \in D!ToSet(t) PROVE x \in D!ToSet(u)
  <2>1. PICK i \in 1..n : t[i] = x
    BY <1>1, <1>5, SetOf
  <2>2. i + m \in 1..m + n /\ ~(i + m <= m) /\ i + m - m = i
    BY <1>2, <2>1
  <2>3. u[i + m] = x
    BY <1>2, <2>1, <2>2
  <2> QED BY <1>2, <2>2, <2>3, SetOf
<1> QED BY <1>1, <1>2, <1>3, <1>4, <1>5

LEMMA OnlyBoth ==
  ASSUME NEW V, NEW Z, NEW s \in Seq(V), NEW t \in Seq(V)
  PROVE  D!Only(s \o t, Z) = D!Only(s, Z) \o D!Only(t, Z)
<1> DEFINE W == {u \in Seq(V) : D!Only(s \o u, Z) = D!Only(s, Z) \o D!Only(u, Z)}
<1>1. PICK k : k = D!Only(s, Z) /\ k \in Seq(V)
  BY OnlyIs
<1>2. <<>> \in W
  <2>1. s \o <<>> = s /\ k \o <<>> = k /\ D!Only(<<>>, Z) = <<>>
    BY <1>1, OnlyEmpty, ConcatEmptySeq
  <2> QED BY <1>1, <2>1
<1>3. ASSUME NEW u \in Seq(V), NEW x \in V, u \in W PROVE Append(u, x) \in W
  <2>1. \A a, b \in Seq(V) : a \o Append(b, x) = Append(a \o b, x)
    <3> SUFFICES ASSUME NEW a \in Seq(V), NEW b \in Seq(V) PROVE a \o Append(b, x) = Append(a \o b, x)
      OBVIOUS
    <3>1. Append(b, x) = b \o <<x>> /\ <<x>> \in Seq(V) /\ a \o b \in Seq(V)
      BY AppendIsConcat, ConcatProperties
    <3>2. Append(a \o b, x) = (a \o b) \o <<x>>
      BY <3>1, AppendIsConcat
    <3>3. (a \o b) \o <<x>> = a \o (b \o <<x>>)
      BY <3>1, ConcatAssociative, SMTT(30)
    <3> QED BY <3>1, <3>2, <3>3
  <2>2. PICK j : j = D!Only(u, Z) /\ j \in Seq(V)
    BY OnlyIs
  <2>3. s \o u \in Seq(V) /\ Append(u, x) \in Seq(V)
    BY ConcatProperties, AppendProperties
  <2>4. D!Only(s \o u, Z) = k \o j
    BY <1>1, <1>3, <2>2
  <2>5. D!Only(Append(s \o u, x), Z) = IF x \in Z THEN Append(k \o j, x) ELSE k \o j
    BY <2>3, <2>4, OnlyAppend
  <2>6. D!Only(Append(u, x), Z) = IF x \in Z THEN Append(j, x) ELSE j
    BY <2>2, OnlyAppend
  <2>7. s \o Append(u, x) = Append(s \o u, x) /\ k \o Append(j, x) = Append(k \o j, x)
    BY <1>1, <2>1, <2>2
  <2> QED BY <1>1, <2>3, <2>5, <2>6, <2>7
<1>4. Seq(V) \subseteq W
  <2> HIDE DEF W
  <2> QED BY <1>2, <1>3, EverySeq
<1> QED BY <1>4

LEMMA WithoutIs ==
  ASSUME NEW V, NEW Z, NEW Y, NEW s \in Seq(V), D!ToSet(s) \cap Y = D!ToSet(s) \ Z
  PROVE  D!Without(s, Z) = D!Only(s, Y)
<1>1. PICK F : F = D!ToSet(s) \ Z
  OBVIOUS
<1>2. D!ToSet(s) \cap F = D!ToSet(s) \cap Y
  BY <1>1
<1>3. D!Only(s, F) = D!Only(s, Y)
  BY <1>2, OnlyAgrees
<1> QED BY <1>1, <1>3 DEF D!Without

LEMMA WithoutHas ==
  ASSUME NEW V, NEW Z, NEW s \in Seq(V)
  PROVE  D!Without(s, Z) \in Seq(V) /\ D!ToSet(D!Without(s, Z)) = D!ToSet(s) \ Z
<1>1. PICK F : F = D!ToSet(s) \ Z
  OBVIOUS
<1>2. D!Only(s, F) \in Seq(V) /\ D!ToSet(D!Only(s, F)) = D!ToSet(s) \cap F
  BY OnlyIs
<1> QED BY <1>1, <1>2 DEF D!Without

-----------------------------------------------------------------------------
(* inOrder and placeBefore. *)

LEMMA InOrderIs ==
  ASSUME NEW V, NEW items \in Seq(V), NEW ids \in Seq(V)
  PROVE  D!inOrder(items, ids) \in Seq(V) /\ D!ToSet(D!inOrder(items, ids)) = D!ToSet(items)
<1>1. PICK I, O : I = D!ToSet(items) /\ O = D!ToSet(ids)
  OBVIOUS
<1>2. PICK a, b : a = D!Only(ids, I) /\ b = D!Without(items, O)
  OBVIOUS
<1>3. a \in Seq(V) /\ D!ToSet(a) = O \cap I /\ b \in Seq(V) /\ D!ToSet(b) = I \ O
  BY <1>1, <1>2, OnlyIs, WithoutHas
<1>4. a \o b \in Seq(V) /\ D!ToSet(a \o b) = D!ToSet(a) \cup D!ToSet(b)
  BY <1>3, SetOfBoth
<1>5. D!inOrder(items, ids) = a \o b
  BY <1>1, <1>2 DEF D!inOrder
<1> QED BY <1>1, <1>3, <1>4, <1>5

LEMMA InOrderOnly ==
  ASSUME NEW V, NEW Z, NEW items \in Seq(V), NEW ids \in Seq(V)
  PROVE  D!Only(D!inOrder(items, ids), Z) = D!inOrder(D!Only(items, Z), ids)
<1>1. PICK I, O, k : I = D!ToSet(items) /\ O = D!ToSet(ids) /\ k = D!Only(items, Z)
  OBVIOUS
<1>2. k \in Seq(V) /\ D!ToSet(k) = I \cap Z
  BY <1>1, OnlyIs
<1>3. PICK a, b : a = D!Only(ids, I) /\ b = D!Without(items, O)
  OBVIOUS
<1>4. a \in Seq(V) /\ b \in Seq(V)
  BY <1>3, OnlyIs, WithoutHas
<1>5. D!Only(a \o b, Z) = D!Only(a, Z) \o D!Only(b, Z)
  BY <1>4, OnlyBoth
<1>6. D!Only(a, Z) = D!Only(ids, D!ToSet(k))
  <2>1. D!Only(a, Z) = D!Only(ids, I \cap Z)
    BY <1>3, OnlyTwice
  <2> QED BY <1>2, <2>1
<1>7. D!Only(b, Z) = D!Without(k, O)
  <2>1. PICK F : F = (I \ O) \cap Z
    OBVIOUS
  <2>2. D!Only(b, Z) = D!Only(items, F)
    <3>1. PICK W : W = I \ O
      OBVIOUS
    <3>2. D!Only(D!Only(items, W), Z) = D!Only(items, W \cap Z)
      BY OnlyTwice
    <3> QED BY <1>1, <1>3, <2>1, <3>1, <3>2 DEF D!Without
  <2>3. D!Without(k, O) = D!Only(k, F)
    <3>1. D!ToSet(k) \cap F = D!ToSet(k) \ O
      BY <1>2, <2>1
    <3> QED BY <1>2, <3>1, WithoutIs
  <2>4. D!Only(k, F) = D!Only(items, Z \cap F)
    BY <1>1, OnlyTwice
  <2>5. Z \cap F = F
    BY <2>1
  <2> QED BY <2>2, <2>3, <2>4, <2>5
<1>8. D!inOrder(items, ids) = a \o b
  BY <1>1, <1>3 DEF D!inOrder
<1>9. D!inOrder(k, ids) = D!Only(ids, D!ToSet(k)) \o D!Without(k, O)
  BY <1>1 DEF D!inOrder
<1> QED BY <1>1, <1>5, <1>6, <1>7, <1>8, <1>9

\* A complete list is the order itself.
LEMMA InOrderSame ==
  ASSUME NEW V, NEW items \in Seq(V), NEW ids \in Seq(V), D!ToSet(ids) = D!ToSet(items)
  PROVE  D!inOrder(items, ids) = ids
<1>1. D!Only(ids, D!ToSet(items)) = ids
  BY OnlyAll
<1>2. D!Without(items, D!ToSet(ids)) = <<>>
  <2>1. PICK b : b = D!Without(items, D!ToSet(ids))
    OBVIOUS
  <2>2. b \in Seq(V) /\ D!ToSet(b) = {}
    BY <2>1, WithoutHas
  <2> QED BY <2>1, <2>2, SetOf
<1>3. ids \o <<>> = ids
  BY ConcatEmptySeq
<1> QED BY <1>1, <1>2, <1>3 DEF D!inOrder

\* What a list has of other things doesn't matter.
LEMMA InOrderOf ==
  ASSUME NEW V, NEW Y, NEW items \in Seq(V), NEW ids \in Seq(V), D!ToSet(items) \subseteq Y
  PROVE  D!inOrder(items, D!Only(ids, Y)) = D!inOrder(items, ids)
<1>1. PICK I, O, k : I = D!ToSet(items) /\ O = D!ToSet(ids) /\ k = D!Only(ids, Y)
  OBVIOUS
<1>2. k \in Seq(V) /\ D!ToSet(k) = O \cap Y
  BY <1>1, OnlyIs
<1>3. D!Only(k, I) = D!Only(ids, I)
  <2>1. D!Only(k, I) = D!Only(ids, Y \cap I)
    BY <1>1, OnlyTwice
  <2>2. Y \cap I = I
    BY <1>1
  <2> QED BY <2>1, <2>2
<1>4. D!Without(items, D!ToSet(k)) = D!Without(items, O)
  <2>1. I \ D!ToSet(k) = I \ O
    BY <1>1, <1>2
  <2> QED BY <1>1, <2>1 DEF D!Without
<1>5. D!inOrder(items, k) = D!Only(k, I) \o D!Without(items, D!ToSet(k))
  BY <1>1 DEF D!inOrder
<1>6. D!inOrder(items, ids) = D!Only(ids, I) \o D!Without(items, O)
  BY <1>1 DEF D!inOrder
<1> QED BY <1>1, <1>3, <1>4, <1>5, <1>6

PutBetween(ids, id, before, a, b) ==
  /\ D!Without(ids, {id}) = a \o b /\ D!placeBefore(ids, id, before) = a \o (<<id>> \o b)
  /\ b # <<>> => b[1] = before
  /\ before \in D!ToSet(ids) \ {id} => b # <<>>

\* Where placeBefore puts id: before `before`, which is what follows it, or last.
LEMMA PlaceIs ==
  ASSUME NEW V, NEW ids \in Seq(V), NEW id \in V, NEW before
  PROVE  \E a, b \in Seq(V) : PutBetween(ids, id, before, a, b)
<1>1. PICK s : s = D!Without(ids, {id})
  OBVIOUS
<1>2. s \in Seq(V) /\ D!ToSet(s) = D!ToSet(ids) \ {id}
  BY <1>1, WithoutHas
<1>3. PICK n \in Nat : n = Len(s)
  BY <1>2
<1>4. PICK at : at = {i \in DOMAIN s : s[i] = before}
  OBVIOUS
<1>5. DOMAIN s = 1..n
  BY <1>2, <1>3
<1>6. CASE at = {}
  <2>1. D!placeBefore(ids, id, before) = Append(s, id)
    BY <1>1, <1>4, <1>6 DEF D!placeBefore
  <2>2. Append(s, id) = s \o <<id>> /\ <<id>> \in Seq(V)
    BY <1>2, AppendIsConcat
  <2>3. s \o <<>> = s /\ <<id>> \o <<>> = <<id>>
    BY <1>2, <2>2, ConcatEmptySeq
  <2>4. before \notin D!ToSet(s)
    BY <1>2, <1>4, <1>6 DEF D!ToSet
  <2>5. <<>> \in Seq(V)
    OBVIOUS
  <2>6. D!placeBefore(ids, id, before) = s \o (<<id>> \o <<>>)
    BY <2>1, <2>2, <2>3
  <2> QED BY <1>1, <1>2, <2>3, <2>4, <2>5, <2>6 DEF PutBetween
<1>7. CASE at # {}
  <2>1. PICK i : i = CHOOSE j \in at : TRUE
    OBVIOUS
  <2>2. i \in 1..n /\ s[i] = before
    BY <1>4, <1>5, <1>7, <2>1
  <2>3. PICK a, b : a = SubSeq(s, 1, i - 1) /\ b = SubSeq(s, i, n)
    OBVIOUS
  <2>4. D!placeBefore(ids, id, before) = (a \o <<id>>) \o b
    BY <1>1, <1>3, <1>4, <1>7, <2>1, <2>3 DEF D!placeBefore
  <2>5. \A j \in 1..n : s[j] \in V
    BY <1>2, <1>3
  <2>6. a \in Seq(V)
    <3>1. 1 \in Int /\ i - 1 \in Int /\ \A j \in 1..i - 1 : s[j] \in V
      BY <2>2, <2>5
    <3> QED BY <2>3, <3>1, SubSeqProperties
  <2>7. b \in Seq(V) /\ Len(b) = n - i + 1 /\ b[1] = s[i]
    <3>1. i \in Int /\ n \in Int /\ i <= n /\ 1 \in 1..n - i + 1 /\ i + 1 - 1 = i /\ \A j \in i..n : s[j] \in V
      BY <2>2, <2>5
    <3>2. /\ SubSeq(s, i, n) \in Seq(V) /\ Len(SubSeq(s, i, n)) = IF i <= n THEN n - i + 1 ELSE 0
          /\ \A j \in 1..n - i + 1 : SubSeq(s, i, n)[j] = s[i + j - 1]
      BY <3>1, SubSeqProperties
    <3> QED BY <2>3, <3>1, <3>2
  <2>8. a \o b = s
    <3>1. 1 \in 1..Len(s) + 1 /\ i - 1 \in 1 - 1..Len(s) /\ n \in i - 1..Len(s) /\ i - 1 + 1 = i
      BY <1>3, <2>2
    <3>2. SubSeq(s, 1, i - 1) \o SubSeq(s, i - 1 + 1, n) = SubSeq(s, 1, n)
      BY <1>2, <3>1, ConcatAdjacentSubSeq
    <3>3. SubSeq(s, 1, n) = s
      BY <1>2, <1>3, SubSeqFull
    <3> QED BY <2>3, <3>1, <3>2, <3>3
  <2>9. (a \o <<id>>) \o b = a \o (<<id>> \o b) /\ b # <<>> /\ b[1] = before
    <3>1. <<id>> \in Seq(V)
      OBVIOUS
    <3> QED BY <2>2, <2>6, <2>7, <3>1, ConcatAssociative
  <2> QED BY <1>1, <1>2, <2>4, <2>6, <2>7, <2>8, <2>9 DEF PutBetween
<1> QED BY <1>6, <1>7

LEMMA PlaceHas ==
  ASSUME NEW V, NEW ids \in Seq(V), NEW id \in V, NEW before
  PROVE  /\ D!placeBefore(ids, id, before) \in Seq(V)
         /\ D!ToSet(D!placeBefore(ids, id, before)) = D!ToSet(ids) \cup {id}
<1>1. PICK a \in Seq(V), b \in Seq(V) : PutBetween(ids, id, before, a, b)
  BY PlaceIs
<1>2. PICK e \in Seq(V) : e = <<id>> /\ D!ToSet(e) = {id}
  <2>1. <<id>> \in Seq(V)
    OBVIOUS
  <2> QED BY <2>1, SetOfFew
<1>3. PICK t : t = e \o b
  OBVIOUS
<1>4. t \in Seq(V) /\ D!ToSet(t) = {id} \cup D!ToSet(b)
  <2>1. e \o b \in Seq(V) /\ D!ToSet(e \o b) = D!ToSet(e) \cup D!ToSet(b)
    BY SetOfBoth, SMTT(30)
  <2> QED BY <1>2, <1>3, <2>1, Zenon
<1>5. a \o t \in Seq(V) /\ D!ToSet(a \o t) = D!ToSet(a) \cup D!ToSet(t)
  BY <1>4, SetOfBoth
<1>6. D!ToSet(a \o b) = D!ToSet(a) \cup D!ToSet(b)
  BY SetOfBoth
<1>7. D!ToSet(D!Without(ids, {id})) = D!ToSet(ids) \ {id}
  BY WithoutHas
<1> QED BY <1>1, <1>2, <1>3, <1>4, <1>5, <1>6, <1>7 DEF PutBetween

\* It moves nothing else.
LEMMA PlaceMoves ==
  ASSUME NEW V, NEW Y, NEW ids \in Seq(V), NEW id \in V, NEW before, id \notin Y
  PROVE  D!Only(D!placeBefore(ids, id, before), Y) = D!Only(ids, Y)
<1>1. PICK a \in Seq(V), b \in Seq(V) : PutBetween(ids, id, before, a, b)
  BY PlaceIs
<1>2. PICK p, q : p = D!Only(a, Y) /\ q = D!Only(b, Y)
  OBVIOUS
<1>3. q \in Seq(V)
  BY <1>2, OnlyIs
<1>4. D!Only(<<id>> \o b, Y) = q
  <2>1. <<id>> \in Seq(V) /\ D!ToSet(<<id>>) \cap Y = {}
    BY SetOfFew
  <2>2. D!Only(<<id>>, Y) = <<>>
    BY <2>1, OnlyNone
  <2>3. D!Only(<<id>> \o b, Y) = D!Only(<<id>>, Y) \o q
    BY <1>2, <2>1, OnlyBoth
  <2>4. <<>> \o q = q
    BY <1>3, ConcatEmptySeq
  <2> QED BY <2>2, <2>3, <2>4
<1>5. D!Only(a \o (<<id>> \o b), Y) = p \o q
  <2>1. <<id>> \o b \in Seq(V)
    BY ConcatProperties
  <2>2. D!Only(a \o (<<id>> \o b), Y) = D!Only(a, Y) \o D!Only(<<id>> \o b, Y)
    BY <2>1, OnlyBoth
  <2> QED BY <1>2, <1>4, <2>2
<1>6. D!Only(a \o b, Y) = p \o q
  BY <1>2, OnlyBoth
<1>7. D!Only(D!Without(ids, {id}), Y) = D!Only(ids, Y)
  <2>1. PICK F : F = D!ToSet(ids) \ {id}
    OBVIOUS
  <2>2. D!Only(D!Only(ids, F), Y) = D!Only(ids, F \cap Y)
    BY OnlyTwice
  <2>3. D!ToSet(ids) \cap (F \cap Y) = D!ToSet(ids) \cap Y
    BY <2>1
  <2>4. D!Only(ids, F \cap Y) = D!Only(ids, Y)
    BY <2>3, OnlyAgrees
  <2> QED BY <2>1, <2>2, <2>4 DEF D!Without
<1> QED BY <1>1, <1>5, <1>6, <1>7 DEF PutBetween

\* Where a sequence has id and what follows it.
LEMMA BeforeIs ==
  ASSUME NEW V, NEW a \in Seq(V), NEW b \in Seq(V), NEW id \in V, NEW before, NEW none, none \notin V,
         b # <<>> => b[1] = before,
         NEW s, s = a \o (<<id>> \o b), before \in D!ToSet(s) \ {id} => b # <<>>
  PROVE  D!IsBefore(s, id, before, none)
<1>1. PICK m, n : m = Len(a) /\ n = Len(b)
  OBVIOUS
<1>2. m \in Nat /\ n \in Nat
  BY <1>1
<1>3. PICK t : t = <<id>> \o b
  OBVIOUS
<1>4. t \in Seq(V) /\ Len(t) = n + 1 /\ t[1] = id /\ \A i \in 1..n : t[i + 1] = b[i]
  BY <1>1, <1>3
<1>5. s \in Seq(V) /\ Len(s) = m + n + 1 /\ \A i \in 1..n + 1 : s[m + i] = t[i]
  BY <1>1, <1>2, <1>3, <1>4
<1>6. s[m + 1] = id
  BY <1>2, <1>4, <1>5
<1>7. id \in D!ToSet(s)
  <2>1. m + 1 \in 1..Len(s)
    BY <1>2, <1>5
  <2> QED BY <1>5, <1>6, <2>1, SetOf
<1>8. ASSUME before \in D!ToSet(s) \ {id}
      PROVE  \E i \in DOMAIN s : i > 1 /\ s[i] = before /\ s[i - 1] = id
  <2>1. n >= 1 /\ b[1] = before
    BY <1>1, <1>2, <1>8
  <2>2. m + 2 \in DOMAIN s /\ m + 2 > 1 /\ m + 2 - 1 = m + 1 /\ 2 \in 1..n + 1 /\ 1 \in 1..n
    BY <1>2, <1>5, <2>1
  <2>3. s[m + 2] = before
    BY <1>4, <1>5, <2>1, <2>2
  <2>5. PICK i : i = m + 2
    OBVIOUS
  <2>6. i \in DOMAIN s /\ i > 1 /\ s[i] = before /\ i - 1 = m + 1
    BY <1>2, <2>2, <2>3, <2>5
  <2>7. s[i - 1] = id
    BY <1>6, <2>6
  <2> QED BY <2>6, <2>7, Zenon
<1>9. ASSUME before = none PROVE D!Last(s) = id
  <2>1. n = 0
    BY <1>1, <1>2, <1>9
  <2>2. Len(s) = m + 1
    BY <1>2, <1>5, <2>1
  <2> QED BY <1>6, <2>2 DEF D!Last
<1> QED BY <1>7, <1>8, <1>9 DEF D!IsBefore

LEMMA PlacedIsBefore ==
  ASSUME NEW V, NEW ids \in Seq(V), NEW id \in V, NEW before, NEW none, none \notin V
  PROVE  D!IsBefore(D!placeBefore(ids, id, before), id, before, none)
<1>1. PICK a \in Seq(V), b \in Seq(V) : PutBetween(ids, id, before, a, b)
  BY PlaceIs
<1>2. D!ToSet(D!placeBefore(ids, id, before)) = D!ToSet(ids) \cup {id}
  BY PlaceHas
<1>3. PICK s : s = D!placeBefore(ids, id, before)
  OBVIOUS
<1>4. s = a \o (<<id>> \o b) /\ (before \in D!ToSet(s) \ {id} => b # <<>>)
  BY <1>1, <1>2, <1>3 DEF PutBetween
<1>5. b # <<>> => b[1] = before
  BY <1>1 DEF PutBetween
<1>6. D!IsBefore(s, id, before, none)
  BY <1>4, <1>5, BeforeIs
<1> QED BY <1>3, <1>6

LEMMA Around ==
  ASSUME NEW V, NEW a \in Seq(V), NEW b \in Seq(V), NEW x \in V, NEW y \in V
  PROVE  ((a \o <<x>>) \o <<y>>) \o b = (a \o <<x>>) \o (<<y>> \o b)
<1>1. PICK e \in Seq(V) : e = <<y>>
  <2>1. <<y>> \in Seq(V)
    OBVIOUS
  <2> QED BY <2>1, Zenon
<1>2. PICK c \in Seq(V) : c = a \o <<x>>
  <2>1. <<x>> \in Seq(V)
    OBVIOUS
  <2> QED BY <2>1, ConcatProperties
<1>3. (c \o e) \o b = c \o (e \o b)
  BY ConcatAssociative
<1> QED BY <1>1, <1>2, <1>3

\* It is still there without what is not in Y.
LEMMA BeforeOnly ==
  ASSUME NEW V, NEW Y, NEW s \in Seq(V), NEW id \in Y, NEW before, NEW none, none \notin V,
         D!IsBefore(s, id, before, none)
  PROVE  D!IsBefore(D!Only(s, Y), id, before, none)
<1>1. /\ id \in D!ToSet(s)
      /\ before \in D!ToSet(s) \ {id} => \E i \in DOMAIN s : i > 1 /\ s[i] = before /\ s[i - 1] = id
      /\ before = none => D!Last(s) = id
  BY DEF D!IsBefore
<1>2. PICK k : k = D!Only(s, Y)
  OBVIOUS
<1>3. k \in Seq(V) /\ D!ToSet(k) = D!ToSet(s) \cap Y
  BY <1>2, OnlyIs
<1>4. id \in V /\ DOMAIN s = 1..Len(s) /\ id \in D!ToSet(k)
  BY <1>1, <1>3, SetOf
<1>5. CASE before \in D!ToSet(k) \ {id}
  <2>1. before \in D!ToSet(s) \ {id} /\ before \in Y /\ before \in V
    BY <1>3, <1>5, SetOf
  <2>2. PICK i \in 1..Len(s) : i > 1 /\ s[i] = before /\ s[i - 1] = id
    BY <1>1, <1>4, <2>1
  <2>3. PICK n \in Nat : n = Len(s)
    OBVIOUS
  <2>4. PICK a, b : a = SubSeq(s, 1, i - 2) /\ b = SubSeq(s, i + 1, n)
    OBVIOUS
  <2>5. \A j \in 1..n : s[j] \in V
    BY <2>3
  <2>6. a \in Seq(V) /\ b \in Seq(V)
    <3>1. /\ 1 \in Int /\ i - 2 \in Int /\ i + 1 \in Int /\ n \in Int
          /\ (\A j \in 1..i - 2 : s[j] \in V) /\ \A j \in i + 1..n : s[j] \in V
      BY <2>2, <2>3, <2>5
    <3> QED BY <2>4, <3>1, SubSeqProperties
  <2>7. s = (a \o <<id>>) \o (<<before>> \o b)
    <3>1. /\ SubSeq(s, 1, i) \o SubSeq(s, i + 1, n) = SubSeq(s, 1, n)
          /\ SubSeq(s, 1, n) = s
      <4>1. 1 \in 1..Len(s) + 1 /\ i \in 1 - 1..Len(s) /\ n \in i..Len(s)
        BY <2>2, <2>3
      <4> QED BY <2>3, <4>1, ConcatAdjacentSubSeq, SubSeqFull
    <3>2. SubSeq(s, 1, i) = SubSeq(s, 1, i - 1) \o <<s[i]>>
      <4>1. 1 \in 1..Len(s) /\ i \in 1..Len(s)
        BY <2>2, <2>3
      <4> QED BY <4>1, SubSeqRecursiveSecond
    <3>3. SubSeq(s, 1, i - 1) = SubSeq(s, 1, i - 1 - 1) \o <<s[i - 1]>>
      <4>1. 1 \in 1..Len(s) /\ i - 1 \in 1..Len(s)
        BY <2>2, <2>3
      <4> QED BY <4>1, SubSeqRecursiveSecond
    <3>4. SubSeq(s, 1, i) = (a \o <<id>>) \o <<before>>
      <4>1. i - 1 - 1 = i - 2
        BY <2>2
      <4> QED BY <2>2, <2>4, <3>2, <3>3, <4>1
    <3>5. ((a \o <<id>>) \o <<before>>) \o b = (a \o <<id>>) \o (<<before>> \o b)
      BY <1>4, <2>1, <2>6, Around
    <3> QED BY <2>4, <3>1, <3>4, <3>5
  <2>8. PICK p, q : p = D!Only(a, Y) /\ q = D!Only(b, Y)
    OBVIOUS
  <2>9. /\ <<id>> \in Seq(V) /\ <<before>> \in Seq(V) /\ p \in Seq(V) /\ q \in Seq(V)
        /\ D!Only(<<id>>, Y) = <<id>> /\ D!Only(<<before>>, Y) = <<before>>
    <3>1. <<id>> \in Seq(V) /\ <<before>> \in Seq(V)
      BY <1>4, <2>1
    <3>2. D!ToSet(<<id>>) \subseteq Y /\ D!ToSet(<<before>>) \subseteq Y
      BY <2>1, SetOfFew
    <3> QED BY <2>6, <2>8, <3>1, <3>2, OnlyIs, OnlyAll
  <2>10. k = (p \o <<id>>) \o (<<before>> \o q)
    <3>1. PICK e, f : e = <<id>> /\ f = <<before>>
      OBVIOUS
    <3>2. PICK g, h : g = a \o e /\ h = f \o b
      OBVIOUS
    <3>3. e \in Seq(V) /\ f \in Seq(V) /\ D!Only(e, Y) = e /\ D!Only(f, Y) = f
      BY <2>9, <3>1
    <3>4. g \in Seq(V) /\ h \in Seq(V)
      BY <2>6, <3>2, <3>3, ConcatProperties
    <3>5. D!Only(g, Y) = p \o e /\ D!Only(h, Y) = f \o q
      <4>1. D!Only(a \o e, Y) = D!Only(a, Y) \o D!Only(e, Y) /\ D!Only(f \o b, Y) = D!Only(f, Y) \o D!Only(b, Y)
        BY <2>6, <3>3, OnlyBoth, ZenonT(60)
      <4> QED BY <2>8, <3>2, <3>3, <4>1, Zenon
    <3>6. D!Only(g \o h, Y) = D!Only(g, Y) \o D!Only(h, Y)
      BY <3>4, OnlyBoth
    <3> QED BY <1>2, <2>7, <3>1, <3>2, <3>5, <3>6
  <2>11. PICK c : c = <<before>> \o q
    OBVIOUS
  <2>12. c \in Seq(V) /\ c # <<>> /\ c[1] = before
    BY <2>9, <2>11
  <2>13. k = p \o (<<id>> \o c)
    <3>1. (p \o <<id>>) \o c = p \o (<<id>> \o c)
      BY <2>9, <2>12, ConcatAssociative, SMTT(30)
    <3> QED BY <2>10, <2>11, <3>1
  <2>14. D!IsBefore(k, id, before, none)
    BY <1>4, <2>9, <2>12, <2>13, BeforeIs
  <2> QED BY <1>2, <2>14
<1>6. CASE before \notin D!ToSet(k) \ {id}
  <2>1. ASSUME before = none PROVE D!Last(k) = id
    <3>1. s # <<>> /\ s[Len(s)] = id
      BY <1>1, <2>1, SetOf DEF D!Last
    <3>2. PICK a \in Seq(V), x \in V : s = Append(a, x)
      BY <3>1, SequenceEmptyOrAppend
    <3>3. x = id
      BY <3>1, <3>2
    <3>4. k = Append(D!Only(a, Y), id)
      BY <1>2, <3>2, <3>3, OnlyAppend
    <3>5. D!Only(a, Y) \in Seq(V)
      BY OnlyIs
    <3> QED BY <1>4, <3>4, <3>5 DEF D!Last
  <2> QED BY <1>2, <1>4, <1>6, <2>1 DEF D!IsBefore
<1> QED BY <1>5, <1>6

-----------------------------------------------------------------------------
(* What a layout shows. *)

\* What lists and orders are of.
Ids == D!Keys \cup D!Connectors
Layouts ==
  [names : [D!Keys -> Names \cup {D!None}], folders : Seq(Folders), order : [D!Holders \cup {"root"} -> Seq(Ids)]]
\* The connectors that the folders before f list.
Earlier(l, f) == UNION {D!Listed(l, l.folders[i]) : i \in D!Before(l, f)}

LEMMA KeysApart ==
  ASSUME D!DataTreeConstants
  PROVE  /\ D!Connectors = 1..MaxConnectors /\ MaxConnectors \in Nat /\ KindOf \in [D!Connectors -> D!Kinds]
         /\ KindOrder \in Seq(Ids) /\ D!ToSet(KindOrder) = D!Kinds
         /\ D!Kinds \cap Folders = {} /\ "documents" \notin D!Holders /\ "root" \notin D!Holders
         /\ D!Keys \subseteq Ids /\ D!Connectors \subseteq Ids /\ D!Holders = D!Kinds \cup Folders
         /\ D!Keys = D!Kinds \cup Folders \cup {"documents"}
<1>1. D!Kinds \subseteq Ids
  BY DEF Ids, D!Keys
<1>2. KindOrder \in Seq(Ids)
  <2>1. KindOrder \in Seq(D!Kinds)
    BY DEF D!DataTreeConstants
  <2> QED BY <1>1, <2>1, SeqMonotonic
<1> QED BY <1>2 DEF D!DataTreeConstants, D!Connectors, D!Kinds, D!Keys, D!Holders, D!None, Ids

LEMMA LayoutIs ==
  ASSUME D!DataTreeConstants, NEW l \in Layouts
  PROVE  /\ l.folders \in Seq(Ids) /\ D!ToSet(l.folders) \subseteq Folders
         /\ \A k \in D!Holders \cup {"root"} : l.order[k] \in Seq(Ids)
         /\ DOMAIN l.order = D!Holders \cup {"root"} /\ DOMAIN l.names = D!Keys
<1>1. l.folders \in Seq(Folders) /\ l.order \in [D!Holders \cup {"root"} -> Seq(Ids)] /\ DOMAIN l.names = D!Keys
  BY DEF Layouts, Ids
<1>2. Folders \subseteq Ids
  BY DEF Ids, D!Keys
<1>3. l.folders \in Seq(Ids)
  BY <1>1, <1>2, SeqMonotonic
<1> QED BY <1>1, <1>3, SetOf

LEMMA UnplacedIs ==
  ASSUME D!DataTreeConstants, NEW l \in Layouts, NEW cs \in SUBSET D!Connectors, NEW k
  PROVE  /\ D!Unplaced(l, cs, k) \in Seq(Ids)
         /\ D!ToSet(D!Unplaced(l, cs, k)) = {c \in cs \ D!Placed(l) : KindOf[c] = k}
<1>1. PICK n \in Nat : n = MaxConnectors
  BY DEF D!DataTreeConstants
<1>2. PICK all : all = [c \in D!Connectors |-> c]
  OBVIOUS
<1>3. all \in Seq(Ids) /\ D!ToSet(all) = D!Connectors
  <2>1. D!Connectors = 1..n
    BY <1>1 DEF D!Connectors
  <2>2. all = [c \in 1..n |-> c]
    BY <1>2, <2>1
  <2>3. all \in Seq(1..n)
    BY <2>2
  <2>4. all \in Seq(Ids)
    BY <2>1, <2>3, SeqMonotonic DEF Ids
  <2>5. D!ToSet(all) = 1..n
    BY <2>2 DEF D!ToSet
  <2> QED BY <2>1, <2>4, <2>5
<1>4. PICK Z : Z = {c \in cs \ D!Placed(l) : KindOf[c] = k}
  OBVIOUS
<1>5. D!Only(all, Z) \in Seq(Ids) /\ D!ToSet(D!Only(all, Z)) = D!ToSet(all) \cap Z
  BY <1>3, OnlyIs
<1>6. D!Unplaced(l, cs, k) = D!Only(all, Z)
  BY <1>2, <1>4 DEF D!Unplaced
<1> QED BY <1>3, <1>4, <1>5, <1>6

LEMMA UnplacedOnly ==
  ASSUME D!DataTreeConstants, NEW l \in Layouts, NEW cs \in SUBSET D!Connectors, NEW B \in SUBSET cs, NEW k
  PROVE  D!Unplaced(l, B, k) = D!Only(D!Unplaced(l, cs, k), B)
<1>1. PICK all : all = [c \in D!Connectors |-> c]
  OBVIOUS
<1>2. all \in Seq(D!Connectors)
  BY <1>1, KeysApart
<1>3. PICK Z, Y : Z = {c \in cs \ D!Placed(l) : KindOf[c] = k} /\ Y = {c \in B \ D!Placed(l) : KindOf[c] = k}
  OBVIOUS
<1>4. D!Only(D!Only(all, Z), B) = D!Only(all, Z \cap B)
  BY <1>2, OnlyTwice
<1>5. Z \cap B = Y
  BY <1>3
<1> QED BY <1>1, <1>3, <1>4, <1>5 DEF D!Unplaced

LEMMA ItemsOf ==
  ASSUME D!DataTreeConstants, NEW l \in Layouts, NEW cs, NEW k \in D!Holders
  PROVE  /\ k \in D!Kinds => D!Items(l, cs, k) = D!inOrder(D!Unplaced(l, cs, k), l.order[k])
         /\ k \in D!ToSet(l.folders) => D!Items(l, cs, k) = D!Only(l.order[k], cs \ Earlier(l, k))
         /\ k \notin D!Kinds \cup D!ToSet(l.folders) => D!Items(l, cs, k) = <<>>
<1>1. k \in D!ToSet(l.folders) => k \notin D!Kinds
  BY KeysApart, LayoutIs
<1> QED BY <1>1 DEF D!Items, D!Held, Earlier

LEMMA ItemsIs ==
  ASSUME D!DataTreeConstants, NEW l \in Layouts, NEW cs \in SUBSET D!Connectors, NEW k \in D!Holders
  PROVE  /\ D!Items(l, cs, k) \in Seq(Ids)
         /\ k \in D!Kinds => D!ToSet(D!Items(l, cs, k)) = {c \in cs \ D!Placed(l) : KindOf[c] = k}
         /\ k \in D!ToSet(l.folders) => D!ToSet(D!Items(l, cs, k)) = (D!Listed(l, k) \cap cs) \ Earlier(l, k)
         /\ k \notin D!Kinds \cup D!ToSet(l.folders) => D!ToSet(D!Items(l, cs, k)) = {}
<1>1. PICK o : o = l.order[k] /\ o \in Seq(Ids)
  BY LayoutIs
<1>2. CASE k \in D!Kinds
  <2>1. PICK u : u = D!Unplaced(l, cs, k)
    OBVIOUS
  <2>2. u \in Seq(Ids) /\ D!ToSet(u) = {c \in cs \ D!Placed(l) : KindOf[c] = k}
    BY <2>1, UnplacedIs
  <2>3. D!Items(l, cs, k) = D!inOrder(u, o)
    BY <1>1, <1>2, <2>1, ItemsOf
  <2>4. k \notin D!ToSet(l.folders)
    BY <1>2, KeysApart, LayoutIs
  <2> QED BY <1>1, <1>2, <2>2, <2>3, <2>4, InOrderIs
<1>3. CASE k \in D!ToSet(l.folders)
  <2>1. PICK Z : Z = cs \ Earlier(l, k)
    OBVIOUS
  <2>2. D!Items(l, cs, k) = D!Only(o, Z)
    BY <1>1, <1>3, <2>1, ItemsOf
  <2>3. D!Only(o, Z) \in Seq(Ids) /\ D!ToSet(D!Only(o, Z)) = D!ToSet(o) \cap Z
    BY <1>1, OnlyIs
  <2>4. k \notin D!Kinds
    BY <1>3, KeysApart, LayoutIs
  <2> QED BY <1>1, <1>3, <2>1, <2>2, <2>3, <2>4 DEF D!Listed
<1>4. CASE k \notin D!Kinds \cup D!ToSet(l.folders)
  <2>1. D!Items(l, cs, k) = <<>>
    BY <1>4, ItemsOf
  <2> QED BY <1>4, <2>1, SetOfFew
<1> QED BY <1>2, <1>3, <1>4

LEMMA ItemsWithin ==
  ASSUME D!DataTreeConstants, NEW l \in Layouts, NEW cs \in SUBSET D!Connectors, NEW k \in D!Holders
  PROVE  D!Items(l, cs, k) \in Seq(Ids) /\ D!ToSet(D!Items(l, cs, k)) \subseteq cs
<1>1. D!Items(l, cs, k) \in Seq(Ids)
  BY ItemsIs
<1>2. CASE k \in D!Kinds
  BY <1>1, <1>2, ItemsIs
<1>3. CASE k \in D!ToSet(l.folders)
  BY <1>1, <1>3, ItemsIs
<1>4. CASE k \notin D!Kinds \cup D!ToSet(l.folders)
  BY <1>1, <1>4, ItemsIs
<1> QED BY <1>2, <1>3, <1>4

\* What it shows of fewer connectors.
LEMMA ItemsOnly ==
  ASSUME D!DataTreeConstants, NEW l \in Layouts, NEW cs \in SUBSET D!Connectors, NEW B \in SUBSET cs,
         NEW k \in D!Holders
  PROVE  D!Items(l, B, k) = D!Only(D!Items(l, cs, k), B)
<1>1. PICK o : o = l.order[k] /\ o \in Seq(Ids)
  BY LayoutIs
<1>2. CASE k \in D!Kinds
  <2>1. PICK u, v : u = D!Unplaced(l, cs, k) /\ v = D!Unplaced(l, B, k)
    OBVIOUS
  <2>2. u \in Seq(Ids) /\ v = D!Only(u, B)
    BY <2>1, UnplacedIs, UnplacedOnly
  <2>3. D!Only(D!inOrder(u, o), B) = D!inOrder(D!Only(u, B), o)
    BY <1>1, <2>2, InOrderOnly
  <2>4. D!Items(l, cs, k) = D!inOrder(u, o)
    BY <1>1, <1>2, <2>1, ItemsOf
  <2>5. D!Items(l, B, k) = D!inOrder(v, o)
    BY <1>1, <1>2, <2>1, ItemsOf
  <2> QED BY <2>2, <2>3, <2>4, <2>5
<1>3. CASE k \in D!ToSet(l.folders)
  <2>1. PICK Z, Y : Z = cs \ Earlier(l, k) /\ Y = B \ Earlier(l, k)
    OBVIOUS
  <2>2. D!Only(D!Only(o, Z), B) = D!Only(o, Z \cap B)
    BY <1>1, OnlyTwice
  <2>3. Z \cap B = Y
    BY <2>1
  <2>4. D!Items(l, cs, k) = D!Only(o, Z)
    BY <1>1, <1>3, <2>1, ItemsOf
  <2>5. D!Items(l, B, k) = D!Only(o, Y)
    BY <1>1, <1>3, <2>1, ItemsOf
  <2> QED BY <2>2, <2>3, <2>4, <2>5
<1>4. CASE k \notin D!Kinds \cup D!ToSet(l.folders)
  BY <1>4, ItemsOf, OnlyEmpty
<1> QED BY <1>2, <1>3, <1>4

\* All the root may show, in its order, and what it shows of the connectors cs.
All(l) == KindOrder \o l.folders \o <<"documents">>
Whole(l) == D!inOrder(All(l), l.order["root"])
Shows(l, cs) == D!Filled(l, cs) \cup D!ToSet(l.folders) \cup {"documents"}

LEMMA AllIs ==
  ASSUME D!DataTreeConstants, NEW l \in Layouts
  PROVE  /\ All(l) \in Seq(Ids) /\ D!ToSet(All(l)) = D!Kinds \cup D!ToSet(l.folders) \cup {"documents"}
         /\ \A Z : D!Only(All(l), Z) = D!Only(KindOrder, Z) \o D!Only(l.folders, Z) \o D!Only(<<"documents">>, Z)
<1>1. PICK a, b, c : a = KindOrder /\ b = l.folders /\ c = <<"documents">>
  OBVIOUS
<1>2. a \in Seq(Ids) /\ b \in Seq(Ids)
  BY <1>1, KeysApart, LayoutIs
<1>3. c \in Seq(Ids) /\ D!ToSet(c) = {"documents"}
  <2>1. "documents" \in Ids
    BY DEF Ids, D!Keys
  <2>2. <<"documents">> \in Seq(Ids)
    BY <2>1
  <2> QED BY <1>1, <2>2, SetOfFew
<1>4. PICK e : e = a \o b
  OBVIOUS
<1>5. e \in Seq(Ids) /\ D!ToSet(e) = D!ToSet(a) \cup D!ToSet(b)
  BY <1>2, <1>4, SetOfBoth
<1>6. e \o c \in Seq(Ids) /\ D!ToSet(e \o c) = D!ToSet(e) \cup D!ToSet(c)
  BY <1>3, <1>5, SetOfBoth
<1>7. All(l) = e \o c
  BY <1>1, <1>4 DEF All
<1>8. ASSUME NEW Z
      PROVE  D!Only(All(l), Z) = D!Only(KindOrder, Z) \o D!Only(l.folders, Z) \o D!Only(<<"documents">>, Z)
  <2>1. D!Only(e, Z) = D!Only(a, Z) \o D!Only(b, Z)
    BY <1>2, <1>4, OnlyBoth
  <2>2. D!Only(e \o c, Z) = D!Only(e, Z) \o D!Only(c, Z)
    BY <1>3, <1>5, OnlyBoth
  <2> QED BY <1>1, <1>7, <2>1, <2>2
<1>9. D!ToSet(a) = D!Kinds
  BY <1>1, KeysApart
<1> QED BY <1>1, <1>3, <1>5, <1>6, <1>7, <1>8, <1>9

LEMMA RootOf ==
  ASSUME D!DataTreeConstants, NEW l \in Layouts, NEW cs \in SUBSET D!Connectors
  PROVE  D!Root(l, cs) = D!inOrder(D!Only(All(l), Shows(l, cs)), l.order["root"])
<1>1. PICK Z : Z = Shows(l, cs)
  OBVIOUS
<1>2. D!Filled(l, cs) \subseteq D!Kinds
  BY DEF D!Filled
<1>3. D!Only(KindOrder, Z) = D!Only(KindOrder, D!Filled(l, cs))
  <2>1. PICK a, E : a = KindOrder /\ E = D!Filled(l, cs)
    OBVIOUS
  <2>2. a \in Seq(Ids) /\ D!ToSet(a) = D!Kinds
    BY <2>1, KeysApart
  <2>3. D!ToSet(a) \cap Z = D!ToSet(a) \cap E
    BY <1>1, <1>2, <2>1, <2>2, KeysApart, LayoutIs DEF Shows
  <2>4. D!Only(a, Z) = D!Only(a, E)
    BY <2>2, <2>3, OnlyAgrees
  <2> QED BY <2>1, <2>4
<1>4. D!Only(l.folders, Z) = l.folders
  <2>1. l.folders \in Seq(Ids) /\ D!ToSet(l.folders) \subseteq Z
    BY <1>1, LayoutIs DEF Shows
  <2> QED BY <2>1, OnlyAll
<1>5. D!Only(<<"documents">>, Z) = <<"documents">>
  <2>1. PICK c \in Seq(Ids) : c = <<"documents">>
    <3>1. "documents" \in Ids
      BY DEF Ids, D!Keys
    <3>2. <<"documents">> \in Seq(Ids)
      BY <3>1
    <3> QED BY <3>2, Zenon
  <2>2. D!ToSet(c) \subseteq Z
    BY <1>1, <2>1, SetOfFew DEF Shows
  <2>3. D!Only(c, Z) = c
    BY <2>2, OnlyAll
  <2> QED BY <2>1, <2>3
<1>6. D!Only(All(l), Z) = D!Only(KindOrder, D!Filled(l, cs)) \o l.folders \o <<"documents">>
  BY <1>3, <1>4, <1>5, AllIs
<1> QED BY <1>1, <1>6 DEF D!Root

LEMMA RootIs ==
  ASSUME D!DataTreeConstants, NEW l \in Layouts, NEW cs \in SUBSET D!Connectors
  PROVE  /\ Whole(l) \in Seq(Ids) /\ D!Root(l, cs) = D!Only(Whole(l), Shows(l, cs))
         /\ D!Root(l, cs) \in Seq(Ids) /\ D!ToSet(D!Root(l, cs)) = Shows(l, cs)
<1>1. PICK a, o, Z : a = All(l) /\ o = l.order["root"] /\ Z = Shows(l, cs)
  OBVIOUS
<1>2. a \in Seq(Ids) /\ D!ToSet(a) = D!Kinds \cup D!ToSet(l.folders) \cup {"documents"}
  BY <1>1, AllIs
<1>3. o \in Seq(Ids)
  BY <1>1, LayoutIs
<1>4. D!inOrder(a, o) \in Seq(Ids) /\ D!ToSet(D!inOrder(a, o)) = D!ToSet(a)
  BY <1>2, <1>3, InOrderIs
<1>5. D!Only(D!inOrder(a, o), Z) = D!inOrder(D!Only(a, Z), o)
  BY <1>2, <1>3, InOrderOnly
<1>6. PICK w : w = Whole(l)
  OBVIOUS
<1>7. w = D!inOrder(a, o)
  BY <1>1, <1>6 DEF Whole
<1>8. D!Root(l, cs) = D!Only(w, Z)
  BY <1>1, <1>5, <1>7, RootOf
<1>9. D!Only(w, Z) \in Seq(Ids) /\ D!ToSet(D!Only(w, Z)) = D!ToSet(w) \cap Z
  BY <1>4, <1>7, OnlyIs
<1>10. Z \subseteq D!ToSet(a)
  BY <1>1, <1>2 DEF Shows, D!Filled
<1> QED BY <1>1, <1>4, <1>6, <1>7, <1>8, <1>9, <1>10

LEMMA ShowsFewer ==
  ASSUME D!DataTreeConstants, NEW l \in Layouts, NEW cs \in SUBSET D!Connectors, NEW B \in SUBSET cs
  PROVE  Shows(l, B) \subseteq Shows(l, cs)
<1>1. SUFFICES ASSUME NEW k \in D!Kinds, D!Items(l, B, k) # <<>> PROVE D!Items(l, cs, k) # <<>>
  BY DEF Shows, D!Filled
<1>2. k \in D!Holders
  BY KeysApart
<1>3. D!Items(l, B, k) = D!Only(D!Items(l, cs, k), B)
  BY <1>2, ItemsOnly
<1> QED BY <1>1, <1>3, OnlyEmpty

LEMMA RootOnly ==
  ASSUME D!DataTreeConstants, NEW l \in Layouts, NEW cs \in SUBSET D!Connectors, NEW B \in SUBSET cs
  PROVE  D!Root(l, B) = D!Only(D!Root(l, cs), Shows(l, B))
<1>1. PICK w, Z, Y : w = Whole(l) /\ Z = Shows(l, cs) /\ Y = Shows(l, B)
  OBVIOUS
<1>2. w \in Seq(Ids) /\ D!Root(l, cs) = D!Only(w, Z) /\ D!Root(l, B) = D!Only(w, Y)
  BY <1>1, RootIs
<1>3. D!Only(D!Only(w, Z), Y) = D!Only(w, Z \cap Y)
  BY <1>2, OnlyTwice
<1>4. Z \cap Y = Y
  BY <1>1, ShowsFewer
<1> QED BY <1>1, <1>2, <1>3, <1>4

-----------------------------------------------------------------------------
(* MadeOf, by its parts. *)

MovedBy(l, cs, ch) ==
  CASE ch.type = "move-connector" -> {ch.id}
    [] ch.type = "delete-folder" -> D!ToSet(D!Items(l, cs, ch.key))
    [] OTHER -> {}
RootMoved(ch) == IF ch.type = "move-root" THEN {ch.key} ELSE {}
ItemsKept(l, m, cs, moved) ==
  \A k \in D!Holders : D!Without(D!Items(l, cs, k), moved) = D!Without(D!Items(m, cs, k), moved)
RestKept(l, m, ch) ==
  /\ \A k \in D!Keys \ (IF ch.type \in {"create-folder", "rename", "delete-folder"} THEN {ch.key} ELSE {}) :
       l.names[k] = m.names[k]
  /\ D!ToSet(m.folders) = CASE ch.type = "create-folder" -> D!ToSet(l.folders) \cup {ch.key}
                            [] ch.type = "delete-folder" -> D!ToSet(l.folders) \ {ch.key}
                            [] OTHER -> D!ToSet(l.folders)
NamedSo(l, m, cs, ch) ==
  ch.type \in {"create-folder", "rename"} =>
    m.names[ch.key] = ch.name /\ (ch.key \in D!ToSet(D!Root(l, cs)) \cup Folders => D!Free(l, cs, ch.key, ch.name))
PutThere(m, cs, ch) ==
  (ch.type = "move-connector" /\ ch.id \in cs) =>
    D!IsBefore(D!Items(m, cs, D!Home(ch.id, ch)), ch.id, ch.before, 0)
PutInRoot(l, m, cs, ch) ==
  (ch.type = "move-root" /\ ch.key \in D!ToSet(D!Root(l, cs))) =>
    D!IsBefore(D!Root(m, cs), ch.key, ch.before, "none")

LEMMA MadeOfIs ==
  ASSUME NEW l, NEW m, NEW cs, NEW ch
  PROVE  D!MadeOf(l, m, cs, ch) <=>
           /\ ItemsKept(l, m, cs, MovedBy(l, cs, ch)) /\ D!SameOrder(D!Root(l, cs), D!Root(m, cs), RootMoved(ch))
           /\ RestKept(l, m, ch) /\ NamedSo(l, m, cs, ch) /\ PutThere(m, cs, ch) /\ PutInRoot(l, m, cs, ch)
BY Zenon DEF D!MadeOf, D!None, MovedBy, RootMoved, ItemsKept, RestKept, NamedSo, PutThere, PutInRoot

\* Layouts that show the same of the connectors cs.
ReadsAlike(l, b, cs) ==
  /\ \A k \in D!Holders : D!Items(l, cs, k) = D!Items(b, cs, k)
  /\ D!Root(l, cs) = D!Root(b, cs) /\ l.names = b.names /\ l.folders = b.folders

LEMMA MadeOfAlike ==
  ASSUME NEW l, NEW b, NEW m, NEW cs, NEW ch \in D!Changes, ReadsAlike(l, b, cs), D!MadeOf(b, m, cs, ch)
  PROVE  D!MadeOf(l, m, cs, ch)
<1>1. ch.type = "delete-folder" => ch.key \in D!Holders
  BY DEF D!Changes, D!Moves, D!FolderChanges, D!Renames, D!Holders
<1>2. MovedBy(l, cs, ch) = MovedBy(b, cs, ch)
  <2>1. ch.type = "delete-folder" => D!Items(l, cs, ch.key) = D!Items(b, cs, ch.key)
    BY <1>1 DEF ReadsAlike
  <2> QED BY <2>1 DEF MovedBy
<1>3. PICK moved : moved = MovedBy(b, cs, ch)
  OBVIOUS
<1>4. ItemsKept(b, m, cs, moved) => ItemsKept(l, m, cs, moved)
  BY DEF ItemsKept, ReadsAlike
<1>5. RestKept(b, m, ch) => RestKept(l, m, ch)
  BY DEF RestKept, ReadsAlike
<1>6. D!Free(l, cs, ch.key, ch.name) = D!Free(b, cs, ch.key, ch.name)
  BY DEF D!Free, ReadsAlike
<1>7. NamedSo(b, m, cs, ch) => NamedSo(l, m, cs, ch)
  BY <1>6 DEF NamedSo, ReadsAlike
<1>8. PutInRoot(b, m, cs, ch) => PutInRoot(l, m, cs, ch)
  BY DEF PutInRoot, ReadsAlike
<1>9. D!Root(l, cs) = D!Root(b, cs)
  BY DEF ReadsAlike
<1> QED BY <1>2, <1>3, <1>4, <1>5, <1>7, <1>8, <1>9, MadeOfIs, Zenon

-----------------------------------------------------------------------------
(* Of fewer connectors. *)

LEMMA WithoutOnly ==
  ASSUME NEW V, NEW s \in Seq(V), NEW M, NEW B
  PROVE  D!Only(D!Without(s, M), B) = D!Without(D!Only(s, B), M \cap B)
<1>1. PICK E, k, F : E = D!ToSet(s) /\ k = D!Only(s, B) /\ F = E \ M
  OBVIOUS
<1>2. k \in Seq(V) /\ D!ToSet(k) = E \cap B
  BY <1>1, OnlyIs
<1>3. D!Without(s, M) = D!Only(s, F)
  BY <1>1 DEF D!Without
<1>4. D!Only(D!Only(s, F), B) = D!Only(s, F \cap B)
  BY OnlyTwice
<1>5. D!Without(k, M \cap B) = D!Only(k, F)
  <2>1. D!ToSet(k) \cap F = D!ToSet(k) \ (M \cap B)
    BY <1>1, <1>2
  <2> QED BY <1>2, <2>1, WithoutIs
<1>6. D!Only(k, F) = D!Only(s, B \cap F)
  BY <1>1, OnlyTwice
<1>7. B \cap F = F \cap B
  OBVIOUS
<1> QED BY <1>1, <1>3, <1>4, <1>5, <1>6, <1>7

LEMMA WithoutFew ==
  ASSUME NEW V, NEW s \in Seq(V), NEW M, NEW J, D!ToSet(s) \cap M = D!ToSet(s) \cap J
  PROVE  D!Without(s, M) = D!Without(s, J)
<1>1. D!ToSet(s) \ M = D!ToSet(s) \ J
  OBVIOUS
<1> QED BY <1>1 DEF D!Without

LEMMA ItemsKeptFewer ==
  ASSUME D!DataTreeConstants, NEW l \in Layouts, NEW m \in Layouts, NEW cs \in SUBSET D!Connectors,
         NEW B \in SUBSET cs, NEW M, NEW J, M \cap B = J \cap B, ItemsKept(l, m, cs, M)
  PROVE  ItemsKept(l, m, B, J)
<1> SUFFICES ASSUME NEW k \in D!Holders PROVE D!Without(D!Items(l, B, k), J) = D!Without(D!Items(m, B, k), J)
  BY DEF ItemsKept
<1>1. PICK s, t : s = D!Items(l, cs, k) /\ t = D!Items(m, cs, k)
  OBVIOUS
<1>2. s \in Seq(Ids) /\ t \in Seq(Ids)
  BY <1>1, ItemsWithin
<1>3. D!Items(l, B, k) = D!Only(s, B) /\ D!Items(m, B, k) = D!Only(t, B)
  BY <1>1, ItemsOnly
<1>4. D!Only(D!Without(s, M), B) = D!Without(D!Only(s, B), M \cap B)
  BY <1>2, WithoutOnly
<1>5. D!Only(D!Without(t, M), B) = D!Without(D!Only(t, B), M \cap B)
  BY <1>2, WithoutOnly
<1>6. D!Without(s, M) = D!Without(t, M)
  BY <1>1 DEF ItemsKept
<1>7. \A u \in {s, t} : D!Without(D!Only(u, B), M \cap B) = D!Without(D!Only(u, B), J)
  <2> SUFFICES ASSUME NEW u \in Seq(Ids) PROVE D!Without(D!Only(u, B), M \cap B) = D!Without(D!Only(u, B), J)
    BY <1>2
  <2>1. PICK v : v = D!Only(u, B)
    OBVIOUS
  <2>2. v \in Seq(Ids) /\ D!ToSet(v) \subseteq B
    BY <2>1, OnlyIs
  <2>3. D!ToSet(v) \cap (M \cap B) = D!ToSet(v) \cap J
    BY <2>2
  <2>4. D!Without(v, M \cap B) = D!Without(v, J)
    BY <2>2, <2>3, WithoutFew
  <2> QED BY <2>1, <2>4
<1> QED BY <1>3, <1>4, <1>5, <1>6, <1>7

LEMMA OrderFewer ==
  ASSUME NEW V, NEW a \in Seq(V), NEW b \in Seq(V), NEW M, NEW Z, NEW Y, D!SameOrder(a, b, M)
  PROVE  D!SameOrder(D!Only(a, Z), D!Only(b, Y), M)
<1>1. PICK p, q : p = D!Only(a, Z) /\ q = D!Only(b, Y)
  OBVIOUS
<1>2. p \in Seq(V) /\ q \in Seq(V) /\ D!ToSet(p) = D!ToSet(a) \cap Z /\ D!ToSet(q) = D!ToSet(b) \cap Y
  BY <1>1, OnlyIs
<1>3. PICK W, F : W = (D!ToSet(a) \cap D!ToSet(b)) \ M /\ F = (D!ToSet(p) \cap D!ToSet(q)) \ M
  OBVIOUS
<1>4. Z \cap F = F /\ Y \cap F = F /\ W \cap F = F
  BY <1>2, <1>3
<1>5. D!Only(p, F) = D!Only(a, F) /\ D!Only(q, F) = D!Only(b, F)
  <2>1. D!Only(D!Only(a, Z), F) = D!Only(a, Z \cap F)
    BY OnlyTwice
  <2>2. D!Only(D!Only(b, Y), F) = D!Only(b, Y \cap F)
    BY OnlyTwice
  <2> QED BY <1>1, <1>4, <2>1, <2>2
<1>6. D!Only(a, F) = D!Only(b, F)
  <2>1. D!Only(D!Only(a, W), F) = D!Only(a, W \cap F)
    BY OnlyTwice
  <2>2. D!Only(D!Only(b, W), F) = D!Only(b, W \cap F)
    BY OnlyTwice
  <2>3. D!Only(a, W) = D!Only(b, W)
    BY <1>3 DEF D!SameOrder
  <2> QED BY <1>4, <2>1, <2>2, <2>3
<1>7. D!SameOrder(p, q, M)
  BY <1>3, <1>5, <1>6 DEF D!SameOrder
<1> QED BY <1>1, <1>7

LEMMA SeqWithin ==
  ASSUME NEW V, NEW W, NEW s \in Seq(V), D!ToSet(s) \subseteq W
  PROVE  s \in Seq(W)
<1>1. PICK n \in Nat : n = Len(s)
  OBVIOUS
<1>2. \A i \in 1..n : s[i] \in W
  BY <1>1, SetOf
<1>3. s \in [1..n -> V]
  BY <1>1
<1>4. s \in [1..n -> W]
  BY <1>2, <1>3
<1> QED BY <1>4

LEMMA NoneApart ==
  ASSUME D!DataTreeConstants
  PROVE  0 \notin D!Connectors /\ "none" \notin D!Keys
BY KeysApart DEF D!DataTreeConstants, D!None

LEMMA ItemsSeq ==
  ASSUME D!DataTreeConstants, NEW l \in Layouts, NEW cs \in SUBSET D!Connectors, NEW k \in D!Holders
  PROVE  D!Items(l, cs, k) \in Seq(D!Connectors)
<1>1. D!Items(l, cs, k) \in Seq(Ids) /\ D!ToSet(D!Items(l, cs, k)) \subseteq D!Connectors
  BY ItemsWithin
<1> QED BY <1>1, SeqWithin

LEMMA ShowsKeys ==
  ASSUME D!DataTreeConstants, NEW l \in Layouts, NEW cs
  PROVE  Shows(l, cs) \subseteq D!Keys
<1>1. D!Filled(l, cs) \subseteq D!Kinds
  BY DEF D!Filled
<1>2. D!ToSet(l.folders) \subseteq Folders
  BY LayoutIs
<1> QED BY <1>1, <1>2 DEF Shows, D!Keys

LEMMA RootSeq ==
  ASSUME D!DataTreeConstants, NEW l \in Layouts, NEW cs \in SUBSET D!Connectors
  PROVE  D!Root(l, cs) \in Seq(D!Keys)
<1>1. D!Root(l, cs) \in Seq(Ids) /\ D!ToSet(D!Root(l, cs)) = Shows(l, cs)
  BY RootIs
<1>2. Shows(l, cs) \subseteq D!Keys
  BY ShowsKeys
<1> QED BY <1>1, <1>2, SeqWithin

LEMMA HomeIs ==
  ASSUME D!DataTreeConstants, NEW ch \in D!Changes, ch.type = "move-connector"
  PROVE  /\ D!Home(ch.id, ch) \in D!Holders /\ ch.id \in D!Connectors
         /\ ch.to = "none" => D!Home(ch.id, ch) = KindOf[ch.id] /\ D!Home(ch.id, ch) \in D!Kinds
         /\ ch.to # "none" => D!Home(ch.id, ch) = ch.to /\ D!Home(ch.id, ch) \in Folders
<1>1. ch.id \in D!Connectors /\ ch.to \in Folders \cup {"none"}
  BY DEF D!Changes, D!Moves, D!FolderChanges, D!Renames, D!None
<1>2. KindOf[ch.id] \in D!Kinds
  BY <1>1, KeysApart
<1> QED BY <1>1, <1>2 DEF D!Home, D!None, D!Holders

LEMMA MadeOfFewer ==
  ASSUME D!DataTreeConstants, NEW l \in Layouts, NEW m \in Layouts, NEW cs \in SUBSET D!Connectors,
         NEW B \in SUBSET cs, NEW ch \in D!Changes, D!MadeOf(l, m, cs, ch)
  PROVE  D!MadeOf(l, m, B, ch)
<1>1. /\ ItemsKept(l, m, cs, MovedBy(l, cs, ch)) /\ D!SameOrder(D!Root(l, cs), D!Root(m, cs), RootMoved(ch))
      /\ RestKept(l, m, ch) /\ NamedSo(l, m, cs, ch) /\ PutThere(m, cs, ch) /\ PutInRoot(l, m, cs, ch)
  BY MadeOfIs, Zenon
<1>2. B \in SUBSET D!Connectors
  OBVIOUS
<1>3. ItemsKept(l, m, B, MovedBy(l, B, ch))
  <2>1. PICK M, J : M = MovedBy(l, cs, ch) /\ J = MovedBy(l, B, ch)
    OBVIOUS
  <2>2. M \cap B = J \cap B
    <3>1. CASE ch.type = "delete-folder"
      <4>1. ch.key \in D!Holders
        BY <3>1 DEF D!Changes, D!Moves, D!FolderChanges, D!Renames, D!Holders
      <4>2. PICK s : s = D!Items(l, cs, ch.key)
        OBVIOUS
      <4>3. s \in Seq(Ids) /\ D!Items(l, B, ch.key) = D!Only(s, B)
        BY <4>1, <4>2, ItemsWithin, ItemsOnly
      <4>4. D!ToSet(D!Only(s, B)) = D!ToSet(s) \cap B
        BY <4>3, OnlyIs
      <4>5. M = D!ToSet(s) /\ J = D!ToSet(D!Only(s, B))
        BY <2>1, <3>1, <4>2, <4>3 DEF MovedBy
      <4> QED BY <4>4, <4>5
    <3>2. CASE ch.type # "delete-folder"
      BY <2>1, <3>2 DEF MovedBy
    <3> QED BY <3>1, <3>2
  <2> QED BY <1>1, <2>1, <2>2, ItemsKeptFewer
<1>4. D!SameOrder(D!Root(l, B), D!Root(m, B), RootMoved(ch))
  <2>1. PICK a, b, Z, Y, M :
          /\ a = D!Root(l, cs) /\ b = D!Root(m, cs) /\ Z = Shows(l, B) /\ Y = Shows(m, B) /\ M = RootMoved(ch)
    OBVIOUS
  <2>2. a \in Seq(Ids) /\ b \in Seq(Ids)
    BY <2>1, RootIs
  <2>3. D!Root(l, B) = D!Only(a, Z) /\ D!Root(m, B) = D!Only(b, Y)
    BY <2>1, RootOnly
  <2>4. D!SameOrder(a, b, M)
    BY <1>1, <2>1
  <2>5. D!SameOrder(D!Only(a, Z), D!Only(b, Y), M)
    BY <2>2, <2>4, OrderFewer
  <2> QED BY <2>1, <2>3, <2>5
<1>5. D!ToSet(D!Root(l, B)) \subseteq D!ToSet(D!Root(l, cs))
  BY <1>2, RootIs, ShowsFewer
<1>6. NamedSo(l, m, B, ch)
  <2>1. D!Free(l, cs, ch.key, ch.name) => D!Free(l, B, ch.key, ch.name)
    BY <1>5 DEF D!Free
  <2> QED BY <1>1, <1>5, <2>1 DEF NamedSo
<1>7. PutThere(m, B, ch)
  <2>1. SUFFICES ASSUME ch.type = "move-connector", ch.id \in B
                 PROVE  D!IsBefore(D!Items(m, B, D!Home(ch.id, ch)), ch.id, ch.before, 0)
    BY DEF PutThere
  <2>2. PICK h, s : h = D!Home(ch.id, ch) /\ s = D!Items(m, cs, h)
    OBVIOUS
  <2>3. h \in D!Holders
    BY <2>1, <2>2, HomeIs
  <2>4. s \in Seq(D!Connectors) /\ D!Items(m, B, h) = D!Only(s, B)
    BY <2>2, <2>3, ItemsSeq, ItemsOnly
  <2>5. D!IsBefore(s, ch.id, ch.before, 0)
    BY <1>1, <2>1, <2>2 DEF PutThere
  <2>6. PICK id, before, none : id = ch.id /\ before = ch.before /\ none = 0
    OBVIOUS
  <2>7. none \notin D!Connectors /\ id \in B /\ D!IsBefore(s, id, before, none)
    BY <2>1, <2>5, <2>6, NoneApart
  <2>8. D!IsBefore(D!Only(s, B), id, before, none)
    BY <2>4, <2>7, BeforeOnly
  <2> QED BY <2>2, <2>4, <2>6, <2>8
<1>8. PutInRoot(l, m, B, ch)
  <2>1. SUFFICES ASSUME ch.type = "move-root", ch.key \in D!ToSet(D!Root(l, B))
                 PROVE  D!IsBefore(D!Root(m, B), ch.key, ch.before, "none")
    BY DEF PutInRoot
  <2>2. \A k \in D!Holders : D!Items(l, B, k) = D!Items(m, B, k)
    <3> SUFFICES ASSUME NEW k \in D!Holders PROVE D!Items(l, B, k) = D!Items(m, B, k)
      OBVIOUS
    <3>1. PICK s, t : s = D!Items(l, B, k) /\ t = D!Items(m, B, k)
      OBVIOUS
    <3>2. s \in Seq(Ids) /\ t \in Seq(Ids)
      BY <1>2, <3>1, ItemsWithin
    <3>3. MovedBy(l, B, ch) = {}
      BY <2>1 DEF MovedBy
    <3>4. D!Without(s, {}) = D!Without(t, {})
      BY <1>3, <3>1, <3>3 DEF ItemsKept
    <3>5. \A u \in {s, t} : D!Without(u, {}) = u
      <4> SUFFICES ASSUME NEW u \in Seq(Ids) PROVE D!Without(u, {}) = u
        BY <3>2
      <4>1. D!ToSet(u) \ {} = D!ToSet(u)
        OBVIOUS
      <4>2. D!Only(u, D!ToSet(u)) = u
        BY OnlyAll
      <4> QED BY <4>1, <4>2 DEF D!Without
    <3> QED BY <3>1, <3>4, <3>5
  <2>3. D!ToSet(l.folders) = D!ToSet(m.folders)
    BY <1>1, <2>1 DEF RestKept
  <2>4. D!Kinds \subseteq D!Holders
    BY KeysApart
  <2>5. Shows(l, B) = Shows(m, B)
    BY <2>2, <2>3, <2>4 DEF Shows, D!Filled
  <2>6. PICK s, Y, id, before : s = D!Root(m, cs) /\ Y = Shows(m, B) /\ id = ch.key /\ before = ch.before
    OBVIOUS
  <2>7. s \in Seq(D!Keys) /\ D!Root(m, B) = D!Only(s, Y)
    BY <2>6, RootSeq, RootOnly
  <2>8. id \in Y
    BY <1>2, <2>1, <2>5, <2>6, RootIs
  <2>9. ch.key \in D!ToSet(D!Root(l, cs))
    BY <1>5, <2>1
  <2>10. D!IsBefore(s, id, before, "none")
    BY <1>1, <2>1, <2>6, <2>9 DEF PutInRoot
  <2>11. D!IsBefore(D!Only(s, Y), id, before, "none")
    BY <2>7, <2>8, <2>10, NoneApart, BeforeOnly
  <2> QED BY <2>6, <2>7, <2>11
<1>9. RestKept(l, m, ch)
  BY <1>1
<1> QED BY <1>3, <1>4, <1>6, <1>7, <1>8, <1>9, MadeOfIs, Zenon

-----------------------------------------------------------------------------
(* Pruned layouts. *)

\* Its folders list what they hold of the connectors cs, each a part of its
\* own, and those there aren't list nothing.
Pruned(l, cs) ==
  /\ \A f \in D!ToSet(l.folders) : l.order[f] = D!Items(l, cs, f) /\ D!Listed(l, f) \subseteq cs
  /\ \A f, g \in D!ToSet(l.folders) : f # g => D!Listed(l, f) \cap D!Listed(l, g) = {}
  /\ \A f \in Folders \ D!ToSet(l.folders) : l.order[f] = <<>>

LEMMA ListsApart ==
  ASSUME D!DataTreeConstants, NEW l \in Layouts, NEW cs,
         \A f \in D!ToSet(l.folders) : D!Listed(l, f) \subseteq cs,
         \A f, g \in D!ToSet(l.folders) : f # g => D!Listed(l, f) \cap D!Listed(l, g) = {}
  PROVE  \A f \in D!ToSet(l.folders) : D!Items(l, cs, f) = l.order[f]
<1> SUFFICES ASSUME NEW f \in D!ToSet(l.folders) PROVE D!Items(l, cs, f) = l.order[f]
  OBVIOUS
<1>1. f \in D!Holders /\ l.order[f] \in Seq(Ids)
  BY LayoutIs, KeysApart
<1>2. D!Listed(l, f) \cap Earlier(l, f) = {}
  <2>1. SUFFICES ASSUME NEW i \in D!Before(l, f) PROVE D!Listed(l, f) \cap D!Listed(l, l.folders[i]) = {}
    BY DEF Earlier
  <2>2. i \in DOMAIN l.folders /\ l.folders[i] # f
    <3>1. DOMAIN l.folders = 1..Len(l.folders)
      BY LayoutIs
    <3>2. i \in DOMAIN l.folders /\ \A j \in 1..i : l.folders[j] # f
      BY DEF D!Before
    <3> QED BY <3>1, <3>2
  <2>3. l.folders[i] \in D!ToSet(l.folders)
    BY <2>2 DEF D!ToSet
  <2> QED BY <2>2, <2>3
<1>3. PICK o, Z : o = l.order[f] /\ Z = cs \ Earlier(l, f)
  OBVIOUS
<1>4. D!ToSet(o) \subseteq Z
  BY <1>2, <1>3 DEF D!Listed
<1>5. D!Only(o, Z) = o
  BY <1>1, <1>3, <1>4, OnlyAll
<1> QED BY <1>1, <1>3, <1>5, ItemsOf

\* The first folder that lists c holds it.
LEMMA FirstHolds ==
  ASSUME D!DataTreeConstants, NEW l \in Layouts, NEW c \in D!Placed(l)
  PROVE  \E f \in D!ToSet(l.folders) : c \in D!Listed(l, f) /\ c \notin Earlier(l, f)
<1>1. PICK n, s : n \in Nat /\ s = l.folders /\ DOMAIN s = 1..n
  BY LayoutIs
<1>2. PICK W : W = {i \in 1..n : c \in D!Listed(l, s[i])}
  OBVIOUS
<1>3. W # {}
  <2>1. PICK f \in D!ToSet(s) : c \in D!Listed(l, f)
    BY <1>1 DEF D!Placed
  <2>2. PICK i \in 1..n : s[i] = f
    BY <1>1 DEF D!ToSet
  <2> QED BY <1>2, <2>1, <2>2
<1>4. PICK a \in W : \A i \in W : a <= i
  <2>1. W \in SUBSET Nat
    BY <1>2
  <2> QED BY <1>3, <2>1, LeastPlace
<1>5. a \in 1..n /\ c \in D!Listed(l, s[a])
  BY <1>2, <1>4
<1>6. s[a] \in D!ToSet(s)
  BY <1>1, <1>5 DEF D!ToSet
<1>7. c \notin Earlier(l, s[a])
  <2>1. SUFFICES ASSUME NEW i \in D!Before(l, s[a]), c \in D!Listed(l, s[i]) PROVE FALSE
    BY <1>1 DEF Earlier
  <2>2. i \in 1..n /\ \A j \in 1..i : s[j] # s[a]
    BY <1>1 DEF D!Before
  <2>3. a <= i
    BY <1>2, <1>4, <2>1, <2>2
  <2>4. a \in 1..i
    BY <1>5, <2>2, <2>3
  <2> QED BY <2>2, <2>4
<1> QED BY <1>1, <1>5, <1>6, <1>7

LEMMA FirstAt ==
  ASSUME D!DataTreeConstants, NEW l \in Layouts, NEW f \in D!ToSet(l.folders)
  PROVE  \E a \in Nat \cap DOMAIN l.folders : l.folders[a] = f /\ \A i \in Nat : i < a /\ i # 0 => l.folders[i] # f
<1>1. PICK n, s : n \in Nat /\ s = l.folders /\ DOMAIN s = 1..n
  BY LayoutIs
<1>2. PICK W : W = {i \in 1..n : s[i] = f}
  OBVIOUS
<1>3. W # {}
  BY <1>1, <1>2 DEF D!ToSet
<1>4. PICK a \in W : \A i \in W : a <= i
  <2>1. W \in SUBSET Nat
    BY <1>2
  <2> QED BY <1>3, <2>1, LeastPlace
<1>5. a \in 1..n /\ s[a] = f
  BY <1>2, <1>4
<1>6. ASSUME NEW i \in Nat, i < a, i # 0 PROVE s[i] # f
  <2>1. i \in 1..n /\ ~(a <= i)
    BY <1>1, <1>5, <1>6
  <2> QED BY <1>2, <1>4, <2>1
<1> QED BY <1>1, <1>5, <1>6

\* Two folders hold nothing together.
LEMMA HeldApart ==
  ASSUME D!DataTreeConstants, NEW l \in Layouts, NEW f \in D!ToSet(l.folders), NEW g \in D!ToSet(l.folders), f # g
  PROVE  (D!Listed(l, f) \ Earlier(l, f)) \cap (D!Listed(l, g) \ Earlier(l, g)) = {}
<1>1. PICK a \in Nat \cap DOMAIN l.folders :
        l.folders[a] = f /\ \A i \in Nat : i < a /\ i # 0 => l.folders[i] # f
  BY FirstAt
<1>2. PICK b \in Nat \cap DOMAIN l.folders :
        l.folders[b] = g /\ \A i \in Nat : i < b /\ i # 0 => l.folders[i] # g
  BY FirstAt
<1>3. a # b
  BY <1>1, <1>2
<1>4. CASE a < b
  <2>1. \A j \in 1..a : l.folders[j] # g
    BY <1>2, <1>4
  <2>2. a \in D!Before(l, g)
    BY <2>1 DEF D!Before
  <2>3. D!Listed(l, f) \subseteq Earlier(l, g)
    BY <1>1, <2>2 DEF Earlier
  <2> QED BY <2>3
<1>5. CASE b < a
  <2>1. \A j \in 1..b : l.folders[j] # f
    BY <1>1, <1>5
  <2>2. b \in D!Before(l, f)
    BY <2>1 DEF D!Before
  <2>3. D!Listed(l, g) \subseteq Earlier(l, f)
    BY <1>2, <2>2 DEF Earlier
  <2> QED BY <2>3
<1> QED BY <1>3, <1>4, <1>5

PrunedTo(l, cs, k) ==
  IF k = "root" THEN D!Kinds \cup D!ToSet(l.folders) \cup {"documents"} ELSE D!ToSet(D!Items(l, cs, k))

LEMMA PrunedIs ==
  ASSUME D!DataTreeConstants, NEW l \in Layouts, NEW cs, NEW p, p = D!prune(l, cs)
  PROVE  /\ p \in Layouts /\ p.names = l.names /\ p.folders = l.folders
         /\ \A k \in D!Holders \cup {"root"} : p.order[k] = D!Only(l.order[k], PrunedTo(l, cs, k))
<1>1. PICK H : H = D!Holders \cup {"root"}
  OBVIOUS
<1>2. PICK o : o = [k \in H |-> D!Only(l.order[k], PrunedTo(l, cs, k))]
  OBVIOUS
<1>3. o \in [H -> Seq(Ids)]
  <2> SUFFICES ASSUME NEW k \in H PROVE D!Only(l.order[k], PrunedTo(l, cs, k)) \in Seq(Ids)
    BY <1>2
  <2>1. l.order[k] \in Seq(Ids)
    BY <1>1, LayoutIs
  <2> QED BY <2>1, OnlyIs
<1>4. DOMAIN l.order = H
  BY <1>1, LayoutIs
<1>5. p = [l EXCEPT !.order = o]
  BY <1>2, <1>4 DEF D!prune, PrunedTo
<1>6. l \in [names : [D!Keys -> Names \cup {"none"}], folders : Seq(Folders), order : [H -> Seq(Ids)]]
  BY <1>1 DEF Layouts, D!None, Ids
<1>7. /\ p \in [names : [D!Keys -> Names \cup {"none"}], folders : Seq(Folders), order : [H -> Seq(Ids)]]
      /\ p.names = l.names /\ p.folders = l.folders /\ p.order = o
  BY <1>3, <1>5, <1>6
<1>8. p \in Layouts
  BY <1>1, <1>7 DEF Layouts, D!None, Ids
<1> QED BY <1>1, <1>2, <1>7, <1>8

\* prune shows the same, and its layout is pruned.
LEMMA PruneKeeps ==
  ASSUME D!DataTreeConstants, NEW l \in Layouts, NEW cs \in SUBSET D!Connectors, NEW p, p = D!prune(l, cs)
  PROVE  p \in Layouts /\ ReadsAlike(l, p, cs) /\ Pruned(p, cs)
<1>1. /\ p \in Layouts /\ p.names = l.names /\ p.folders = l.folders
      /\ \A k \in D!Holders \cup {"root"} : p.order[k] = D!Only(l.order[k], PrunedTo(l, cs, k))
  BY PrunedIs
<1>2. D!ToSet(l.folders) \subseteq Folders /\ Folders \subseteq D!Holders /\ D!Kinds \cap Folders = {}
      /\ "root" \notin D!Holders
  BY LayoutIs, KeysApart
<1>3. ASSUME NEW f \in D!ToSet(l.folders)
      PROVE  p.order[f] = D!Items(l, cs, f) /\ D!Listed(p, f) = (D!Listed(l, f) \cap cs) \ Earlier(l, f)
  <2>1. PICK o, Z, H : o = l.order[f] /\ Z = cs \ Earlier(l, f) /\ H = D!ToSet(D!Items(l, cs, f))
    OBVIOUS
  <2>2. o \in Seq(Ids)
    BY <1>2, <2>1, LayoutIs
  <2>3. D!Items(l, cs, f) = D!Only(o, Z) /\ D!ToSet(D!Only(o, Z)) = D!ToSet(o) \cap Z
    BY <1>2, <2>1, <2>2, ItemsOf, OnlyIs
  <2>4. D!ToSet(o) \cap Z = D!ToSet(o) \cap H
    BY <2>1, <2>3
  <2>5. D!Only(o, Z) = D!Only(o, H)
    BY <2>2, <2>4, OnlyAgrees
  <2>6. p.order[f] = D!Only(o, H)
    <3>1. PrunedTo(l, cs, f) = H
      BY <1>2, <2>1 DEF PrunedTo
    <3> QED BY <1>1, <1>2, <2>1, <3>1
  <2> QED BY <2>1, <2>3, <2>5, <2>6 DEF D!Listed
<1>4. \A f, g \in D!ToSet(p.folders) : f # g => D!Listed(p, f) \cap D!Listed(p, g) = {}
  <2> SUFFICES ASSUME NEW f \in D!ToSet(l.folders), NEW g \in D!ToSet(l.folders), f # g
               PROVE  D!Listed(p, f) \cap D!Listed(p, g) = {}
    BY <1>1
  <2>1. (D!Listed(l, f) \ Earlier(l, f)) \cap (D!Listed(l, g) \ Earlier(l, g)) = {}
    BY HeldApart
  <2> QED BY <1>3, <2>1
<1>5. \A f \in D!ToSet(p.folders) : D!Items(p, cs, f) = p.order[f]
  <2>1. \A f \in D!ToSet(p.folders) : D!Listed(p, f) \subseteq cs
    BY <1>1, <1>3
  <2> QED BY <1>1, <1>4, <2>1, ListsApart
<1>6. ASSUME NEW f \in Folders, f \notin D!ToSet(l.folders)
      PROVE  p.order[f] = <<>> /\ D!Items(l, cs, f) = <<>> /\ D!Items(p, cs, f) = <<>>
  <2>1. f \in D!Holders /\ f \notin D!Kinds \cup D!ToSet(l.folders) /\ f \notin D!Kinds \cup D!ToSet(p.folders)
    BY <1>1, <1>2, <1>6
  <2>2. D!Items(l, cs, f) = <<>> /\ D!Items(p, cs, f) = <<>>
    BY <1>1, <2>1, ItemsOf
  <2>3. PrunedTo(l, cs, f) = {}
    BY <1>2, <2>1, <2>2, SetOfFew DEF PrunedTo
  <2>4. l.order[f] \in Seq(Ids)
    BY <2>1, LayoutIs
  <2>5. PICK o : o = l.order[f]
    OBVIOUS
  <2>6. D!Only(o, {}) = <<>>
    BY <2>4, <2>5, OnlyNone
  <2> QED BY <1>1, <2>1, <2>2, <2>3, <2>5, <2>6
<1>7. ASSUME NEW c \in cs PROVE c \in D!Placed(p) <=> c \in D!Placed(l)
  <2>1. ASSUME c \in D!Placed(p) PROVE c \in D!Placed(l)
    <3>1. PICK f \in D!ToSet(p.folders) : c \in D!Listed(p, f)
      BY <2>1 DEF D!Placed
    <3> QED BY <1>1, <1>3, <3>1 DEF D!Placed
  <2>2. ASSUME c \in D!Placed(l) PROVE c \in D!Placed(p)
    <3>1. PICK f \in D!ToSet(l.folders) : c \in D!Listed(l, f) /\ c \notin Earlier(l, f)
      BY <2>2, FirstHolds
    <3> QED BY <1>1, <1>3, <3>1 DEF D!Placed
  <2> QED BY <2>1, <2>2
<1>8. ASSUME NEW k \in D!Kinds PROVE D!Items(l, cs, k) = D!Items(p, cs, k)
  <2>1. PICK u, o, H : u = D!Unplaced(l, cs, k) /\ o = l.order[k] /\ H = D!ToSet(D!Items(l, cs, k))
    OBVIOUS
  <2>2. k \in D!Holders
    BY KeysApart
  <2>3. {c \in cs \ D!Placed(l) : KindOf[c] = k} = {c \in cs \ D!Placed(p) : KindOf[c] = k}
    BY <1>7
  <2>4. u = D!Unplaced(p, cs, k)
    BY <2>1, <2>3 DEF D!Unplaced
  <2>5. u \in Seq(Ids) /\ o \in Seq(Ids)
    BY <2>1, <2>2, UnplacedIs, LayoutIs
  <2>6. D!Items(l, cs, k) = D!inOrder(u, o)
    BY <2>1, <2>2, ItemsOf
  <2>7. D!ToSet(u) \subseteq H
    BY <2>1, <2>5, <2>6, InOrderIs
  <2>8. p.order[k] = D!Only(o, H)
    <3>1. PrunedTo(l, cs, k) = H
      BY <1>2, <2>1, <2>2 DEF PrunedTo
    <3> QED BY <1>1, <2>1, <2>2, <3>1
  <2>9. D!Items(p, cs, k) = D!inOrder(u, D!Only(o, H))
    <3>1. D!Items(p, cs, k) = D!inOrder(D!Unplaced(p, cs, k), p.order[k])
      BY <1>1, <2>2, ItemsOf
    <3> QED BY <2>4, <2>8, <3>1
  <2>10. D!inOrder(u, D!Only(o, H)) = D!inOrder(u, o)
    BY <2>5, <2>7, InOrderOf
  <2> QED BY <2>6, <2>9, <2>10
<1>9. \A k \in D!Holders : D!Items(l, cs, k) = D!Items(p, cs, k)
  <2> SUFFICES ASSUME NEW k \in D!Holders PROVE D!Items(l, cs, k) = D!Items(p, cs, k)
    OBVIOUS
  <2>1. CASE k \in D!Kinds
    BY <1>8, <2>1
  <2>2. CASE k \in D!ToSet(l.folders)
    BY <1>1, <1>3, <1>5, <2>2
  <2>3. CASE k \in Folders \ D!ToSet(l.folders)
    BY <1>6, <2>3
  <2> QED BY <2>1, <2>2, <2>3, KeysApart
<1>10. D!Root(l, cs) = D!Root(p, cs)
  <2>1. PICK a, Z, o, H :
          /\ a = All(l) /\ Z = Shows(l, cs) /\ o = l.order["root"]
          /\ H = D!Kinds \cup D!ToSet(l.folders) \cup {"documents"}
    OBVIOUS
  <2>2. a = All(p)
    BY <1>1, <2>1 DEF All
  <2>3. Z = Shows(p, cs)
    <3>1. D!Kinds \subseteq D!Holders
      BY KeysApart
    <3> QED BY <1>1, <1>9, <2>1, <3>1 DEF Shows, D!Filled
  <2>4. p.order["root"] = D!Only(o, H)
    BY <1>1, <2>1 DEF PrunedTo
  <2>5. PICK i : i = D!Only(a, Z)
    OBVIOUS
  <2>6. i \in Seq(Ids) /\ D!ToSet(i) \subseteq H
    BY <2>1, <2>5, AllIs, OnlyIs
  <2>7. o \in Seq(Ids)
    BY <2>1, LayoutIs
  <2>8. D!inOrder(i, D!Only(o, H)) = D!inOrder(i, o)
    BY <2>6, <2>7, InOrderOf
  <2>9. D!Root(l, cs) = D!inOrder(i, o)
    BY <2>1, <2>5, RootOf
  <2>10. D!Root(p, cs) = D!inOrder(i, D!Only(o, H))
    BY <1>1, <2>2, <2>3, <2>4, <2>5, RootOf
  <2> QED BY <2>8, <2>9, <2>10
<1>11. ReadsAlike(l, p, cs)
  BY <1>1, <1>9, <1>10 DEF ReadsAlike
<1>12. Pruned(p, cs)
  BY <1>1, <1>3, <1>4, <1>5, <1>6 DEF Pruned
<1> QED BY <1>1, <1>11, <1>12

-----------------------------------------------------------------------------
(* Each change makes its own of what a pruned layout shows. *)

\* A layout's record, of new names, folders and orders.
LEMMA LayoutOf ==
  ASSUME D!DataTreeConstants, NEW l, NEW n \in [D!Keys -> Names \cup {"none"}], NEW f \in Seq(Folders),
         NEW o \in [D!Holders \cup {"root"} -> Seq(Ids)], l = [names |-> n, folders |-> f, order |-> o]
  PROVE  l \in Layouts
BY DEF Layouts, D!None, Ids

LEMMA FieldsOf ==
  ASSUME NEW l \in Layouts
  PROVE  /\ l.names \in [D!Keys -> Names \cup {"none"}] /\ l.folders \in Seq(Folders)
         /\ l.order \in [D!Holders \cup {"root"} -> Seq(Ids)]
         /\ l = [names |-> l.names, folders |-> l.folders, order |-> l.order]
BY DEF Layouts, D!None, Ids

LEMMA SameItems ==
  ASSUME D!DataTreeConstants, NEW l \in Layouts, NEW m \in Layouts, NEW cs, l.folders = m.folders,
         \A k \in D!Holders : l.order[k] = m.order[k]
  PROVE  \A k \in D!Holders : D!Items(l, cs, k) = D!Items(m, cs, k)
<1>1. \A f \in D!ToSet(l.folders) : D!Listed(l, f) = D!Listed(m, f)
  BY LayoutIs, KeysApart DEF D!Listed
<1>2. D!Placed(l) = D!Placed(m)
  BY <1>1 DEF D!Placed
<1>3. \A f : D!Before(l, f) = D!Before(m, f)
  BY DEF D!Before
<1>4. \A f : Earlier(l, f) = Earlier(m, f)
  <2> SUFFICES ASSUME NEW f PROVE Earlier(l, f) = Earlier(m, f)
    OBVIOUS
  <2>1. \A i \in D!Before(l, f) : l.folders[i] \in D!ToSet(l.folders)
    BY DEF D!Before, D!ToSet
  <2> QED BY <1>1, <1>3, <2>1 DEF Earlier
<1>5. \A k : D!Unplaced(l, cs, k) = D!Unplaced(m, cs, k)
  BY <1>2 DEF D!Unplaced
<1> SUFFICES ASSUME NEW k \in D!Holders PROVE D!Items(l, cs, k) = D!Items(m, cs, k)
  OBVIOUS
<1>6. CASE k \in D!Kinds
  <2>1. D!Items(l, cs, k) = D!inOrder(D!Unplaced(l, cs, k), l.order[k])
    BY <1>6, ItemsOf
  <2>2. D!Items(m, cs, k) = D!inOrder(D!Unplaced(m, cs, k), m.order[k])
    BY <1>6, ItemsOf
  <2> QED BY <1>5, <2>1, <2>2
<1>7. CASE k \in D!ToSet(l.folders)
  <2>1. D!Items(l, cs, k) = D!Only(l.order[k], cs \ Earlier(l, k))
    BY <1>7, ItemsOf
  <2>2. D!Items(m, cs, k) = D!Only(m.order[k], cs \ Earlier(m, k))
    BY <1>7, ItemsOf
  <2> QED BY <1>4, <2>1, <2>2
<1>8. CASE k \notin D!Kinds \cup D!ToSet(l.folders)
  BY <1>8, ItemsOf
<1> QED BY <1>6, <1>7, <1>8

LEMMA SameShows ==
  ASSUME D!DataTreeConstants, NEW l, NEW m, NEW cs, D!ToSet(l.folders) = D!ToSet(m.folders),
         \A k \in D!Kinds : D!Items(l, cs, k) = D!Items(m, cs, k)
  PROVE  Shows(l, cs) = Shows(m, cs)
BY DEF Shows, D!Filled

LEMMA RootKept ==
  ASSUME D!DataTreeConstants, NEW l \in Layouts, NEW m \in Layouts, NEW cs \in SUBSET D!Connectors, NEW M,
         Whole(l) = Whole(m)
  PROVE  D!SameOrder(D!Root(l, cs), D!Root(m, cs), M)
<1>1. PICK w, Z, Y : w = Whole(l) /\ Z = Shows(l, cs) /\ Y = Shows(m, cs)
  OBVIOUS
<1>2. w \in Seq(Ids) /\ D!Root(l, cs) = D!Only(w, Z) /\ D!Root(m, cs) = D!Only(w, Y)
  BY <1>1, RootIs
<1>3. D!SameOrder(w, w, M)
  BY DEF D!SameOrder
<1>4. D!SameOrder(D!Only(w, Z), D!Only(w, Y), M)
  BY <1>2, <1>3, OrderFewer
<1> QED BY <1>2, <1>4

LEMMA MoveRootIs ==
  ASSUME D!DataTreeConstants, NEW b \in Layouts, NEW cs \in SUBSET D!Connectors, NEW ch \in D!Changes,
         ch.type = "move-root", NEW m \in D!Applied(b, cs, ch)
  PROVE  /\ m \in Layouts /\ m.names = b.names /\ m.folders = b.folders
         /\ ch.key \in D!ToSet(D!Root(b, cs))
         /\ m.order["root"] = D!placeBefore(D!Root(b, cs), ch.key, ch.before)
         /\ \A k \in D!Holders : m.order[k] = b.order[k]
<1>1. PICK r, key, x : r = D!Root(b, cs) /\ key = ch.key /\ x = D!placeBefore(r, key, ch.before)
  OBVIOUS
<1>2. m \in {[b EXCEPT !.order["root"] = x] : y \in {key} \cap D!ToSet(r)}
  BY <1>1 DEF D!Applied
<1>3. m = [b EXCEPT !.order["root"] = x] /\ key \in D!ToSet(r)
  BY <1>2
<1>4. PICK n, f, o : n = b.names /\ f = b.folders /\ o = b.order
  OBVIOUS
<1>5. /\ n \in [D!Keys -> Names \cup {"none"}] /\ f \in Seq(Folders) /\ o \in [D!Holders \cup {"root"} -> Seq(Ids)]
      /\ b = [names |-> n, folders |-> f, order |-> o]
  BY <1>4, FieldsOf
<1>6. PICK q : q = [o EXCEPT !["root"] = x]
  OBVIOUS
<1>7. m = [names |-> n, folders |-> f, order |-> q]
  BY <1>3, <1>5, <1>6
<1>8. x \in Seq(Ids)
  <2>1. r \in Seq(Ids) /\ key \in Ids
    BY <1>1, <1>3, RootIs, SetOf
  <2> QED BY <1>1, <2>1, PlaceHas
<1>9. q \in [D!Holders \cup {"root"} -> Seq(Ids)] /\ q["root"] = x /\ \A k \in D!Holders : q[k] = o[k]
  BY <1>5, <1>6, <1>8, KeysApart
<1>10. m \in Layouts
  BY <1>5, <1>7, <1>9, LayoutOf
<1> QED BY <1>1, <1>3, <1>4, <1>7, <1>9, <1>10

LEMMA MoveRootMakes ==
  ASSUME D!DataTreeConstants, NEW b \in Layouts, NEW cs \in SUBSET D!Connectors, NEW ch \in D!Changes,
         ch.type = "move-root", NEW m \in D!Applied(b, cs, ch)
  PROVE  m \in Layouts /\ D!MadeOf(b, m, cs, ch)
<1>1. PICK r, key, before, x :
        r = D!Root(b, cs) /\ key = ch.key /\ before = ch.before /\ x = D!placeBefore(r, key, before)
  OBVIOUS
<1>2. /\ m \in Layouts /\ m.names = b.names /\ m.folders = b.folders /\ key \in D!ToSet(r)
      /\ m.order["root"] = x /\ \A k \in D!Holders : m.order[k] = b.order[k]
  BY <1>1, MoveRootIs
<1>3. \A k \in D!Holders : D!Items(b, cs, k) = D!Items(m, cs, k)
  BY <1>2, SameItems
<1>4. r \in Seq(D!Keys) /\ D!ToSet(r) = Shows(b, cs)
  BY <1>1, RootIs, RootSeq
<1>5. key \in D!Keys
  BY <1>2, <1>4, SetOf
<1>6. x \in Seq(D!Keys) /\ D!ToSet(x) = D!ToSet(r)
  <2>1. x \in Seq(D!Keys) /\ D!ToSet(x) = D!ToSet(r) \cup {key}
    <3>1. /\ D!placeBefore(r, key, before) \in Seq(D!Keys)
          /\ D!ToSet(D!placeBefore(r, key, before)) = D!ToSet(r) \cup {key}
      BY <1>4, <1>5, PlaceHas
    <3> QED BY <1>1, <3>1
  <2> QED BY <1>2, <2>1
<1>7. D!Root(m, cs) = x
  <2>1. PICK a, Z, i : a = All(m) /\ Z = Shows(m, cs) /\ i = D!Only(a, Z)
    OBVIOUS
  <2>2. Z = Shows(b, cs)
    <3>1. D!Kinds \subseteq D!Holders
      BY KeysApart
    <3> QED BY <1>2, <1>3, <2>1, <3>1, SameShows
  <2>3. i \in Seq(Ids) /\ D!ToSet(i) = D!ToSet(a) \cap Z
    BY <1>2, <2>1, AllIs, OnlyIs
  <2>4. Z \subseteq D!ToSet(a)
    BY <1>2, <2>1, AllIs DEF Shows, D!Filled
  <2>5. x \in Seq(Ids) /\ D!ToSet(x) = D!ToSet(i)
    <3>1. D!ToSet(x) = Z /\ x \in Seq(D!Keys)
      BY <1>4, <1>6, <2>2
    <3>2. x \in Seq(Ids)
      BY <1>6, KeysApart, SeqMonotonic
    <3> QED BY <2>3, <2>4, <3>1, <3>2
  <2>6. D!inOrder(i, x) = x
    BY <2>3, <2>5, InOrderSame
  <2> QED BY <1>2, <2>1, <2>6, RootOf
<1>8. ItemsKept(b, m, cs, MovedBy(b, cs, ch))
  BY <1>3 DEF ItemsKept
<1>9. D!SameOrder(r, x, {key})
  <2>1. PICK Z : Z = (D!ToSet(r) \cap D!ToSet(x)) \ {key}
    OBVIOUS
  <2>2. D!Only(x, Z) = D!Only(r, Z)
    BY <1>1, <1>4, <1>5, <2>1, PlaceMoves
  <2> QED BY <2>1, <2>2 DEF D!SameOrder
<1>10. D!SameOrder(D!Root(b, cs), D!Root(m, cs), RootMoved(ch))
  BY <1>1, <1>7, <1>9 DEF RootMoved
<1>11. RestKept(b, m, ch) /\ NamedSo(b, m, cs, ch) /\ PutThere(m, cs, ch)
  BY <1>2 DEF RestKept, NamedSo, PutThere
<1>12. D!IsBefore(x, key, before, "none")
  BY <1>1, <1>4, <1>5, NoneApart, PlacedIsBefore
<1>13. PutInRoot(b, m, cs, ch)
  BY <1>1, <1>7, <1>12 DEF PutInRoot
<1> QED BY <1>2, <1>8, <1>10, <1>11, <1>13, MadeOfIs, Zenon

\* A kind's connectors but those in M, when nothing else is placed or put
\* elsewhere.
LEMMA KindKept ==
  ASSUME D!DataTreeConstants, NEW b \in Layouts, NEW m \in Layouts, NEW cs \in SUBSET D!Connectors,
         NEW k \in D!Kinds, NEW M, \A c \in cs \ M : c \in D!Placed(b) <=> c \in D!Placed(m),
         D!Only(b.order[k], Ids \ M) = D!Only(m.order[k], Ids \ M)
  PROVE  D!Without(D!Items(b, cs, k), M) = D!Without(D!Items(m, cs, k), M)
<1>1. k \in D!Holders
  BY KeysApart
<1>2. PICK F, ob, om : F = Ids \ M /\ ob = b.order[k] /\ om = m.order[k]
  OBVIOUS
<1>3. ob \in Seq(Ids) /\ om \in Seq(Ids) /\ D!Only(ob, F) = D!Only(om, F)
  BY <1>1, <1>2, LayoutIs
<1>4. PICK ub, um : ub = D!Unplaced(b, cs, k) /\ um = D!Unplaced(m, cs, k)
  OBVIOUS
<1>5. ub \in Seq(Ids) /\ um \in Seq(Ids)
  BY <1>4, UnplacedIs
<1>6. PICK v : v = D!Only(ub, F) /\ v \in Seq(Ids) /\ D!ToSet(v) \subseteq F
  BY <1>5, OnlyIs
<1>7. D!Only(um, F) = v
  <2>1. PICK all : all = [c \in D!Connectors |-> c]
    OBVIOUS
  <2>2. all \in Seq(D!Connectors)
    BY <2>1, KeysApart
  <2>3. PICK Z, Y : Z = {c \in cs \ D!Placed(b) : KindOf[c] = k} /\ Y = {c \in cs \ D!Placed(m) : KindOf[c] = k}
    OBVIOUS
  <2>4. ub = D!Only(all, Z) /\ um = D!Only(all, Y)
    BY <1>4, <2>1, <2>3 DEF D!Unplaced
  <2>5. D!Only(D!Only(all, Z), F) = D!Only(all, Z \cap F)
    BY <2>2, OnlyTwice
  <2>6. D!Only(D!Only(all, Y), F) = D!Only(all, Y \cap F)
    BY <2>2, OnlyTwice
  <2>7. Z \cap F = Y \cap F
    BY <1>2, <2>3
  <2> QED BY <1>6, <2>4, <2>5, <2>6, <2>7
<1>8. \A i, o, u \in Seq(Ids) : i = D!inOrder(u, o) /\ D!Only(u, F) = v => D!Without(i, M) = D!inOrder(v, D!Only(o, F))
  <2> SUFFICES ASSUME NEW i \in Seq(Ids), NEW o \in Seq(Ids), NEW u \in Seq(Ids), i = D!inOrder(u, o), D!Only(u, F) = v
               PROVE  D!Without(i, M) = D!inOrder(v, D!Only(o, F))
    OBVIOUS
  <2>1. D!ToSet(i) \cap F = D!ToSet(i) \ M
    BY <1>2, SetOf
  <2>2. D!Without(i, M) = D!Only(i, F)
    BY <2>1, WithoutIs
  <2>3. D!Only(D!inOrder(u, o), F) = D!inOrder(D!Only(u, F), o)
    BY InOrderOnly
  <2>4. D!inOrder(v, D!Only(o, F)) = D!inOrder(v, o)
    BY <1>6, InOrderOf
  <2> QED BY <2>2, <2>3, <2>4
<1>9. D!Items(b, cs, k) = D!inOrder(ub, ob) /\ D!Items(m, cs, k) = D!inOrder(um, om)
  <2>1. D!Items(b, cs, k) = D!inOrder(D!Unplaced(b, cs, k), b.order[k])
    BY <1>1, ItemsOf
  <2>2. D!Items(m, cs, k) = D!inOrder(D!Unplaced(m, cs, k), m.order[k])
    BY <1>1, ItemsOf
  <2> QED BY <1>2, <1>4, <2>1, <2>2
<1>10. D!Items(b, cs, k) \in Seq(Ids) /\ D!Items(m, cs, k) \in Seq(Ids)
  BY <1>1, ItemsWithin
<1>11. D!Without(D!Items(b, cs, k), M) = D!inOrder(v, D!Only(ob, F))
  BY <1>3, <1>5, <1>6, <1>8, <1>9, <1>10, Zenon
<1>12. D!Without(D!Items(m, cs, k), M) = D!inOrder(v, D!Only(om, F))
  BY <1>3, <1>5, <1>7, <1>8, <1>9, <1>10, Zenon
<1> QED BY <1>3, <1>11, <1>12

LEMMA RenameIs ==
  ASSUME D!DataTreeConstants, NEW b \in Layouts, NEW cs \in SUBSET D!Connectors, NEW ch \in D!Changes,
         ch.type = "rename", NEW m \in D!Applied(b, cs, ch)
  PROVE  /\ m \in Layouts /\ m.names = [b.names EXCEPT ![ch.key] = ch.name] /\ m.folders = b.folders
         /\ m.order = b.order /\ ch.key \in D!Keys /\ D!Free(b, cs, ch.key, ch.name)
<1>1. PICK key, name : key = ch.key /\ name = ch.name
  OBVIOUS
<1>2. key \in D!Keys /\ name \in Names \cup {"none"}
  BY <1>1 DEF D!Changes, D!Moves, D!FolderChanges, D!Renames, D!Keys, D!None
<1>3. m = [b EXCEPT !.names[key] = name] /\ D!Free(b, cs, key, name)
  BY <1>1 DEF D!Applied
<1>4. PICK n, f, o : n = b.names /\ f = b.folders /\ o = b.order
  OBVIOUS
<1>5. /\ n \in [D!Keys -> Names \cup {"none"}] /\ f \in Seq(Folders) /\ o \in [D!Holders \cup {"root"} -> Seq(Ids)]
      /\ b = [names |-> n, folders |-> f, order |-> o]
  BY <1>4, FieldsOf
<1>6. PICK q : q = [n EXCEPT ![key] = name]
  OBVIOUS
<1>7. m = [names |-> q, folders |-> f, order |-> o]
  BY <1>3, <1>5, <1>6
<1>8. q \in [D!Keys -> Names \cup {"none"}]
  BY <1>2, <1>5, <1>6
<1>9. m \in Layouts
  BY <1>5, <1>7, <1>8, LayoutOf
<1> QED BY <1>1, <1>2, <1>3, <1>4, <1>6, <1>7, <1>9

LEMMA RenameMakes ==
  ASSUME D!DataTreeConstants, NEW b \in Layouts, NEW cs \in SUBSET D!Connectors, NEW ch \in D!Changes,
         ch.type = "rename", NEW m \in D!Applied(b, cs, ch)
  PROVE  m \in Layouts /\ D!MadeOf(b, m, cs, ch)
<1>1. /\ m \in Layouts /\ m.names = [b.names EXCEPT ![ch.key] = ch.name] /\ m.folders = b.folders
      /\ m.order = b.order /\ ch.key \in D!Keys /\ D!Free(b, cs, ch.key, ch.name)
  BY RenameIs
<1>2. \A k \in D!Holders : D!Items(b, cs, k) = D!Items(m, cs, k)
  BY <1>1, SameItems
<1>3. ItemsKept(b, m, cs, MovedBy(b, cs, ch))
  BY <1>2 DEF ItemsKept
<1>4. D!SameOrder(D!Root(b, cs), D!Root(m, cs), RootMoved(ch))
  <2>1. Whole(b) = Whole(m)
    BY <1>1 DEF Whole, All
  <2> QED BY <1>1, <2>1, RootKept
<1>5. DOMAIN b.names = D!Keys
  BY LayoutIs
<1>6. RestKept(b, m, ch) /\ NamedSo(b, m, cs, ch)
  BY <1>1, <1>5 DEF RestKept, NamedSo
<1>7. PutThere(m, cs, ch) /\ PutInRoot(b, m, cs, ch)
  BY DEF PutThere, PutInRoot
<1> QED BY <1>1, <1>3, <1>4, <1>6, <1>7, MadeOfIs, Zenon

LEMMA CreateIs ==
  ASSUME D!DataTreeConstants, NEW b \in Layouts, NEW cs \in SUBSET D!Connectors, NEW ch \in D!Changes,
         ch.type = "create-folder", NEW m \in D!Applied(b, cs, ch)
  PROVE  /\ m \in Layouts /\ m.names = [b.names EXCEPT ![ch.key] = ch.name] /\ m.folders = Append(b.folders, ch.key)
         /\ m.order = b.order /\ ch.key \in Folders \ D!ToSet(b.folders) /\ D!Free(b, cs, ch.key, ch.name)
<1>1. PICK key, name : key = ch.key /\ name = ch.name
  OBVIOUS
<1>2. key \in Folders /\ key \in D!Keys /\ name \in Names \cup {"none"}
  BY <1>1 DEF D!Changes, D!Moves, D!FolderChanges, D!Renames, D!Keys, D!None
<1>3. /\ m = [b EXCEPT !.folders = Append(@, key), !.names[key] = name]
      /\ key \notin D!ToSet(b.folders) /\ D!Free(b, cs, key, name)
  BY <1>1 DEF D!Applied
<1>4. PICK n, f, o : n = b.names /\ f = b.folders /\ o = b.order
  OBVIOUS
<1>5. /\ n \in [D!Keys -> Names \cup {"none"}] /\ f \in Seq(Folders) /\ o \in [D!Holders \cup {"root"} -> Seq(Ids)]
      /\ b = [names |-> n, folders |-> f, order |-> o]
  BY <1>4, FieldsOf
<1>6. PICK q, g : q = [n EXCEPT ![key] = name] /\ g = Append(f, key)
  OBVIOUS
<1>7. m = [names |-> q, folders |-> g, order |-> o]
  BY <1>3, <1>5, <1>6
<1>8. q \in [D!Keys -> Names \cup {"none"}] /\ g \in Seq(Folders)
  BY <1>2, <1>5, <1>6
<1>9. m \in Layouts
  BY <1>5, <1>7, <1>8, LayoutOf
<1> QED BY <1>1, <1>2, <1>3, <1>4, <1>6, <1>7, <1>9

\* The root's order, when what is shown before and after was in one order.
LEMMA RootAlike ==
  ASSUME D!DataTreeConstants, NEW b \in Layouts, NEW m \in Layouts, NEW cs \in SUBSET D!Connectors,
         NEW F, F = Shows(b, cs) \cap Shows(m, cs), D!Only(All(b), F) = D!Only(All(m), F),
         D!Only(b.order["root"], F) = D!Only(m.order["root"], F)
  PROVE  D!SameOrder(D!Root(b, cs), D!Root(m, cs), {})
<1>1. \A l \in Layouts : \A P : F \subseteq P =>
        D!Only(D!Only(Whole(l), P), F) = D!inOrder(D!Only(All(l), F), D!Only(l.order["root"], F))
  <2> SUFFICES ASSUME NEW l \in Layouts, NEW P, F \subseteq P
               PROVE  D!Only(D!Only(Whole(l), P), F) = D!inOrder(D!Only(All(l), F), D!Only(l.order["root"], F))
    OBVIOUS
  <2>1. PICK a, o, i : a = All(l) /\ o = l.order["root"] /\ i = D!Only(a, F)
    OBVIOUS
  <2>2. a \in Seq(Ids) /\ o \in Seq(Ids) /\ Whole(l) = D!inOrder(a, o)
    BY <2>1, AllIs, LayoutIs DEF Whole
  <2>3. D!inOrder(a, o) \in Seq(Ids)
    BY <2>2, InOrderIs
  <2>4. D!Only(D!Only(D!inOrder(a, o), P), F) = D!Only(D!inOrder(a, o), P \cap F)
    BY <2>3, OnlyTwice
  <2>5. P \cap F = F
    OBVIOUS
  <2>6. D!Only(D!inOrder(a, o), F) = D!inOrder(i, o)
    BY <2>1, <2>2, InOrderOnly
  <2>7. i \in Seq(Ids) /\ D!ToSet(i) \subseteq F
    BY <2>1, <2>2, OnlyIs
  <2>8. D!inOrder(i, D!Only(o, F)) = D!inOrder(i, o)
    BY <2>2, <2>7, InOrderOf
  <2> QED BY <2>1, <2>2, <2>4, <2>5, <2>6, <2>8
<1>2. PICK Z, Y : Z = Shows(b, cs) /\ Y = Shows(m, cs)
  OBVIOUS
<1>3. D!Root(b, cs) = D!Only(Whole(b), Z) /\ D!ToSet(D!Root(b, cs)) = Z
  BY <1>2, RootIs
<1>4. D!Root(m, cs) = D!Only(Whole(m), Y) /\ D!ToSet(D!Root(m, cs)) = Y
  BY <1>2, RootIs
<1>5. D!Only(D!Root(b, cs), F) = D!inOrder(D!Only(All(b), F), D!Only(b.order["root"], F))
  BY <1>1, <1>2, <1>3
<1>6. D!Only(D!Root(m, cs), F) = D!inOrder(D!Only(All(m), F), D!Only(m.order["root"], F))
  BY <1>1, <1>2, <1>4
<1>7. D!Only(D!Root(b, cs), F) = D!Only(D!Root(m, cs), F)
  BY <1>5, <1>6
<1>8. (D!ToSet(D!Root(b, cs)) \cap D!ToSet(D!Root(m, cs))) \ {} = F
  BY <1>2, <1>3, <1>4
<1> QED BY <1>7, <1>8 DEF D!SameOrder

LEMMA CreateMakes ==
  ASSUME D!DataTreeConstants, NEW b \in Layouts, NEW cs \in SUBSET D!Connectors, Pruned(b, cs), NEW ch \in D!Changes,
         ch.type = "create-folder", NEW m \in D!Applied(b, cs, ch)
  PROVE  m \in Layouts /\ D!MadeOf(b, m, cs, ch)
<1>1. PICK key : key = ch.key
  OBVIOUS
<1>2. /\ m \in Layouts /\ m.names = [b.names EXCEPT ![key] = ch.name] /\ m.folders = Append(b.folders, key)
      /\ m.order = b.order /\ key \in Folders \ D!ToSet(b.folders) /\ D!Free(b, cs, key, ch.name)
  <2>1. /\ m \in Layouts /\ m.names = [b.names EXCEPT ![ch.key] = ch.name] /\ m.folders = Append(b.folders, ch.key)
        /\ m.order = b.order /\ ch.key \in Folders \ D!ToSet(b.folders) /\ D!Free(b, cs, ch.key, ch.name)
    BY CreateIs
  <2> QED BY <1>1, <2>1
<1>3. D!ToSet(m.folders) = D!ToSet(b.folders) \cup {key}
  <2>1. b.folders \in Seq(Folders) /\ key \in Folders
    BY <1>2, FieldsOf
  <2> QED BY <1>2, <2>1, SetOfMore
<1>4. b.order[key] = <<>> /\ D!Listed(b, key) = {}
  BY <1>2, SetOfFew DEF Pruned, D!Listed
<1>5. \A f : D!Listed(m, f) = D!Listed(b, f)
  BY <1>2 DEF D!Listed
<1>6. \A f \in D!ToSet(m.folders) : D!Items(m, cs, f) = m.order[f]
  <2>1. \A f \in D!ToSet(m.folders) : D!Listed(m, f) \subseteq cs
    BY <1>3, <1>4, <1>5 DEF Pruned
  <2>2. \A f, g \in D!ToSet(m.folders) : f # g => D!Listed(m, f) \cap D!Listed(m, g) = {}
    BY <1>3, <1>4, <1>5 DEF Pruned
  <2> QED BY <1>2, <2>1, <2>2, ListsApart
<1>7. D!Placed(b) = D!Placed(m)
  BY <1>3, <1>4, <1>5 DEF D!Placed
<1>8. ItemsKept(b, m, cs, MovedBy(b, cs, ch))
  <2> SUFFICES ASSUME NEW k \in D!Holders PROVE D!Without(D!Items(b, cs, k), {}) = D!Without(D!Items(m, cs, k), {})
    BY DEF ItemsKept, MovedBy
  <2>1. CASE k \in D!Kinds
    <3>1. PICK M : M = {}
      OBVIOUS
    <3>2. \A c \in cs \ M : c \in D!Placed(b) <=> c \in D!Placed(m)
      BY <1>7
    <3>3. D!Only(b.order[k], Ids \ M) = D!Only(m.order[k], Ids \ M)
      BY <1>2
    <3>4. D!Without(D!Items(b, cs, k), M) = D!Without(D!Items(m, cs, k), M)
      <4>1. m \in Layouts
        BY <1>2
      <4> QED BY <2>1, <3>2, <3>3, <4>1, KindKept, SMTT(30)
    <3> QED BY <3>1, <3>4
  <2>2. CASE k \in D!ToSet(b.folders)
    BY <1>2, <1>3, <1>6, <2>2 DEF Pruned
  <2>3. CASE k = key
    <3>1. key \notin D!Kinds \cup D!ToSet(b.folders)
      BY <1>2, KeysApart
    <3>2. D!Items(b, cs, k) = <<>>
      BY <2>3, <3>1, ItemsOf
    <3>3. D!Items(m, cs, k) = <<>>
      BY <1>2, <1>3, <1>4, <1>6, <2>3
    <3> QED BY <3>2, <3>3
  <2>4. CASE k \notin D!Kinds \cup D!ToSet(m.folders)
    <3>1. D!Items(b, cs, k) = <<>>
      BY <1>3, <2>4, ItemsOf
    <3>2. D!Items(m, cs, k) = <<>>
      BY <1>2, <2>4, ItemsOf
    <3> QED BY <3>1, <3>2
  <2> QED BY <1>3, <2>1, <2>2, <2>3, <2>4
<1>9. D!SameOrder(D!Root(b, cs), D!Root(m, cs), RootMoved(ch))
  <2>1. PICK F : F = Shows(b, cs) \cap Shows(m, cs)
    OBVIOUS
  <2>2. key \notin F
    BY <1>2, <2>1, KeysApart DEF Shows, D!Filled, D!Holders
  <2>3. D!Only(m.folders, F) = D!Only(b.folders, F)
    <3>1. b.folders \in Seq(Folders) /\ key \in Folders
      BY <1>2, FieldsOf
    <3> QED BY <1>2, <2>2, <3>1, OnlyAppend
  <2>4. D!Only(All(b), F) = D!Only(KindOrder, F) \o D!Only(b.folders, F) \o D!Only(<<"documents">>, F)
    BY AllIs
  <2>5. D!Only(All(m), F) = D!Only(KindOrder, F) \o D!Only(m.folders, F) \o D!Only(<<"documents">>, F)
    BY <1>2, AllIs
  <2>6. D!Only(All(b), F) = D!Only(All(m), F)
    BY <2>3, <2>4, <2>5
  <2>7. D!SameOrder(D!Root(b, cs), D!Root(m, cs), {})
    BY <1>2, <2>1, <2>6, RootAlike
  <2> QED BY <2>7 DEF RootMoved
<1>10. DOMAIN b.names = D!Keys /\ key \in D!Keys
  BY <1>2, LayoutIs DEF D!Keys
<1>11. RestKept(b, m, ch) /\ NamedSo(b, m, cs, ch)
  BY <1>1, <1>2, <1>3, <1>10 DEF RestKept, NamedSo
<1>12. PutThere(m, cs, ch) /\ PutInRoot(b, m, cs, ch)
  BY DEF PutThere, PutInRoot
<1> QED BY <1>2, <1>8, <1>9, <1>11, <1>12, MadeOfIs, Zenon

\* What is not looked for doesn't matter.
LEMMA WithoutOther ==
  ASSUME NEW V, NEW s \in Seq(V), NEW M, NEW F, M \cap F = {}
  PROVE  D!Only(D!Without(s, M), F) = D!Only(s, F)
<1>1. PICK E, W : E = D!ToSet(s) /\ W = E \ M
  OBVIOUS
<1>2. D!Without(s, M) = D!Only(s, W)
  BY <1>1 DEF D!Without
<1>3. D!Only(D!Only(s, W), F) = D!Only(s, W \cap F)
  BY OnlyTwice
<1>4. E \cap (W \cap F) = E \cap F
  BY <1>1
<1>5. D!Only(s, W \cap F) = D!Only(s, F)
  BY <1>1, <1>4, OnlyAgrees
<1> QED BY <1>2, <1>3, <1>5

LEMMA DeleteIs ==
  ASSUME D!DataTreeConstants, NEW b \in Layouts, NEW cs \in SUBSET D!Connectors, NEW ch \in D!Changes,
         ch.type = "delete-folder", NEW m \in D!Applied(b, cs, ch)
  PROVE  /\ m \in Layouts /\ \A k \in D!Keys \ {ch.key} : m.names[k] = b.names[k]
         /\ m.folders = D!Without(b.folders, {ch.key}) /\ ch.key \in D!ToSet(b.folders)
         /\ m.order[ch.key] = <<>> /\ m.order["root"] = D!Without(b.order["root"], {ch.key})
         /\ \A k \in D!Holders \ {ch.key} : m.order[k] = b.order[k]
<1>1. PICK key : key = ch.key
  OBVIOUS
<1>2. key \in Folders
  BY <1>1 DEF D!Changes, D!Moves, D!FolderChanges, D!Renames
<1>3. key \in D!Holders /\ key \in D!Keys /\ key # "root"
  BY <1>2, KeysApart
<1>4. /\ m = [names |-> [b.names EXCEPT ![key] = "none"], folders |-> D!Without(b.folders, {key}),
              order |-> [b.order EXCEPT ![key] = <<>>, !["root"] = D!Without(@, {key})]]
      /\ key \in D!ToSet(b.folders)
  BY <1>1 DEF D!Applied, D!None
<1>5. PICK n, f, o : n = b.names /\ f = b.folders /\ o = b.order
  OBVIOUS
<1>6. n \in [D!Keys -> Names \cup {"none"}] /\ f \in Seq(Folders) /\ o \in [D!Holders \cup {"root"} -> Seq(Ids)]
  BY <1>5, FieldsOf
<1>7. PICK q, g, r : q = [n EXCEPT ![key] = "none"] /\ g = D!Without(f, {key}) /\ r = D!Without(o["root"], {key})
  OBVIOUS
<1>8. PICK p : p = [o EXCEPT ![key] = <<>>, !["root"] = r]
  OBVIOUS
<1>9. m = [names |-> q, folders |-> g, order |-> p]
  <2>1. p = [o EXCEPT ![key] = <<>>, !["root"] = D!Without(@, {key})]
    BY <1>3, <1>6, <1>7, <1>8
  <2> QED BY <1>4, <1>5, <1>7, <2>1
<1>10. q \in [D!Keys -> Names \cup {"none"}]
  BY <1>6, <1>7
<1>11. g \in Seq(Folders) /\ r \in Seq(Ids)
  <2>1. o["root"] \in Seq(Ids)
    BY <1>6
  <2> QED BY <1>6, <1>7, <2>1, WithoutHas
<1>12. <<>> \in Seq(Ids)
  OBVIOUS
<1>13. /\ p \in [D!Holders \cup {"root"} -> Seq(Ids)] /\ p[key] = <<>> /\ p["root"] = r
       /\ \A k \in D!Holders \ {key} : p[k] = o[k]
  <2>1. "root" \notin D!Holders
    BY KeysApart
  <2>2. PICK H, W : H = D!Holders /\ W = Seq(Ids)
    OBVIOUS
  <2> QED BY <1>3, <1>6, <1>8, <1>11, <1>12, <2>1, <2>2
<1>14. m \in Layouts
  BY <1>9, <1>10, <1>11, <1>13, LayoutOf
<1>15. m.names = q /\ m.folders = g /\ m.order = p
  BY <1>9
<1>16. (\A k \in D!Keys \ {key} : m.names[k] = b.names[k]) /\ m.folders = D!Without(b.folders, {key})
  BY <1>5, <1>6, <1>7, <1>15
<1>17. /\ m.order[key] = <<>> /\ m.order["root"] = D!Without(b.order["root"], {key})
       /\ \A k \in D!Holders \ {key} : m.order[k] = b.order[k]
  BY <1>5, <1>7, <1>13, <1>15
<1>18. key \in D!ToSet(b.folders)
  BY <1>4
<1> QED BY <1>1, <1>14, <1>16, <1>17, <1>18

LEMMA DeleteMakes ==
  ASSUME D!DataTreeConstants, NEW b \in Layouts, NEW cs \in SUBSET D!Connectors, Pruned(b, cs), NEW ch \in D!Changes,
         ch.type = "delete-folder", NEW m \in D!Applied(b, cs, ch)
  PROVE  m \in Layouts /\ D!MadeOf(b, m, cs, ch)
<1>1. PICK key, M : key = ch.key /\ M = D!ToSet(D!Items(b, cs, key))
  OBVIOUS
<1>2. /\ m \in Layouts /\ \A k \in D!Keys \ {key} : m.names[k] = b.names[k]
      /\ m.folders = D!Without(b.folders, {key}) /\ key \in D!ToSet(b.folders)
      /\ m.order[key] = <<>> /\ m.order["root"] = D!Without(b.order["root"], {key})
      /\ \A k \in D!Holders \ {key} : m.order[k] = b.order[k]
  <2>1. /\ m \in Layouts /\ \A k \in D!Keys \ {ch.key} : m.names[k] = b.names[k]
        /\ m.folders = D!Without(b.folders, {ch.key}) /\ ch.key \in D!ToSet(b.folders)
        /\ m.order[ch.key] = <<>> /\ m.order["root"] = D!Without(b.order["root"], {ch.key})
        /\ \A k \in D!Holders \ {ch.key} : m.order[k] = b.order[k]
    BY DeleteIs
  <2> QED BY <1>1, <2>1
<1>3. b.folders \in Seq(Folders) /\ D!ToSet(b.folders) \subseteq Folders
  BY FieldsOf, LayoutIs
<1>4. D!ToSet(m.folders) = D!ToSet(b.folders) \ {key}
  BY <1>2, <1>3, WithoutHas
<1>5. key \in Folders /\ key \notin D!Kinds /\ key # "documents" /\ key \in D!Keys
  BY <1>2, <1>3, KeysApart
<1>6. \A f \in D!ToSet(m.folders) : f \in D!Holders /\ D!Listed(m, f) = D!Listed(b, f) /\ m.order[f] = b.order[f]
  BY <1>2, <1>3, <1>4, KeysApart DEF D!Listed
<1>7. \A f \in D!ToSet(m.folders) : D!Items(m, cs, f) = m.order[f]
  <2>1. \A f \in D!ToSet(m.folders) : D!Listed(m, f) \subseteq cs
    BY <1>4, <1>6 DEF Pruned
  <2>2. \A f, g \in D!ToSet(m.folders) : f # g => D!Listed(m, f) \cap D!Listed(m, g) = {}
    BY <1>4, <1>6 DEF Pruned
  <2>3. m \in Layouts
    BY <1>2
  <2> QED BY <2>1, <2>2, <2>3, ListsApart
<1>8. M = D!Listed(b, key)
  BY <1>1, <1>2 DEF Pruned, D!Listed
<1>9. \A c \in cs \ M : c \in D!Placed(b) <=> c \in D!Placed(m)
  <2> SUFFICES ASSUME NEW c \in cs \ M PROVE c \in D!Placed(b) <=> c \in D!Placed(m)
    OBVIOUS
  <2>1. \A f \in D!ToSet(b.folders) : c \in D!Listed(b, f) => f \in D!ToSet(m.folders) /\ c \in D!Listed(m, f)
    BY <1>4, <1>6, <1>8
  <2>2. \A f \in D!ToSet(m.folders) : c \in D!Listed(m, f) => f \in D!ToSet(b.folders) /\ c \in D!Listed(b, f)
    BY <1>4, <1>6
  <2> QED BY <2>1, <2>2 DEF D!Placed
<1>10. \A k \in D!Holders : D!Without(D!Items(b, cs, k), M) = D!Without(D!Items(m, cs, k), M)
  <2> SUFFICES ASSUME NEW k \in D!Holders PROVE D!Without(D!Items(b, cs, k), M) = D!Without(D!Items(m, cs, k), M)
    OBVIOUS
  <2>1. CASE k \in D!Kinds
    <3>1. D!Only(b.order[k], Ids \ M) = D!Only(m.order[k], Ids \ M)
      BY <1>2, <1>5, <2>1
    <3>2. m \in Layouts
      BY <1>2
    <3> QED BY <1>9, <2>1, <3>1, <3>2, KindKept, SMTT(30)
  <2>2. CASE k \in D!ToSet(m.folders)
    BY <1>4, <1>6, <1>7, <2>2 DEF Pruned
  <2>3. CASE k = key
    <3>1. PICK i : i = D!Items(b, cs, key) /\ i \in Seq(Ids)
      BY <2>3, ItemsWithin
    <3>2. D!Without(i, M) = <<>>
      <4>1. PICK w : w = D!Without(i, M)
        OBVIOUS
      <4>2. w \in Seq(Ids) /\ D!ToSet(w) = {}
        <5>1. D!ToSet(i) \ M = {}
          BY <1>1, <3>1
        <5> QED BY <3>1, <4>1, <5>1, WithoutHas
      <4> QED BY <4>1, <4>2, SetOf
    <3>3. D!Items(m, cs, key) = <<>>
      <4>1. key \notin D!Kinds \cup D!ToSet(m.folders)
        BY <1>4, <1>5
      <4>2. m \in Layouts /\ key \in D!Holders
        BY <1>2, <2>3
      <4> QED BY <4>1, <4>2, ItemsOf
    <3>4. D!Without(<<>>, M) = <<>>
      BY OnlyEmpty DEF D!Without
    <3> QED BY <2>3, <3>1, <3>2, <3>3, <3>4
  <2>4. CASE k \notin D!Kinds \cup D!ToSet(b.folders)
    <3>1. D!Items(b, cs, k) = <<>>
      BY <2>4, ItemsOf
    <3>2. D!Items(m, cs, k) = <<>>
      <4>1. k \notin D!Kinds \cup D!ToSet(m.folders)
        BY <1>4, <2>4
      <4> QED BY <1>2, <4>1, ItemsOf
    <3> QED BY <3>1, <3>2
  <2> QED BY <1>4, <2>1, <2>2, <2>3, <2>4
<1>11. ItemsKept(b, m, cs, MovedBy(b, cs, ch))
  <2>1. MovedBy(b, cs, ch) = M
    BY <1>1 DEF MovedBy
  <2> QED BY <1>10, <2>1 DEF ItemsKept
<1>12. D!SameOrder(D!Root(b, cs), D!Root(m, cs), RootMoved(ch))
  <2>1. PICK F : F = Shows(b, cs) \cap Shows(m, cs)
    OBVIOUS
  <2>2. {key} \cap F = {}
    BY <1>4, <1>5, <2>1 DEF Shows, D!Filled
  <2>3. D!Only(m.folders, F) = D!Only(b.folders, F)
    BY <1>2, <1>3, <2>2, WithoutOther
  <2>4. D!Only(All(b), F) = D!Only(KindOrder, F) \o D!Only(b.folders, F) \o D!Only(<<"documents">>, F)
    BY AllIs
  <2>5. D!Only(All(m), F) = D!Only(KindOrder, F) \o D!Only(m.folders, F) \o D!Only(<<"documents">>, F)
    BY <1>2, AllIs
  <2>6. D!Only(All(b), F) = D!Only(All(m), F)
    BY <2>3, <2>4, <2>5
  <2>7. D!Only(b.order["root"], F) = D!Only(m.order["root"], F)
    <3>1. b.order["root"] \in Seq(Ids)
      BY LayoutIs
    <3> QED BY <1>2, <2>2, <3>1, WithoutOther
  <2>8. D!SameOrder(D!Root(b, cs), D!Root(m, cs), {})
    BY <1>2, <2>1, <2>6, <2>7, RootAlike
  <2> QED BY <2>8 DEF RootMoved
<1>13. DOMAIN b.names = D!Keys
  BY LayoutIs
<1>14. RestKept(b, m, ch)
  BY <1>1, <1>2, <1>4, <1>13 DEF RestKept
<1>15. NamedSo(b, m, cs, ch) /\ PutThere(m, cs, ch) /\ PutInRoot(b, m, cs, ch)
  BY DEF NamedSo, PutThere, PutInRoot
<1> QED BY <1>2, <1>11, <1>12, <1>14, <1>15, MadeOfIs, Zenon

\* What shows a connector, and that nothing else does.
LEMMA ShownFits ==
  ASSUME D!DataTreeConstants, NEW b \in Layouts, NEW cs \in SUBSET D!Connectors, NEW id \in cs
  PROVE  \E k \in D!Holders : id \in D!ToSet(D!Items(b, cs, k))
<1>1. CASE id \in D!Placed(b)
  <2>1. PICK f \in D!ToSet(b.folders) : id \in D!Listed(b, f) /\ id \notin Earlier(b, f)
    BY <1>1, FirstHolds
  <2>2. f \in D!Holders
    BY <2>1, LayoutIs, KeysApart
  <2>3. D!ToSet(D!Items(b, cs, f)) = (D!Listed(b, f) \cap cs) \ Earlier(b, f)
    BY <2>1, <2>2, ItemsIs
  <2> QED BY <2>1, <2>2, <2>3
<1>2. CASE id \notin D!Placed(b)
  <2>1. PICK k : k = KindOf[id] /\ k \in D!Kinds /\ k \in D!Holders
    BY KeysApart
  <2>2. D!ToSet(D!Items(b, cs, k)) = {c \in cs \ D!Placed(b) : KindOf[c] = k}
    BY <2>1, ItemsIs
  <2>3. id \in D!ToSet(D!Items(b, cs, k))
    BY <1>2, <2>1, <2>2
  <2> QED BY <2>1, <2>3
<1> QED BY <1>1, <1>2

LEMMA ShownOnce ==
  ASSUME D!DataTreeConstants, NEW b \in Layouts, NEW cs \in SUBSET D!Connectors, Pruned(b, cs), NEW id,
         NEW k \in D!Holders, id \in D!ToSet(D!Items(b, cs, k))
  PROVE  \A f \in D!ToSet(b.folders) \ {k} : id \notin D!Listed(b, f)
<1>1. CASE k \in D!Kinds
  <2>1. D!ToSet(D!Items(b, cs, k)) = {c \in cs \ D!Placed(b) : KindOf[c] = k}
    BY <1>1, ItemsIs
  <2>2. id \notin D!Placed(b)
    BY <2>1
  <2> QED BY <2>2 DEF D!Placed
<1>2. CASE k \in D!ToSet(b.folders)
  <2>1. id \in D!Listed(b, k)
    BY <1>2 DEF Pruned, D!Listed
  <2> QED BY <1>2, <2>1 DEF Pruned
<1>3. CASE k \notin D!Kinds \cup D!ToSet(b.folders)
  <2>1. D!ToSet(D!Items(b, cs, k)) = {}
    BY <1>3, ItemsIs
  <2> QED BY <2>1
<1> QED BY <1>1, <1>2, <1>3

\* The connector id leaves `from` for `to`, where it is put before `before`.
MovesFrom(b, m, cs, from, to, id, before) ==
  /\ from \in D!Holders /\ id \in D!ToSet(D!Items(b, cs, from)) /\ to \in D!Kinds \cup D!ToSet(b.folders)
  /\ m.order[to] = D!placeBefore(D!Items(b, cs, to), id, before)
  /\ from # to => m.order[from] = D!Without(b.order[from], {id})
  /\ \A k \in (D!Holders \cup {"root"}) \ {from, to} : m.order[k] = b.order[k]

LEMMA MoveIs ==
  ASSUME D!DataTreeConstants, NEW b \in Layouts, NEW cs \in SUBSET D!Connectors, NEW ch \in D!Changes,
         ch.type = "move-connector", NEW m \in D!Applied(b, cs, ch)
  PROVE  /\ m \in Layouts /\ m.names = b.names /\ m.folders = b.folders /\ ch.id \in cs
         /\ \E from : MovesFrom(b, m, cs, from, D!Home(ch.id, ch), ch.id, ch.before)
         /\ D!Home(ch.id, ch) \in D!Kinds => D!Home(ch.id, ch) = KindOf[ch.id]
<1>1. PICK id, to, before, from :
        /\ id = ch.id /\ to = D!Home(id, ch) /\ before = ch.before
        /\ from = CHOOSE k \in D!Holders : id \in D!ToSet(D!Items(b, cs, k))
  OBVIOUS
<1>2. id \in D!Connectors /\ ch.to \in Folders \cup {"none"}
  BY <1>1 DEF D!Changes, D!Moves, D!FolderChanges, D!Renames, D!None
<1>3. PICK n, f, o : n = b.names /\ f = b.folders /\ o = b.order
  OBVIOUS
<1>4. /\ n \in [D!Keys -> Names \cup {"none"}] /\ f \in Seq(Folders) /\ o \in [D!Holders \cup {"root"} -> Seq(Ids)]
      /\ b = [names |-> n, folders |-> f, order |-> o]
  BY <1>3, FieldsOf
<1>5. PICK left : left = IF from = to THEN o ELSE [o EXCEPT ![from] = D!Without(@, {id})]
  OBVIOUS
<1>6. PICK i, x : i = D!Items(b, cs, to) /\ x = D!placeBefore(i, id, before)
  OBVIOUS
<1>7. PICK p : p = [left EXCEPT ![to] = x]
  OBVIOUS
<1>8. id \in cs /\ (ch.to = "none" \/ to \in D!ToSet(f)) /\ m = [b EXCEPT !.order = p]
  <2>1. D!Applied(b, cs, ch) =
          LET home == D!Home(ch.id, ch)
              old == CHOOSE k \in D!Holders : ch.id \in D!ToSet(D!Items(b, cs, k))
              rest == IF old = home THEN b.order ELSE [b.order EXCEPT ![old] = D!Without(@, {ch.id})]
          IN  IF ch.id \in cs /\ (ch.to = "none" \/ home \in D!ToSet(b.folders))
                THEN {[b EXCEPT !.order = [rest EXCEPT ![home] = D!placeBefore(D!Items(b, cs, home), ch.id, ch.before)]]}
                ELSE {}
    BY DEF D!Applied, D!None
  <2>2. D!Applied(b, cs, ch) = IF id \in cs /\ (ch.to = "none" \/ to \in D!ToSet(f)) THEN {[b EXCEPT !.order = p]} ELSE {}
    BY <1>1, <1>3, <1>5, <1>6, <1>7, <2>1, Zenon
  <2> QED BY <2>2
<1>9. from \in D!Holders /\ id \in D!ToSet(D!Items(b, cs, from))
  BY <1>1, <1>8, ShownFits
<1>10. to \in D!Kinds \cup D!ToSet(f) /\ (to \in D!Kinds => to = KindOf[id])
  <2>1. CASE ch.to = "none"
    <3>1. to = KindOf[id]
      BY <1>1, <2>1 DEF D!Home, D!None
    <3> QED BY <1>2, <3>1, KeysApart
  <2>2. CASE ch.to # "none"
    <3>1. to = ch.to /\ to \in Folders
      BY <1>1, <1>2, <2>2 DEF D!Home, D!None
    <3> QED BY <1>8, <2>2, <3>1, KeysApart
  <2> QED BY <2>1, <2>2
<1>11. to \in D!Holders
  BY <1>3, <1>10, LayoutIs, KeysApart
<1>12. x \in Seq(Ids)
  <2>1. i \in Seq(Ids) /\ id \in Ids
    BY <1>2, <1>6, <1>11, ItemsWithin, KeysApart
  <2> QED BY <1>6, <2>1, PlaceHas
<1>13. PICK H, W, y : H = D!Holders \cup {"root"} /\ W = Seq(Ids) /\ y = D!Without(o[from], {id})
  OBVIOUS
<1>14. from \in H /\ to \in H /\ o \in [H -> W] /\ y \in W /\ x \in W
  <2>1. o[from] \in Seq(Ids)
    BY <1>4, <1>9
  <2>2. y \in Seq(Ids)
    BY <1>13, <2>1, WithoutHas
  <2> QED BY <1>4, <1>9, <1>11, <1>12, <1>13, <2>2
<1>15. left \in [H -> W] /\ (from # to => left[from] = y) /\ \A k \in H \ {from, to} : left[k] = o[k]
  <2>1. left = IF from = to THEN o ELSE [o EXCEPT ![from] = y]
    BY <1>5, <1>13, <1>14
  <2> QED BY <1>14, <2>1
<1>16. p \in [H -> W] /\ p[to] = x /\ (from # to => p[from] = y) /\ \A k \in H \ {from, to} : p[k] = o[k]
  BY <1>7, <1>14, <1>15
<1>17. m = [names |-> n, folders |-> f, order |-> p]
  BY <1>4, <1>8
<1>18. m.names = n /\ m.folders = f /\ m.order = p
  BY <1>17
<1>19. m \in Layouts
  BY <1>4, <1>13, <1>16, <1>17, LayoutOf
<1>20. MovesFrom(b, m, cs, from, to, id, before)
  BY <1>3, <1>6, <1>9, <1>10, <1>13, <1>16, <1>18 DEF MovesFrom
<1>21. \E g : MovesFrom(b, m, cs, g, D!Home(ch.id, ch), ch.id, ch.before)
  BY <1>1, <1>20
<1>22. m.names = b.names /\ m.folders = b.folders /\ ch.id \in cs
  BY <1>1, <1>3, <1>8, <1>18
<1> QED BY <1>1, <1>10, <1>19, <1>21, <1>22

LEMMA WithoutOne ==
  ASSUME NEW V, NEW s \in Seq(V), NEW M
  PROVE  D!Without(s, M) = D!Only(s, V \ M)
<1>1. D!ToSet(s) \subseteq V
  BY SetOf
<1>2. D!ToSet(s) \cap (V \ M) = D!ToSet(s) \ M
  BY <1>1
<1> QED BY <1>2, WithoutIs

\* What each folder lists after the move: id in one it is moved to, and nowhere
\* else.
MovedLists(b, m, to, id) ==
  \A f \in D!ToSet(b.folders) :
    D!Listed(m, f) = IF f = to THEN D!Listed(b, f) \cup {id} ELSE D!Listed(b, f) \ {id}

LEMMA MoveLists ==
  ASSUME D!DataTreeConstants, NEW b \in Layouts, NEW m, NEW cs \in SUBSET D!Connectors, Pruned(b, cs),
         NEW from, NEW to, NEW id \in cs, NEW before, MovesFrom(b, m, cs, from, to, id, before)
  PROVE  MovedLists(b, m, to, id)
<1> SUFFICES ASSUME NEW f \in D!ToSet(b.folders)
             PROVE  D!Listed(m, f) = IF f = to THEN D!Listed(b, f) \cup {id} ELSE D!Listed(b, f) \ {id}
  BY DEF MovedLists
<1>1. f \in D!Holders /\ b.order[f] \in Seq(Ids) /\ id \in Ids
  BY LayoutIs, KeysApart
<1>2. CASE f = to
  <2>1. m.order[f] = D!placeBefore(D!Items(b, cs, f), id, before)
    BY <1>2 DEF MovesFrom
  <2>2. D!Items(b, cs, f) = b.order[f]
    BY DEF Pruned
  <2>3. D!ToSet(D!placeBefore(b.order[f], id, before)) = D!ToSet(b.order[f]) \cup {id}
    BY <1>1, PlaceHas
  <2> QED BY <1>2, <2>1, <2>2, <2>3 DEF D!Listed
<1>3. CASE f # to /\ f = from
  <2>1. m.order[f] = D!Without(b.order[f], {id})
    BY <1>3 DEF MovesFrom
  <2>2. D!ToSet(D!Without(b.order[f], {id})) = D!ToSet(b.order[f]) \ {id}
    BY <1>1, WithoutHas
  <2> QED BY <1>3, <2>1, <2>2 DEF D!Listed
<1>4. CASE f # to /\ f # from
  <2>1. m.order[f] = b.order[f]
    BY <1>1, <1>4 DEF MovesFrom
  <2>2. id \notin D!Listed(b, f)
    <3>1. from \in D!Holders /\ id \in D!ToSet(D!Items(b, cs, from))
      BY DEF MovesFrom
    <3> QED BY <1>4, <3>1, ShownOnce
  <2> QED BY <1>4, <2>1, <2>2 DEF D!Listed
<1> QED BY <1>2, <1>3, <1>4

\* After the move each folder's items are its list, and nothing else is placed
\* or not.
LEMMA MovePlaces ==
  ASSUME D!DataTreeConstants, NEW b \in Layouts, NEW m \in Layouts, NEW cs \in SUBSET D!Connectors, Pruned(b, cs),
         NEW to, NEW id \in cs, m.folders = b.folders, MovedLists(b, m, to, id)
  PROVE  /\ \A f \in D!ToSet(b.folders) : D!Items(m, cs, f) = m.order[f] /\ D!Items(b, cs, f) = b.order[f]
         /\ \A c \in cs \ {id} : c \in D!Placed(b) <=> c \in D!Placed(m)
         /\ to \notin D!ToSet(b.folders) => id \notin D!Placed(m)
<1>1. \A f \in D!ToSet(m.folders) : D!Items(m, cs, f) = m.order[f]
  <2>1. \A f \in D!ToSet(m.folders) : D!Listed(m, f) \subseteq cs
    BY DEF MovedLists, Pruned
  <2>2. \A f, g \in D!ToSet(m.folders) : f # g => D!Listed(m, f) \cap D!Listed(m, g) = {}
    BY DEF MovedLists, Pruned
  <2> QED BY <2>1, <2>2, ListsApart
<1>2. \A c \in cs \ {id} : c \in D!Placed(b) <=> c \in D!Placed(m)
  <2> SUFFICES ASSUME NEW c \in cs \ {id} PROVE c \in D!Placed(b) <=> c \in D!Placed(m)
    OBVIOUS
  <2>1. \A f \in D!ToSet(b.folders) : c \in D!Listed(b, f) <=> c \in D!Listed(m, f)
    BY DEF MovedLists
  <2> QED BY <2>1 DEF D!Placed
<1>3. to \notin D!ToSet(b.folders) => id \notin D!Placed(m)
  BY DEF MovedLists, D!Placed
<1>4. \A f \in D!ToSet(b.folders) : D!Items(b, cs, f) = b.order[f]
  BY DEF Pruned
<1> QED BY <1>1, <1>2, <1>3, <1>4

LEMMA MoveItems ==
  ASSUME D!DataTreeConstants, NEW b \in Layouts, NEW m \in Layouts, NEW cs \in SUBSET D!Connectors, Pruned(b, cs),
         NEW from, NEW to, NEW id \in cs, NEW before, MovesFrom(b, m, cs, from, to, id, before),
         m.folders = b.folders, to \in D!Kinds => to = KindOf[id]
  PROVE  D!Items(m, cs, to) = m.order[to] /\ ItemsKept(b, m, cs, {id})
<1>1. MovedLists(b, m, to, id)
  BY MoveLists
<1>2. /\ \A f \in D!ToSet(b.folders) : D!Items(m, cs, f) = m.order[f] /\ D!Items(b, cs, f) = b.order[f]
      /\ \A c \in cs \ {id} : c \in D!Placed(b) <=> c \in D!Placed(m)
      /\ to \notin D!ToSet(b.folders) => id \notin D!Placed(m)
  BY <1>1, MovePlaces
<1>3. to \in D!Kinds \cup D!ToSet(b.folders) /\ to \in D!Holders /\ id \in Ids
  BY LayoutIs, KeysApart DEF MovesFrom
<1>4. PICK i, x : i = D!Items(b, cs, to) /\ x = D!placeBefore(i, id, before)
  OBVIOUS
<1>5. m.order[to] = x
  BY <1>4 DEF MovesFrom
<1>6. i \in Seq(Ids) /\ x \in Seq(Ids) /\ D!ToSet(x) = D!ToSet(i) \cup {id}
  <2>1. i \in Seq(Ids)
    BY <1>3, <1>4, ItemsWithin
  <2> QED BY <1>3, <1>4, <2>1, PlaceHas
<1>7. D!Items(m, cs, to) = x
  <2>1. CASE to \in D!ToSet(b.folders)
    BY <1>2, <1>5, <2>1
  <2>2. CASE to \in D!Kinds
    <3>1. to \notin D!ToSet(b.folders)
      BY <2>2, LayoutIs, KeysApart
    <3>2. PICK u : u = D!Unplaced(m, cs, to)
      OBVIOUS
    <3>3. u \in Seq(Ids) /\ D!ToSet(u) = {c \in cs \ D!Placed(m) : KindOf[c] = to}
      BY <3>2, UnplacedIs
    <3>4. D!ToSet(i) = {c \in cs \ D!Placed(b) : KindOf[c] = to}
      BY <1>3, <1>4, <2>2, ItemsIs
    <3>5. D!ToSet(x) = D!ToSet(u)
      BY <1>2, <1>6, <2>2, <3>1, <3>3, <3>4
    <3>6. D!inOrder(u, x) = x
      BY <1>6, <3>3, <3>5, InOrderSame
    <3>7. D!Items(m, cs, to) = D!inOrder(D!Unplaced(m, cs, to), m.order[to])
      BY <1>3, <2>2, ItemsOf
    <3> QED BY <1>5, <3>2, <3>6, <3>7
  <2> QED BY <1>3, <2>1, <2>2
<1>8. PICK F : F = Ids \ {id}
  OBVIOUS
<1>9. \A s \in Seq(Ids) : D!Without(s, {id}) = D!Only(s, F)
  <2> SUFFICES ASSUME NEW s \in Seq(Ids) PROVE D!Without(s, {id}) = D!Only(s, F)
    OBVIOUS
  <2> QED BY <1>8, WithoutOne
<1>10. \A k \in D!Holders : k # to => D!Only(b.order[k], F) = D!Only(m.order[k], F)
  <2> SUFFICES ASSUME NEW k \in D!Holders, k # to PROVE D!Only(b.order[k], F) = D!Only(m.order[k], F)
    OBVIOUS
  <2>1. CASE k = from
    <3>1. m.order[k] = D!Without(b.order[k], {id}) /\ b.order[k] \in Seq(Ids)
      BY <2>1, LayoutIs DEF MovesFrom
    <3>2. {id} \cap F = {}
      BY <1>8
    <3> QED BY <3>1, <3>2, WithoutOther
  <2>2. CASE k # from
    BY <2>2 DEF MovesFrom
  <2> QED BY <2>1, <2>2
<1>11. ASSUME NEW k \in D!Holders PROVE D!Without(D!Items(b, cs, k), {id}) = D!Without(D!Items(m, cs, k), {id})
  <2>1. CASE k = to
    <3>1. D!Only(x, F) = D!Only(i, F)
      BY <1>3, <1>4, <1>6, <1>8, PlaceMoves
    <3> QED BY <1>4, <1>6, <1>7, <1>9, <2>1, <3>1
  <2>2. CASE k # to /\ k \in D!Kinds
    <3>1. PICK M : M = {id}
      OBVIOUS
    <3>2. D!Only(b.order[k], Ids \ M) = D!Only(m.order[k], Ids \ M)
      BY <1>8, <1>10, <2>2, <3>1
    <3>3. \A c \in cs \ M : c \in D!Placed(b) <=> c \in D!Placed(m)
      BY <1>2, <3>1
    <3>4. k \in D!Kinds
      BY <2>2
    <3>5. D!Without(D!Items(b, cs, k), M) = D!Without(D!Items(m, cs, k), M)
      BY <3>2, <3>3, <3>4, KindKept, SMTT(30)
    <3> QED BY <3>1, <3>5
  <2>3. CASE k # to /\ k \in D!ToSet(b.folders)
    <3>1. b.order[k] \in Seq(Ids) /\ m.order[k] \in Seq(Ids)
      BY LayoutIs
    <3>2. D!Only(b.order[k], F) = D!Only(m.order[k], F)
      BY <1>10, <2>3
    <3> QED BY <1>2, <1>9, <2>3, <3>1, <3>2
  <2>4. CASE k \notin D!Kinds \cup D!ToSet(b.folders)
    <3>1. D!Items(b, cs, k) = <<>>
      BY <2>4, ItemsOf
    <3>2. D!Items(m, cs, k) = <<>>
      BY <2>4, ItemsOf
    <3> QED BY <3>1, <3>2
  <2> QED BY <2>1, <2>2, <2>3, <2>4
<1> QED BY <1>5, <1>7, <1>11 DEF ItemsKept

LEMMA MoveMakes ==
  ASSUME D!DataTreeConstants, NEW b \in Layouts, NEW cs \in SUBSET D!Connectors, Pruned(b, cs), NEW ch \in D!Changes,
         ch.type = "move-connector", NEW m \in D!Applied(b, cs, ch)
  PROVE  m \in Layouts /\ D!MadeOf(b, m, cs, ch)
<1>1. PICK id, to, before : id = ch.id /\ to = D!Home(ch.id, ch) /\ before = ch.before
  OBVIOUS
<1>2. /\ m \in Layouts /\ m.names = b.names /\ m.folders = b.folders /\ id \in cs
      /\ \E from : MovesFrom(b, m, cs, from, to, id, before)
      /\ to \in D!Kinds => to = KindOf[id]
  BY <1>1, MoveIs
<1>3. PICK from : MovesFrom(b, m, cs, from, to, id, before)
  BY <1>2
<1>4. m \in Layouts /\ m.folders = b.folders /\ id \in cs
  BY <1>2
<1>5. D!Items(m, cs, to) = m.order[to] /\ ItemsKept(b, m, cs, {id})
  BY <1>2, <1>3, <1>4, MoveItems, Zenon
<1>6. ItemsKept(b, m, cs, MovedBy(b, cs, ch))
  <2>1. MovedBy(b, cs, ch) = {id}
    BY <1>1 DEF MovedBy
  <2> QED BY <1>5, <2>1
<1>7. to \in D!Holders
  BY <1>1, HomeIs
<1>8. PICK i : i = D!Items(b, cs, to) /\ i \in Seq(D!Connectors)
  BY <1>7, ItemsSeq
<1>9. D!IsBefore(D!Items(m, cs, to), id, before, 0)
  <2>1. D!IsBefore(D!placeBefore(i, id, before), id, before, 0)
    BY <1>4, <1>8, NoneApart, PlacedIsBefore
  <2> QED BY <1>3, <1>5, <1>8, <2>1 DEF MovesFrom
<1>10. D!SameOrder(D!Root(b, cs), D!Root(m, cs), RootMoved(ch))
  <2>1. m.order["root"] = b.order["root"]
    <3>1. from \in D!Holders
      BY <1>3 DEF MovesFrom
    <3> QED BY <1>3, <1>7, <3>1, KeysApart DEF MovesFrom
  <2>2. Whole(b) = Whole(m)
    BY <1>4, <2>1 DEF Whole, All
  <2> QED BY <1>4, <2>2, RootKept
<1>11. RestKept(b, m, ch)
  BY <1>2 DEF RestKept
<1>12. NamedSo(b, m, cs, ch) /\ PutInRoot(b, m, cs, ch)
  BY DEF NamedSo, PutInRoot
<1>13. PutThere(m, cs, ch)
  BY <1>1, <1>9 DEF PutThere
<1> QED BY <1>4, <1>6, <1>10, <1>11, <1>12, <1>13, MadeOfIs, Zenon

\* Whatever the change, of any layout.
LEMMA ApplyMakes ==
  ASSUME D!DataTreeConstants, NEW l \in Layouts, NEW cs \in SUBSET D!Connectors, NEW ch \in D!Changes,
         NEW m \in D!applyChange(l, cs, ch)
  PROVE  m \in Layouts /\ D!MadeOf(l, m, cs, ch)
<1>1. PICK b : b = D!prune(l, cs)
  OBVIOUS
<1>2. b \in Layouts /\ ReadsAlike(l, b, cs) /\ Pruned(b, cs)
  BY <1>1, PruneKeeps
<1>3. m \in D!Applied(b, cs, ch)
  BY <1>1 DEF D!applyChange
<1>4. ch.type \in {"move-root", "move-connector", "create-folder", "rename", "delete-folder"}
  BY DEF D!Changes, D!Moves, D!FolderChanges, D!Renames
<1>5. m \in Layouts /\ D!MadeOf(b, m, cs, ch)
  BY <1>2, <1>3, <1>4, MoveRootMakes, MoveMakes, CreateMakes, RenameMakes, DeleteMakes
<1> QED BY <1>2, <1>5, MadeOfAlike

-----------------------------------------------------------------------------
(* The pages, whatever is read and written meanwhile. *)

\* What there may be of a layout, however it is read; of a save; of a page.
Reads == [revision : Nat, layout : Layouts]
Saves ==
  [step : {"idle", "put", "read-again", "put-again", "saved"}, need : SUBSET {"layout", "lists"}, read : Reads,
   lists : SUBSET D!Connectors, known : SUBSET D!Connectors]
TreePages ==
  [read : Reads, isSuccess : BOOLEAN, lists : SUBSET D!Connectors, listed : BOOLEAN, missed : SUBSET D!Connectors,
   pending : Seq(D!Changes), save : Saves, get : {"none", "asked", "answered"}, answer : Reads]

\* A layout read of the revision stored is the one stored; none is newer.
Agrees(r, st) == r.revision <= st.revision /\ (r.revision = st.revision => r.layout = st.layout)
\* What a save wrote is what is stored, unless someone wrote since.
WasMade(p, st) ==
  /\ p.save.read.revision < st.revision
  /\ p.save.read.revision + 1 = st.revision =>
       st.layout = D!Made(p.save.read.layout, p.save.lists, Head(p.pending))
\* A save is of the first change pending, written of a layout it can be made
\* of; it lists every connector that its lists are of and that there still is.
SaveFits(p, st, ex, cr) ==
  /\ p.save.step # "idle" => p.pending # <<>>
  /\ p.save.need # {} => p.save.step = "read-again"
  /\ p.save.step \in {"put", "put-again"} => D!Written(p.save, Head(p.pending)) # {}
  /\ p.save.step = "saved" => WasMade(p, st)
  /\ Agrees(p.save.read, st) /\ p.save.known \subseteq cr /\ ex \cap p.save.known \subseteq p.save.lists
PageFits(p, st, ex, cr) ==
  /\ p \in TreePages /\ p.lists \subseteq cr
  /\ Agrees(p.read, st) /\ Agrees(p.answer, st)
  /\ p.listed => ex \ p.missed \subseteq p.lists
  /\ SaveFits(p, st, ex, cr)
TreeInv ==
  /\ stored \in Reads /\ stored.revision > 0
  /\ exists \subseteq created /\ created \subseteq D!Connectors
  /\ page \in [Pages -> TreePages]
  /\ \A t \in Pages : PageFits(page[t], stored, exists, created)

LEMMA EmptyFits ==
  ASSUME D!DataTreeConstants
  PROVE  D!Unread \in Reads /\ D!Unread.revision = 0 /\ D!NoSave \in Saves
<1>1. D!EMPTY_LAYOUT \in Layouts
  <2>1. PICK n, f, o : /\ n = [k \in D!Keys |-> "none"] /\ f = <<>>
                       /\ o = [k \in D!Holders \cup {"root"} |-> <<>>]
    OBVIOUS
  <2>2. n \in [D!Keys -> Names \cup {"none"}] /\ f \in Seq(Folders) /\ o \in [D!Holders \cup {"root"} -> Seq(Ids)]
    BY <2>1
  <2>3. D!EMPTY_LAYOUT = [names |-> n, folders |-> f, order |-> o]
    BY <2>1 DEF D!EMPTY_LAYOUT, D!None
  <2> QED BY <2>2, <2>3, LayoutOf
<1>2. D!Unread \in Reads /\ D!Unread.revision = 0
  BY <1>1 DEF D!Unread, Reads
<1>3. D!NoSave \in Saves
  BY <1>2 DEF D!NoSave, Saves
<1> QED BY <1>2, <1>3

LEMMA MadeIs ==
  ASSUME D!DataTreeConstants, NEW l \in Layouts, NEW cs \in SUBSET D!Connectors, NEW ch \in D!Changes
  PROVE  /\ D!Made(l, cs, ch) \in Layouts
         /\ D!applyChange(l, cs, ch) # {} => D!MadeOf(l, D!Made(l, cs, ch), cs, ch)
<1>1. PICK made : made = D!applyChange(l, cs, ch)
  OBVIOUS
<1>2. \A m \in made : m \in Layouts /\ D!MadeOf(l, m, cs, ch)
  BY <1>1, ApplyMakes
<1>3. D!Made(l, cs, ch) = IF made = {} THEN l ELSE CHOOSE m \in made : TRUE
  BY <1>1 DEF D!Made
<1>4. CASE made = {}
  BY <1>1, <1>3, <1>4
<1>5. CASE made # {}
  <2>1. PICK m : m = CHOOSE n \in made : TRUE
    OBVIOUS
  <2>2. m \in made
    BY <1>5, <2>1
  <2> QED BY <1>2, <1>3, <1>5, <2>1, <2>2
<1> QED BY <1>4, <1>5

LEMMA StartIs ==
  ASSUME D!DataTreeConstants
  PROVE  FirstLayout \in Layouts
<1>1. PICK l : l = FirstLayout
  OBVIOUS
<1>2. D!IsLayout(l)
  BY <1>1 DEF D!DataTreeConstants
<1>3. PICK o : o = [k \in D!Holders \cup {"root"} |-> l.order[k]]
  OBVIOUS
<1>4. l = [names |-> l.names, folders |-> l.folders, order |-> o]
  BY <1>2, <1>3 DEF D!IsLayout
<1>5. l.names \in [D!Keys -> Names \cup {D!None}] /\ l.folders \in Seq(Folders)
  BY <1>2 DEF D!IsLayout
<1>6. o \in [D!Holders \cup {"root"} -> Seq(Ids)]
  <2>1. ASSUME NEW k \in D!Holders \cup {"root"} PROVE l.order[k] \in Seq(D!Keys) \cup Seq(D!Connectors)
    BY <1>2 DEF D!IsLayout
  <2>2. Seq(D!Keys) \subseteq Seq(Ids) /\ Seq(D!Connectors) \subseteq Seq(Ids)
    BY DEF Ids
  <2> QED BY <1>3, <2>1, <2>2
<1> QED BY <1>1, <1>4, <1>5, <1>6 DEF Layouts

LEMMA TreeStart ==
  ASSUME D!DataTreeConstants, D!Init
  PROVE  TreeInv
<1>1. stored \in Reads /\ stored.revision = 1
  BY StartIs DEF D!Init, Reads
<1>2. exists \subseteq created /\ created \subseteq D!Connectors
  BY DEF D!Init, D!DataTreeConstants
<1>3. page = [t \in Pages |-> D!Opened]
  BY DEF D!Init
<1>4. PICK p, u, s : p = D!Opened /\ u = D!Unread /\ s = D!NoSave
  OBVIOUS
<1>5. u \in Reads /\ u.revision = 0 /\ s \in Saves
  BY <1>4, EmptyFits
<1>6. p = [read |-> u, isSuccess |-> FALSE, lists |-> {}, listed |-> FALSE, missed |-> {}, pending |-> <<>>,
           save |-> s, get |-> "asked", answer |-> u]
  BY <1>4 DEF D!Opened
<1>7. s.step = "idle" /\ s.need = {} /\ s.read = u /\ s.known = {}
  BY <1>4 DEF D!NoSave
<1>8. p \in TreePages
  BY <1>5, <1>6 DEF TreePages
<1>9. p.lists = {} /\ p.listed = FALSE /\ p.read = u /\ p.answer = u /\ p.save = s
  BY <1>6
<1>10. Agrees(u, stored)
  BY <1>1, <1>5 DEF Agrees
<1>11. SaveFits(p, stored, exists, created)
  BY <1>7, <1>9, <1>10 DEF SaveFits
<1>12. PageFits(p, stored, exists, created)
  BY <1>8, <1>9, <1>10, <1>11 DEF PageFits
<1>13. \A t \in Pages : page[t] = p
  BY <1>3, <1>4
<1>14. page \in [Pages -> TreePages]
  BY <1>3, <1>4, <1>8
<1> QED BY <1>1, <1>2, <1>12, <1>13, <1>14 DEF TreeInv

\* One page's step, that stores nothing.
LEMMA OnePage ==
  ASSUME TreeInv, NEW t \in Pages, NEW p, D!Becomes(t, p), UNCHANGED <<stored, exists, created>>,
         PageFits(p, stored, exists, created)
  PROVE  TreeInv'
<1>1. p \in TreePages
  BY DEF PageFits
<1>2. page' = [page EXCEPT ![t] = p] /\ page \in [Pages -> TreePages]
  BY DEF D!Becomes, TreeInv
<1>3. page' \in [Pages -> TreePages]
  BY <1>1, <1>2
<1>4. \A i \in Pages : page'[i] = IF i = t THEN p ELSE page[i]
  BY <1>2
<1>5. \A i \in Pages : PageFits(page'[i], stored, exists, created)
  BY <1>4 DEF TreeInv
<1> QED BY <1>3, <1>5 DEF TreeInv

\* What is left of a page that settles or gives up its first change.
LEMMA SettledFits ==
  ASSUME D!DataTreeConstants, TreeInv, NEW p, PageFits(p, stored, exists, created), p.pending # <<>>
  PROVE  /\ PageFits(D!Settled(p), stored, exists, created) /\ PageFits(D!Undone(p), stored, exists, created)
         /\ D!Settled(p).save = D!NoSave /\ D!Undone(p).save = D!NoSave
         /\ D!Settled(p).pending = Tail(p.pending) /\ D!Undone(p).pending = Tail(p.pending)
<1>1. PICK u, s : u = D!Unread /\ s = D!NoSave
  OBVIOUS
<1>2. u \in Reads /\ u.revision = 0 /\ s \in Saves /\ s.step = "idle" /\ s.need = {} /\ s.read = u /\ s.known = {}
  BY <1>1, EmptyFits DEF D!NoSave
<1>3. Agrees(u, stored)
  BY <1>2 DEF Agrees, TreeInv, Reads
<1>4. PICK q : q = Tail(p.pending) /\ q \in Seq(D!Changes)
  <2>1. PICK all : all = p.pending
    OBVIOUS
  <2>2. all \in Seq(D!Changes) /\ all # <<>>
    BY <2>1 DEF PageFits, TreePages
  <2>3. Tail(all) \in Seq(D!Changes)
    BY <2>2, HeadTailProperties
  <2> QED BY <2>1, <2>3
<1>5. PICK x : x = [p EXCEPT !.pending = q, !.save = s]
  OBVIOUS
<1>6. PICK y : y = [x EXCEPT !.get = "asked", !.answer = u]
  OBVIOUS
<1>7. p \in TreePages
  BY DEF PageFits
<1>8. /\ x \in TreePages /\ x.save = s /\ x.pending = q /\ x.lists = p.lists /\ x.read = p.read
      /\ x.answer = p.answer /\ x.listed = p.listed /\ x.missed = p.missed
  BY <1>2, <1>4, <1>5, <1>7 DEF TreePages
<1>9. /\ y \in TreePages /\ y.save = s /\ y.pending = q /\ y.lists = p.lists /\ y.read = p.read
      /\ y.answer = u /\ y.listed = p.listed /\ y.missed = p.missed
  BY <1>2, <1>6, <1>8 DEF TreePages
<1>10. x = D!Settled(p) /\ y = D!Undone(p)
  BY <1>1, <1>4, <1>5, <1>6, <1>7 DEF D!Settled, D!Undone, TreePages
<1>11. PageFits(x, stored, exists, created)
  BY <1>2, <1>3, <1>8 DEF PageFits, SaveFits
<1>12. PageFits(y, stored, exists, created)
  BY <1>2, <1>3, <1>9 DEF PageFits, SaveFits
<1> QED BY <1>1, <1>4, <1>8, <1>9, <1>10, <1>11, <1>12

\* A page whose save and first change stay.
LEMMA SameSave ==
  ASSUME NEW st, NEW ex, NEW cr, NEW p, NEW q, SaveFits(p, st, ex, cr), q.save = p.save,
         p.pending # <<>> => q.pending # <<>> /\ Head(q.pending) = Head(p.pending)
  PROVE  SaveFits(q, st, ex, cr)
BY DEF SaveFits, WasMade

LEMMA PageOf ==
  ASSUME TreeInv, NEW t \in Pages, NEW p, p = page[t]
  PROVE  PageFits(p, stored, exists, created) /\ p \in TreePages /\ p.save \in Saves /\ SaveFits(p, stored, exists, created)
BY DEF TreeInv, PageFits, TreePages

LEMMA SaveKeeps ==
  ASSUME D!DataTreeConstants, TreeInv, NEW t \in Pages, D!Save(t)
  PROVE  TreeInv'
<1>1. PICK p : p = page[t]
  OBVIOUS
<1>2. PageFits(p, stored, exists, created) /\ p \in TreePages /\ p.save \in Saves
  BY <1>1, PageOf
<1>3. PICK s : s = [step |-> "put", need |-> {}, read |-> p.read, lists |-> p.lists, known |-> exists \ p.missed]
  OBVIOUS
<1>4. PICK q : q = [p EXCEPT !.save = s]
  OBVIOUS
<1>5. /\ p.pending # <<>> /\ UNCHANGED <<stored, exists, created>>
      /\ \/ D!Becomes(t, q) /\ p.isSuccess /\ p.listed /\ D!Written(s, Head(p.pending)) # {}
         \/ D!Becomes(t, D!Undone(p))
  BY <1>1, <1>3, <1>4 DEF D!Save, D!ready
<1>6. PageFits(D!Undone(p), stored, exists, created)
  BY <1>2, <1>5, SettledFits
<1>7. ASSUME p.listed, D!Written(s, Head(p.pending)) # {} PROVE PageFits(q, stored, exists, created)
  <2>1. /\ exists \ p.missed \subseteq p.lists /\ Agrees(p.read, stored) /\ Agrees(p.answer, stored)
        /\ p.lists \subseteq created /\ exists \subseteq created /\ created \subseteq D!Connectors
    BY <1>2, <1>7 DEF PageFits, TreeInv
  <2>2. p.read \in Reads /\ p.lists \in SUBSET D!Connectors /\ exists \ p.missed \in SUBSET D!Connectors
    BY <1>2, <2>1 DEF TreePages
  <2>3. s \in Saves
    BY <1>3, <2>2 DEF Saves
  <2>4. /\ q \in TreePages /\ q.save = s /\ q.pending = p.pending /\ q.lists = p.lists /\ q.read = p.read
        /\ q.answer = p.answer /\ q.listed = p.listed /\ q.missed = p.missed
    BY <1>2, <1>4, <2>3 DEF TreePages
  <2>5. s.step = "put" /\ s.need = {} /\ s.read = p.read /\ s.lists = p.lists /\ s.known = exists \ p.missed
    BY <1>3
  <2>6. SaveFits(q, stored, exists, created)
    BY <1>5, <1>7, <2>1, <2>4, <2>5 DEF SaveFits
  <2> QED BY <2>1, <2>4, <2>6 DEF PageFits
<1> QED BY <1>5, <1>6, <1>7, OnePage

LEMMA SaveAgainKeeps ==
  ASSUME D!DataTreeConstants, TreeInv, NEW t \in Pages, D!SaveAgain(t)
  PROVE  TreeInv'
<1>1. PICK p : p = page[t]
  OBVIOUS
<1>2. PageFits(p, stored, exists, created) /\ p \in TreePages /\ p.save \in Saves /\ SaveFits(p, stored, exists, created)
  BY <1>1, PageOf
<1>3. PICK s : s = [p.save EXCEPT !.step = "put-again"]
  OBVIOUS
<1>4. PICK q : q = [p EXCEPT !.save = s]
  OBVIOUS
<1>5. q = [p EXCEPT !.save.step = "put-again"]
  BY <1>2, <1>3, <1>4 DEF TreePages
<1>6. /\ p.save.step = "read-again" /\ p.save.need = {} /\ UNCHANGED <<stored, exists, created>>
      /\ \/ D!Becomes(t, q) /\ D!Written(p.save, Head(p.pending)) # {}
         \/ D!Becomes(t, D!Undone(p))
  BY <1>1, <1>5 DEF D!SaveAgain
<1>7. p.pending # <<>>
  BY <1>2, <1>6 DEF SaveFits
<1>8. PageFits(D!Undone(p), stored, exists, created)
  BY <1>2, <1>7, SettledFits
<1>9. ASSUME D!Written(p.save, Head(p.pending)) # {} PROVE PageFits(q, stored, exists, created)
  <2>1. /\ s \in Saves /\ s.step = "put-again" /\ s.need = {} /\ s.read = p.save.read /\ s.lists = p.save.lists
        /\ s.known = p.save.known
    BY <1>2, <1>3, <1>6 DEF Saves
  <2>2. /\ q \in TreePages /\ q.save = s /\ q.pending = p.pending /\ q.lists = p.lists /\ q.read = p.read
        /\ q.answer = p.answer /\ q.listed = p.listed /\ q.missed = p.missed
    BY <1>2, <1>4, <2>1 DEF TreePages
  <2>3. D!Written(s, Head(p.pending)) # {}
    BY <1>9, <2>1 DEF D!Written
  <2>4. SaveFits(q, stored, exists, created)
    BY <1>2, <1>7, <2>1, <2>2, <2>3 DEF SaveFits
  <2> QED BY <1>2, <2>2, <2>4 DEF PageFits
<1> QED BY <1>6, <1>8, <1>9, OnePage

LEMMA StaleKeeps ==
  ASSUME D!DataTreeConstants, TreeInv, NEW t \in Pages, D!Stale(t)
  PROVE  TreeInv'
<1>1. PICK p : p = page[t]
  OBVIOUS
<1>2. PageFits(p, stored, exists, created) /\ p \in TreePages /\ p.save \in Saves /\ SaveFits(p, stored, exists, created)
  BY <1>1, PageOf
<1>3. PICK s : s = [p.save EXCEPT !.step = "read-again", !.need = {"layout", "lists"}]
  OBVIOUS
<1>4. PICK g : g = IF p.get = "none" THEN "asked" ELSE p.get
  OBVIOUS
<1>5. PICK q : q = [p EXCEPT !.save = s, !.get = g]
  OBVIOUS
<1>6. q = [p EXCEPT !.save.step = "read-again", !.save.need = {"layout", "lists"},
                    !.get = IF @ = "none" THEN "asked" ELSE @]
  BY <1>2, <1>3, <1>4, <1>5 DEF TreePages, Saves
<1>7. /\ p.save.step \in {"put", "put-again"} /\ UNCHANGED <<stored, exists, created>>
      /\ D!Becomes(t, q) \/ D!Becomes(t, D!Undone(p))
  BY <1>1, <1>6 DEF D!Stale
<1>8. p.pending # <<>>
  BY <1>2, <1>7 DEF SaveFits
<1>9. PageFits(D!Undone(p), stored, exists, created)
  BY <1>2, <1>8, SettledFits
<1>10. PageFits(q, stored, exists, created)
  <2>1. /\ s \in Saves /\ s.step = "read-again" /\ s.read = p.save.read /\ s.lists = p.save.lists
        /\ s.known = p.save.known
    BY <1>2, <1>3 DEF Saves
  <2>2. g \in {"none", "asked", "answered"}
    BY <1>2, <1>4 DEF TreePages
  <2>3. /\ q \in TreePages /\ q.save = s /\ q.pending = p.pending /\ q.lists = p.lists /\ q.read = p.read
        /\ q.answer = p.answer /\ q.listed = p.listed /\ q.missed = p.missed
    BY <1>2, <1>5, <2>1, <2>2 DEF TreePages
  <2>4. SaveFits(q, stored, exists, created)
    BY <1>2, <1>8, <2>1, <2>3 DEF SaveFits
  <2> QED BY <1>2, <2>3, <2>4 DEF PageFits
<1> QED BY <1>7, <1>9, <1>10, OnePage

LEMMA SaveFailsKeeps ==
  ASSUME D!DataTreeConstants, TreeInv, NEW t \in Pages, D!SaveFails(t)
  PROVE  TreeInv'
<1>1. PICK p : p = page[t]
  OBVIOUS
<1>2. PageFits(p, stored, exists, created) /\ SaveFits(p, stored, exists, created)
  BY <1>1, PageOf
<1>3. /\ p.save.step \in {"put", "put-again", "saved"} /\ UNCHANGED <<stored, exists, created>>
      /\ D!Becomes(t, D!Undone(p))
  BY <1>1 DEF D!SaveFails
<1>4. p.pending # <<>>
  BY <1>2, <1>3 DEF SaveFits
<1>5. PageFits(D!Undone(p), stored, exists, created)
  BY <1>2, <1>4, SettledFits
<1> QED BY <1>3, <1>5, OnePage

\* What the page's save has at hand, when it has one.
LEMMA HeadOf ==
  ASSUME NEW p \in TreePages, p.pending # <<>>
  PROVE  Head(p.pending) \in D!Changes /\ p.save.read.layout \in Layouts /\ p.save.lists \in SUBSET D!Connectors
         /\ p.save.read.revision \in Nat
<1>1. PICK all : all = p.pending
  OBVIOUS
<1>2. all \in Seq(D!Changes) /\ all # <<>>
  BY <1>1 DEF TreePages
<1>3. Head(all) \in D!Changes
  BY <1>2, HeadTailProperties
<1>4. p.save \in Saves
  BY DEF TreePages
<1>5. p.save.read \in Reads /\ p.save.lists \in SUBSET D!Connectors
  BY <1>4 DEF Saves
<1> QED BY <1>1, <1>3, <1>5 DEF Reads

LEMMA SavedKeeps ==
  ASSUME D!DataTreeConstants, TreeInv, NEW t \in Pages, D!Saved(t)
  PROVE  TreeInv'
<1>1. PICK p : p = page[t]
  OBVIOUS
<1>2. PageFits(p, stored, exists, created) /\ p \in TreePages /\ SaveFits(p, stored, exists, created)
  BY <1>1, PageOf
<1>3. PICK x, m : x = D!Settled(p) /\ m = D!Made(p.save.read.layout, p.save.lists, Head(p.pending))
  OBVIOUS
<1>4. PICK r : r = [revision |-> p.save.read.revision + 1, layout |-> m]
  OBVIOUS
<1>5. PICK q : q = [x EXCEPT !.read = r, !.isSuccess = TRUE]
  OBVIOUS
<1>6. p.save.step = "saved" /\ UNCHANGED <<stored, exists, created>> /\ D!Becomes(t, q)
  BY <1>1, <1>3, <1>4, <1>5 DEF D!Saved
<1>7. p.pending # <<>> /\ WasMade(p, stored)
  BY <1>2, <1>6 DEF SaveFits
<1>8. PageFits(x, stored, exists, created) /\ x.save = D!NoSave
  BY <1>2, <1>3, <1>7, SettledFits
<1>9. /\ Head(p.pending) \in D!Changes /\ p.save.read.layout \in Layouts /\ p.save.lists \in SUBSET D!Connectors
      /\ p.save.read.revision \in Nat
  BY <1>2, <1>7, HeadOf
<1>10. m \in Layouts
  BY <1>3, <1>9, MadeIs
<1>11. r \in Reads /\ r.revision = p.save.read.revision + 1 /\ r.layout = m
  BY <1>4, <1>9, <1>10 DEF Reads
<1>12. Agrees(r, stored)
  <2>1. stored.revision \in Nat
    BY DEF TreeInv, Reads
  <2>2. p.save.read.revision < stored.revision
    BY <1>7 DEF WasMade
  <2>3. r.revision <= stored.revision
    BY <1>9, <1>11, <2>1, <2>2
  <2>4. r.revision = stored.revision => r.layout = stored.layout
    BY <1>3, <1>7, <1>11 DEF WasMade
  <2> QED BY <2>3, <2>4 DEF Agrees
<1>13. x \in TreePages
  BY <1>8 DEF PageFits
<1>14. /\ q \in TreePages /\ q.save = x.save /\ q.pending = x.pending /\ q.lists = x.lists /\ q.read = r
       /\ q.answer = x.answer /\ q.listed = x.listed /\ q.missed = x.missed
  BY <1>5, <1>11, <1>13 DEF TreePages
<1>15. SaveFits(q, stored, exists, created)
  BY <1>8, <1>14, SameSave DEF PageFits
<1>16. PageFits(q, stored, exists, created)
  BY <1>8, <1>12, <1>14, <1>15 DEF PageFits
<1> QED BY <1>6, <1>16, OnePage

LEMMA RefocusKeeps ==
  ASSUME D!DataTreeConstants, TreeInv, NEW t \in Pages, D!Refocus(t)
  PROVE  TreeInv'
<1>1. PICK p : p = page[t]
  OBVIOUS
<1>2. PageFits(p, stored, exists, created) /\ p \in TreePages /\ SaveFits(p, stored, exists, created)
  BY <1>1, PageOf
<1>3. PICK q : q = [p EXCEPT !.get = "asked"]
  OBVIOUS
<1>4. UNCHANGED <<stored, exists, created>> /\ D!Becomes(t, q)
  BY <1>1, <1>3 DEF D!Refocus
<1>5. /\ q \in TreePages /\ q.save = p.save /\ q.pending = p.pending /\ q.lists = p.lists /\ q.read = p.read
      /\ q.answer = p.answer /\ q.listed = p.listed /\ q.missed = p.missed
  BY <1>2, <1>3 DEF TreePages
<1>6. SaveFits(q, stored, exists, created)
  BY <1>2, <1>5, SameSave
<1>7. PageFits(q, stored, exists, created)
  BY <1>2, <1>5, <1>6 DEF PageFits
<1> QED BY <1>4, <1>7, OnePage

LEMMA GetKeeps ==
  ASSUME D!DataTreeConstants, TreeInv, NEW t \in Pages, D!GetDataLayout(t)
  PROVE  TreeInv'
<1>1. PICK p : p = page[t]
  OBVIOUS
<1>2. PageFits(p, stored, exists, created) /\ p \in TreePages /\ SaveFits(p, stored, exists, created)
  BY <1>1, PageOf
<1>3. PICK q : q = [p EXCEPT !.get = "answered", !.answer = stored]
  OBVIOUS
<1>4. UNCHANGED <<stored, exists, created>> /\ D!Becomes(t, q)
  BY <1>1, <1>3 DEF D!GetDataLayout
<1>5. stored \in Reads /\ Agrees(stored, stored)
  BY DEF TreeInv, Agrees, Reads
<1>6. /\ q \in TreePages /\ q.save = p.save /\ q.pending = p.pending /\ q.lists = p.lists /\ q.read = p.read
      /\ q.answer = stored /\ q.listed = p.listed /\ q.missed = p.missed
  BY <1>2, <1>3, <1>5 DEF TreePages
<1>7. SaveFits(q, stored, exists, created)
  BY <1>2, <1>6, SameSave
<1>8. PageFits(q, stored, exists, created)
  BY <1>2, <1>5, <1>6, <1>7 DEF PageFits
<1> QED BY <1>4, <1>8, OnePage

\* The layout that lands is one that was stored, for a save that reads it again
\* too.
LEMMA LayoutReadKeeps ==
  ASSUME D!DataTreeConstants, TreeInv, NEW t \in Pages, D!LayoutRead(t)
  PROVE  TreeInv'
<1>1. PICK p : p = page[t]
  OBVIOUS
<1>2. PageFits(p, stored, exists, created) /\ p \in TreePages /\ p.save \in Saves /\ SaveFits(p, stored, exists, created)
  BY <1>1, PageOf
<1>3. PICK u, a : u = D!Unread /\ a = p.answer
  OBVIOUS
<1>4. u \in Reads /\ a \in Reads /\ Agrees(a, stored) /\ Agrees(u, stored)
  BY <1>2, <1>3, EmptyFits DEF TreePages, PageFits, Agrees, TreeInv, Reads
<1>5. PICK r : r = [p EXCEPT !.read = a, !.isSuccess = TRUE, !.get = "none", !.answer = u]
  OBVIOUS
<1>6. PICK s : s = [p.save EXCEPT !.need = p.save.need \ {"layout"}, !.read = a]
  OBVIOUS
<1>7. PICK q : q = [r EXCEPT !.save = s]
  OBVIOUS
<1>8. /\ r \in TreePages /\ r.save = p.save /\ r.pending = p.pending /\ r.lists = p.lists /\ r.read = a
      /\ r.answer = u /\ r.listed = p.listed /\ r.missed = p.missed
  BY <1>2, <1>4, <1>5 DEF TreePages
<1>9. q = [r EXCEPT !.save.need = @ \ {"layout"}, !.save.read = a]
  BY <1>2, <1>6, <1>7, <1>8 DEF TreePages, Saves
<1>10. /\ UNCHANGED <<stored, exists, created>>
       /\ \/ D!Becomes(t, q) /\ "layout" \in p.save.need
          \/ D!Becomes(t, r)
  BY <1>1, <1>3, <1>5, <1>9 DEF D!LayoutRead
<1>11. PageFits(r, stored, exists, created)
  <2>1. SaveFits(r, stored, exists, created)
    BY <1>2, <1>8, SameSave
  <2> QED BY <1>2, <1>4, <1>8, <2>1 DEF PageFits
<1>12. ASSUME "layout" \in p.save.need PROVE PageFits(q, stored, exists, created)
  <2>1. p.save.step = "read-again" /\ p.pending # <<>>
    BY <1>2, <1>12 DEF SaveFits
  <2>2. s \in Saves /\ s.step = "read-again" /\ s.read = a /\ s.lists = p.save.lists /\ s.known = p.save.known
    BY <1>2, <1>4, <1>6, <2>1 DEF Saves
  <2>3. /\ q \in TreePages /\ q.save = s /\ q.pending = p.pending /\ q.lists = p.lists /\ q.read = a
        /\ q.answer = u /\ q.listed = p.listed /\ q.missed = p.missed
    BY <1>7, <1>8, <2>2 DEF TreePages
  <2>4. SaveFits(q, stored, exists, created)
    BY <1>2, <1>4, <2>1, <2>2, <2>3 DEF SaveFits
  <2> QED BY <1>2, <1>4, <2>3, <2>4 DEF PageFits
<1> QED BY <1>10, <1>11, <1>12, OnePage

LEMMA LayoutUnreadKeeps ==
  ASSUME D!DataTreeConstants, TreeInv, NEW t \in Pages, D!LayoutUnread(t)
  PROVE  TreeInv'
<1>1. PICK p : p = page[t]
  OBVIOUS
<1>2. PageFits(p, stored, exists, created) /\ p \in TreePages /\ SaveFits(p, stored, exists, created)
  BY <1>1, PageOf
<1>3. PICK u : u = D!Unread
  OBVIOUS
<1>4. u \in Reads /\ Agrees(u, stored)
  BY <1>3, EmptyFits DEF Agrees, TreeInv, Reads
<1>5. PICK q : q = [p EXCEPT !.isSuccess = FALSE, !.get = "none", !.answer = u]
  OBVIOUS
<1>6. /\ q \in TreePages /\ q.save = p.save /\ q.pending = p.pending /\ q.lists = p.lists /\ q.read = p.read
      /\ q.answer = u /\ q.listed = p.listed /\ q.missed = p.missed
  BY <1>2, <1>4, <1>5 DEF TreePages
<1>7. /\ UNCHANGED <<stored, exists, created>>
      /\ \/ D!Becomes(t, D!Undone(q)) /\ "layout" \in q.save.need
         \/ D!Becomes(t, q)
  BY <1>1, <1>3, <1>5 DEF D!LayoutUnread
<1>8. SaveFits(q, stored, exists, created)
  BY <1>2, <1>6, SameSave
<1>9. PageFits(q, stored, exists, created)
  BY <1>2, <1>4, <1>6, <1>8 DEF PageFits
<1>10. "layout" \in q.save.need => q.pending # <<>>
  BY <1>8 DEF SaveFits
<1>11. "layout" \in q.save.need => PageFits(D!Undone(q), stored, exists, created)
  BY <1>9, <1>10, SettledFits
<1> QED BY <1>7, <1>9, <1>11, OnePage

LEMMA ListsReadKeeps ==
  ASSUME D!DataTreeConstants, TreeInv, NEW t \in Pages, D!ListsRead(t)
  PROVE  TreeInv'
<1>1. PICK p : p = page[t]
  OBVIOUS
<1>2. PageFits(p, stored, exists, created) /\ p \in TreePages /\ p.save \in Saves /\ SaveFits(p, stored, exists, created)
  BY <1>1, PageOf
<1>3. exists \in SUBSET D!Connectors /\ exists \subseteq created
  BY DEF TreeInv
<1>4. PICK r : r = [p EXCEPT !.lists = exists, !.listed = TRUE, !.missed = {}]
  OBVIOUS
<1>5. PICK s : s = [p.save EXCEPT !.need = p.save.need \ {"lists"}, !.lists = exists, !.known = exists]
  OBVIOUS
<1>6. PICK q : q = [r EXCEPT !.save = s]
  OBVIOUS
<1>7. /\ r \in TreePages /\ r.save = p.save /\ r.pending = p.pending /\ r.lists = exists /\ r.read = p.read
      /\ r.answer = p.answer /\ r.missed = {}
  BY <1>2, <1>3, <1>4 DEF TreePages
<1>8. q = [r EXCEPT !.save.need = @ \ {"lists"}, !.save.lists = exists, !.save.known = exists]
  BY <1>2, <1>5, <1>6, <1>7 DEF TreePages, Saves
<1>9. /\ UNCHANGED <<stored, exists, created>>
      /\ \/ D!Becomes(t, q) /\ "lists" \in p.save.need
         \/ D!Becomes(t, r)
  BY <1>1, <1>4, <1>8 DEF D!ListsRead
<1>10. PageFits(r, stored, exists, created)
  <2>1. SaveFits(r, stored, exists, created)
    BY <1>2, <1>7, SameSave
  <2> QED BY <1>2, <1>3, <1>7, <2>1 DEF PageFits
<1>11. ASSUME "lists" \in p.save.need PROVE PageFits(q, stored, exists, created)
  <2>1. p.save.step = "read-again" /\ p.pending # <<>>
    BY <1>2, <1>11 DEF SaveFits
  <2>2. s \in Saves /\ s.step = "read-again" /\ s.read = p.save.read /\ s.lists = exists /\ s.known = exists
    BY <1>2, <1>3, <1>5, <2>1 DEF Saves
  <2>3. /\ q \in TreePages /\ q.save = s /\ q.pending = p.pending /\ q.lists = exists /\ q.read = p.read
        /\ q.answer = p.answer /\ q.missed = {}
    BY <1>6, <1>7, <2>2 DEF TreePages
  <2>4. SaveFits(q, stored, exists, created)
    BY <1>2, <1>3, <2>1, <2>2, <2>3 DEF SaveFits
  <2> QED BY <1>2, <1>3, <2>3, <2>4 DEF PageFits
<1> QED BY <1>9, <1>10, <1>11, OnePage

LEMMA ListsUnreadKeeps ==
  ASSUME D!DataTreeConstants, TreeInv, NEW t \in Pages, D!ListsUnread(t)
  PROVE  TreeInv'
<1>1. PICK p : p = page[t]
  OBVIOUS
<1>2. PageFits(p, stored, exists, created) /\ p \in TreePages /\ SaveFits(p, stored, exists, created)
  BY <1>1, PageOf
<1>3. PICK q : q = [p EXCEPT !.listed = FALSE]
  OBVIOUS
<1>4. /\ q \in TreePages /\ q.save = p.save /\ q.pending = p.pending /\ q.lists = p.lists /\ q.read = p.read
      /\ q.answer = p.answer /\ q.listed = FALSE /\ q.missed = p.missed
  BY <1>2, <1>3 DEF TreePages
<1>5. /\ UNCHANGED <<stored, exists, created>>
      /\ \/ D!Becomes(t, D!Undone(q)) /\ "lists" \in q.save.need
         \/ D!Becomes(t, q)
  BY <1>1, <1>3 DEF D!ListsUnread
<1>6. SaveFits(q, stored, exists, created)
  BY <1>2, <1>4, SameSave
<1>7. PageFits(q, stored, exists, created)
  BY <1>2, <1>4, <1>6 DEF PageFits
<1>8. "lists" \in q.save.need => q.pending # <<>>
  BY <1>6 DEF SaveFits
<1>9. "lists" \in q.save.need => PageFits(D!Undone(q), stored, exists, created)
  BY <1>7, <1>8, SettledFits
<1> QED BY <1>5, <1>7, <1>9, OnePage

LEMMA ChangeKeeps ==
  ASSUME D!DataTreeConstants, TreeInv, NEW t \in Pages, NEW ch \in WantedChanges, D!change(t, ch)
  PROVE  TreeInv'
<1>1. PICK p : p = page[t]
  OBVIOUS
<1>2. PageFits(p, stored, exists, created) /\ p \in TreePages /\ SaveFits(p, stored, exists, created)
  BY <1>1, PageOf
<1>3. PICK w, z : w = p.pending /\ z = Append(w, ch)
  OBVIOUS
<1>4. ch \in D!Changes
  BY DEF D!DataTreeConstants
<1>5. w \in Seq(D!Changes)
  BY <1>2, <1>3 DEF TreePages
<1>6. z \in Seq(D!Changes) /\ z # <<>> /\ (w # <<>> => Head(z) = Head(w))
  BY <1>3, <1>4, <1>5
<1>7. PICK q : q = [p EXCEPT !.pending = z]
  OBVIOUS
<1>8. q = [p EXCEPT !.pending = Append(@, ch)]
  BY <1>2, <1>3, <1>7 DEF TreePages
<1>9. UNCHANGED <<stored, exists, created>> /\ D!Becomes(t, q)
  BY <1>1, <1>8 DEF D!change
<1>10. /\ q \in TreePages /\ q.save = p.save /\ q.pending = z /\ q.lists = p.lists /\ q.read = p.read
       /\ q.answer = p.answer /\ q.listed = p.listed /\ q.missed = p.missed
  BY <1>2, <1>6, <1>7 DEF TreePages
<1>11. SaveFits(q, stored, exists, created)
  BY <1>2, <1>3, <1>6, <1>10, SameSave
<1>12. PageFits(q, stored, exists, created)
  BY <1>2, <1>10, <1>11 DEF PageFits
<1> QED BY <1>9, <1>12, OnePage

\* What a write stores: what its page made of the layout that was stored.
LEMMA PutIs ==
  ASSUME D!DataTreeConstants, TreeInv, NEW t \in Pages, NEW p, p = page[t], D!PutDataLayout(t)
  PROVE  /\ p.save.step \in {"put", "put-again"} /\ p.pending # <<>>
         /\ p.save.read.revision = stored.revision /\ stored.revision \in Nat
         /\ stored'.revision = stored.revision + 1
         /\ stored'.layout = D!Made(p.save.read.layout, p.save.lists, Head(p.pending))
         /\ stored' \in Reads /\ p.save.read.layout = stored.layout
         /\ D!Written(p.save, Head(p.pending)) # {} /\ UNCHANGED <<exists, created>>
         /\ page' = [page EXCEPT ![t] = [p EXCEPT !.save.step = "saved"]]
<1>1. PageFits(p, stored, exists, created) /\ p \in TreePages /\ SaveFits(p, stored, exists, created)
  BY PageOf
<1>2. PICK m : m = D!Made(p.save.read.layout, p.save.lists, Head(p.pending))
  OBVIOUS
<1>3. /\ p.save.step \in {"put", "put-again"} /\ p.save.read.revision = stored.revision
      /\ stored' = [revision |-> stored.revision + 1, layout |-> m]
      /\ page' = [page EXCEPT ![t] = [p EXCEPT !.save.step = "saved"]] /\ UNCHANGED <<exists, created>>
  BY <1>2 DEF D!PutDataLayout, D!Becomes
<1>4. p.pending # <<>> /\ Agrees(p.save.read, stored) /\ D!Written(p.save, Head(p.pending)) # {}
  BY <1>1, <1>3 DEF SaveFits
<1>5. /\ Head(p.pending) \in D!Changes /\ p.save.read.layout \in Layouts /\ p.save.lists \in SUBSET D!Connectors
      /\ p.save.read.revision \in Nat
  BY <1>1, <1>4, HeadOf
<1>6. m \in Layouts
  BY <1>2, <1>5, MadeIs
<1>7. stored.revision \in Nat /\ stored'.revision = stored.revision + 1 /\ stored'.layout = m /\ stored' \in Reads
  BY <1>3, <1>5, <1>6 DEF Reads
<1>8. p.save.read.layout = stored.layout
  BY <1>3, <1>4 DEF Agrees
<1> QED BY <1>2, <1>3, <1>4, <1>7, <1>8

\* Whoever else writes, a page has what is older.
LEMMA PageStillFits ==
  ASSUME NEW st \in Reads, NEW su, su.revision = st.revision + 1, NEW ex, NEW cr, NEW p, PageFits(p, st, ex, cr)
  PROVE  PageFits(p, su, ex, cr)
<1>1. st.revision \in Nat
  BY DEF Reads
<1>2. \A r \in Reads : Agrees(r, st) => Agrees(r, su)
  <2> SUFFICES ASSUME NEW r \in Reads, Agrees(r, st) PROVE Agrees(r, su)
    OBVIOUS
  <2>1. r.revision \in Nat /\ r.revision <= st.revision
    BY DEF Agrees, Reads
  <2>2. r.revision <= su.revision /\ r.revision # su.revision
    BY <1>1, <2>1
  <2> QED BY <2>2 DEF Agrees
<1>3. p \in TreePages /\ SaveFits(p, st, ex, cr)
  BY DEF PageFits
<1>4. p.read \in Reads /\ p.answer \in Reads /\ p.save \in Saves
  BY <1>3 DEF TreePages
<1>5. p.save.read \in Reads
  BY <1>4 DEF Saves
<1>6. p.save.step = "saved" => WasMade(p, su)
  <2>1. p.save.read.revision \in Nat
    BY <1>5 DEF Reads
  <2>2. ASSUME p.save.read.revision < st.revision
        PROVE  p.save.read.revision < su.revision /\ p.save.read.revision + 1 # su.revision
    BY <1>1, <2>1, <2>2
  <2>3. ASSUME p.save.step = "saved" PROVE WasMade(p, su)
    <3>1. p.save.read.revision < st.revision
      BY <1>3, <2>3 DEF SaveFits, WasMade
    <3> QED BY <2>2, <3>1 DEF WasMade
  <2> QED BY <2>3
<1>7. SaveFits(p, su, ex, cr)
  BY <1>2, <1>3, <1>5, <1>6 DEF SaveFits
<1>8. Agrees(p.read, su) /\ Agrees(p.answer, su)
  BY <1>2, <1>4 DEF PageFits
<1> QED BY <1>7, <1>8 DEF PageFits

LEMMA PutKeeps ==
  ASSUME D!DataTreeConstants, TreeInv, NEW t \in Pages, D!PutDataLayout(t)
  PROVE  TreeInv'
<1>1. PICK p : p = page[t]
  OBVIOUS
<1>2. PageFits(p, stored, exists, created) /\ p \in TreePages /\ p.save \in Saves /\ SaveFits(p, stored, exists, created)
  BY <1>1, PageOf
<1>3. /\ p.save.step \in {"put", "put-again"} /\ p.pending # <<>>
      /\ p.save.read.revision = stored.revision /\ stored.revision \in Nat
      /\ stored'.revision = stored.revision + 1
      /\ stored'.layout = D!Made(p.save.read.layout, p.save.lists, Head(p.pending))
      /\ stored' \in Reads /\ UNCHANGED <<exists, created>>
      /\ page' = [page EXCEPT ![t] = [p EXCEPT !.save.step = "saved"]]
  BY <1>1, PutIs
<1>4. PICK st, su : st = stored /\ su = stored'
  OBVIOUS
<1>5. st \in Reads /\ su.revision = st.revision + 1 /\ st.revision \in Nat /\ su \in Reads
  BY <1>3, <1>4 DEF TreeInv
<1>6. \A i \in Pages : PageFits(page[i], su, exists, created)
  <2> SUFFICES ASSUME NEW i \in Pages PROVE PageFits(page[i], su, exists, created)
    OBVIOUS
  <2>1. PageFits(page[i], st, exists, created)
    BY <1>4 DEF TreeInv
  <2> QED BY <1>5, <2>1, PageStillFits
<1>7. PICK s : s = [p.save EXCEPT !.step = "saved"]
  OBVIOUS
<1>8. PICK q : q = [p EXCEPT !.save = s]
  OBVIOUS
<1>9. q = [p EXCEPT !.save.step = "saved"]
  BY <1>2, <1>7, <1>8 DEF TreePages
<1>10. s \in Saves /\ s.step = "saved" /\ s.need = p.save.need /\ s.read = p.save.read /\ s.lists = p.save.lists
       /\ s.known = p.save.known
  BY <1>2, <1>7 DEF Saves
<1>11. /\ q \in TreePages /\ q.save = s /\ q.pending = p.pending /\ q.lists = p.lists /\ q.read = p.read
       /\ q.answer = p.answer /\ q.listed = p.listed /\ q.missed = p.missed
  BY <1>2, <1>8, <1>10 DEF TreePages
<1>12. PageFits(q, su, exists, created)
  <2>1. PageFits(p, su, exists, created)
    BY <1>1, <1>6
  <2>2. p.save.need = {}
    BY <1>2, <1>3 DEF SaveFits
  <2>3. WasMade(q, su)
    <3>1. s.read.revision = st.revision /\ s.read.revision < su.revision
      BY <1>3, <1>4, <1>5, <1>10
    <3>2. su.layout = D!Made(s.read.layout, s.lists, Head(q.pending))
      BY <1>3, <1>4, <1>10, <1>11
    <3> QED BY <1>11, <3>1, <3>2 DEF WasMade
  <2>4. SaveFits(q, su, exists, created)
    BY <1>3, <1>10, <1>11, <2>1, <2>2, <2>3 DEF SaveFits, PageFits
  <2> QED BY <1>11, <2>1, <2>4 DEF PageFits
<1>13. page' = [page EXCEPT ![t] = q] /\ page \in [Pages -> TreePages]
  BY <1>3, <1>9 DEF TreeInv
<1>14. page' \in [Pages -> TreePages] /\ \A i \in Pages : page'[i] = IF i = t THEN q ELSE page[i]
  BY <1>11, <1>13
<1>15. \A i \in Pages : PageFits(page'[i], su, exists, created)
  BY <1>6, <1>12, <1>14
<1>16. stored' \in Reads /\ stored'.revision > 0
  BY <1>3
<1>17. exists' = exists /\ created' = created
  BY <1>3
<1> QED BY <1>4, <1>14, <1>15, <1>16, <1>17 DEF TreeInv

LEMMA ConnectKeeps ==
  ASSUME D!DataTreeConstants, TreeInv, D!Connect
  PROVE  TreeInv'
<1>1. PICK c \in D!Connectors \ created : exists' = exists \cup {c} /\ created' = created \cup {c}
  BY DEF D!Connect
<1>2. stored' = stored /\ page' = [t \in Pages |-> [page[t] EXCEPT !.missed = @ \cup {c}]]
  <2>1. PICK d \in D!Connectors \ created : /\ created' = created \cup {d}
          /\ page' = [t \in Pages |-> [page[t] EXCEPT !.missed = @ \cup {d}]]
    BY DEF D!Connect
  <2>2. d = c
    BY <1>1, <2>1
  <2> QED BY <2>1, <2>2 DEF D!Connect
<1>3. PICK ex, cr : ex = exists \cup {c} /\ cr = created \cup {c}
  OBVIOUS
<1>4. ASSUME NEW t \in Pages PROVE PageFits(page'[t], stored, ex, cr)
  <2>1. PICK p : p = page[t]
    OBVIOUS
  <2>2. PageFits(p, stored, exists, created) /\ p \in TreePages /\ SaveFits(p, stored, exists, created)
    BY <2>1, PageOf
  <2>3. PICK q : q = [p EXCEPT !.missed = p.missed \cup {c}]
    OBVIOUS
  <2>4. page'[t] = q
    BY <1>2, <2>1, <2>2, <2>3 DEF TreePages
  <2>5. /\ q \in TreePages /\ q.save = p.save /\ q.pending = p.pending /\ q.lists = p.lists /\ q.read = p.read
        /\ q.answer = p.answer /\ q.listed = p.listed /\ q.missed = p.missed \cup {c}
    BY <1>1, <2>2, <2>3 DEF TreePages
  <2>6. SaveFits(q, stored, ex, cr)
    BY <1>1, <1>3, <2>2, <2>5 DEF SaveFits, WasMade
  <2>7. q.lists \subseteq cr /\ (q.listed => ex \ q.missed \subseteq q.lists)
    BY <1>3, <2>2, <2>5 DEF PageFits
  <2> QED BY <2>2, <2>4, <2>5, <2>6, <2>7 DEF PageFits
<1>5. page' \in [Pages -> TreePages]
  <2>1. \A t \in Pages : page'[t] \in TreePages
    BY <1>4 DEF PageFits
  <2> QED BY <1>2, <2>1
<1>6. ex \subseteq cr /\ cr \subseteq D!Connectors
  BY <1>1, <1>3 DEF TreeInv
<1>7. exists' = ex /\ created' = cr
  BY <1>1, <1>3
<1> QED BY <1>2, <1>4, <1>5, <1>6, <1>7 DEF TreeInv

LEMMA DisconnectKeeps ==
  ASSUME TreeInv, D!Disconnect
  PROVE  TreeInv'
<1>1. exists' \subseteq exists /\ UNCHANGED <<stored, created, page>>
  BY DEF D!Disconnect
<1>2. PICK ex : ex = exists' /\ ex \subseteq exists
  BY <1>1
<1>3. ASSUME NEW t \in Pages PROVE PageFits(page[t], stored, ex, created)
  <2>1. PICK p : p = page[t]
    OBVIOUS
  <2>2. PageFits(p, stored, exists, created) /\ SaveFits(p, stored, exists, created)
    BY <2>1, PageOf
  <2>3. SaveFits(p, stored, ex, created)
    BY <1>2, <2>2 DEF SaveFits
  <2>4. PageFits(p, stored, ex, created)
    BY <1>2, <2>2, <2>3 DEF PageFits
  <2> QED BY <2>1, <2>4
<1> QED BY <1>1, <1>2, <1>3 DEF TreeInv

LEMMA TreeSteps ==
  ASSUME D!DataTreeConstants, TreeInv, [D!TreeNext]_(D!treeVars)
  PROVE  TreeInv'
<1>1. CASE UNCHANGED D!treeVars
  BY <1>1 DEF D!treeVars, TreeInv
<1>2. CASE D!Connect \/ D!Disconnect
  BY <1>2, ConnectKeeps, DisconnectKeeps
<1>3. ASSUME NEW t \in Pages, D!PageStep(t) PROVE TreeInv'
  BY <1>3, SaveKeeps, SaveAgainKeeps, PutKeeps, StaleKeeps, SavedKeeps, GetKeeps, LayoutReadKeeps, ListsReadKeeps
     DEF D!PageStep
<1>4. ASSUME NEW t \in Pages, D!Mishap(t) PROVE TreeInv'
  BY <1>4, SaveFailsKeeps, RefocusKeeps, LayoutUnreadKeeps, ListsUnreadKeeps DEF D!Mishap
<1>5. ASSUME NEW t \in Pages, NEW ch \in WantedChanges, D!change(t, ch) PROVE TreeInv'
  BY <1>5, ChangeKeeps
<1> QED BY <1>1, <1>2, <1>3, <1>4, <1>5 DEF D!TreeNext

-----------------------------------------------------------------------------
(* What a write does. *)

\* A step that writes is a PUT.
LEMMA OnlyPutWrites ==
  ASSUME [D!TreeNext]_(D!treeVars), stored' # stored
  PROVE  \E t \in Pages : D!PutDataLayout(t)
<1>1. ASSUME NEW t \in Pages, D!PageStep(t) PROVE D!PutDataLayout(t)
  BY <1>1 DEF D!PageStep, D!Save, D!SaveAgain, D!Stale, D!Saved, D!GetDataLayout, D!LayoutRead, D!ListsRead
<1>2. ASSUME NEW t \in Pages, D!Mishap(t) PROVE FALSE
  BY <1>2 DEF D!Mishap, D!SaveFails, D!Refocus, D!LayoutUnread, D!ListsUnread
<1>3. ASSUME NEW t \in Pages, NEW ch, D!change(t, ch) PROVE FALSE
  BY <1>3 DEF D!change
<1>4. ASSUME D!Connect \/ D!Disconnect PROVE FALSE
  BY <1>4 DEF D!Connect, D!Disconnect
<1> QED BY <1>1, <1>2, <1>3, <1>4 DEF D!TreeNext, D!treeVars

LEMMA WriteIsItsChange ==
  ASSUME D!DataTreeConstants, TreeInv, [D!TreeNext]_(D!treeVars)
  PROVE  D!WritesOnlyItsChange
<1> SUFFICES ASSUME stored' # stored
             PROVE  \E t \in Pages :
                      /\ page[t].save.step \in {"put", "put-again"} /\ page'[t].save.step = "saved"
                      /\ D!MadeOf(stored.layout, stored'.layout, exists \cap page[t].save.known, Head(page[t].pending))
  BY DEF D!WritesOnlyItsChange
<1>1. PICK t \in Pages : D!PutDataLayout(t)
  BY OnlyPutWrites
<1>2. PICK p : p = page[t]
  OBVIOUS
<1>3. /\ p.save.step \in {"put", "put-again"} /\ p.pending # <<>>
      /\ stored'.layout = D!Made(p.save.read.layout, p.save.lists, Head(p.pending))
      /\ p.save.read.layout = stored.layout /\ D!Written(p.save, Head(p.pending)) # {}
      /\ page' = [page EXCEPT ![t] = [p EXCEPT !.save.step = "saved"]] /\ stored' \in Reads
  BY <1>1, <1>2, PutIs
<1>4. p \in TreePages /\ p.save \in Saves /\ SaveFits(p, stored, exists, created)
  BY <1>2, PageOf
<1>5. PICK ch, l, m, lists, B :
        /\ ch = Head(p.pending) /\ l = stored.layout /\ m = stored'.layout /\ lists = p.save.lists
        /\ B = exists \cap p.save.known
  OBVIOUS
<1>6. ch \in D!Changes /\ l \in Layouts /\ lists \in SUBSET D!Connectors
  BY <1>3, <1>4, <1>5, HeadOf
<1>7. B \subseteq lists
  BY <1>4, <1>5 DEF SaveFits
<1>8. D!applyChange(l, lists, ch) # {} /\ m = D!Made(l, lists, ch)
  BY <1>3, <1>5 DEF D!Written
<1>9. m \in Layouts /\ D!MadeOf(l, m, lists, ch)
  BY <1>6, <1>8, MadeIs
<1>10. D!MadeOf(l, m, B, ch)
  BY <1>6, <1>7, <1>9, MadeOfFewer
<1>11. page'[t].save.step = "saved"
  <2>1. page \in [Pages -> TreePages]
    BY DEF TreeInv
  <2>2. page'[t] = [p EXCEPT !.save.step = "saved"]
    BY <1>3, <2>1
  <2> QED BY <1>4, <2>2 DEF TreePages, Saves
<1> QED BY <1>2, <1>3, <1>5, <1>10, <1>11

\* Each write of the tree stored makes the change its page asked for and
\* undoes nobody's, however the writes, the reads and their failures, the new
\* connectors and the deleted ones interleave.
THEOREM WritesHold ==
  ASSUME D!DataTreeConstants
  PROVE  D!TreeSpec => [][D!WritesOnlyItsChange]_(D!treeVars)
<1>1. D!Init => TreeInv
  BY TreeStart
<1>2. TreeInv /\ [D!TreeNext]_(D!treeVars) => TreeInv'
  BY TreeSteps
<1>3. TreeInv /\ [D!TreeNext]_(D!treeVars) => D!WritesOnlyItsChange
  BY WriteIsItsChange
<1> QED BY <1>1, <1>2, <1>3, PTL DEF D!TreeSpec

LEMMA TreeBegins == Init => (part = "tree" => D!Init)
BY DEF Init, Starts

LEMMA TreeGoesOn ==
  [Next]_vars => /\ (part = "tree")' <=> part = "tree"
                 /\ part = "tree" => [D!TreeNext]_(D!treeVars)
<1>1. CASE UNCHANGED vars
  BY <1>1 DEF vars, after5, after6, D!treeVars
<1>2. CASE Next
  BY <1>2 DEF Next, Is
<1> QED BY <1>1, <1>2

\* A write of the tree makes its own change of it and undoes nobody's.
THEOREM NobodyIsUndone ==
  ASSUME D!DataTreeConstants
  PROVE  Spec => NothingUndone
<1>1. D!Init => TreeInv
  BY TreeStart
<1>2. TreeInv /\ [D!TreeNext]_(D!treeVars) => TreeInv'
  BY TreeSteps
<1>3. TreeInv /\ [D!TreeNext]_(D!treeVars) => D!WritesOnlyItsChange
  BY WriteIsItsChange
<1>4. [Next]_vars /\ (part = "tree" => D!WritesOnlyItsChange) => [Is("tree") => D!WritesOnlyItsChange]_vars
  BY DEF Is
<1> QED BY TreeBegins, TreeGoesOn, <1>1, <1>2, <1>3, <1>4, PTL DEF Spec, NothingUndone

-----------------------------------------------------------------------------
(* Types: no more is written than changes were made. *)

\* The changes of a page that a PUT may still store; all the pages'.
Left(p) == IF p.save.step = "saved" THEN Len(p.pending) - 1 ELSE Len(p.pending)
Todo(pg) == {x \in Pages \X (Nat \ {0}) : x[2] <= Left(pg[x[1]])}
TreeCount ==
  /\ changes \in 0..MaxChanges /\ mishaps \in 0..MaxMishaps
  /\ \A t \in Pages : Len(page[t].pending) <= changes
  /\ IsFiniteSet(Todo(page)) /\ stored.revision + Cardinality(Todo(page)) <= changes + 1

\* What a page's other steps do of its changes: the first is done with, or all
\* stay as they are.
DoneWith(p, q) == p.pending # <<>> /\ q.pending = Tail(p.pending) /\ q.save.step = "idle"
AllStay(p, q) == q.pending = p.pending /\ (q.save.step = "saved" <=> p.save.step = "saved")

LEMMA LeftIs ==
  ASSUME NEW p \in TreePages, NEW q \in TreePages, DoneWith(p, q) \/ AllStay(p, q)
  PROVE  Len(q.pending) <= Len(p.pending) /\ Left(q) <= Left(p) /\ Left(p) \in Int /\ Left(q) \in Int
<1>1. PICK w, z : w = p.pending /\ z = q.pending
  OBVIOUS
<1>2. w \in Seq(D!Changes) /\ z \in Seq(D!Changes)
  BY <1>1 DEF TreePages
<1>3. Len(w) \in Nat /\ Len(z) \in Nat
  BY <1>2
<1>4. CASE DoneWith(p, q)
  <2>1. w # <<>> /\ z = Tail(w) /\ q.save.step = "idle"
    BY <1>1, <1>4 DEF DoneWith
  <2>2. Len(z) = Len(w) - 1
    BY <1>2, <2>1, HeadTailProperties
  <2> QED BY <1>1, <1>3, <2>1, <2>2 DEF Left
<1>5. CASE AllStay(p, q)
  BY <1>1, <1>3, <1>5 DEF AllStay, Left
<1> QED BY <1>4, <1>5

LEMMA FewerTodo ==
  ASSUME NEW pg, NEW qg, IsFiniteSet(Todo(pg)), Todo(qg) \subseteq Todo(pg)
  PROVE  IsFiniteSet(Todo(qg)) /\ Cardinality(Todo(qg)) <= Cardinality(Todo(pg))
         /\ Cardinality(Todo(qg)) \in Nat /\ Cardinality(Todo(pg)) \in Nat
BY FS_Subset, FS_CardinalityType

LEMMA TodoFewer ==
  ASSUME NEW pg \in [Pages -> TreePages], NEW qg \in [Pages -> TreePages],
         \A t \in Pages : DoneWith(pg[t], qg[t]) \/ AllStay(pg[t], qg[t])
  PROVE  /\ Todo(qg) \subseteq Todo(pg)
         /\ \A t \in Pages : Len(qg[t].pending) <= Len(pg[t].pending) /\ Len(pg[t].pending) \in Nat
                             /\ Len(qg[t].pending) \in Nat
<1>1. ASSUME NEW t \in Pages
      PROVE  /\ Len(qg[t].pending) <= Len(pg[t].pending) /\ Left(qg[t]) <= Left(pg[t])
             /\ Left(pg[t]) \in Int /\ Left(qg[t]) \in Int /\ Len(pg[t].pending) \in Nat /\ Len(qg[t].pending) \in Nat
  <2>1. PICK p, q : p = pg[t] /\ q = qg[t]
    OBVIOUS
  <2>2. p \in TreePages /\ q \in TreePages /\ (DoneWith(p, q) \/ AllStay(p, q))
    BY <2>1
  <2>3. p.pending \in Seq(D!Changes) /\ q.pending \in Seq(D!Changes)
    BY <2>2 DEF TreePages
  <2>4. Len(p.pending) \in Nat /\ Len(q.pending) \in Nat
    BY <2>3
  <2> QED BY <2>1, <2>2, <2>4, LeftIs
<1>2. \A x \in Pages \X (Nat \ {0}) : x[2] <= Left(qg[x[1]]) => x[2] <= Left(pg[x[1]])
  <2> SUFFICES ASSUME NEW x \in Pages \X (Nat \ {0}), x[2] <= Left(qg[x[1]]) PROVE x[2] <= Left(pg[x[1]])
    OBVIOUS
  <2>1. PICK t, n : t = x[1] /\ n = x[2] /\ t \in Pages /\ n \in Nat
    OBVIOUS
  <2>2. Left(qg[t]) <= Left(pg[t]) /\ Left(pg[t]) \in Int /\ Left(qg[t]) \in Int
    BY <1>1, <2>1
  <2> QED BY <2>1, <2>2
<1> QED BY <1>1, <1>2 DEF Todo

\* A page's step that neither writes nor changes.
LEMMA PageSettles ==
  ASSUME D!DataTreeConstants, TreeInv, NEW t \in Pages, NEW p, p = page[t],
         \/ D!Save(t) \/ D!SaveAgain(t) \/ D!Stale(t) \/ D!Saved(t) \/ D!GetDataLayout(t) \/ D!LayoutRead(t)
         \/ D!ListsRead(t) \/ D!Mishap(t)
  PROVE  /\ \E q : D!Becomes(t, q) /\ (DoneWith(p, q) \/ AllStay(p, q))
         /\ stored' = stored
<1>1. PageFits(p, stored, exists, created) /\ p \in TreePages /\ p.save \in Saves /\ SaveFits(p, stored, exists, created)
  BY PageOf
<1>2. p.pending # <<>> => DoneWith(p, D!Settled(p)) /\ DoneWith(p, D!Undone(p))
  BY <1>1, SettledFits DEF DoneWith, D!NoSave
<1>3. CASE D!Save(t)
  <2>1. PICK s, q : /\ s = [step |-> "put", need |-> {}, read |-> p.read, lists |-> p.lists, known |-> exists \ p.missed]
                    /\ q = [p EXCEPT !.save = s]
    OBVIOUS
  <2>2. /\ p.pending # <<>> /\ p.save.step = "idle" /\ stored' = stored
        /\ D!Becomes(t, q) \/ D!Becomes(t, D!Undone(p))
    BY <1>3, <2>1 DEF D!Save
  <2>3. AllStay(p, q)
    BY <1>1, <2>1, <2>2 DEF AllStay, TreePages
  <2> QED BY <1>2, <2>2, <2>3
<1>4. CASE D!SaveAgain(t)
  <2>1. PICK q : q = [p EXCEPT !.save.step = "put-again"]
    OBVIOUS
  <2>2. /\ p.save.step = "read-again" /\ stored' = stored
        /\ D!Becomes(t, q) \/ D!Becomes(t, D!Undone(p))
    BY <1>4, <2>1 DEF D!SaveAgain
  <2>3. p.pending # <<>>
    BY <1>1, <2>2 DEF SaveFits
  <2>4. AllStay(p, q)
    BY <1>1, <2>1, <2>2 DEF AllStay, TreePages, Saves
  <2> QED BY <1>2, <2>2, <2>3, <2>4
<1>5. CASE D!Stale(t)
  <2>1. PICK q : q = [p EXCEPT !.save.step = "read-again", !.save.need = {"layout", "lists"},
                               !.get = IF @ = "none" THEN "asked" ELSE @]
    OBVIOUS
  <2>2. /\ p.save.step \in {"put", "put-again"} /\ stored' = stored
        /\ D!Becomes(t, q) \/ D!Becomes(t, D!Undone(p))
    BY <1>5, <2>1 DEF D!Stale
  <2>3. p.pending # <<>>
    BY <1>1, <2>2 DEF SaveFits
  <2>4. AllStay(p, q)
    BY <1>1, <2>1, <2>2 DEF AllStay, TreePages, Saves
  <2> QED BY <1>2, <2>2, <2>3, <2>4
<1>6. CASE D!Saved(t)
  <2>0. PICK r, x : /\ r = [revision |-> p.save.read.revision + 1,
                            layout |-> D!Made(p.save.read.layout, p.save.lists, Head(p.pending))]
                    /\ x = D!Settled(p)
    OBVIOUS
  <2>1. PICK q : q = [x EXCEPT !.read = r, !.isSuccess = TRUE]
    OBVIOUS
  <2>2. p.save.step = "saved" /\ stored' = stored /\ D!Becomes(t, q)
    BY <1>6, <2>0, <2>1 DEF D!Saved
  <2>3. p.pending # <<>>
    BY <1>1, <2>2 DEF SaveFits
  <2>4. DoneWith(p, x) /\ x \in TreePages
    BY <1>1, <1>2, <2>0, <2>3, SettledFits DEF PageFits
  <2>5. q.pending = x.pending /\ q.save = x.save
    BY <2>1, <2>4 DEF TreePages
  <2>6. DoneWith(p, q)
    BY <2>4, <2>5 DEF DoneWith
  <2> QED BY <2>2, <2>6
<1>7. CASE D!SaveFails(t)
  <2>1. p.save.step \in {"put", "put-again", "saved"} /\ stored' = stored /\ D!Becomes(t, D!Undone(p))
    BY <1>7 DEF D!SaveFails
  <2>2. p.pending # <<>>
    BY <1>1, <2>1 DEF SaveFits
  <2> QED BY <1>2, <2>1, <2>2
<1>8. CASE D!GetDataLayout(t) \/ D!Refocus(t)
  <2>1. PICK q, r : q = [p EXCEPT !.get = "answered", !.answer = stored] /\ r = [p EXCEPT !.get = "asked"]
    OBVIOUS
  <2>2. stored' = stored /\ (D!Becomes(t, q) \/ D!Becomes(t, r))
    BY <1>8, <2>1 DEF D!GetDataLayout, D!Refocus
  <2>3. AllStay(p, q) /\ AllStay(p, r)
    BY <1>1, <2>1 DEF AllStay, TreePages
  <2> QED BY <2>2, <2>3
<1>9. CASE D!LayoutRead(t)
  <2>0. PICK r : r = [p EXCEPT !.read = p.answer, !.isSuccess = TRUE, !.get = "none", !.answer = D!Unread]
    OBVIOUS
  <2>1. PICK q : q = [r EXCEPT !.save.need = @ \ {"layout"}, !.save.read = p.answer]
    OBVIOUS
  <2>2. stored' = stored /\ (D!Becomes(t, q) \/ D!Becomes(t, r))
    BY <1>9, <2>0, <2>1 DEF D!LayoutRead
  <2>3. AllStay(p, q) /\ AllStay(p, r)
    BY <1>1, <2>0, <2>1 DEF AllStay, TreePages, Saves
  <2> QED BY <2>2, <2>3
<1>10. CASE D!ListsRead(t)
  <2>0. PICK r : r = [p EXCEPT !.lists = exists, !.listed = TRUE, !.missed = {}]
    OBVIOUS
  <2>1. PICK q : q = [r EXCEPT !.save.need = @ \ {"lists"}, !.save.lists = exists, !.save.known = exists]
    OBVIOUS
  <2>2. stored' = stored /\ (D!Becomes(t, q) \/ D!Becomes(t, r))
    BY <1>10, <2>0, <2>1 DEF D!ListsRead
  <2>3. AllStay(p, q) /\ AllStay(p, r)
    BY <1>1, <2>0, <2>1 DEF AllStay, TreePages, Saves
  <2> QED BY <2>2, <2>3
<1>11. ASSUME NEW q \in TreePages, q.save = p.save, q.pending = p.pending, q.lists = p.lists, q.read = p.read,
              PageFits(q, stored, exists, created), NEW n, n \in q.save.need
       PROVE  DoneWith(p, D!Undone(q))
  <2>1. q.pending # <<>>
    BY <1>11 DEF PageFits, SaveFits
  <2>2. D!Undone(q).save = D!NoSave /\ D!Undone(q).pending = Tail(q.pending)
    BY <1>11, <2>1, SettledFits
  <2> QED BY <1>11, <2>1, <2>2 DEF DoneWith, D!NoSave
<1>12. CASE D!LayoutUnread(t)
  <2>0. PICK u : u = D!Unread
    OBVIOUS
  <2>1. PICK q : q = [p EXCEPT !.isSuccess = FALSE, !.get = "none", !.answer = u]
    OBVIOUS
  <2>2. /\ stored' = stored
        /\ \/ D!Becomes(t, D!Undone(q)) /\ "layout" \in q.save.need
           \/ D!Becomes(t, q)
    BY <1>12, <2>0, <2>1 DEF D!LayoutUnread
  <2>3. u \in Reads /\ Agrees(u, stored)
    BY <2>0, EmptyFits DEF Agrees, TreeInv, Reads
  <2>4. /\ q \in TreePages /\ q.save = p.save /\ q.pending = p.pending /\ q.lists = p.lists /\ q.read = p.read
        /\ q.answer = u /\ q.listed = p.listed /\ q.missed = p.missed
    BY <1>1, <2>1, <2>3 DEF TreePages
  <2>5. SaveFits(q, stored, exists, created)
    BY <1>1, <2>4, SameSave
  <2>6. PageFits(q, stored, exists, created)
    BY <1>1, <2>3, <2>4, <2>5 DEF PageFits
  <2>7. AllStay(p, q)
    BY <2>4 DEF AllStay
  <2> QED BY <1>11, <2>2, <2>4, <2>6, <2>7
<1>13. CASE D!ListsUnread(t)
  <2>1. PICK q : q = [p EXCEPT !.listed = FALSE]
    OBVIOUS
  <2>2. /\ stored' = stored
        /\ \/ D!Becomes(t, D!Undone(q)) /\ "lists" \in q.save.need
           \/ D!Becomes(t, q)
    BY <1>13, <2>1 DEF D!ListsUnread
  <2>3. /\ q \in TreePages /\ q.save = p.save /\ q.pending = p.pending /\ q.lists = p.lists /\ q.read = p.read
        /\ q.answer = p.answer /\ q.listed = FALSE /\ q.missed = p.missed
    BY <1>1, <2>1 DEF TreePages
  <2>4. SaveFits(q, stored, exists, created)
    BY <1>1, <2>3, SameSave
  <2>5. PageFits(q, stored, exists, created)
    BY <1>1, <2>3, <2>4 DEF PageFits
  <2>6. AllStay(p, q)
    BY <2>3 DEF AllStay
  <2> QED BY <1>11, <2>2, <2>3, <2>5, <2>6
<1> QED BY <1>3, <1>4, <1>5, <1>6, <1>7, <1>8, <1>9, <1>10, <1>12, <1>13 DEF D!Mishap

LEMMA CountStart ==
  ASSUME D!DataTreeConstants, D!Init
  PROVE  TreeCount
<1>1. \A t \in Pages : page[t].pending = <<>> /\ page[t].save.step = "idle"
  BY DEF D!Init, D!Opened, D!NoSave
<1>2. \A t \in Pages : Len(page[t].pending) = 0 /\ Left(page[t]) = 0
  BY <1>1 DEF Left
<1>3. Todo(page) = {}
  BY <1>2 DEF Todo
<1>4. IsFiniteSet(Todo(page)) /\ Cardinality(Todo(page)) = 0
  BY <1>3, FS_EmptySet
<1>5. changes = 0 /\ mishaps = 0 /\ stored.revision = 1
  BY DEF D!Init
<1> QED BY <1>2, <1>4, <1>5 DEF TreeCount, D!DataTreeConstants

LEMMA SettlingCounts ==
  ASSUME TreeInv, TreeInv', TreeCount, stored' = stored, changes' = changes, mishaps' \in 0..MaxMishaps,
         \A t \in Pages : DoneWith(page[t], page'[t]) \/ AllStay(page[t], page'[t])
  PROVE  TreeCount'
<1>1. PICK pg, qg : pg = page /\ qg = page'
  OBVIOUS
<1>2. pg \in [Pages -> TreePages] /\ qg \in [Pages -> TreePages]
  BY <1>1 DEF TreeInv
<1>3. /\ Todo(qg) \subseteq Todo(pg)
      /\ \A t \in Pages : Len(qg[t].pending) <= Len(pg[t].pending) /\ Len(pg[t].pending) \in Nat
                          /\ Len(qg[t].pending) \in Nat
  BY <1>1, <1>2, TodoFewer
<1>4. IsFiniteSet(Todo(pg)) /\ stored.revision + Cardinality(Todo(pg)) <= changes + 1 /\ changes \in 0..MaxChanges
  BY <1>1 DEF TreeCount
<1>5. /\ IsFiniteSet(Todo(qg)) /\ Cardinality(Todo(qg)) <= Cardinality(Todo(pg))
      /\ Cardinality(Todo(qg)) \in Nat /\ Cardinality(Todo(pg)) \in Nat
  BY <1>3, <1>4, FewerTodo
<1>6. stored.revision \in Nat /\ changes \in Int
  BY <1>4 DEF TreeInv, Reads
<1>7. stored'.revision + Cardinality(Todo(qg)) <= changes' + 1
  BY <1>4, <1>5, <1>6
<1>8. \A t \in Pages : Len(qg[t].pending) <= changes'
  <2> SUFFICES ASSUME NEW t \in Pages PROVE Len(qg[t].pending) <= changes
    OBVIOUS
  <2>1. Len(pg[t].pending) <= changes
    BY <1>1 DEF TreeCount
  <2> QED BY <1>3, <1>6, <2>1
<1>9. changes' \in 0..MaxChanges
  BY <1>4
<1> QED BY <1>1, <1>5, <1>7, <1>8, <1>9 DEF TreeCount

\* A write takes one of what was to be written.
LEMMA PutCounts ==
  ASSUME D!DataTreeConstants, TreeInv, TreeInv', TreeCount, UNCHANGED <<changes, mishaps>>,
         NEW t \in Pages, D!PutDataLayout(t)
  PROVE  TreeCount'
<1>1. PICK p : p = page[t]
  OBVIOUS
<1>2. p \in TreePages /\ p.save \in Saves
  BY <1>1, PageOf
<1>3. /\ p.save.step \in {"put", "put-again"} /\ p.pending # <<>> /\ stored.revision \in Nat
      /\ stored'.revision = stored.revision + 1
      /\ page' = [page EXCEPT ![t] = [p EXCEPT !.save.step = "saved"]]
  BY <1>1, PutIs
<1>4. PICK q : q = [p EXCEPT !.save.step = "saved"]
  OBVIOUS
<1>5. q.pending = p.pending /\ q.save.step = "saved"
  BY <1>2, <1>4 DEF TreePages, Saves
<1>6. page \in [Pages -> TreePages] /\ \A i \in Pages : page'[i] = IF i = t THEN q ELSE page[i]
  BY <1>3, <1>4 DEF TreeInv
<1>7. PICK n : n = Len(p.pending)
  OBVIOUS
<1>8. n \in Nat \ {0}
  <2>1. PICK w : w = p.pending /\ w \in Seq(D!Changes) /\ w # <<>>
    BY <1>2, <1>3 DEF TreePages
  <2> QED BY <1>7, <2>1
<1>9. Left(p) = n /\ Left(q) = n - 1
  BY <1>3, <1>5, <1>7 DEF Left
<1>10. PICK pg, qg : pg = page /\ qg = page'
  OBVIOUS
<1>11. <<t, n>> \in Todo(pg) /\ Todo(qg) \subseteq Todo(pg) \ {<<t, n>>}
  <2>1. <<t, n>> \in Todo(pg)
    BY <1>1, <1>8, <1>9, <1>10 DEF Todo
  <2>2. ASSUME NEW x \in Todo(qg) PROVE x \in Todo(pg) /\ x # <<t, n>>
    <3>1. PICK i, j : x = <<i, j>> /\ i \in Pages /\ j \in Nat \ {0} /\ j <= Left(qg[i])
      BY DEF Todo
    <3>2. CASE i = t
      <4>1. j <= n - 1
        BY <1>6, <1>9, <1>10, <3>1, <3>2
      <4>2. j <= Left(pg[i]) /\ j # n
        BY <1>1, <1>8, <1>9, <1>10, <3>1, <3>2, <4>1
      <4> QED BY <3>1, <4>2 DEF Todo
    <3>3. CASE i # t
      BY <1>6, <1>10, <3>1, <3>3 DEF Todo
    <3> QED BY <3>2, <3>3
  <2> QED BY <2>1, <2>2
<1>12. /\ IsFiniteSet(Todo(pg)) /\ stored.revision + Cardinality(Todo(pg)) <= changes + 1
       /\ changes \in 0..MaxChanges /\ mishaps \in 0..MaxMishaps
  BY <1>10 DEF TreeCount
<1>13. PICK rest : rest = Todo(pg) \ {<<t, n>>}
  OBVIOUS
<1>14. IsFiniteSet(rest) /\ Cardinality(rest) = Cardinality(Todo(pg)) - 1
  BY <1>11, <1>12, <1>13, FS_RemoveElement
<1>15. IsFiniteSet(Todo(qg)) /\ Cardinality(Todo(qg)) <= Cardinality(rest)
  BY <1>11, <1>13, <1>14, FS_Subset
<1>16. Cardinality(Todo(qg)) \in Nat /\ Cardinality(Todo(pg)) \in Nat
  BY <1>12, <1>15, FS_CardinalityType
<1>17. stored'.revision + Cardinality(Todo(qg)) <= changes' + 1
  BY <1>3, <1>12, <1>14, <1>15, <1>16
<1>18. \A i \in Pages : Len(qg[i].pending) <= changes'
  BY <1>1, <1>5, <1>6, <1>10 DEF TreeCount
<1>19. changes' \in 0..MaxChanges /\ mishaps' \in 0..MaxMishaps
  BY <1>12
<1> QED BY <1>10, <1>15, <1>17, <1>18, <1>19 DEF TreeCount

LEMMA ChangeCounts ==
  ASSUME D!DataTreeConstants, TreeInv, TreeInv', TreeCount, changes < MaxChanges, changes' = changes + 1,
         UNCHANGED mishaps, NEW t \in Pages, NEW ch \in WantedChanges, D!change(t, ch)
  PROVE  TreeCount'
<1>1. PICK p : p = page[t]
  OBVIOUS
<1>2. p \in TreePages /\ p.save \in Saves
  BY <1>1, PageOf
<1>3. PICK w : w = p.pending /\ w \in Seq(D!Changes)
  BY <1>2 DEF TreePages
<1>4. PICK z, n : z = Append(w, ch) /\ n = Left(p) + 1
  OBVIOUS
<1>5. ch \in D!Changes
  BY DEF D!DataTreeConstants
<1>6. z \in Seq(D!Changes) /\ Len(z) = Len(w) + 1 /\ Len(w) \in Nat
  BY <1>3, <1>4, <1>5
<1>7. PICK q : q = [p EXCEPT !.pending = z]
  OBVIOUS
<1>8. q = [p EXCEPT !.pending = Append(@, ch)]
  BY <1>2, <1>3, <1>4, <1>7 DEF TreePages
<1>9. stored' = stored /\ page' = [page EXCEPT ![t] = q]
  BY <1>1, <1>8 DEF D!change, D!Becomes
<1>10. q.pending = z /\ q.save = p.save
  BY <1>2, <1>7 DEF TreePages
<1>11. Left(q) = n /\ Left(p) \in Int /\ n \in Int
  BY <1>3, <1>4, <1>6, <1>10 DEF Left
<1>12. page \in [Pages -> TreePages] /\ \A i \in Pages : page'[i] = IF i = t THEN q ELSE page[i]
  BY <1>9 DEF TreeInv
<1>13. PICK pg, qg, more : pg = page /\ qg = page' /\ more = Todo(pg) \cup {<<t, n>>}
  OBVIOUS
<1>14. Todo(qg) \subseteq more
  <2> SUFFICES ASSUME NEW x \in Todo(qg), x # <<t, n>> PROVE x \in Todo(pg)
    BY <1>13
  <2>1. PICK i, j : x = <<i, j>> /\ i \in Pages /\ j \in Nat \ {0} /\ j <= Left(qg[i])
    BY DEF Todo
  <2>2. CASE i = t
    <3>1. j <= n /\ j # n
      BY <1>11, <1>12, <1>13, <2>1, <2>2
    <3>2. j <= Left(pg[i])
      BY <1>1, <1>4, <1>11, <1>13, <2>1, <2>2, <3>1
    <3> QED BY <2>1, <3>2 DEF Todo
  <2>3. CASE i # t
    BY <1>12, <1>13, <2>1, <2>3 DEF Todo
  <2> QED BY <2>2, <2>3
<1>15. /\ IsFiniteSet(Todo(pg)) /\ stored.revision + Cardinality(Todo(pg)) <= changes + 1
       /\ changes \in 0..MaxChanges /\ mishaps \in 0..MaxMishaps
  BY <1>13 DEF TreeCount
<1>16. IsFiniteSet(more) /\ Cardinality(more) <= Cardinality(Todo(pg)) + 1
  <2>1. Cardinality(Todo(pg)) \in Nat
    BY <1>15, FS_CardinalityType
  <2>2. PICK todo, x : todo = Todo(pg) /\ x = <<t, n>>
    OBVIOUS
  <2>3. more = todo \cup {x} /\ IsFiniteSet(todo) /\ Cardinality(todo) \in Nat
    BY <1>13, <1>15, <2>1, <2>2
  <2>4. /\ IsFiniteSet(todo \cup {x})
        /\ Cardinality(todo \cup {x}) = IF x \in todo THEN Cardinality(todo) ELSE Cardinality(todo) + 1
    BY <2>3, FS_AddElement, Zenon
  <2>5. Cardinality(more) = IF x \in todo THEN Cardinality(todo) ELSE Cardinality(todo) + 1
    BY <2>3, <2>4
  <2>6. Cardinality(more) <= Cardinality(todo) + 1
    BY <2>3, <2>5
  <2> QED BY <2>2, <2>3, <2>4, <2>6
<1>17. IsFiniteSet(Todo(qg)) /\ Cardinality(Todo(qg)) <= Cardinality(more)
  BY <1>14, <1>16, FS_Subset
<1>18. Cardinality(Todo(qg)) \in Nat /\ Cardinality(Todo(pg)) \in Nat /\ Cardinality(more) \in Nat
  BY <1>15, <1>16, <1>17, FS_CardinalityType
<1>19. stored.revision \in Nat /\ changes \in Int
  BY <1>15 DEF TreeInv, Reads
<1>20. stored'.revision + Cardinality(Todo(qg)) <= changes' + 1
  BY <1>9, <1>15, <1>16, <1>17, <1>18, <1>19
<1>21. \A i \in Pages : Len(qg[i].pending) <= changes'
  <2> SUFFICES ASSUME NEW i \in Pages PROVE Len(qg[i].pending) <= changes + 1
    OBVIOUS
  <2>1. Len(pg[i].pending) <= changes
    BY <1>13 DEF TreeCount
  <2>2. CASE i = t
    BY <1>1, <1>3, <1>6, <1>10, <1>12, <1>13, <1>19, <2>1, <2>2
  <2>3. CASE i # t
    <3>1. PICK s : s = pg[i].pending /\ s \in Seq(D!Changes)
      BY <1>12, <1>13 DEF TreePages
    <3>2. Len(s) \in Nat /\ Len(s) <= changes /\ qg[i].pending = s
      BY <1>12, <1>13, <2>1, <2>3, <3>1
    <3> QED BY <1>19, <3>2
  <2> QED BY <2>2, <2>3
<1>22. changes' \in 0..MaxChanges /\ mishaps' \in 0..MaxMishaps
  BY <1>15 DEF D!DataTreeConstants
<1> QED BY <1>13, <1>17, <1>20, <1>21, <1>22 DEF TreeCount

\* What does not touch the pages' changes.
LEMMA QuietSteps ==
  ASSUME D!DataTreeConstants, TreeInv,
         \/ UNCHANGED <<stored, page>>
         \/ D!Connect
         \/ \E t \in Pages : D!Mishap(t) \/ (D!PageStep(t) /\ ~D!PutDataLayout(t))
  PROVE  /\ stored' = stored
         /\ \A t \in Pages : DoneWith(page[t], page'[t]) \/ AllStay(page[t], page'[t])
<1>1. CASE UNCHANGED <<stored, page>>
  BY <1>1 DEF AllStay
<1>2. CASE D!Connect
  <2>1. PICK c : stored' = stored /\ page' = [t \in Pages |-> [page[t] EXCEPT !.missed = @ \cup {c}]]
    BY <1>2 DEF D!Connect
  <2>2. ASSUME NEW t \in Pages PROVE AllStay(page[t], page'[t])
    <3>1. PICK p : p = page[t] /\ p \in TreePages
      BY PageOf
    <3>2. page'[t] = [p EXCEPT !.missed = @ \cup {c}]
      BY <2>1, <3>1
    <3> QED BY <3>1, <3>2 DEF AllStay, TreePages
  <2> QED BY <2>1, <2>2
<1>3. ASSUME NEW t \in Pages, D!Mishap(t) \/ (D!PageStep(t) /\ ~D!PutDataLayout(t))
      PROVE  /\ stored' = stored
             /\ \A i \in Pages : DoneWith(page[i], page'[i]) \/ AllStay(page[i], page'[i])
  <2>1. PICK p : p = page[t]
    OBVIOUS
  <2>2. \/ D!Save(t) \/ D!SaveAgain(t) \/ D!Stale(t) \/ D!Saved(t) \/ D!GetDataLayout(t) \/ D!LayoutRead(t)
        \/ D!ListsRead(t) \/ D!Mishap(t)
    BY <1>3 DEF D!PageStep
  <2>3. stored' = stored /\ \E q : D!Becomes(t, q) /\ (DoneWith(p, q) \/ AllStay(p, q))
    BY <2>1, <2>2, PageSettles
  <2>4. PICK q : D!Becomes(t, q) /\ (DoneWith(p, q) \/ AllStay(p, q))
    BY <2>3
  <2>5. page' = [page EXCEPT ![t] = q] /\ page \in [Pages -> TreePages]
    BY <2>4 DEF D!Becomes, TreeInv
  <2>6. \A i \in Pages : page'[i] = IF i = t THEN q ELSE page[i]
    BY <2>5
  <2>7. \A x : AllStay(x, x)
    BY DEF AllStay
  <2> QED BY <2>1, <2>3, <2>4, <2>6, <2>7
<1> QED BY <1>1, <1>2, <1>3

LEMMA CountSteps ==
  ASSUME D!DataTreeConstants, TreeInv, TreeInv', TreeCount, [D!TreeNext]_(D!treeVars)
  PROVE  TreeCount'
<1>1. mishaps \in 0..MaxMishaps /\ MaxMishaps \in Nat
  BY DEF TreeCount, D!DataTreeConstants
<1>2. ASSUME \/ UNCHANGED <<stored, page>>
             \/ D!Connect
             \/ \E t \in Pages : D!Mishap(t) \/ (D!PageStep(t) /\ ~D!PutDataLayout(t)),
             changes' = changes, mishaps' \in 0..MaxMishaps
      PROVE  TreeCount'
  <2>1. /\ stored' = stored
        /\ \A t \in Pages : DoneWith(page[t], page'[t]) \/ AllStay(page[t], page'[t])
    BY <1>2, QuietSteps
  <2> QED BY <1>2, <2>1, SettlingCounts
<1>3. CASE UNCHANGED D!treeVars
  BY <1>1, <1>2, <1>3 DEF D!treeVars
<1>4. CASE UNCHANGED <<changes, mishaps>> /\ (D!Connect \/ \E t \in Pages : D!PageStep(t))
  <2>1. CASE \E t \in Pages : D!PutDataLayout(t)
    BY <1>4, <2>1, PutCounts
  <2>2. CASE ~\E t \in Pages : D!PutDataLayout(t)
    BY <1>1, <1>2, <1>4, <2>2
  <2> QED BY <2>1, <2>2
<1>5. CASE mishaps < MaxMishaps /\ mishaps' = mishaps + 1 /\ UNCHANGED changes
           /\ (D!Disconnect \/ \E t \in Pages : D!Mishap(t))
  <2>1. mishaps' \in 0..MaxMishaps
    BY <1>1, <1>5
  <2>2. D!Disconnect => UNCHANGED <<stored, page>>
    BY DEF D!Disconnect
  <2> QED BY <1>2, <1>5, <2>1, <2>2
<1>6. CASE changes < MaxChanges /\ changes' = changes + 1 /\ UNCHANGED mishaps
           /\ \E t \in Pages, ch \in WantedChanges : D!change(t, ch)
  BY <1>6, ChangeCounts
<1> QED BY <1>3, <1>4, <1>5, <1>6 DEF D!TreeNext

LEMMA TreeTyped ==
  ASSUME D!DataTreeConstants, TreeInv, TreeCount
  PROVE  D!TreeTypeOK
<1>1. PICK todo : todo = Todo(page)
  OBVIOUS
<1>2. /\ stored.revision \in Nat /\ stored.revision > 0 /\ changes \in 0..MaxChanges /\ MaxChanges \in Nat
      /\ IsFiniteSet(todo) /\ stored.revision + Cardinality(todo) <= changes + 1
  BY <1>1 DEF TreeInv, Reads, TreeCount, D!DataTreeConstants
<1>3. Cardinality(todo) \in Nat
  BY <1>2, FS_CardinalityType
<1>4. stored.revision \in 1..MaxChanges + 1
  BY <1>2, <1>3
<1>5. ASSUME NEW t \in Pages
      PROVE  /\ page[t].lists \subseteq created /\ Len(page[t].pending) <= MaxChanges
             /\ page[t].read.revision <= stored.revision
  <2>1. PICK p : p = page[t]
    OBVIOUS
  <2>2. PageFits(p, stored, exists, created) /\ p \in TreePages /\ Len(p.pending) <= changes
    BY <2>1, PageOf DEF TreeCount
  <2>3. PICK w : w = p.pending /\ w \in Seq(D!Changes)
    BY <2>2 DEF TreePages
  <2>4. Len(w) \in Nat /\ Len(w) <= changes
    BY <2>2, <2>3
  <2>5. Len(w) <= MaxChanges
    BY <1>2, <2>4
  <2> QED BY <2>1, <2>2, <2>3, <2>5 DEF PageFits, Agrees
<1> QED BY <1>4, <1>5 DEF D!TreeTypeOK, TreeInv, TreeCount

\* The tree's types: among them, there is no revision but the first and one of
\* each change made, and no page reads one that is not stored.
THEOREM TreeIsTyped ==
  ASSUME D!DataTreeConstants
  PROVE  Spec => [](part = "tree" => TypesOK)
<1>1. D!Init => TreeInv /\ TreeCount
  BY TreeStart, CountStart
<1>2. TreeInv /\ [D!TreeNext]_(D!treeVars) => TreeInv'
  BY TreeSteps
<1>3. TreeInv /\ TreeInv' /\ TreeCount /\ [D!TreeNext]_(D!treeVars) => TreeCount'
  BY CountSteps
<1>4. TreeInv /\ TreeCount => (part = "tree" => TypesOK)
  BY TreeTyped DEF TypesOK
<1> QED BY TreeBegins, TreeGoesOn, <1>1, <1>2, <1>3, <1>4, PTL DEF Spec
=============================================================================
