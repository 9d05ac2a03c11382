------------------------- MODULE StreamFamilyProofs -------------------------
(***************************************************************************)
(* Proofs about the streaming families: that with their hooks the          *)
(* dispatcher is the one of StreamText, so that what is proved there holds *)
(* here, and what each family adds. They hold for every vocabulary, every  *)
(* bound on the tokens of a hypothesis and on the feeds of a stream.       *)
(***************************************************************************)
EXTENDS StreamFamilies, StreamTextProofs, SequenceTheorems

-----------------------------------------------------------------------------
(* Concatenations. FlattenSeq is a function that is defined by recursion:  *)
(* that there is one is shown by induction on the length.                  *)

\* Induction: a set of numbers that holds 0 and with each the next holds all.
LEMMA AllNumbers ==
  ASSUME NEW S \in SUBSET Nat, 0 \in S, \A k \in S : k + 1 \in S
  PROVE  S = Nat
<1> SUFFICES ASSUME Nat \ S # {} PROVE FALSE
  OBVIOUS
<1>1. PICK m \in Nat \ S : \A k \in Nat \ S : m <= k
  BY LeastExists
<1>2. m # 0 /\ m - 1 \in Nat /\ ~ (m <= m - 1)
  BY <1>1
<1>3. (m - 1) + 1 \in S
  BY <1>1, <1>2
<1> QED  BY <1>1, <1>2, <1>3

\* g[i] is the concatenation of the first i elements of seqs.
Concats(g, S, seqs, n) ==
  /\ g \in [1 .. n -> Seq(S)]
  /\ \A i \in 1 .. n : g[i] = IF i = 1 THEN seqs[i] ELSE g[i - 1] \o seqs[i]

LEMMA ConcatsExist ==
  ASSUME NEW S, NEW seqs \in Seq(Seq(S))
  PROVE  \E g : Concats(g, S, seqs, Len(seqs))
<1> DEFINE N == Len(seqs)
           T == {k \in Nat : k <= N => \E g : Concats(g, S, seqs, k)}
<1>1. 0 \in T
  <2>1. Concats([i \in 1 .. 0 |-> << >>], S, seqs, 0)
    BY DEF Concats
  <2> QED  BY <2>1
<1>2. ASSUME NEW k \in T PROVE k + 1 \in T
  <2> SUFFICES ASSUME k + 1 <= N PROVE \E g : Concats(g, S, seqs, k + 1)
    OBVIOUS
  <2>1. k \in Nat /\ N \in Nat /\ k <= N /\ k + 1 \in 1 .. N
    OBVIOUS
  <2>2. PICK g : Concats(g, S, seqs, k)
    BY <2>1
  <2>3. \A i \in 1 .. N : seqs[i] \in Seq(S)
    OBVIOUS
  <2> DEFINE last == IF k + 1 = 1 THEN seqs[k + 1] ELSE g[k] \o seqs[k + 1]
             h == [i \in 1 .. k + 1 |-> IF i = k + 1 THEN last ELSE g[i]]
  <2>4. last \in Seq(S)
    <3>1. CASE k = 0
      BY <2>1, <2>3, <3>1
    <3>2. CASE k # 0
      <4>1. k \in 1 .. k
        BY <2>1, <3>2
      <4>2. g[k] \in Seq(S)
        BY <2>2, <4>1 DEF Concats
      <4> QED  BY <2>1, <2>3, <4>2
    <3> QED  BY <3>1, <3>2
  <2> HIDE DEF N, T
  <2>5. ASSUME NEW i \in 1 .. k + 1
        PROVE  /\ h[i] \in Seq(S)
               /\ h[i] = IF i = 1 THEN seqs[i] ELSE h[i - 1] \o seqs[i]
    <3>1. CASE i = k + 1
      <4>1. i # 1 => i - 1 \in 1 .. k /\ i - 1 = k /\ i - 1 # k + 1 /\ i - 1 \in 1 .. k + 1
        BY <2>1, <3>1
      <4>2. h[i] = last
        BY <3>1
      <4>3. i # 1 => h[i - 1] = g[k]
        BY <4>1
      <4> HIDE DEF h
      <4> QED  BY <2>4, <3>1, <4>2, <4>3
    <3>2. CASE i # k + 1
      <4>1. /\ i \in 1 .. k
            /\ i # 1 => i - 1 \in 1 .. k /\ i - 1 # k + 1 /\ i - 1 \in 1 .. k + 1
        BY <2>1, <3>2
      <4> HIDE DEF last
      <4>a. \A j \in 1 .. k + 1 : j # k + 1 => h[j] = g[j]
        OBVIOUS
      <4> HIDE DEF h
      <4>2. h[i] = g[i] /\ (i # 1 => h[i - 1] = g[i - 1])
        BY <4>1, <4>a, <3>2
      <4> QED  BY <2>2, <4>1, <4>2 DEF Concats
    <3> QED  BY <3>1, <3>2
  <2>6. h \in [1 .. k + 1 -> Seq(S)]
    <3>1. \A i \in 1 .. k + 1 : (IF i = k + 1 THEN last ELSE g[i]) \in Seq(S)
      BY <2>5
    <3> HIDE DEF last
    <3> QED  BY <3>1
  <2> HIDE DEF h
  <2>7. Concats(h, S, seqs, k + 1)
    BY <2>5, <2>6 DEF Concats
  <2> QED  BY <2>7
<1> HIDE DEF T
<1>3. T \in SUBSET Nat
  BY DEF T
<1>4. T = Nat
  BY <1>1, <1>2, <1>3, AllNumbers
<1>5. N \in T
  BY <1>4
<1> QED  BY <1>5 DEF T

\* What FlattenSeq computes.
LEMMA FlattenUnfolds ==
  ASSUME NEW S, NEW seqs \in Seq(Seq(S)), Len(seqs) > 0,
         NEW g, Concats(g, S, seqs, Len(seqs))
  PROVE  FlattenSeq(seqs) = g[Len(seqs)]
<1> DEFINE n == Len(seqs)
           def(f) == [i \in 1 .. n |-> IF i = 1 THEN seqs[i] ELSE f[i - 1] \o seqs[i]]
           flat == CHOOSE f : f = def(f)
           T == {k \in Nat : k \in 1 .. n => flat[k] = g[k]}
<1>1. g = def(g)
  BY DEF Concats
<1>2. flat = def(flat)
  BY <1>1
<1>3. FlattenSeq(seqs) = flat[n]
  BY DEF FlattenSeq
<1> HIDE DEF flat
<1>4. \A i \in 1 .. n : flat[i] = IF i = 1 THEN seqs[i] ELSE flat[i - 1] \o seqs[i]
  BY <1>2
<1>5. 0 \in T
  OBVIOUS
<1>6. ASSUME NEW k \in T PROVE k + 1 \in T
  <2> SUFFICES ASSUME k + 1 \in 1 .. n PROVE flat[k + 1] = g[k + 1]
    OBVIOUS
  <2>1. k \in Nat /\ (k + 1 # 1 => k \in 1 .. n) /\ (k + 1) - 1 = k
    OBVIOUS
  <2>2. flat[k + 1] = IF k + 1 = 1 THEN seqs[k + 1] ELSE flat[k] \o seqs[k + 1]
    BY <1>4, <2>1
  <2>3. g[k + 1] = IF k + 1 = 1 THEN seqs[k + 1] ELSE g[k] \o seqs[k + 1]
    BY <2>1 DEF Concats
  <2>4. k + 1 # 1 => flat[k] = g[k]
    BY <2>1
  <2> QED  BY <2>2, <2>3, <2>4
<1> HIDE DEF T
<1>7. T \in SUBSET Nat
  BY DEF T
<1>8. n \in T /\ n \in 1 .. n
  <2>1. T = Nat
    BY <1>5, <1>6, <1>7, AllNumbers
  <2> QED  BY <2>1
<1> QED  BY <1>3, <1>8 DEF T

LEMMA FlattenEmpty == FlattenSeq(<< >>) = << >>
BY DEF FlattenSeq

\* Concatenations are sequences.
LEMMA FlattenType ==
  ASSUME NEW S, NEW seqs \in Seq(Seq(S))
  PROVE  FlattenSeq(seqs) \in Seq(S)
<1>1. CASE Len(seqs) = 0
  <2>1. seqs = << >>
    BY <1>1
  <2>2. << >> \in Seq(S)
    OBVIOUS
  <2> QED  BY <2>1, <2>2, FlattenEmpty, Zenon
<1>2. CASE Len(seqs) > 0
  <2>1. PICK g : Concats(g, S, seqs, Len(seqs))
    BY ConcatsExist
  <2>2. FlattenSeq(seqs) = g[Len(seqs)]
    BY <1>2, <2>1, FlattenUnfolds
  <2>3. g \in [1 .. Len(seqs) -> Seq(S)] /\ Len(seqs) \in 1 .. Len(seqs)
    BY <1>2, <2>1 DEF Concats
  <2> QED  BY <2>2, <2>3
<1> QED  BY <1>1, <1>2

\* The concatenation of a beginning of seqs begins the concatenation of seqs.
LEMMA FlattenGrows ==
  ASSUME NEW S, NEW some \in Seq(Seq(S)), NEW seqs \in Seq(Seq(S)), Len(some) <= Len(seqs),
         \A i \in 1 .. Len(some) : some[i] = seqs[i]
  PROVE  \E rest \in Seq(S) : FlattenSeq(seqs) = FlattenSeq(some) \o rest
<1> DEFINE m == Len(some)
           n == Len(seqs)
<1>0. m \in Nat /\ n \in Nat /\ m <= n
  OBVIOUS
<1>1. CASE m = 0
  <2>1. some = << >>
    BY <1>1
  <2>2. FlattenSeq(seqs) \in Seq(S)
    BY FlattenType
  <2>3. FlattenSeq(seqs) = << >> \o FlattenSeq(seqs)
    BY <2>2
  <2> QED  BY <2>1, <2>2, <2>3, FlattenEmpty
<1>2. CASE m # 0
  <2>1. PICK g : Concats(g, S, seqs, n)
    BY ConcatsExist
  <2>2. FlattenSeq(seqs) = g[n]
    <3>1. n > 0
      BY <1>0, <1>2
    <3> QED  BY <2>1, <3>1, FlattenUnfolds, Zenon
  <2>3. PICK h : Concats(h, S, some, m)
    BY ConcatsExist
  <2>4. FlattenSeq(some) = h[m]
    <3>1. m > 0
      BY <1>0, <1>2
    <3> QED  BY <2>3, <3>1, FlattenUnfolds, Zenon
  <2> HIDE DEF m, n
  <2> DEFINE A == {k \in Nat : k \in 1 .. m => h[k] = g[k]}
             B == {k \in Nat : m + k <= n => \E rest \in Seq(S) : g[m + k] = g[m] \o rest}
  <2>5. A = Nat
    <3>1. 0 \in A
      OBVIOUS
    <3>2. ASSUME NEW k \in A PROVE k + 1 \in A
      <4> SUFFICES ASSUME k + 1 \in 1 .. m PROVE h[k + 1] = g[k + 1]
        OBVIOUS
      <4>1. /\ k \in Nat /\ (k + 1 # 1 => k \in 1 .. m) /\ (k + 1) - 1 = k
            /\ k + 1 \in 1 .. n
        BY <1>0
      <4>2. h[k + 1] = IF k + 1 = 1 THEN some[k + 1] ELSE h[k] \o some[k + 1]
        BY <2>3, <4>1 DEF Concats
      <4>3. g[k + 1] = IF k + 1 = 1 THEN seqs[k + 1] ELSE g[k] \o seqs[k + 1]
        BY <2>1, <4>1 DEF Concats
      <4>4. (k + 1 # 1 => h[k] = g[k]) /\ some[k + 1] = seqs[k + 1]
        BY <4>1 DEF m
      <4> QED  BY <4>2, <4>3, <4>4
    <3> HIDE DEF A
    <3>3. A \in SUBSET Nat
      BY DEF A
    <3> QED  BY <3>1, <3>2, <3>3, AllNumbers
  <2>6. B = Nat
    <3>0. \A k \in 1 .. n : g[k] \in Seq(S) /\ seqs[k] \in Seq(S)
      <4>1. g \in [1 .. n -> Seq(S)]
        BY <2>1 DEF Concats
      <4>2. \A k \in 1 .. n : seqs[k] \in Seq(S)
        BY DEF n
      <4> QED  BY <4>1, <4>2
    <3>1. 0 \in B
      <4>1. m + 0 = m /\ m \in 1 .. n
        BY <1>0, <1>2
      <4>2. g[m] = g[m] \o << >> /\ << >> \in Seq(S)
        BY <3>0, <4>1
      <4> QED  BY <4>1, <4>2
    <3>2. ASSUME NEW k \in B PROVE k + 1 \in B
      <4> SUFFICES ASSUME m + (k + 1) <= n
                   PROVE  \E rest \in Seq(S) : g[m + (k + 1)] = g[m] \o rest
        <5>1. k + 1 \in Nat
          OBVIOUS
        <5> QED  BY <5>1, Zenon
      <4> DEFINE j == m + (k + 1)
      <4>1. /\ k \in Nat /\ m + k <= n /\ j # 1 /\ j - 1 = m + k
            /\ j \in 1 .. n /\ m \in 1 .. n
        BY <1>0, <1>2
      <4>2. PICK rest \in Seq(S) : g[m + k] = g[m] \o rest
        BY <4>1
      <4> HIDE DEF j
      <4>3. g[j] = g[m + k] \o seqs[j]
        BY <2>1, <4>1 DEF Concats
      <4>4. g[m] \in Seq(S) /\ seqs[j] \in Seq(S)
        BY <3>0, <4>1
      <4>5. (g[m] \o rest) \o seqs[j] = g[m] \o (rest \o seqs[j])
        <5>1. \A a, b, c \in Seq(S) : (a \o b) \o c = a \o (b \o c)
          BY ConcatAssociative
        <5> QED  BY <4>4, <5>1
      <4>6. rest \o seqs[j] \in Seq(S)
        BY <4>4
      <4> QED  BY <4>2, <4>3, <4>5, <4>6 DEF j
    <3> HIDE DEF B
    <3>3. B \in SUBSET Nat
      BY DEF B
    <3> QED  BY <3>1, <3>2, <3>3, AllNumbers
  <2>7. h[m] = g[m]
    <3>1. m \in A /\ m \in 1 .. m
      BY <1>0, <1>2, <2>5
    <3> QED  BY <3>1
  <2>8. \E rest \in Seq(S) : g[n] = g[m] \o rest
    <3>1. n - m \in Nat /\ m + (n - m) = n /\ n <= n
      BY <1>0
    <3>2. n - m \in B
      BY <2>6, <3>1, Zenon
    <3> HIDE DEF A
    <3>3. m + (n - m) <= n => \E rest \in Seq(S) : g[m + (n - m)] = g[m] \o rest
      BY <3>2, Zenon
    <3> QED  BY <3>1, <3>3, Zenon
  <2> QED  BY <2>2, <2>4, <2>7, <2>8
<1> QED  BY <1>1, <1>2

\* IsPrefix, element by element, of sequences of whatever.
LEMMA PrefixOf ==
  ASSUME NEW S, NEW a \in Seq(S), NEW b \in Seq(S)
  PROVE  IsPrefix(a, b) <=> /\ Len(a) <= Len(b)
                            /\ \A j \in 1 .. Len(a) : a[j] = b[j]
BY DEF IsPrefix

LEMMA PrefixTrans ==
  ASSUME NEW S, NEW a \in Seq(S), NEW b \in Seq(S), NEW c \in Seq(S),
         IsPrefix(a, b), IsPrefix(b, c)
  PROVE  IsPrefix(a, c)
<1>1. /\ Len(a) <= Len(b) /\ \A j \in 1 .. Len(a) : a[j] = b[j]
      /\ Len(b) <= Len(c) /\ \A j \in 1 .. Len(b) : b[j] = c[j]
  BY PrefixOf
<1>2. Len(a) \in Nat /\ Len(b) \in Nat /\ Len(c) \in Nat
  OBVIOUS
<1>3. Len(a) <= Len(c) /\ \A j \in 1 .. Len(a) : a[j] = c[j]
  BY <1>1, <1>2
<1> QED  BY <1>3, PrefixOf

LEMMA ConcatPrefix ==
  ASSUME NEW S, NEW a \in Seq(S), NEW c \in Seq(S)
  PROVE  IsPrefix(a, a \o c)
<1>1. a \o c \in Seq(S) /\ Len(a) <= Len(a \o c)
        /\ \A j \in 1 .. Len(a) : a[j] = (a \o c)[j]
  OBVIOUS
<1>2. \A b \in Seq(S) : Len(a) <= Len(b) /\ (\A j \in 1 .. Len(a) : a[j] = b[j])
                       => IsPrefix(a, b)
  BY PrefixOf
<1> QED  BY <1>1, <1>2, Zenon

LEMMA FlattenPrefix ==
  ASSUME NEW S, NEW a \in Seq(Seq(S)), NEW b \in Seq(Seq(S)), IsPrefix(a, b)
  PROVE  IsPrefix(FlattenSeq(a), FlattenSeq(b))
<1>1. Len(a) <= Len(b) /\ \A j \in 1 .. Len(a) : a[j] = b[j]
  <2>1. \A A, B \in Seq(Seq(S)) : IsPrefix(A, B) => Len(A) <= Len(B)
                                    /\ \A j \in 1 .. Len(A) : A[j] = B[j]
    BY PrefixOf
  <2> QED  BY <2>1
<1>2. PICK rest \in Seq(S) : FlattenSeq(b) = FlattenSeq(a) \o rest
  BY <1>1, FlattenGrows
<1>3. FlattenSeq(a) \in Seq(S)
  BY FlattenType
<1> QED  BY <1>2, <1>3, ConcatPrefix, Zenon

-----------------------------------------------------------------------------
(* The helpers of StreamTokens.                                            *)

\* One element or none for each of s.
Picks(s, I) == [i \in DOMAIN s |-> IF i \in I THEN << s[i] >> ELSE << >>]

LEMMA PicksType ==
  ASSUME NEW S, NEW s \in Seq(S), NEW I
  PROVE  /\ Picks(s, I) \in Seq(Seq(S)) /\ Len(Picks(s, I)) = Len(s)
         /\ \A i \in 1 .. Len(s) : /\ Picks(s, I)[i] = IF i \in I THEN << s[i] >> ELSE << >>
                                   /\ Picks(s, I)[i] \in Seq(S)
                                   /\ Len(Picks(s, I)[i]) <= 1
<1> DEFINE p == Picks(s, I)
<1>1. \A i \in 1 .. Len(s) : (IF i \in I THEN << s[i] >> ELSE << >>) \in Seq(S)
  OBVIOUS
<1>2. p \in [1 .. Len(s) -> Seq(S)]
  BY <1>1 DEF Picks
<1>3. Len(s) \in Nat
  OBVIOUS
<1>4. \A i \in 1 .. Len(s) : p[i] = IF i \in I THEN << s[i] >> ELSE << >>
  BY DEF Picks
<1> HIDE DEF p
<1>5. p \in Seq(Seq(S)) /\ Len(p) = Len(s)
  BY <1>2, <1>3
<1>6. ASSUME NEW i \in 1 .. Len(s)
      PROVE  p[i] \in Seq(S) /\ Len(p[i]) <= 1
  <2>1. p[i] \in Seq(S)
    BY <1>2
  <2>2. CASE i \in I
    <3>1. p[i] = << s[i] >>
      BY <1>4, <2>2
    <3> QED  BY <2>1, <3>1
  <2>3. CASE i \notin I
    <3>1. p[i] = << >>
      BY <1>4, <2>3
    <3> QED  BY <2>1, <3>1
  <2> QED  BY <2>2, <2>3
<1> QED  BY <1>4, <1>5, <1>6 DEF p

\* Kept answers no more elements than it was given.
LEMMA KeptType ==
  ASSUME NEW S, NEW s \in Seq(S), NEW I
  PROVE  Kept(s, I) \in Seq(S) /\ Len(Kept(s, I)) <= Len(s)
<1> DEFINE p == Picks(s, I)
<1>1. p \in Seq(Seq(S)) /\ Len(p) = Len(s)
        /\ \A i \in 1 .. Len(s) : p[i] \in Seq(S) /\ Len(p[i]) <= 1
  BY PicksType
<1>2. Kept(s, I) = FlattenSeq(p)
  BY DEF Kept, Picks
<1> HIDE DEF p
<1>3. FlattenSeq(p) \in Seq(S)
  BY <1>1, FlattenType
<1>4. CASE Len(s) = 0
  <2>1. p = << >>
    BY <1>1, <1>4
  <2>2. FlattenSeq(p) = << >>
    BY <2>1, FlattenEmpty
  <2> QED  BY <1>2, <1>3, <1>4, <2>2
<1>5. CASE Len(s) # 0
  <2>1. PICK g : Concats(g, S, p, Len(s))
    BY <1>1, ConcatsExist
  <2>2. FlattenSeq(p) = g[Len(s)]
    <3>1. Len(p) > 0 /\ Concats(g, S, p, Len(p))
      BY <1>1, <1>5, <2>1
    <3> QED  BY <1>1, <3>1, FlattenUnfolds
  <2> DEFINE n == Len(s)
             T == {k \in Nat : k \in 1 .. n => Len(g[k]) <= k}
  <2>3. n \in Nat /\ n # 0
    BY <1>5
  <2>4. \A i \in 1 .. n : /\ g[i] = IF i = 1 THEN p[i] ELSE g[i - 1] \o p[i]
                          /\ g[i] \in Seq(S) /\ p[i] \in Seq(S) /\ Len(p[i]) <= 1
    BY <1>1, <2>1 DEF Concats
  <2> HIDE DEF n
  <2>5. 0 \in T
    BY <2>3
  <2>6. ASSUME NEW k \in T PROVE k + 1 \in T
    <3>0. k \in Nat /\ k + 1 \in Nat
      OBVIOUS
    <3> SUFFICES ASSUME k + 1 \in 1 .. n PROVE Len(g[k + 1]) <= k + 1
      BY <3>0, Zenon
    <3>1. CASE k = 0
      BY <2>4, <3>0, <3>1
    <3>2. CASE k # 0
      <4>1. k \in 1 .. n /\ k + 1 # 1 /\ (k + 1) - 1 = k
        BY <3>0, <3>2, <2>3
      <4>2. Len(g[k]) <= k /\ g[k] \in Seq(S)
        BY <4>1, <2>4
      <4>3. g[k + 1] = g[k] \o p[k + 1] /\ p[k + 1] \in Seq(S) /\ Len(p[k + 1]) <= 1
        BY <4>1, <2>4
      <4>4. Len(g[k + 1]) = Len(g[k]) + Len(p[k + 1])
        BY <4>2, <4>3
      <4>5. Len(g[k]) \in Nat /\ Len(p[k + 1]) \in Nat
        BY <4>2, <4>3
      <4>6. \A x, y \in Nat : x <= k /\ y <= 1 => x + y <= k + 1
        BY <3>0
      <4> QED  BY <4>2, <4>3, <4>4, <4>5, <4>6, Zenon
    <3> QED  BY <3>1, <3>2
  <2> HIDE DEF T
  <2>7. T \in SUBSET Nat
    BY DEF T
  <2>8. n \in T /\ n \in 1 .. n
    <3>1. T = Nat
      BY <2>5, <2>6, <2>7, AllNumbers
    <3> QED  BY <2>3, <3>1
  <2>9. Len(g[n]) <= n
    BY <2>8 DEF T
  <2> QED  BY <1>2, <1>3, <2>2, <2>9 DEF n
<1> QED  BY <1>4, <1>5

\* What is kept of a beginning begins what is kept of the whole.
LEMMA KeptGrows ==
  ASSUME NEW S, NEW a \in Seq(S), NEW b \in Seq(S), NEW I, NEW J, IsPrefix(a, b),
         \A i \in 1 .. Len(a) : i \in I <=> i \in J
  PROVE  IsPrefix(Kept(a, I), Kept(b, J))
<1>1. Len(a) <= Len(b) /\ \A j \in 1 .. Len(a) : a[j] = b[j]
  BY PrefixOf
<1>2. /\ Picks(a, I) \in Seq(Seq(S)) /\ Len(Picks(a, I)) = Len(a)
      /\ \A i \in 1 .. Len(a) : Picks(a, I)[i] = IF i \in I THEN << a[i] >> ELSE << >>
  BY PicksType
<1>3. /\ Picks(b, J) \in Seq(Seq(S)) /\ Len(Picks(b, J)) = Len(b)
      /\ \A i \in 1 .. Len(b) : Picks(b, J)[i] = IF i \in J THEN << b[i] >> ELSE << >>
  BY PicksType
<1>4. Len(a) \in Nat /\ Len(b) \in Nat
  OBVIOUS
<1>5. \A i \in 1 .. Len(a) : Picks(a, I)[i] = Picks(b, J)[i]
  <2> TAKE i \in 1 .. Len(a)
  <2>1. i \in 1 .. Len(b) /\ a[i] = b[i]
    BY <1>1, <1>4
  <2> QED  BY <1>2, <1>3, <2>1
<1>6. IsPrefix(Picks(a, I), Picks(b, J))
  <2>1. \A A, B \in Seq(Seq(S)) : Len(A) <= Len(B) /\ (\A j \in 1 .. Len(A) : A[j] = B[j])
                                    => IsPrefix(A, B)
    BY PrefixOf
  <2> QED  BY <1>1, <1>2, <1>3, <1>5, <2>1
<1>7. IsPrefix(FlattenSeq(Picks(a, I)), FlattenSeq(Picks(b, J)))
  BY <1>2, <1>3, <1>6, FlattenPrefix
<1> QED  BY <1>7 DEF Kept, Picks

LEMMA CollapseFact ==
  ASSUME NEW s \in Text
  PROVE  CollapseSpaces(s) \in Text
BY KeptType DEF CollapseSpaces, Text

LEMMA CollapseGrows ==
  ASSUME NEW a \in Text, NEW b \in Text, IsPrefix(a, b)
  PROVE  IsPrefix(CollapseSpaces(a), CollapseSpaces(b))
<1> DEFINE first(s) == {i \in DOMAIN s : s[i] = Space => i = 1 \/ s[i - 1] # Space}
<1>1. /\ a \in Seq(Byte) /\ b \in Seq(Byte) /\ Len(a) \in Nat /\ Len(b) \in Nat
      /\ DOMAIN a = 1 .. Len(a) /\ DOMAIN b = 1 .. Len(b)
  BY DEF Text
<1>2. Len(a) <= Len(b) /\ \A j \in 1 .. Len(a) : a[j] = b[j]
  BY PrefixFact
<1>3. \A i \in 1 .. Len(a) : i \in first(a) <=> i \in first(b)
  <2> TAKE i \in 1 .. Len(a)
  <2>1. i \in 1 .. Len(b) /\ a[i] = b[i] /\ (i # 1 => i - 1 \in 1 .. Len(a))
    BY <1>1, <1>2
  <2>2. i # 1 => a[i - 1] = b[i - 1]
    BY <1>2, <2>1
  <2> QED  BY <1>1, <2>1, <2>2
<1> HIDE DEF first
<1>4. IsPrefix(Kept(a, first(a)), Kept(b, first(b)))
  BY <1>1, <1>3, KeptGrows
<1> QED  BY <1>4 DEF CollapseSpaces, first

\* The longest beginning and end of spaces are all that TrimBoth takes.
Ink(s) == {i \in DOMAIN s : s[i] # Space}

LEMMA InkFact ==
  ASSUME NEW s \in Text, Ink(s) # {}
  PROVE  /\ Min(Ink(s)) \in Ink(s) /\ Max(Ink(s)) \in Ink(s)
         /\ \A i \in Ink(s) : Min(Ink(s)) <= i /\ i <= Max(Ink(s))
<1>1. DOMAIN s = 1 .. Len(s) /\ Len(s) \in Nat
  BY DEF Text
<1>2. Ink(s) \subseteq Nat /\ Ink(s) \subseteq 0 .. Len(s)
  BY <1>1 DEF Ink
<1>3. Min(Ink(s)) \in Ink(s) /\ \A i \in Ink(s) : Min(Ink(s)) <= i
  BY <1>2, MinFact
<1>4. Max(Ink(s)) \in Ink(s) /\ \A i \in Ink(s) : Max(Ink(s)) >= i
  BY <1>1, <1>2, MaxFact
<1>5. \A i \in Ink(s) : i <= Max(Ink(s))
  BY <1>2, <1>4
<1> QED  BY <1>3, <1>4, <1>5

LEMMA TrimFact ==
  ASSUME NEW s \in Text
  PROVE  TrimBoth(s) \in Text
<1>1. CASE Ink(s) = {}
  BY <1>1 DEF TrimBoth, Ink, Text
<1>2. CASE Ink(s) # {}
  <2>1. Min(Ink(s)) \in 1 .. Len(s) /\ Max(Ink(s)) \in 1 .. Len(s)
    BY <1>2, InkFact DEF Ink, Text
  <2>2. TrimBoth(s) = SubSeq(s, Min(Ink(s)), Max(Ink(s)))
    BY <1>2 DEF TrimBoth, Ink
  <2> QED  BY <2>1, <2>2 DEF Text
<1> QED  BY <1>1, <1>2

LEMMA TrimGrows ==
  ASSUME NEW a \in Text, NEW b \in Text, IsPrefix(a, b)
  PROVE  IsPrefix(TrimBoth(a), TrimBoth(b))
<1>1. /\ a \in Seq(Byte) /\ b \in Seq(Byte) /\ Len(a) \in Nat /\ Len(b) \in Nat
      /\ DOMAIN a = 1 .. Len(a) /\ DOMAIN b = 1 .. Len(b)
  BY DEF Text
<1>2. Len(a) <= Len(b) /\ \A j \in 1 .. Len(a) : a[j] = b[j]
  BY PrefixFact
<1>3. TrimBoth(a) \in Text /\ TrimBoth(b) \in Text
  BY TrimFact
<1>4. CASE Ink(a) = {}
  <2>1. TrimBoth(a) = << >>
    BY <1>4 DEF TrimBoth, Ink
  <2>2. \A t \in Text : IsPrefix(<< >>, t)
    BY DEF IsPrefix, Text
  <2> QED  BY <1>3, <2>1, <2>2, Zenon
<1>5. CASE Ink(a) # {}
  <2> DEFINE lo == Min(Ink(a))
             hi == Max(Ink(a))
             top == Max(Ink(b))
  <2>1. \A i \in 1 .. Len(a) : i \in 1 .. Len(b) /\ (i \in Ink(a) <=> i \in Ink(b))
    BY <1>1, <1>2 DEF Ink
  <2>2. Ink(a) \subseteq 1 .. Len(a) /\ Ink(b) \subseteq 1 .. Len(b)
    BY <1>1 DEF Ink
  <2>3. /\ lo \in Ink(a) /\ hi \in Ink(a) /\ lo <= hi
        /\ \A i \in Ink(a) : lo <= i
    BY <1>5, InkFact
  <2>4. Ink(b) # {} /\ hi \in Ink(b) /\ lo \in Ink(b)
    BY <2>1, <2>2, <2>3
  <2>5. /\ top \in Ink(b) /\ hi <= top /\ Min(Ink(b)) \in Ink(b) /\ Min(Ink(b)) <= lo
    BY <2>4, InkFact
  <2>6. Min(Ink(b)) = lo
    <3>1. Min(Ink(b)) \in 1 .. Len(a)
      BY <1>1, <2>2, <2>3, <2>5
    <3>2. lo <= Min(Ink(b))
      BY <2>1, <2>3, <2>5, <3>1
    <3> QED  BY <1>1, <2>2, <2>3, <2>5, <3>1, <3>2
  <2>7. TrimBoth(a) = SubSeq(a, lo, hi) /\ TrimBoth(b) = SubSeq(b, lo, top)
    BY <1>5, <2>4, <2>6 DEF TrimBoth, Ink
  <2>8. lo \in 1 .. Len(a) /\ hi \in 1 .. Len(a) /\ top \in 1 .. Len(b)
    BY <2>2, <2>3, <2>5
  <2>9. lo <= hi /\ hi <= top
    BY <2>3, <2>5
  <2> HIDE DEF lo, hi, top
  <2>10. Len(SubSeq(a, lo, hi)) <= Len(SubSeq(b, lo, top))
    BY <1>1, <2>8, <2>9
  <2>11. \A j \in 1 .. Len(SubSeq(a, lo, hi)) : SubSeq(a, lo, hi)[j] = SubSeq(b, lo, top)[j]
    <3> TAKE j \in 1 .. Len(SubSeq(a, lo, hi))
    <3>1. Len(SubSeq(a, lo, hi)) = (hi - lo) + 1 /\ Len(SubSeq(b, lo, top)) = (top - lo) + 1
      BY <1>1, <2>8, <2>9
    <3>2. j \in 1 .. (hi - lo) + 1 /\ j \in 1 .. (top - lo) + 1 /\ (lo + j) - 1 \in 1 .. Len(a)
      BY <1>1, <2>8, <2>9, <3>1
    <3>3. SubSeq(a, lo, hi)[j] = a[(lo + j) - 1]
      BY <1>1, <2>8, <2>9, <3>1, <3>2
    <3>4. SubSeq(b, lo, top)[j] = b[(lo + j) - 1]
      BY <1>1, <2>8, <2>9, <3>1, <3>2
    <3> QED  BY <1>2, <3>2, <3>3, <3>4
  <2> QED  BY <1>3, <2>7, <2>10, <2>11, PrefixFact
<1> QED  BY <1>4, <1>5

-----------------------------------------------------------------------------
(* Hypotheses and their texts.                                             *)

\* A sequence of tokens of the family, not too long.
LEMMA HypothesisFact ==
  ASSUME family \in Families
  PROVE  /\ MaxTokens[family] \in Nat
         /\ Pieces[family] \subseteq Text
         /\ \A ids : ids \in Hypotheses <=>
              ids \in Seq(Pieces[family]) /\ Len(ids) <= MaxTokens[family]
<1>1. MaxTokens[family] \in Nat /\ Pieces[family] \subseteq Text
  BY StreamTokensAssumption DEF Text
<1>2. Hypotheses = UNION {[1 .. m -> Pieces[family]] : m \in 0 .. MaxTokens[family]}
  BY DEF Hypotheses, HypothesesOf, BoundedSeq, SeqOf
<1>3. ASSUME NEW ids \in Hypotheses
      PROVE  ids \in Seq(Pieces[family]) /\ Len(ids) <= MaxTokens[family]
  <2>1. PICK m \in 0 .. MaxTokens[family] : ids \in [1 .. m -> Pieces[family]]
    BY <1>2
  <2> QED  BY <1>1, <2>1
<1>4. ASSUME NEW ids \in Seq(Pieces[family]), Len(ids) <= MaxTokens[family]
      PROVE  ids \in Hypotheses
  <2>1. Len(ids) \in 0 .. MaxTokens[family] /\ ids \in [1 .. Len(ids) -> Pieces[family]]
    BY <1>1, <1>4
  <2> QED  BY <1>2, <2>1
<1> QED  BY <1>1, <1>3, <1>4

LEMMA PiecesFact ==
  ASSUME family \in Families, NEW ids \in Seq(Pieces[family])
  PROVE  ids \in Seq(Text) /\ ids \in Seq(Seq(Byte))
BY HypothesisFact DEF Text

\* The empty hypothesis is one, and what is visible of one is one.
LEMMA VisibleFact ==
  ASSUME family \in Families
  PROVE  /\ << >> \in Hypotheses
         /\ \A ids \in Hypotheses :
              /\ Visible(ids) \in Hypotheses
              /\ FlattenSeq(ids) \in Text
              /\ FlattenSeq(Visible(ids)) \in Text
<1>1. << >> \in Hypotheses
  <2>1. << >> \in Seq(Pieces[family]) /\ Len(<< >>) <= MaxTokens[family]
    BY HypothesisFact
  <2> QED  BY <2>1, HypothesisFact, Zenon
<1>2. ASSUME NEW ids \in Hypotheses
      PROVE  Visible(ids) \in Hypotheses
  <2>1. ids \in Seq(Pieces[family]) /\ Len(ids) <= MaxTokens[family]
    BY HypothesisFact
  <2>2. Visible(ids) \in Seq(Pieces[family]) /\ Len(Visible(ids)) <= Len(ids)
    BY <2>1, KeptType DEF Visible
  <2>3. Len(Visible(ids)) \in Nat /\ Len(ids) \in Nat /\ MaxTokens[family] \in Nat
    BY <2>1, <2>2, HypothesisFact
  <2>4. Len(Visible(ids)) <= MaxTokens[family]
    BY <2>1, <2>2, <2>3
  <2> QED  BY <2>2, <2>4, HypothesisFact
<1>3. ASSUME NEW ids \in Hypotheses
      PROVE  FlattenSeq(ids) \in Text
  <2>1. ids \in Seq(Seq(Byte))
    BY HypothesisFact, PiecesFact
  <2> QED  BY <2>1, FlattenType DEF Text
<1> QED  BY <1>1, <1>2, <1>3

LEMMA VisibleGrows ==
  ASSUME family \in Families, NEW a \in Hypotheses, NEW b \in Hypotheses, IsPrefix(a, b)
  PROVE  IsPrefix(FlattenSeq(Visible(a)), FlattenSeq(Visible(b)))
<1> DEFINE P == Pieces[family]
           plain(s) == {i \in DOMAIN s : s[i] \notin Special}
<1>1. a \in Seq(P) /\ b \in Seq(P)
  BY HypothesisFact
<1>2. Len(a) <= Len(b) /\ (\A j \in 1 .. Len(a) : a[j] = b[j])
  BY <1>1, PrefixOf
<1>3. \A i \in 1 .. Len(a) : i \in plain(a) <=> i \in plain(b)
  BY <1>1, <1>2
<1> HIDE DEF plain
<1>4. IsPrefix(Kept(a, plain(a)), Kept(b, plain(b)))
  BY <1>1, <1>3, KeptGrows
<1>5. IsPrefix(Visible(a), Visible(b))
  BY <1>4 DEF Visible, plain
<1>6. Visible(a) \in Seq(Seq(Byte)) /\ Visible(b) \in Seq(Seq(Byte))
  BY VisibleFact, HypothesisFact, PiecesFact
<1> QED  BY <1>5, <1>6, FlattenPrefix

\* The texts of parakeet and of voxtral: adding tokens only adds text.
LEMMA TextOfFact ==
  ASSUME family \in Families, NEW a \in Hypotheses
  PROVE  /\ TextOf(a) \in Text
         /\ Published(a).text \in Text
         /\ \A b \in Hypotheses : IsPrefix(a, b) =>
              /\ IsPrefix(TextOf(a), TextOf(b))
              /\ IsPrefix(Published(a).text, Published(b).text)
<1>1. \A s \in Hypotheses : FlattenSeq(Visible(s)) \in Text
  BY VisibleFact
<1>2. \A s \in Hypotheses : CollapseSpaces(FlattenSeq(Visible(s))) \in Text
  BY <1>1, CollapseFact
<1>3. \A s \in Hypotheses : TextOf(s) \in Text /\ Published(s).text \in Text
  BY <1>1, <1>2, TrimFact DEF TextOf, Published
<1>4. ASSUME NEW b \in Hypotheses, IsPrefix(a, b)
      PROVE  /\ IsPrefix(TextOf(a), TextOf(b))
             /\ IsPrefix(Published(a).text, Published(b).text)
  <2>1. IsPrefix(FlattenSeq(Visible(a)), FlattenSeq(Visible(b)))
    BY <1>4, VisibleGrows
  <2>2. IsPrefix(CollapseSpaces(FlattenSeq(Visible(a))), CollapseSpaces(FlattenSeq(Visible(b))))
    BY <1>1, <2>1, CollapseGrows
  <2> QED  BY <1>1, <1>2, <2>1, <2>2, TrimGrows DEF TextOf, Published
<1> QED  BY <1>3, <1>4

LEMMA DropSpaceFact ==
  ASSUME NEW s \in Text
  PROVE  DropSpace(s) \in Text
BY DEF DropSpace, Text

\* The bytes of the first token rows are bytes of the text.
LEMMA TokenPrefixFact ==
  ASSUME family \in Families, NEW text \in Text, NEW rows \in Hypotheses, NEW k \in Nat
  PROVE  TokenPrefix(text, rows, k) \in 0 .. Len(text)
<1> DEFINE prefix == FlattenSeq(SubSeq(rows, 1, Least(k, Len(rows))))
           plain  == IF text # << >> /\ Head(text) = Space THEN prefix ELSE DropSpace(prefix)
<1>1. rows \in Seq(Seq(Byte)) /\ Len(rows) \in Nat
  BY HypothesisFact, PiecesFact
<1>2. Least(k, Len(rows)) \in 0 .. Len(rows)
  BY <1>1 DEF Least
<1>3. SubSeq(rows, 1, Least(k, Len(rows))) \in Seq(Seq(Byte))
  BY <1>1, <1>2
<1>4. prefix \in Text
  BY <1>3, FlattenType DEF Text
<1> HIDE DEF prefix
<1>5. plain \in Text
  BY <1>4, DropSpaceFact
<1> HIDE DEF plain
<1>6. Len(text) \in Nat /\ Len(prefix) \in Nat /\ Len(plain) \in Nat
  BY <1>4, <1>5 DEF Text
<1>7. /\ IsPrefix(prefix, text) => Len(prefix) <= Len(text)
      /\ IsPrefix(plain, text) => Len(plain) <= Len(text)
      /\ CommonPrefix(text, plain) \in 0 .. Len(text)
  BY <1>4, <1>5, PrefixFact, CommonFact
<1>8. CASE k = 0 \/ rows = << >>
  <2>1. TokenPrefix(text, rows, k) = 0
    BY <1>8 DEF TokenPrefix
  <2> QED  BY <1>6, <2>1
<1>9. CASE k # 0 /\ rows # << >>
  <2>1. TokenPrefix(text, rows, k) =
          IF IsPrefix(prefix, text) THEN Len(prefix)
          ELSE IF IsPrefix(plain, text) THEN Len(plain)
          ELSE CommonPrefix(text, plain)
    BY <1>9 DEF TokenPrefix, prefix, plain
  <2> QED  BY <1>6, <1>7, <2>1
<1> QED  BY <1>8, <1>9

LEMMA StableFact ==
  ASSUME family \in Families, NEW r \in Result, NEW rows \in Hypotheses
  PROVE  Stable(r, rows) \in 0 .. Len(r.text)
<1>1. r.text \in Text /\ r.ncommitted \in Nat /\ Len(r.text) \in Nat
  BY DEF Result, Text
<1> QED  BY <1>1, TokenPrefixFact DEF Stable

-----------------------------------------------------------------------------
(* The dispatcher of StreamText takes the families' steps.                 *)

\* A feed's step is one of StreamText: it shows the snapshot that the hook left, but
\* for the token count that ON_FINALIZE hides.
LEMMA FeedIsStep ==
  ASSUME TypeOK, NEW r \in Result, NEW stable \in 0 .. Len(r.text), NEW bump \in {0, 1},
         NEW said \in BOOLEAN, NEW given \in BOOLEAN, FeedOk(r, stable, bump, said, given)
  PROVE  Next
<1>1. result' = IF policy = "ON_FINALIZE" THEN [r EXCEPT !.ncommitted = 0] ELSE r
  BY DEF FeedOk
<1>2. result' \in Result /\ result'.has = r.has /\ result'.text = r.text
        /\ (policy = "ON_FINALIZE" => result'.ncommitted = 0)
  BY <1>1 DEF Result
<1>3. (IF policy = "ON_FINALIZE" THEN [result' EXCEPT !.ncommitted = 0] ELSE result') = result'
  BY <1>2 DEF Result
<1>4. UsesTextHistory(result') <=> UsesTextHistory(r)
  BY <1>2 DEF UsesTextHistory
<1>5. HistoryAfter(result') = HistoryAfter(r)
  BY <1>2, <1>4 DEF HistoryAfter
<1>6. Candidate(result', stable) = Candidate(r, stable)
  BY <1>2, <1>4, <1>5 DEF Candidate
<1>7. FeedView(result', Candidate(result', stable)) = FeedView(r, Candidate(r, stable))
  BY <1>2, <1>6 DEF FeedView
<1>8. Publish(result', view', bump, said, given)
  BY <1>2 DEF FeedOk, Publish
<1>9. FeedOk(result', stable, bump, said, given)
  BY <1>2, <1>3, <1>5, <1>7, <1>8 DEF FeedOk
<1>10. stable \in 0 .. Len(result'.text)
  BY <1>2
<1> QED  BY <1>2, <1>9, <1>10 DEF Next

LEMMA FinalizeIsStep ==
  ASSUME NEW r \in Result, NEW bump \in {0, 1}, NEW said \in BOOLEAN, NEW given \in BOOLEAN,
         FinalizeOk(r, bump, said, given)
  PROVE  Next
<1>1. result' = r
  BY DEF FinalizeOk
<1> QED  BY <1>1 DEF Next

LEMMA FailIsStep ==
  ASSUME NEW hook \in {"ERR", "THROWN"}, NEW r \in Result, NEW bump \in {0, 1},
         NEW said \in BOOLEAN, NEW given \in BOOLEAN, HookFails(hook, r, bump, said, given)
  PROVE  Next
<1>1. result' = r
  BY DEF HookFails
<1> QED  BY <1>1 DEF Next

LEMMA NoResultFact == NoResult \in Result /\ NoResult.text = << >> /\ NoResult.ncommitted = 0
BY DEF NoResult, Result, Text

LEMMA BeginIsStep ==
  ASSUME family \in Families, NEW p \in Policies, NEW n \in Agreements[family],
         NEW hook \in Answers, Begin(p, n, hook)
  PROVE  Next
<1>1. result' = NoResult
  BY DEF Begin
<1>2. result' \in Result
  BY <1>1, NoResultFact
<1>3. n \in AgreementNs
  BY StreamTokensAssumption
<1> QED  BY <1>2, <1>3 DEF Next

LEMMA ResetIsStep == Reset => Next
BY NoResultFact DEF Reset, Next

-----------------------------------------------------------------------------
(* The types of what the hooks keep, and the refinement that needs them.   *)

HooksTyped ==
  /\ emitted \in Hypotheses
  /\ tokens \in Hypotheses
  /\ idHistory \in Seq(Hypotheses) /\ Len(idHistory) <= 32
  /\ feeds \in 0 .. MaxFeeds

LEMMA ParakeetStep ==
  ASSUME TypeOK, HooksTyped, ParakeetNext, UNCHANGED idHistory
  PROVE  Next /\ HooksTyped'
<1>1. family \in Families /\ result \in Result
  BY DEF TypeOK
<1>2. << >> \in Hypotheses /\ 0 \in 0 .. MaxFeeds
  BY <1>1, VisibleFact, StreamTokensAssumption
<1>3. \A ids \in Hypotheses : Visible(ids) \in Hypotheses /\ TextOf(ids) \in Text
                              /\ Len(Visible(ids)) \in Nat
  BY <1>1, VisibleFact, TextOfFact, HypothesisFact
<1>4. \A ids \in Hypotheses : Rebuilt(ids) \in Result
  BY <1>3, NoResultFact DEF Rebuilt, Result
<1>5. \A ids \in Extensions(emitted) : ids \in Hypotheses
  BY DEF Extensions
<1>6. family' = family => Hypotheses' = Hypotheses
  BY DEF Hypotheses, HypothesesOf
<1>7. feeds < MaxFeeds => feeds + 1 \in 0 .. MaxFeeds
  BY StreamTokensAssumption DEF HooksTyped
<1>8. ASSUME NEW p \in Policies, NEW n \in Agreements[family], NEW hook \in Answers,
             ParakeetBegin(p, n, hook)
      PROVE  Next /\ HooksTyped'
  <2>1. Next /\ family' = family
    BY <1>1, <1>8, BeginIsStep DEF ParakeetBegin, Begin, ClearText
  <2> QED  BY <1>2, <1>6, <1>8, <2>1 DEF ParakeetBegin, HooksTyped
<1>9. ASSUME NEW ids \in Extensions(emitted), NEW given \in BOOLEAN, ParakeetFeed(ids, given)
      PROVE  Next /\ HooksTyped'
  <2>1. CASE ids # emitted
    <3>1. FeedOk(Rebuilt(ids), Stable(Rebuilt(ids), tokens'), 1, TRUE, given)
            /\ tokens' = Visible(ids)
      BY <1>9, <2>1 DEF ParakeetFeed
    <3>2. Stable(Rebuilt(ids), tokens') \in 0 .. Len(Rebuilt(ids).text)
      BY <1>1, <1>3, <1>4, <1>5, <3>1, StableFact
    <3>3. Next
      BY <1>4, <1>5, <3>1, <3>2, FeedIsStep
    <3>4. family' = family
      BY <3>1 DEF FeedOk
    <3> QED  BY <1>3, <1>5, <1>6, <1>7, <1>9, <3>1, <3>3, <3>4 DEF ParakeetFeed, HooksTyped
  <2>2. CASE ids = emitted
    <3>1. FeedOk(result, Stable(result, tokens), 0, FALSE, given) /\ tokens' = tokens
      BY <1>9, <2>2 DEF ParakeetFeed
    <3>2. Stable(result, tokens) \in 0 .. Len(result.text)
      BY <1>1, StableFact DEF HooksTyped
    <3>3. Next
      BY <1>1, <3>1, <3>2, FeedIsStep
    <3>4. family' = family
      BY <3>1 DEF FeedOk
    <3> QED  BY <1>5, <1>6, <1>7, <1>9, <3>1, <3>3, <3>4 DEF ParakeetFeed, HooksTyped
  <2> QED  BY <2>1, <2>2
<1>10. ASSUME NEW ids \in Extensions(emitted), NEW given \in BOOLEAN,
              ParakeetFinalize(ids, given)
       PROVE  Next /\ HooksTyped'
  <2> DEFINE rebuild == ids # emitted \/ ~ result.has
             r == IF rebuild THEN Rebuilt(ids) ELSE [result EXCEPT !.ncommitted = Len(tokens)]
  <2>1. Len(tokens) \in Nat
    BY <1>1, HypothesisFact DEF HooksTyped
  <2>2. r \in Result
    BY <1>1, <1>4, <1>5, <2>1 DEF Result
  <2>3. FinalizeOk(r, 1, r.has, given) /\ emitted' = ids /\ feeds' = feeds
          /\ tokens' = IF rebuild THEN Visible(ids) ELSE tokens
    BY <1>10 DEF ParakeetFinalize
  <2> HIDE DEF r, rebuild
  <2>4. r.has \in BOOLEAN
    BY <2>2 DEF Result
  <2>5. Next /\ family' = family
    BY <2>2, <2>3, <2>4, FinalizeIsStep DEF FinalizeOk
  <2> QED  BY <1>3, <1>5, <1>6, <2>3, <2>5 DEF HooksTyped
<1>11. ASSUME NEW hook \in {"ERR", "THROWN"}, NEW ids \in Extensions(emitted),
              NEW given \in BOOLEAN, ParakeetFails(hook, ids, given)
       PROVE  Next /\ HooksTyped'
  <2>1. HookFails(hook, result, 0, FALSE, given)
    BY <1>11 DEF ParakeetFails
  <2>2. Next /\ family' = family
    BY <1>1, <2>1, FailIsStep DEF HookFails
  <2> QED  BY <1>5, <1>6, <1>11, <2>2 DEF ParakeetFails, HooksTyped
<1>12. CASE ParakeetReset
  <2>1. Next /\ family' = family
    BY <1>12, ResetIsStep DEF ParakeetReset, Reset, ClearText
  <2> QED  BY <1>2, <1>6, <1>12, <2>1 DEF ParakeetReset, HooksTyped
<1> QED  BY <1>8, <1>9, <1>10, <1>11, <1>12 DEF ParakeetNext

LEMMA VoxtralStep ==
  ASSUME TypeOK, HooksTyped, VoxtralNext, UNCHANGED << tokens, idHistory >>
  PROVE  Next /\ HooksTyped'
<1>1. family \in Families /\ result \in Result /\ result.text \in Text
  BY DEF TypeOK, Result
<1>2. << >> \in Hypotheses /\ 0 \in 0 .. MaxFeeds
  BY <1>1, VisibleFact, StreamTokensAssumption
<1>a. 0 \in 0 .. Len(result.text)
  BY <1>1 DEF Text
<1>3. \A ids \in Hypotheses : Published(ids) \in Result /\ 0 \in 0 .. Len(Published(ids).text)
  <2> TAKE ids \in Hypotheses
  <2>1. Published(ids).text \in Text
    BY <1>1, TextOfFact
  <2>2. Published(ids) \in Result
    BY <2>1 DEF Published, Result
  <2> QED  BY <2>1, <2>2 DEF Text
<1>4. \A ids \in Extensions(emitted) : ids \in Hypotheses
  BY DEF Extensions
<1>5. family' = family => Hypotheses' = Hypotheses
  BY DEF Hypotheses, HypothesesOf
<1>6. feeds < MaxFeeds => feeds + 1 \in 0 .. MaxFeeds
  BY StreamTokensAssumption DEF HooksTyped
<1>7. ASSUME NEW p \in Policies, NEW n \in Agreements[family], NEW hook \in Answers,
             VoxtralBegin(p, n, hook)
      PROVE  Next /\ HooksTyped'
  <2>1. Next /\ family' = family
    BY <1>1, <1>7, BeginIsStep DEF VoxtralBegin, Begin, ClearText
  <2> QED  BY <1>2, <1>5, <1>7, <2>1 DEF VoxtralBegin, HooksTyped
<1>8. ASSUME NEW given \in BOOLEAN, VoxtralBuffer(given)
      PROVE  Next /\ HooksTyped'
  <2>1. FeedOk(result, 0, 0, FALSE, given)
    BY <1>8 DEF VoxtralBuffer
  <2>2. Next /\ family' = family
    BY <1>1, <1>a, <2>1, FeedIsStep DEF FeedOk
  <2> QED  BY <1>5, <1>6, <1>8, <2>2 DEF VoxtralBuffer, HooksTyped
<1>9. ASSUME NEW ids \in Extensions(emitted), NEW given \in BOOLEAN, VoxtralDecode(ids, given)
      PROVE  Next /\ HooksTyped'
  <2> DEFINE said == Published(ids).text # result.text
  <2>1. FeedOk(Published(ids), 0, 0, said, given) /\ said \in BOOLEAN
    BY <1>9 DEF VoxtralDecode
  <2> HIDE DEF said
  <2>2. Next /\ family' = family
    BY <1>3, <1>4, <2>1, FeedIsStep DEF FeedOk
  <2> QED  BY <1>4, <1>5, <1>6, <1>9, <2>2 DEF VoxtralDecode, HooksTyped
<1>10. ASSUME NEW ids \in Extensions(emitted), NEW given \in BOOLEAN,
              VoxtralFinalize(ids, given)
       PROVE  Next /\ HooksTyped'
  <2>1. FinalizeOk(Published(ids), 0, TRUE, given)
    BY <1>10 DEF VoxtralFinalize
  <2>2. Next /\ family' = family
    BY <1>3, <1>4, <2>1, FinalizeIsStep DEF FinalizeOk
  <2> QED  BY <1>4, <1>5, <1>10, <2>2 DEF VoxtralFinalize, HooksTyped
<1>11. ASSUME NEW hook \in {"ERR", "THROWN"}, NEW ids \in Extensions(emitted),
              NEW given \in BOOLEAN, VoxtralFails(hook, ids, given)
       PROVE  Next /\ HooksTyped'
  <2>1. HookFails(hook, result, 0, FALSE, given)
    BY <1>11 DEF VoxtralFails
  <2>2. Next /\ family' = family
    BY <1>1, <2>1, FailIsStep DEF HookFails
  <2> QED  BY <1>4, <1>5, <1>11, <2>2 DEF VoxtralFails, HooksTyped
<1>12. CASE VoxtralReset
  <2>1. Next /\ family' = family
    BY <1>12, ResetIsStep DEF VoxtralReset, Reset, ClearText
  <2> QED  BY <1>2, <1>5, <1>12, <2>1 DEF VoxtralReset, HooksTyped
<1> QED  BY <1>7, <1>8, <1>9, <1>10, <1>11, <1>12 DEF VoxtralNext

\* SharedPrefix answers tokens that both have, and that are the same.
LEMMA SharedFact ==
  ASSUME NEW S, NEW a \in Seq(S), NEW b \in Seq(S)
  PROVE  /\ SharedPrefix(a, b) \in 0 .. Len(a)
         /\ SharedPrefix(a, b) <= Len(b)
         /\ \A j \in 1 .. SharedPrefix(a, b) : a[j] = b[j]
<1> DEFINE least == Least(Len(a), Len(b))
           T == {i \in 0 .. least : \A j \in 1 .. i : a[j] = b[j]}
<1>1. least \in Nat /\ least <= Len(a) /\ least <= Len(b)
  BY DEF Least
<1>2. T \subseteq 0 .. least /\ T # {}
  <2>1. 0 \in T
    BY <1>1
  <2> QED  BY <2>1
<1>3. Max(T) \in T
  BY <1>1, <1>2, MaxFact
<1>4. SharedPrefix(a, b) = Max(T)
  BY DEF SharedPrefix
<1> HIDE DEF T
<1>5. Max(T) \in 0 .. least /\ \A j \in 1 .. Max(T) : a[j] = b[j]
  BY <1>3 DEF T
<1> QED  BY <1>1, <1>4, <1>5

\* The remembered decodes after one more.
LEMMA HistoryWithFact ==
  ASSUME TypeOK, HooksTyped, NEW ids \in Hypotheses
  PROVE  /\ HistoryWith(ids) \in Seq(Hypotheses)
         /\ Len(HistoryWith(ids)) <= 32
         /\ EffectiveN(agreementN) > 1 =>
              /\ Len(HistoryWith(ids)) > 0
              /\ Len(HistoryWith(ids)) <= EffectiveN(agreementN)
              /\ HistoryWith(ids)[Len(HistoryWith(ids))] = ids
<1>1. EffectiveN(agreementN) \in Nat \ {0} /\ EffectiveN(agreementN) <= 32
  BY StreamTextAssumption DEF TypeOK, EffectiveN
<1>2. idHistory \in Seq(Hypotheses) /\ Len(idHistory) <= 32
  BY DEF HooksTyped
<1>3. CASE EffectiveN(agreementN) <= 1
  BY <1>1, <1>2, <1>3 DEF HistoryWith
<1>4. CASE ~ (EffectiveN(agreementN) <= 1)
  <2> DEFINE n == EffectiveN(agreementN)
             w == Window(idHistory, ids, n)
  <2>1. HistoryWith(ids) = w
    BY <1>4 DEF HistoryWith
  <2>2. w \in Seq(Hypotheses) /\ Len(w) <= n /\ Len(w) > 0 /\ w[Len(w)] = ids
    BY <1>1, <1>2, WindowFact
  <2> HIDE DEF w
  <2>3. Len(w) <= 32
    <3>1. Len(w) \in Nat
      BY <2>2
    <3> QED  BY <1>1, <2>2, <3>1
  <2> QED  BY <2>1, <2>2, <2>3
<1> QED  BY <1>3, <1>4

\* A count of stable tokens stands for a prefix that all remembered decodes share
\* with the one just made, and n of them are remembered.
LEMMA StableTokensFact ==
  ASSUME TypeOK, HooksTyped, NEW ids \in Hypotheses
  PROVE  /\ StableTokens(ids) \in Nat
         /\ EffectiveN(agreementN) > 1 /\ StableTokens(ids) > 0 =>
              LET h == HistoryWith(ids)
              IN  /\ Len(h) = EffectiveN(agreementN)
                  /\ \A i \in 1 .. Len(h) :
                       /\ StableTokens(ids) <= Len(h[i])
                       /\ \A j \in 1 .. StableTokens(ids) : h[i][j] = ids[j]
<1> DEFINE h == HistoryWith(ids)
           n == EffectiveN(agreementN)
           P == Pieces[family]
           shared == {SharedPrefix(h[1], h[i]) : i \in DOMAIN h}
           S == {Len(h[1])} \cup shared
<1>1. n \in Nat
  BY StreamTextAssumption DEF TypeOK, EffectiveN
<1>2. \A s \in Hypotheses : s \in Seq(P) /\ Len(s) \in Nat
  BY HypothesisFact DEF TypeOK
<1>3. CASE n <= 1
  <2>1. StableTokens(ids) = Len(ids)
    BY <1>3 DEF StableTokens
  <2> QED  BY <1>1, <1>2, <1>3, <2>1
<1>4. CASE ~ (n <= 1)
  <2>0. h \in Seq(Hypotheses) /\ Len(h) > 0 /\ Len(h) <= n /\ h[Len(h)] = ids
    BY <1>1, <1>4, HistoryWithFact
  <2>1. StableTokens(ids) = IF Len(h) < n THEN 0 ELSE Min(S)
    BY <1>4 DEF StableTokens
  <2> HIDE DEF h, n, P
  <2>2. /\ Len(h) \in Nat /\ DOMAIN h = 1 .. Len(h)
        /\ \A i \in 1 .. Len(h) : h[i] \in Seq(P) /\ Len(h[i]) \in Nat
    BY <1>2, <2>0
  <2>3. h[1] \in Seq(P) /\ Len(h[1]) \in Nat
    BY <2>0, <2>2
  <2>4. \A i \in 1 .. Len(h) :
          /\ SharedPrefix(h[1], h[i]) \in 0 .. Len(h[1])
          /\ SharedPrefix(h[1], h[i]) <= Len(h[i])
          /\ \A j \in 1 .. SharedPrefix(h[1], h[i]) : h[1][j] = h[i][j]
    BY <2>2, <2>3, SharedFact
  <2>5. S \subseteq Nat /\ S # {}
    BY <2>2, <2>3, <2>4
  <2>6. Min(S) \in S /\ \A y \in S : Min(S) <= y
    BY <2>5, MinFact
  <2>7. Min(S) \in Nat
    BY <2>5, <2>6
  <2>8. ASSUME NEW i \in 1 .. Len(h)
        PROVE  /\ Min(S) <= Len(h[i])
               /\ \A j \in 1 .. Min(S) : h[1][j] = h[i][j]
    <3> DEFINE c == SharedPrefix(h[1], h[i])
    <3>1. Min(S) <= c
      BY <2>2, <2>6
    <3>2. c \in Nat /\ c <= Len(h[i]) /\ \A j \in 1 .. c : h[1][j] = h[i][j]
      BY <2>3, <2>4
    <3>3. Len(h[i]) \in Nat
      BY <2>2
    <3> HIDE DEF c, S
    <3> QED  BY <2>7, <3>1, <3>2, <3>3
  <2> HIDE DEF S
  <2>9. \A i \in 1 .. Len(h) : /\ Min(S) <= Len(h[i])
                               /\ \A j \in 1 .. Min(S) : h[i][j] = ids[j]
    <3>1. \A j \in 1 .. Min(S) : h[1][j] = ids[j]
      <4>1. Len(h) \in 1 .. Len(h)
        BY <2>0, <2>2
      <4> QED  BY <2>0, <2>8, <4>1
    <3> QED  BY <2>8, <3>1
  <2>10. StableTokens(ids) \in Nat
    BY <2>1, <2>7
  <2>11. StableTokens(ids) > 0 => Len(h) = n /\ StableTokens(ids) = Min(S)
    BY <1>1, <2>0, <2>1, <2>2 DEF n
  <2> QED  BY <2>9, <2>10, <2>11 DEF h, n
<1> QED  BY <1>3, <1>4

LEMMA DecodedFact ==
  ASSUME family \in Families, NEW ids \in Hypotheses, NEW k \in Nat
  PROVE  Decoded(ids, k) \in Result
<1>1. DropSpace(FlattenSeq(ids)) \in Text
  BY VisibleFact, DropSpaceFact
<1>2. (ids # << >>) \in BOOLEAN
  OBVIOUS
<1> QED  BY <1>1, <1>2 DEF Decoded, Result

LEMMA MoonshineStep ==
  ASSUME TypeOK, HooksTyped, MoonshineNext, UNCHANGED emitted
  PROVE  Next /\ HooksTyped'
<1>1. family \in Families /\ result \in Result /\ result.has \in BOOLEAN
        /\ result.text \in Text /\ result.ncommitted \in Nat
  BY DEF TypeOK, Result
<1>2. << >> \in Hypotheses /\ << >> \in Seq(Hypotheses) /\ Len(<< >>) <= 32 /\ 0 \in 0 .. MaxFeeds
  BY <1>1, VisibleFact, StreamTokensAssumption
<1>3. \A ids \in Hypotheses : Len(ids) \in Nat
  BY <1>1, HypothesisFact
<1>4. family' = family => Hypotheses' = Hypotheses
  BY DEF Hypotheses, HypothesesOf
<1>5. feeds < MaxFeeds => feeds + 1 \in 0 .. MaxFeeds
  BY StreamTokensAssumption DEF HooksTyped
<1>6. ASSUME NEW p \in Policies, NEW n \in Agreements[family], NEW hook \in Answers,
             MoonshineBegin(p, n, hook)
      PROVE  Next /\ HooksTyped'
  <2>1. Next /\ family' = family
    BY <1>1, <1>6, BeginIsStep DEF MoonshineBegin, Begin, ClearText
  <2> QED  BY <1>2, <1>4, <1>6, <2>1 DEF MoonshineBegin, HooksTyped
<1>7. ASSUME NEW given \in BOOLEAN, MoonshineBuffer(given)
      PROVE  Next /\ HooksTyped'
  <2>1. FeedOk(result, Stable(result, tokens), 0, FALSE, given)
    BY <1>7 DEF MoonshineBuffer
  <2>2. Stable(result, tokens) \in 0 .. Len(result.text)
    BY <1>1, StableFact DEF HooksTyped
  <2>3. Next /\ family' = family
    BY <1>1, <2>1, <2>2, FeedIsStep DEF FeedOk
  <2> QED  BY <1>4, <1>5, <1>7, <2>3 DEF MoonshineBuffer, HooksTyped
<1>8. ASSUME NEW ids \in Hypotheses, NEW given \in BOOLEAN, MoonshineDecode(ids, given)
      PROVE  Next /\ HooksTyped'
  <2> DEFINE count == IF StableTokens(ids) > result.ncommitted THEN StableTokens(ids)
                      ELSE result.ncommitted
             r == Decoded(ids, count)
             changed == r.text # result.text
             bump == IF changed THEN 1 ELSE 0
  <2>1. r \in Result
    <3>1. count \in Nat
      BY <1>1, StableTokensFact
    <3> HIDE DEF count
    <3> QED  BY <1>1, <3>1, DecodedFact
  <2>2. FeedOk(r, Stable(r, ids), bump, changed, given) /\ bump \in {0, 1}
          /\ changed \in BOOLEAN
          /\ feeds < MaxFeeds /\ feeds' = feeds + 1 /\ tokens' = ids
          /\ idHistory' = HistoryWith(ids)
    BY <1>8 DEF MoonshineDecode
  <2> HIDE DEF r, changed, bump
  <2>3. Stable(r, ids) \in 0 .. Len(r.text)
    BY <1>1, <2>1, StableFact
  <2>4. Next /\ family' = family
    BY <2>1, <2>2, <2>3, FeedIsStep DEF FeedOk
  <2>5. HistoryWith(ids) \in Seq(Hypotheses) /\ Len(HistoryWith(ids)) <= 32
    BY HistoryWithFact
  <2> QED  BY <1>4, <1>5, <2>2, <2>4, <2>5 DEF HooksTyped
<1>9. ASSUME NEW given \in BOOLEAN, MoonshineFinalizeEmpty(given)
      PROVE  Next /\ HooksTyped'
  <2>1. Next /\ family' = family
    BY <1>1, <1>9, FinalizeIsStep DEF MoonshineFinalizeEmpty, FinalizeOk
  <2> QED  BY <1>4, <1>9, <2>1 DEF MoonshineFinalizeEmpty, moonshineVars, HooksTyped
<1>10. ASSUME NEW given \in BOOLEAN, MoonshineFinalizeKept(given)
       PROVE  Next /\ HooksTyped'
  <2> DEFINE r == [result EXCEPT !.ncommitted = Len(tokens)]
  <2>1. r \in Result
    BY <1>1, <1>3 DEF HooksTyped, Result
  <2>2. FinalizeOk(r, 1, TRUE, given)
    BY <1>10 DEF MoonshineFinalizeKept
  <2> HIDE DEF r
  <2>3. Next /\ family' = family
    BY <2>1, <2>2, FinalizeIsStep DEF FinalizeOk
  <2> QED  BY <1>2, <1>4, <1>10, <2>3 DEF MoonshineFinalizeKept, HooksTyped
<1>11. ASSUME NEW ids \in Hypotheses, NEW given \in BOOLEAN, MoonshineFinalize(ids, given)
       PROVE  Next /\ HooksTyped'
  <2> DEFINE said == ids # << >>
  <2>1. FinalizeOk(Decoded(ids, Len(ids)), 1, said, given) /\ said \in BOOLEAN
    BY <1>11 DEF MoonshineFinalize
  <2> HIDE DEF said
  <2>2. Decoded(ids, Len(ids)) \in Result
    BY <1>1, <1>3, DecodedFact
  <2>3. Next /\ family' = family
    BY <2>1, <2>2, FinalizeIsStep DEF FinalizeOk
  <2> QED  BY <1>2, <1>4, <1>11, <2>3 DEF MoonshineFinalize, HooksTyped
<1>12. ASSUME NEW hook \in {"ERR", "THROWN"}, NEW cleared \in BOOLEAN, NEW said \in BOOLEAN,
              NEW given \in BOOLEAN, MoonshineFails(hook, cleared, said, given)
       PROVE  Next /\ HooksTyped'
  <2> DEFINE r == IF cleared THEN [NoResult EXCEPT !.ncommitted = result.ncommitted] ELSE result
             tells == said /\ r.has
  <2>1. r \in Result
    BY <1>1, NoResultFact DEF Result
  <2>2. HookFails(hook, r, 0, tells, given) /\ tells \in BOOLEAN
          /\ tokens' = (IF cleared THEN << >> ELSE tokens) /\ UNCHANGED << idHistory, feeds >>
    BY <1>12 DEF MoonshineFails
  <2> HIDE DEF r, tells
  <2>3. Next /\ family' = family
    BY <2>1, <2>2, FailIsStep DEF HookFails
  <2> QED  BY <1>2, <1>4, <2>2, <2>3 DEF HooksTyped
<1>13. CASE MoonshineReset
  <2>1. Next /\ family' = family
    BY <1>13, ResetIsStep DEF MoonshineReset, Reset, ClearText
  <2> QED  BY <1>2, <1>4, <1>13, <2>1 DEF MoonshineReset, HooksTyped
<1>14. ASSUME NEW ids \in Hypotheses, MoonshineRun(ids)
       PROVE  Next /\ HooksTyped'
  <2>1. Decoded(ids, 0) \in Result
    BY <1>1, DecodedFact
  <2>2. Run(Decoded(ids, 0)) /\ result' = Decoded(ids, 0) /\ family' = family
    BY <1>14 DEF MoonshineRun, Run, ClearText
  <2>3. Next
    BY <2>1, <2>2 DEF Next
  <2> QED  BY <1>2, <1>4, <1>14, <2>2, <2>3 DEF MoonshineRun, HooksTyped
<1> QED  BY <1>6, <1>7, <1>8, <1>9, <1>10, <1>11, <1>12, <1>13, <1>14 DEF MoonshineNext

-----------------------------------------------------------------------------
(* The refinement, and the types.                                          *)

LEMMA FamiliesBegin == FamiliesInit => IInv /\ HooksTyped
<1> SUFFICES ASSUME FamiliesInit PROVE IInv /\ HooksTyped
  OBVIOUS
<1>1. IInv
  BY InitIInv DEF FamiliesInit
<1>2. << >> \in Hypotheses /\ << >> \in Seq(Hypotheses) /\ Len(<< >>) <= 32
  BY <1>1, VisibleFact DEF IInv, TypeOK
<1>3. HooksTyped
  BY <1>2, StreamTokensAssumption DEF FamiliesInit, HooksTyped
<1> QED  BY <1>1, <1>3

\* Every step that a family's hook makes is a step of StreamText.
LEMMA FamiliesStep ==
  ASSUME IInv, HooksTyped, FamiliesNext
  PROVE  Next /\ IInv' /\ HooksTyped'
<1>1. TypeOK
  BY DEF IInv
<1>2. Next /\ HooksTyped'
  BY <1>1, ParakeetStep, MoonshineStep, VoxtralStep DEF FamiliesNext
<1>3. IInv'
  BY <1>2, NextIInv
<1> QED  BY <1>2, <1>3

LEMMA FamiliesStutter ==
  ASSUME IInv, HooksTyped, UNCHANGED vars
  PROVE  UNCHANGED textVars /\ IInv' /\ HooksTyped'
<1>1. UNCHANGED textVars
  BY DEF vars
<1>2. IInv'
  BY <1>1, StutterStep
<1>3. HooksTyped'
  BY <1>1 DEF vars, textVars, HooksTyped, Hypotheses, HypothesesOf
<1> QED  BY <1>1, <1>2, <1>3

LEMMA FamiliesHold == FamiliesSpec => [](IInv /\ HooksTyped)
<1>1. IInv /\ HooksTyped /\ [FamiliesNext]_vars => (IInv /\ HooksTyped)'
  BY FamiliesStep, FamiliesStutter
<1> QED  BY FamiliesBegin, <1>1, PTL DEF FamiliesSpec

\* The types of the dispatcher's state and of what the hooks keep of it; the
\* histories of texts and of token ids stay as short as the agreement asks.
THEOREM FamiliesTypeCorrect == FamiliesSpec => []FamiliesTypeOK
<1>1. IInv /\ HooksTyped => FamiliesTypeOK
  BY DEF IInv, HooksTyped, FamiliesTypeOK
<1> QED  BY <1>1, FamiliesHold, PTL

\* The dispatcher with the hooks of parakeet, moonshine or voxtral implements the
\* dispatcher alone, which takes any snapshot from any hook.
THEOREM FamiliesImplement == FamiliesSpec => Spec
<1>1. FamiliesInit => Init
  BY DEF FamiliesInit
<1>2. IInv /\ HooksTyped /\ [FamiliesNext]_vars => [Next]_textVars
  BY FamiliesStep, FamiliesStutter
<1> QED  BY <1>1, <1>2, FamiliesHold, PTL DEF Spec, FamiliesSpec

\* So the families inherit what StreamText promises a caller.
THEOREM FamiliesInherit ==
  FamiliesSpec => /\ CaptionSpec
                  /\ CommittedIsSpoken
                  /\ CommitNeedsAgreement
                  /\ ReportTells
                  /\ [](OnFinalizeHides /\ SeamCoherent /\ FinalizedCovers)
BY FamiliesImplement, CommittedIsCaptionLog, CommitsAreSpoken, CommitsAreAgreed,
   ReportsAreHonest, HiddenUntilFinalize, Seamless, FinishedStreamsCover, PTL

-----------------------------------------------------------------------------
(* The count of committed tokens.                                          *)

\* What moonshine counts as committed during a stream, the last n decodes share
\* (stable_token_prefix_from_history).
THEOREM TokenCountsAreAgreed == FamiliesSpec => TokenCountNeedsAgreement
<1>1. ASSUME IInv, HooksTyped, FamiliesNext, family = "moonshine" PROVE CountAgreed
  <2> SUFFICES ASSUME state = "ACTIVE", state' = "ACTIVE",
                      result'.ncommitted > result.ncommitted,
                      EffectiveN(agreementN) > 1
               PROVE  /\ Len(idHistory') = EffectiveN(agreementN)
                      /\ \A i \in DOMAIN idHistory' :
                           IsPrefix(SubSeq(tokens', 1, result'.ncommitted), idHistory'[i])
    BY DEF CountAgreed
  <2>1. MoonshineNext
    BY <1>1 DEF FamiliesNext
  <2>2. TypeOK /\ family \in Families /\ result \in Result /\ result.ncommitted \in Nat
    BY <1>1 DEF IInv, TypeOK, Result
  <2>3. PICK ids \in Hypotheses, given \in BOOLEAN : MoonshineDecode(ids, given)
    <3>1. ASSUME NEW given \in BOOLEAN, MoonshineBuffer(given) PROVE FALSE
      <4>1. result' = IF policy = "ON_FINALIZE" THEN [result EXCEPT !.ncommitted = 0] ELSE result
        BY <3>1 DEF MoonshineBuffer, FeedOk
      <4>2. result'.ncommitted \in {0, result.ncommitted}
        BY <2>2, <4>1 DEF Result
      <4> QED  BY <2>2, <4>2
    <3>2. ASSUME NEW hook, NEW cleared \in BOOLEAN, NEW said, NEW given,
                 MoonshineFails(hook, cleared, said, given)
          PROVE  FALSE
      <4>1. result' = IF cleared THEN [NoResult EXCEPT !.ncommitted = result.ncommitted]
                      ELSE result
        BY <3>2 DEF MoonshineFails, HookFails
      <4>2. result'.ncommitted = result.ncommitted
        BY <4>1, NoResultFact DEF NoResult
      <4> QED  BY <2>2, <4>2
    <3> QED  BY <2>1, <3>1, <3>2
             DEF MoonshineNext, MoonshineBegin, Begin, MoonshineFinalizeEmpty,
                 MoonshineFinalizeKept, MoonshineFinalize, FinalizeOk, MoonshineReset, Reset,
                 MoonshineRun, Run
  <2> DEFINE stable == StableTokens(ids)
             h == HistoryWith(ids)
  <2>4. tokens' = ids /\ idHistory' = h /\ result'.ncommitted = stable /\ stable > 0
          /\ stable \in Nat
    <3> DEFINE count == IF stable > result.ncommitted THEN stable ELSE result.ncommitted
               r == Decoded(ids, count)
    <3>1. tokens' = ids /\ idHistory' = h
            /\ result' = IF policy = "ON_FINALIZE" THEN [r EXCEPT !.ncommitted = 0] ELSE r
      BY <2>3 DEF MoonshineDecode, FeedOk
    <3>2. stable \in Nat
      BY <1>1, <2>2, StableTokensFact
    <3> HIDE DEF stable, h
    <3>3. r.ncommitted = count /\ [r EXCEPT !.ncommitted = 0].ncommitted = 0
      BY DEF Decoded
    <3>4. result'.ncommitted = 0 \/ result'.ncommitted = count
      BY <3>1, <3>3
    <3> QED  BY <2>2, <3>1, <3>2, <3>4
  <2>5. /\ Len(h) = EffectiveN(agreementN)
        /\ \A i \in 1 .. Len(h) : /\ stable <= Len(h[i])
                                  /\ \A j \in 1 .. stable : h[i][j] = ids[j]
    BY <1>1, <2>2, <2>4, StableTokensFact
  <2>6. h \in Seq(Hypotheses) /\ Len(h) > 0 /\ h[Len(h)] = ids
    BY <1>1, <2>2, HistoryWithFact
  <2> HIDE DEF stable, h
  <2>7. stable <= Len(ids)
    <3>1. Len(h) \in 1 .. Len(h)
      BY <2>6
    <3> QED  BY <2>5, <2>6, <3>1
  <2>8. ASSUME NEW i \in 1 .. Len(h) PROVE IsPrefix(SubSeq(ids, 1, stable), h[i])
    <3> DEFINE P == Pieces[family]
    <3>1. ids \in Seq(P) /\ h[i] \in Seq(P)
      BY <2>2, <2>3, <2>6, HypothesisFact
    <3> HIDE DEF P
    <3>2. /\ SubSeq(ids, 1, stable) \in Seq(P)
          /\ Len(SubSeq(ids, 1, stable)) = stable
          /\ \A j \in 1 .. stable : SubSeq(ids, 1, stable)[j] = ids[j]
      BY <2>4, <2>7, <3>1
    <3>3. Len(SubSeq(ids, 1, stable)) <= Len(h[i])
            /\ \A j \in 1 .. Len(SubSeq(ids, 1, stable)) :
                 SubSeq(ids, 1, stable)[j] = h[i][j]
      BY <2>5, <3>2
    <3>4. \A a, b \in Seq(P) : Len(a) <= Len(b) /\ (\A j \in 1 .. Len(a) : a[j] = b[j])
                               => IsPrefix(a, b)
      BY PrefixOf
    <3> QED  BY <3>1, <3>2, <3>3, <3>4, Zenon
  <2>9. DOMAIN idHistory' = 1 .. Len(h)
    BY <2>4, <2>6
  <2> QED  BY <2>4, <2>5, <2>8, <2>9
<1>2. IInv /\ HooksTyped /\ [FamiliesNext]_vars => [family = "moonshine" => CountAgreed]_vars
  BY <1>1
<1> QED  BY <1>2, FamiliesHold, PTL DEF FamiliesSpec, TokenCountNeedsAgreement

-----------------------------------------------------------------------------
(* The families that only add tokens. What an open stream has committed    *)
(* starts the hypothesis on show, which starts the text of everything that *)
(* was emitted, whichever failed hook emitted it last; so whatever text    *)
(* finalize ends with starts with what is committed.                       *)

TextSoFar(ids) == IF family = "parakeet" THEN TextOf(ids) ELSE Published(ids).text

OnShow == IF result.has THEN result.text ELSE << >>

AppendersKept ==
  family # "moonshine" /\ state = "ACTIVE" =>
    /\ IsPrefix(view.committed, OnShow)
    /\ IsPrefix(OnShow, TextSoFar(emitted))

LEMMA EmptyPrefix == << >> \in Text /\ \A t \in Text : IsPrefix(<< >>, t)
BY DEF Text, IsPrefix

LEMMA TextPrefixTrans ==
  ASSUME NEW a \in Text, NEW b \in Text, NEW c \in Text, IsPrefix(a, b), IsPrefix(b, c)
  PROVE  IsPrefix(a, c)
<1>1. /\ Len(a) <= Len(b) /\ \A j \in 1 .. Len(a) : a[j] = b[j]
      /\ Len(b) <= Len(c) /\ \A j \in 1 .. Len(b) : b[j] = c[j]
  BY PrefixFact
<1>2. Len(a) \in Nat /\ Len(b) \in Nat /\ Len(c) \in Nat
  BY DEF Text
<1>3. Len(a) <= Len(c) /\ \A j \in 1 .. Len(a) : a[j] = c[j]
  BY <1>1, <1>2
<1> QED  BY <1>3, PrefixFact

LEMMA TextSoFarFact ==
  ASSUME family \in Families, NEW a \in Hypotheses
  PROVE  /\ TextSoFar(a) \in Text
         /\ \A b \in Hypotheses : IsPrefix(a, b) => IsPrefix(TextSoFar(a), TextSoFar(b))
BY TextOfFact DEF TextSoFar

\* What a call of an open stream leaves on show: what was there before, or the text
\* of all the ids that are emitted by now. A failing call changes nothing a caller sees.
LEMMA AppenderShows ==
  ASSUME IInv, HooksTyped, FamiliesNext, family # "moonshine",
         state = "ACTIVE", state' # "IDLE"
  PROVE  /\ emitted' \in Hypotheses /\ IsPrefix(emitted, emitted')
         /\ family' = family
         /\ answer' # "OK" => UNCHANGED << result, view >> /\ state' # "FINISHED"
         /\ result.has => result'.has
         /\ OnShow' = OnShow \/ OnShow' = TextSoFar(emitted')
<1>1. /\ family \in Families /\ result \in Result /\ emitted \in Hypotheses
      /\ emitted \in Seq(Pieces[family])
  BY HypothesisFact DEF IInv, TypeOK, HooksTyped
<1>2. \A ids \in Extensions(emitted) : ids \in Hypotheses /\ IsPrefix(emitted, ids)
  BY DEF Extensions
<1>3. emitted \in Extensions(emitted)
  <2>1. \A s \in Seq(Pieces[family]) : IsPrefix(s, s)
    BY DEF IsPrefix
  <2> QED  BY <1>1, <2>1 DEF Extensions
<1>4. \A ids \in Extensions(emitted) : ids # emitted => ids # << >>
  <2> SUFFICES ASSUME << >> \in Extensions(emitted) PROVE emitted = << >>
    OBVIOUS
  <2>1. IsPrefix(emitted, << >>)
    BY <1>2
  <2>2. Len(emitted) <= 0
    BY <2>1 DEF IsPrefix
  <2> QED  BY <1>1, <2>2
<1>5. ASSUME NEW r \in Result, NEW stable, NEW bump, NEW said, NEW given,
             FeedOk(r, stable, bump, said, given)
      PROVE  /\ result'.has = r.has /\ result'.text = r.text
             /\ answer' = "OK" /\ family' = family
  BY <1>5 DEF FeedOk, Result
<1>6. CASE family = "parakeet" /\ ParakeetNext
  <2>1. \A ids \in Hypotheses : /\ Rebuilt(ids) \in Result
                                /\ ids # << >> => /\ Rebuilt(ids).has
                                                  /\ Rebuilt(ids).text = TextSoFar(ids)
    BY <1>1, <1>6, TextOfFact, VisibleFact, HypothesisFact, NoResultFact
       DEF Rebuilt, Result, TextSoFar
  <2>2. ASSUME NEW ids \in Extensions(emitted), NEW given, ParakeetFeed(ids, given)
        PROVE  /\ emitted' = ids /\ answer' = "OK" /\ family' = family
               /\ result.has => result'.has
               /\ OnShow' = OnShow \/ OnShow' = TextSoFar(ids)
    <3>1. CASE ids # emitted
      <4>1. FeedOk(Rebuilt(ids), Stable(Rebuilt(ids), tokens'), 1, TRUE, given)
              /\ emitted' = ids
        BY <2>2, <3>1 DEF ParakeetFeed
      <4>2. Rebuilt(ids) \in Result /\ Rebuilt(ids).has /\ Rebuilt(ids).text = TextSoFar(ids)
        BY <1>2, <1>4, <2>1, <3>1
      <4>3. result'.has = Rebuilt(ids).has /\ result'.text = Rebuilt(ids).text
              /\ answer' = "OK" /\ family' = family
        BY <1>5, <4>1, <4>2
      <4> QED  BY <4>1, <4>2, <4>3 DEF OnShow
    <3>2. CASE ids = emitted
      <4>1. FeedOk(result, Stable(result, tokens), 0, FALSE, given) /\ emitted' = ids
        BY <2>2, <3>2 DEF ParakeetFeed
      <4>2. result'.has = result.has /\ result'.text = result.text
              /\ answer' = "OK" /\ family' = family
        BY <1>1, <1>5, <4>1
      <4> QED  BY <4>1, <4>2 DEF OnShow
    <3> QED  BY <3>1, <3>2
  <2>3. ASSUME NEW ids \in Extensions(emitted), NEW given, ParakeetFinalize(ids, given)
        PROVE  /\ emitted' = ids /\ answer' = "OK" /\ family' = family
               /\ result.has => result'.has
               /\ OnShow' = OnShow \/ OnShow' = TextSoFar(ids)
    <3> DEFINE rebuild == ids # emitted \/ ~ result.has
    <3>1. /\ emitted' = ids /\ answer' = "OK" /\ family' = family
          /\ result' = IF rebuild THEN Rebuilt(ids)
                       ELSE [result EXCEPT !.ncommitted = Len(tokens)]
      BY <2>3 DEF ParakeetFinalize, FinalizeOk
    <3>2. CASE rebuild /\ ids # << >>
      BY <1>2, <2>1, <3>1, <3>2 DEF OnShow
    <3>3. CASE rebuild /\ ids = << >>
      <4>1. ~ result.has /\ result' = NoResult
        BY <1>4, <3>1, <3>3 DEF Rebuilt
      <4> QED  BY <3>1, <4>1 DEF OnShow, NoResult
    <3>4. CASE ~ rebuild
      <4>1. result' = [result EXCEPT !.ncommitted = Len(tokens)]
        BY <3>1, <3>4
      <4>2. result'.has = result.has /\ result'.text = result.text
        BY <1>1, <4>1 DEF Result
      <4> QED  BY <3>1, <4>2 DEF OnShow
    <3> QED  BY <3>2, <3>3, <3>4
  <2>4. ASSUME NEW hook \in {"ERR", "THROWN"}, NEW ids \in Extensions(emitted), NEW given,
               ParakeetFails(hook, ids, given)
        PROVE  /\ emitted' = ids /\ family' = family
               /\ UNCHANGED << result, view >> /\ state' # "FINISHED"
               /\ OnShow' = OnShow
    BY <2>4 DEF ParakeetFails, HookFails, OnShow
  <2>5. ~ ParakeetReset /\ \A p, n, hook : ~ ParakeetBegin(p, n, hook)
    BY DEF ParakeetReset, Reset, ParakeetBegin, Begin
  <2> QED  BY <1>2, <1>6, <2>2, <2>3, <2>4, <2>5 DEF ParakeetNext
<1>7. CASE family = "voxtral" /\ VoxtralNext
  <2>1. \A ids \in Hypotheses : /\ Published(ids) \in Result /\ Published(ids).has
                                /\ Published(ids).text = TextSoFar(ids)
    BY <1>1, <1>7, TextOfFact DEF Published, Result, TextSoFar
  <2>2. ASSUME NEW given, VoxtralBuffer(given)
        PROVE  /\ emitted' = emitted /\ answer' = "OK" /\ family' = family
               /\ result.has => result'.has
               /\ OnShow' = OnShow
    <3>1. FeedOk(result, 0, 0, FALSE, given) /\ emitted' = emitted
      BY <2>2 DEF VoxtralBuffer
    <3>2. result'.has = result.has /\ result'.text = result.text
            /\ answer' = "OK" /\ family' = family
      BY <1>1, <1>5, <3>1
    <3> QED  BY <3>1, <3>2 DEF OnShow
  <2>3. ASSUME NEW ids \in Extensions(emitted), NEW given, VoxtralDecode(ids, given)
        PROVE  /\ emitted' = ids /\ answer' = "OK" /\ family' = family
               /\ result'.has
               /\ OnShow' = TextSoFar(ids)
    <3>1. FeedOk(Published(ids), 0, 0, Published(ids).text # result.text, given)
            /\ emitted' = ids
      BY <2>3 DEF VoxtralDecode
    <3>2. Published(ids) \in Result /\ Published(ids).has
            /\ Published(ids).text = TextSoFar(ids)
      BY <1>2, <2>1
    <3>3. result'.has = Published(ids).has /\ result'.text = Published(ids).text
            /\ answer' = "OK" /\ family' = family
      BY <1>5, <3>1, <3>2
    <3> QED  BY <3>1, <3>2, <3>3 DEF OnShow
  <2>4. ASSUME NEW ids \in Extensions(emitted), NEW given, VoxtralFinalize(ids, given)
        PROVE  /\ emitted' = ids /\ answer' = "OK" /\ family' = family
               /\ result'.has
               /\ OnShow' = TextSoFar(ids)
    <3>1. result' = Published(ids) /\ emitted' = ids /\ answer' = "OK" /\ family' = family
      BY <2>4 DEF VoxtralFinalize, FinalizeOk
    <3> QED  BY <1>2, <2>1, <3>1 DEF OnShow
  <2>5. ASSUME NEW hook \in {"ERR", "THROWN"}, NEW ids \in Extensions(emitted), NEW given,
               VoxtralFails(hook, ids, given)
        PROVE  /\ emitted' = ids /\ family' = family
               /\ UNCHANGED << result, view >> /\ state' # "FINISHED"
               /\ OnShow' = OnShow
    BY <2>5 DEF VoxtralFails, HookFails, OnShow
  <2>6. ~ VoxtralReset /\ \A p, n, hook : ~ VoxtralBegin(p, n, hook)
    BY DEF VoxtralReset, Reset, VoxtralBegin, Begin
  <2> QED  BY <1>2, <1>3, <1>7, <2>2, <2>3, <2>4, <2>5, <2>6 DEF VoxtralNext
<1> QED  BY <1>6, <1>7 DEF FamiliesNext

\* So what was committed still starts what is on show, and that the text so far.
LEMMA AppenderAgrees ==
  ASSUME IInv, HooksTyped, AppendersKept, FamiliesNext, family # "moonshine",
         state = "ACTIVE", state' # "IDLE"
  PROVE  /\ IsPrefix(view.committed, OnShow')
         /\ IsPrefix(OnShow', TextSoFar(emitted'))
<1>1. /\ family \in Families /\ emitted \in Hypotheses
      /\ view.committed \in Text /\ OnShow \in Text
  BY EmptyPrefix DEF IInv, TypeOK, HooksTyped, View, Result, OnShow
<1>2. emitted' \in Hypotheses /\ IsPrefix(emitted, emitted')
        /\ (OnShow' = OnShow \/ OnShow' = TextSoFar(emitted'))
  BY AppenderShows
<1>3. TextSoFar(emitted) \in Text /\ TextSoFar(emitted') \in Text
        /\ IsPrefix(TextSoFar(emitted), TextSoFar(emitted'))
  BY <1>1, <1>2, TextSoFarFact
<1>4. IsPrefix(view.committed, OnShow) /\ IsPrefix(OnShow, TextSoFar(emitted))
  BY DEF AppendersKept
<1>5. IsPrefix(OnShow, TextSoFar(emitted'))
  BY <1>1, <1>3, <1>4, TextPrefixTrans
<1>6. IsPrefix(view.committed, TextSoFar(emitted'))
  BY <1>1, <1>3, <1>4, <1>5, TextPrefixTrans
<1>7. IsPrefix(TextSoFar(emitted'), TextSoFar(emitted'))
  BY <1>3, PrefixFact
<1> QED  BY <1>2, <1>4, <1>5, <1>6, <1>7

LEMMA AppendersStep ==
  ASSUME IInv, HooksTyped, AppendersKept, FinalIsWhole, FamiliesNext
  PROVE  AppendersKept' /\ FinalIsWhole'
<1>1. Next /\ IInv' /\ HooksTyped' /\ TypeOK' /\ family' = family
  <2>1. Next /\ IInv' /\ HooksTyped'
    BY FamiliesStep
  <2>2. family' = family
    BY <2>1 DEF Next, Begin, FeedOk, FinalizeOk, HookFails, Reset, Run, ClearText
  <2> QED  BY <2>1, <2>2 DEF IInv
<1>2. CASE family = "moonshine"
  BY <1>1, <1>2 DEF AppendersKept, FinalIsWhole
<1>3. CASE family # "moonshine" /\ state # "ACTIVE"
  <2>1. state' \in {"ACTIVE", "FAILED"} => result' = NoResult /\ view' = NoView
    BY <1>1, <1>3 DEF Next, Begin, FeedOk, FinalizeOk, HookFails, Reset, Run, ClearText
  <2>2. state' # "FINISHED"
    BY <1>1, <1>3 DEF Next, Begin, FeedOk, FinalizeOk, HookFails, Reset, Run
  <2>3. TextSoFar(emitted)' \in Text
    <3>1. family' \in Families /\ emitted' \in Hypotheses'
      BY <1>1 DEF TypeOK, HooksTyped
    <3>2. (family \in Families /\ emitted \in Hypotheses) => TextSoFar(emitted) \in Text
      BY TextSoFarFact
    <3>3. (family' \in Families /\ emitted' \in Hypotheses') => TextSoFar(emitted)' \in Text
      BY <1>1, TextSoFarFact DEF TextSoFar, Hypotheses, HypothesesOf
    <3> QED  BY <3>1, <3>3
  <2>4. AppendersKept'
    <3> SUFFICES ASSUME state' = "ACTIVE"
                 PROVE  IsPrefix(view'.committed, OnShow')
                          /\ IsPrefix(OnShow', TextSoFar(emitted)')
      BY DEF AppendersKept
    <3>1. OnShow' = << >> /\ view'.committed = << >>
      BY <2>1 DEF OnShow, NoResult, NoView
    <3> QED  BY <2>3, <3>1, EmptyPrefix
  <2> QED  BY <2>2, <2>4 DEF FinalIsWhole
<1>4. CASE family # "moonshine" /\ state = "ACTIVE" /\ state' = "IDLE"
  BY <1>4 DEF AppendersKept, FinalIsWhole
<1>5. CASE family # "moonshine" /\ state = "ACTIVE" /\ state' # "IDLE"
  <2>1. IsPrefix(view.committed, OnShow') /\ IsPrefix(OnShow', TextSoFar(emitted'))
    BY <1>5, AppenderAgrees
  <2>2. TextSoFar(emitted)' = TextSoFar(emitted')
    BY <1>1 DEF TextSoFar
  <2>3. CASE answer' # "OK"
    <3>1. UNCHANGED << result, view >> /\ state' # "FINISHED"
      BY <1>5, <2>3, AppenderShows
    <3> QED  BY <2>1, <2>2, <3>1 DEF AppendersKept, FinalIsWhole
  <2>4. ASSUME NEW stable \in 0 .. Len(result'.text), NEW bump, NEW said, NEW given,
               FeedOk(result', stable, bump, said, given)
        PROVE  AppendersKept' /\ FinalIsWhole'
    <3>1. result' \in Result
      BY <1>1 DEF Next
    <3>2. IsPrefix(view'.committed, OnShow')
      <4>1. CASE view'.committed = view.committed
        BY <2>1, <4>1
      <4>2. CASE view'.committed # view.committed
        <5>1. result'.has /\ IsPrefix(view'.committed, result'.text)
          BY <2>4, <3>1, <4>2, FeedCommits
        <5> QED  BY <5>1 DEF OnShow
      <4> QED  BY <4>1, <4>2
    <3>3. state' = "ACTIVE"
      BY <2>4 DEF FeedOk
    <3> QED  BY <2>1, <2>2, <3>2, <3>3 DEF AppendersKept, FinalIsWhole
  <2>5. ASSUME NEW bump, NEW said, NEW given, FinalizeOk(result', bump, said, given)
        PROVE  AppendersKept' /\ FinalIsWhole'
    <3>1. state' = "FINISHED"
            /\ view' = IF result'.has THEN FinalView(result') ELSE NoTentative
      BY <2>5 DEF FinalizeOk
    <3>2. result'.has => view'.committed = result'.text
      <4>1. result'.has => IsPrefix(view.committed, result'.text)
        BY <2>1 DEF OnShow
      <4> QED  BY <3>1, <4>1 DEF FinalView
    <3> QED  BY <3>1, <3>2 DEF AppendersKept, FinalIsWhole
  <2> QED  BY <1>1, <1>5, <2>3, <2>4, <2>5, GoodStep
<1> QED  BY <1>2, <1>3, <1>4, <1>5

LEMMA AppendersHold == FamiliesSpec => [](IInv /\ HooksTyped /\ AppendersKept /\ FinalIsWhole)
<1>1. FamiliesInit => IInv /\ HooksTyped /\ AppendersKept /\ FinalIsWhole
  BY FamiliesBegin DEF FamiliesInit, Init, AppendersKept, FinalIsWhole
<1>2. ASSUME IInv, HooksTyped, AppendersKept, FinalIsWhole, [FamiliesNext]_vars
      PROVE  IInv' /\ HooksTyped' /\ AppendersKept' /\ FinalIsWhole'
  <2>1. CASE FamiliesNext
    BY <1>2, <2>1, FamiliesStep, AppendersStep
  <2>2. CASE UNCHANGED vars
    <3>1. IInv' /\ HooksTyped'
      BY <1>2, <2>2, FamiliesStutter
    <3>2. AppendersKept' /\ FinalIsWhole'
      BY <1>2, <2>2 DEF vars, textVars, AppendersKept, OnShow, TextSoFar, FinalIsWhole
    <3> QED  BY <3>1, <3>2
  <2> QED  BY <1>2, <2>1, <2>2
<1> QED  BY <1>1, <1>2, PTL DEF FamiliesSpec

\* A finished stream of parakeet or voxtral has committed its final text, whole:
\* adding tokens never contradicts what was committed, and finalize leaves nothing
\* of it out (finalize_committed_text).
THEOREM FinalTextsAreWhole == FamiliesSpec => []FinalIsWhole
BY AppendersHold, PTL

\* What a caller of those families has read stays readable until begin or reset, also
\* when a hook fails (transcribe_stream_get_text).
THEOREM AppendersStayReadable == FamiliesSpec => AppendersReadable
<1>1. ASSUME IInv, HooksTyped, FamiliesNext, family # "moonshine" PROVE ReadableKept
  <2> SUFFICES ASSUME state = "ACTIVE", state' # "IDLE" PROVE IsPrefix(Readable, Readable')
    BY DEF ReadableKept
  <2>1. Next /\ IInv'
    BY <1>1, FamiliesStep
  <2>2. IsPrefix(view.committed, view'.committed)
    BY <1>1, <2>1, CommittedGrows
  <2>3. result.has => result'.has
    BY <1>1, AppenderShows
  <2>4. view'.committed \in Text
    BY <2>1 DEF IInv, TypeOK, View
  <2>5. Readable' = IF result'.has THEN view'.committed ELSE << >>
    BY DEF Readable
  <2> QED  BY <2>2, <2>3, <2>4, <2>5, EmptyPrefix DEF Readable
<1>2. IInv /\ HooksTyped /\ [FamiliesNext]_vars => [family # "moonshine" => ReadableKept]_vars
  BY <1>1
<1> QED  BY <1>2, FamiliesHold, PTL DEF FamiliesSpec, AppendersReadable
=============================================================================
