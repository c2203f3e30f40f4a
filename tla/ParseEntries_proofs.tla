------------------------ MODULE ParseEntries_proofs -------------------------
(***************************************************************************)
(* Proofs about the two readers of BLS entries in Parse, and about the     *)
(* entry that is written for one.  Both readers are taken line by line:    *)
(* what a function makes of each line of a text is what is read of it.     *)
(***************************************************************************)
EXTENDS Parse_proofs

-----------------------------------------------------------------------------
(* What is put together of what is made of the members of a sequence.      *)

\* One more in front of a sequence.
LEMMA OneInFront ==
    ASSUME NEW C, NEW x \in C, NEW s \in Seq(C)
    PROVE  /\ <<x>> \o s \in Seq(C) /\ Len(<<x>> \o s) = Len(s) + 1
           /\ (<<x>> \o s)[1] = x
           /\ \A i \in 1..Len(s) : (<<x>> \o s)[i + 1] = s[i]
  <1> DEFINE h == <<x>>
             u == h \o s
  <1>1. h \in Seq(C) /\ Len(h) = 1 /\ h[1] = x /\ Len(s) \in Nat
    OBVIOUS
  <1> HIDE DEF h
  <1>a. /\ h \o s \in Seq(C) /\ Len(h \o s) = Len(h) + Len(s)
        /\ \A i \in 1..Len(h) + Len(s) :
              (h \o s)[i] = IF i <= Len(h) THEN h[i] ELSE s[i - Len(h)]
    BY <1>1, ConcatProperties
  <1>2. /\ u \in Seq(C) /\ Len(u) = 1 + Len(s)
        /\ \A i \in 1..1 + Len(s) : u[i] = IF i <= 1 THEN h[i] ELSE s[i - 1]
    BY <1>1, <1>a DEF u
  <1> HIDE DEF u
  <1>3. ASSUME NEW i \in 1..Len(s) PROVE u[i + 1] = s[i]
    <2>1. i + 1 \in 1..1 + Len(s) /\ ~(i + 1 <= 1) /\ i + 1 - 1 = i
      BY <1>1
    <2> QED
      BY <1>2, <2>1
  <1>4. u[1] = x
    BY <1>1, <1>2
  <1> QED
    BY <1>1, <1>2, <1>3, <1>4 DEF u, h

\* What holds at a position whenever it holds at all earlier ones holds at all.
LEMMA FromTheStart ==
    ASSUME NEW n \in Nat, NEW G,
           \A i \in 1..n : (\A j \in 1..i - 1 : j \in G) => i \in G
    PROVE  \A i \in 1..n : i \in G
  <1> DEFINE T == {i \in 1..n : i \notin G}
  <1> SUFFICES ASSUME T # {} PROVE FALSE
    OBVIOUS
  <1>1. PICK x \in T : \A y \in T : x <= y
    <2>1. T \subseteq Nat
      OBVIOUS
    <2> HIDE DEF T
    <2> QED
      BY <2>1, LeastNat
  <1>2. \A j \in 1..x - 1 : j \in G
    BY <1>1
  <1> QED
    BY <1>2

\* The function FlattenSeq is defined by.
FlattenFrom(s) ==
    CHOOSE f : f = [i \in 1..Len(s) |-> IF i = 1 THEN s[i] ELSE f[i - 1] \o s[i]]

FlattenTurns(f, s, B) ==
    /\ f[1] = s[1]
    /\ \A i \in 2..Len(s) : f[i] = f[i - 1] \o s[i]
    /\ \A i \in 1..Len(s) : f[i] \in Seq(B)

\* Putting sequences together is one turn after the other.
LEMMA FlattenLoop ==
    ASSUME NEW B, NEW s \in Seq(Seq(B)), Len(s) # 0
    PROVE  FlattenTurns(FlattenFrom(s), s, B) /\ FlattenSeq(s) = FlattenFrom(s)[Len(s)]
  <1> DEFINE n    == Len(s)
             V    == Seq(B)
             next == [k \in 1..n |-> IF k = n THEN n ELSE k + 1]
             step == [k \in 1..n |-> [v \in V |-> v \o s[n + 1 - k]]]
  <1>0. n \in Nat \ {0} /\ \A i \in 1..n : s[i] \in V
    <2>1. n \in Nat
      BY LenProperties
    <2> QED
      BY <2>1, ElementOfSeq
  <1>1. step \in [1..n -> [V -> V]]
    <2>1. ASSUME NEW k \in 1..n, NEW v \in V PROVE v \o s[n + 1 - k] \in V
      <3>1. s[n + 1 - k] \in Seq(B)
        BY <1>0
      <3> QED
        BY <3>1, ConcatProperties
    <2> HIDE DEF V, n
    <2> QED
      BY <2>1
  <1>2. next \in [1..n -> 1..n] /\ \A i \in 1..n - 1 : next[i] > i
    BY <1>0
  <1>3. s[1] \in V
    BY <1>0
  <1>4. PICK g : GoesOn(g, n, V, s[1], next, step)
    <2> HIDE DEF V, step, next, n
    <2> QED
      BY <1>0, <1>1, <1>2, <1>3, GoesOnExists
  <1>5. /\ g \in [1..n -> V] /\ g[n] = s[1]
        /\ \A k \in 1..n - 1 : g[k] = g[k + 1] \o s[n + 1 - k]
    <2>1. ASSUME NEW k \in 1..n - 1 PROVE g[k] = g[k + 1] \o s[n + 1 - k]
      <3>1. k \in 1..n /\ k + 1 \in 1..n /\ next[k] = k + 1
        BY <1>0
      <3>2. g[k] = step[k][g[k + 1]] /\ g[k + 1] \in V
        BY <1>4, <3>1 DEF GoesOn
      <3> HIDE DEF V, n
      <3> QED
        BY <3>1, <3>2
    <2> QED
      BY <1>4, <2>1 DEF GoesOn
  <1> DEFINE f == [i \in 1..n |-> g[n + 1 - i]]
  <1> HIDE DEF V, next, step
  <1>6. /\ f[1] = s[1]
        /\ \A i \in 2..n : f[i] = f[i - 1] \o s[i]
        /\ \A i \in 1..n : f[i] \in V
    <2>1. ASSUME NEW i \in 2..n PROVE f[i] = f[i - 1] \o s[i]
      <3>1. n + 1 - i \in 1..n - 1 /\ (n + 1 - i) + 1 = n + 1 - (i - 1) /\ n + 1 - (n + 1 - i) = i
            /\ i \in 1..n /\ i - 1 \in 1..n
        BY <1>0
      <3>2. g[n + 1 - i] = g[n + 1 - (i - 1)] \o s[i]
        BY <1>5, <3>1
      <3> HIDE DEF n
      <3> QED
        BY <3>1, <3>2
    <2> HIDE DEF n
    <2>2. n + 1 - 1 = n /\ 1 \in 1..n
      BY <1>0
    <2>3. f[1] = s[1]
      BY <1>5, <2>2
    <2>4. ASSUME NEW i \in 1..n PROVE f[i] \in V
      <3>1. n + 1 - i \in 1..n
        BY <1>0
      <3> QED
        BY <1>5, <3>1
    <2> QED
      BY <2>1, <2>3, <2>4
  <1>7. f = [i \in 1..n |-> IF i = 1 THEN s[i] ELSE f[i - 1] \o s[i]]
    <2>1. ASSUME NEW i \in 1..n PROVE f[i] = IF i = 1 THEN s[i] ELSE f[i - 1] \o s[i]
      <3>1. i = 1 \/ i \in 2..n
        BY <1>0
      <3> HIDE DEF f, n
      <3> QED
        BY <1>6, <3>1
    <2>2. f = [i \in 1..n |-> f[i]]
      OBVIOUS
    <2> HIDE DEF f, n
    <2> QED
      BY <2>1, <2>2
  <1>8. FlattenFrom(s) = [i \in 1..n |-> IF i = 1 THEN s[i] ELSE FlattenFrom(s)[i - 1] \o s[i]]
    <2> HIDE DEF f
    <2> QED
      BY <1>7, Zenon DEF FlattenFrom
  <1> DEFINE h == FlattenFrom(s)
  <1> HIDE DEF f, h
  <1>9. \A i \in 1..n : h[i] = IF i = 1 THEN s[i] ELSE h[i - 1] \o s[i]
    BY <1>8 DEF h
  <1>10. ASSUME NEW i \in 2..n PROVE h[i] = h[i - 1] \o s[i]
    <2>1. i \in 1..n /\ i # 1
      BY <1>0
    <2> QED
      BY <1>9, <2>1
  <1>11. h[1] = s[1]
    BY <1>0, <1>9
  <1>12. \A i \in 1..n : h[i] \in V
    <2> DEFINE G == {i \in 1..n : h[i] \in V}
    <2>1. ASSUME NEW i \in 1..n, \A j \in 1..i - 1 : j \in G PROVE i \in G
      <3>1. CASE i = 1
        BY <1>3, <1>11, <3>1
      <3>2. CASE i # 1
        <4>1. i \in 2..n /\ i - 1 \in 1..i - 1
          BY <1>0, <3>2
        <4>2. h[i - 1] \in Seq(B) /\ s[i] \in Seq(B)
          BY <1>0, <2>1, <4>1 DEF V
        <4>3. h[i - 1] \o s[i] \in Seq(B)
          BY <4>2, ConcatProperties
        <4> QED
          BY <1>10, <4>1, <4>3 DEF V
      <3> QED
        BY <3>1, <3>2
    <2> HIDE DEF G
    <2>2. \A i \in 1..n : i \in G
      BY <1>0, <2>1, FromTheStart
    <2> QED
      BY <2>2 DEF G
  <1>13. FlattenTurns(h, s, B)
    BY <1>10, <1>11, <1>12, Zenon DEF FlattenTurns, V, n
  <1>14. FlattenSeq(s) = h[Len(s)]
    BY Zenon DEF FlattenSeq, FlattenFrom, h
  <1> QED
    BY <1>13, <1>14, Zenon DEF h

\* Flattening nothing gives nothing, and what is first comes first.
LEMMA FlattenIs ==
    ASSUME NEW B, NEW x \in Seq(B), NEW s \in Seq(Seq(B))
    PROVE  /\ FlattenSeq(s) \in Seq(B)
           /\ s = <<>> => FlattenSeq(s) = <<>>
           /\ FlattenSeq(<<x>> \o s) = x \o FlattenSeq(s)
  <1> DEFINE u == <<x>> \o s
             n == Len(s)
             f == FlattenFrom(u)
             g == FlattenFrom(s)
  <1>0. n \in Nat
    BY LenProperties
  <1>1. s = <<>> => FlattenSeq(s) = <<>>
    <2>1. Len(<<>>) = 0
      OBVIOUS
    <2> QED
      BY <2>1, Zenon DEF FlattenSeq
  <1>2. n = 0 => s = <<>>
    BY EmptySeq
  <1>3. FlattenSeq(s) \in Seq(B)
    <2>1. CASE n = 0
      <3>1. <<>> \in Seq(B)
        OBVIOUS
      <3> QED
        BY <1>1, <1>2, <2>1, <3>1
    <2>2. CASE n # 0
      <3>1. FlattenTurns(g, s, B) /\ FlattenSeq(s) = g[n]
        BY <2>2, FlattenLoop
      <3>2. n \in 1..n
        BY <1>0, <2>2
      <3> QED
        BY <3>1, <3>2 DEF FlattenTurns
    <2> QED
      BY <2>1, <2>2
  <1>4. /\ u \in Seq(Seq(B)) /\ Len(u) = n + 1 /\ u[1] = x
        /\ \A i \in 1..n : u[i + 1] = s[i]
    <2> DEFINE C == Seq(B)
    <2>1. x \in C /\ s \in Seq(C)
      OBVIOUS
    <2> HIDE DEF C
    <2>2. /\ <<x>> \o s \in Seq(C) /\ Len(<<x>> \o s) = Len(s) + 1
          /\ (<<x>> \o s)[1] = x
          /\ \A i \in 1..Len(s) : (<<x>> \o s)[i + 1] = s[i]
      BY <2>1, OneInFront
    <2> QED
      BY <2>2 DEF C
  <1> HIDE DEF u
  <1>5. FlattenTurns(f, u, B) /\ FlattenSeq(u) = f[n + 1]
    <2>1. Len(u) # 0
      BY <1>0, <1>4
    <2>2. FlattenTurns(f, u, B) /\ FlattenSeq(u) = f[Len(u)]
      BY <1>4, <2>1, FlattenLoop
    <2> QED
      BY <1>4, <2>2
  <1>6. f[1] = x
    BY <1>4, <1>5 DEF FlattenTurns
  <1>7. CASE n = 0
    <2>1. FlattenSeq(s) = <<>>
      BY <1>1, <1>2, <1>7
    <2>2. x \o <<>> = x
      BY ConcatEmptySeq
    <2>3. n + 1 = 1
      BY <1>7
    <2> QED
      BY <1>5, <1>6, <1>3, <1>1, <2>1, <2>2, <2>3 DEF u
  <1>8. CASE n # 0
    <2>1. FlattenTurns(g, s, B) /\ FlattenSeq(s) = g[n]
      BY <1>8, FlattenLoop
    <2> HIDE DEF f, g
    <2> DEFINE G == {i \in 1..n : f[i + 1] = x \o g[i]}
    <2>2. ASSUME NEW i \in 1..n, \A j \in 1..i - 1 : j \in G PROVE i \in G
      <3>1. f[i + 1] = f[i] \o s[i]
        <4> DEFINE k == i + 1
        <4>1. k \in 2..Len(u) /\ k - 1 = i
          BY <1>0, <1>4
        <4>2. u[k] = s[i]
          BY <1>4
        <4> HIDE DEF k, G, n
        <4>3. f[k] = f[k - 1] \o u[k]
          BY <1>5, <4>1 DEF FlattenTurns
        <4>4. f[k] = f[i] \o s[i]
          BY <4>1, <4>2, <4>3
        <4> QED
          BY <4>4 DEF k
      <3>2. CASE i = 1
        BY <1>6, <2>1, <3>1, <3>2 DEF FlattenTurns
      <3>3. CASE i # 1
        <4>1. i - 1 \in 1..i - 1 /\ i - 1 \in 1..n /\ i \in 2..n /\ (i - 1) + 1 = i
          BY <1>0, <3>3
        <4>2. f[i] = x \o g[i - 1]
          BY <2>2, <4>1
        <4>3. g[i - 1] \in Seq(B) /\ g[i] = g[i - 1] \o s[i] /\ s[i] \in Seq(B)
          BY <2>1, <4>1, ElementOfSeq DEF FlattenTurns
        <4>4. (x \o g[i - 1]) \o s[i] = x \o (g[i - 1] \o s[i])
          <5>1. Regroups(B)
            BY Associative
          <5> QED
            BY <4>3, <5>1, Zenon DEF Regroups
        <4> QED
          BY <3>1, <4>2, <4>3, <4>4
      <3> QED
        BY <3>2, <3>3
    <2> HIDE DEF G
    <2>3. \A i \in 1..n : i \in G
      BY <1>0, <2>2, FromTheStart
    <2>4. f[n + 1] = x \o g[n]
      <3>1. n \in 1..n
        BY <1>0, <1>8
      <3> QED
        BY <2>3, <3>1 DEF G
    <2> QED
      BY <1>1, <1>3, <1>5, <2>1, <2>4 DEF u
  <1> QED
    BY <1>7, <1>8

\* A function on the first numbers is a sequence.
LEMMA IsSequence ==
    ASSUME NEW C, NEW n \in Nat, NEW m \in [1..n -> C]
    PROVE  m \in Seq(C) /\ Len(m) = n /\ DOMAIN m = 1..n
  OBVIOUS

\* What a function makes of the members of a sequence, one after the other.
Chosen(c, s) == FlattenSeq([i \in DOMAIN s |-> c[s[i]]])

ChosenTurns(c, x, s, B) ==
    /\ Chosen(c, s) \in Seq(B)
    /\ s = <<>> => Chosen(c, s) = <<>>
    /\ Chosen(c, <<x>> \o s) = c[x] \o Chosen(c, s)

\* One more member in front, and what is made of it is in front.
LEMMA ChosenIs ==
    ASSUME NEW X, NEW B, NEW c \in [X -> Seq(B)], NEW x \in X, NEW s \in Seq(X)
    PROVE  ChosenTurns(c, x, s, B)
  <1> DEFINE C == Seq(B)
             u == <<x>> \o s
             m == [i \in DOMAIN s |-> c[s[i]]]
             w == [i \in DOMAIN u |-> c[u[i]]]
  <1>1. /\ u \in Seq(X) /\ Len(u) = Len(s) + 1 /\ u[1] = x
        /\ \A i \in 1..Len(s) : u[i + 1] = s[i]
    BY OneInFront
  <1>2. /\ Len(s) \in Nat /\ DOMAIN s = 1..Len(s) /\ DOMAIN u = 1..Len(u)
        /\ \A i \in 1..Len(s) : s[i] \in X
        /\ \A i \in 1..Len(u) : u[i] \in X
    <2>1. Len(s) \in Nat /\ DOMAIN s = 1..Len(s) /\ \A i \in 1..Len(s) : s[i] \in X
      BY LenProperties, ElementOfSeq
    <2>2. DOMAIN u = 1..Len(u) /\ \A i \in 1..Len(u) : u[i] \in X
      <3> HIDE DEF u
      <3> QED
        BY <1>1, LenProperties, ElementOfSeq
    <2> QED
      BY <2>1, <2>2
  <1> HIDE DEF u, C
  <1>3. /\ m \in Seq(C) /\ Len(m) = Len(s)
        /\ \A i \in 1..Len(s) : m[i] = c[s[i]]
    <2>1. m \in [1..Len(s) -> C]
      BY <1>2 DEF C
    <2>2. \A i \in 1..Len(s) : m[i] = c[s[i]]
      BY <1>2
    <2> HIDE DEF m
    <2>3. m \in Seq(C) /\ Len(m) = Len(s)
      BY <1>2, <2>1, IsSequence, Zenon
    <2> QED
      BY <2>2, <2>3, Zenon
  <1>4. /\ w \in Seq(C) /\ Len(w) = Len(u)
        /\ \A i \in 1..Len(u) : w[i] = c[u[i]]
    <2>1. w \in [1..Len(u) -> C]
      BY <1>2 DEF C
    <2>2. \A i \in 1..Len(u) : w[i] = c[u[i]]
      BY <1>2
    <2>3. Len(u) \in Nat
      BY <1>1, <1>2
    <2> HIDE DEF w
    <2>4. w \in Seq(C) /\ Len(w) = Len(u)
      BY <2>1, <2>3, IsSequence, Zenon
    <2> QED
      BY <2>2, <2>4, Zenon
  <1> HIDE DEF m, w
  <1>5. c[x] \in C
    BY DEF C
  <1>6. w = <<c[x]>> \o m
    <2> DEFINE y == c[x]
               v == <<y>> \o m
    <2> HIDE DEF y
    <2>1. /\ v \in Seq(C) /\ Len(v) = Len(m) + 1 /\ v[1] = y
          /\ \A i \in 1..Len(m) : v[i + 1] = m[i]
      BY <1>3, <1>5, OneInFront DEF y
    <2> HIDE DEF v
    <2>2. ASSUME NEW i \in 1..Len(w) PROVE w[i] = v[i]
      <3>1. CASE i = 1
        BY <1>1, <1>4, <2>1, <3>1 DEF y
      <3>2. CASE i # 1
        <4> DEFINE k == i - 1
        <4>1. k \in 1..Len(s) /\ i = k + 1
          BY <1>1, <1>2, <1>4, <3>2
        <4> HIDE DEF k
        <4>2. w[k + 1] = c[u[k + 1]]
          BY <1>1, <1>2, <1>4, <4>1
        <4>3. u[k + 1] = s[k] /\ v[k + 1] = m[k] /\ m[k] = c[s[k]]
          BY <1>1, <1>3, <2>1, <4>1
        <4> QED
          BY <4>1, <4>2, <4>3
      <3> QED
        BY <3>1, <3>2
    <2>3. w = v
      <3>1. Len(w) = Len(v)
        BY <1>1, <1>3, <1>4, <2>1
      <3> QED
        BY <1>4, <2>1, <2>2, <3>1, SeqEqual
    <2> QED
      BY <2>3 DEF v, y
  <1>7. /\ FlattenSeq(m) \in Seq(B)
        /\ m = <<>> => FlattenSeq(m) = <<>>
        /\ FlattenSeq(<<c[x]>> \o m) = c[x] \o FlattenSeq(m)
    BY <1>3, <1>5, FlattenIs, Zenon DEF C
  <1>8. s = <<>> => m = <<>>
    <2>1. s = <<>> => Len(m) = 0
      BY <1>3
    <2> QED
      BY <1>3, <2>1, EmptySeq
  <1>9. Chosen(c, s) = FlattenSeq(m) /\ Chosen(c, u) = FlattenSeq(w)
    BY Zenon DEF Chosen, m, w
  <1> QED
    BY <1>6, <1>7, <1>8, <1>9, Zenon DEF u, ChosenTurns

-----------------------------------------------------------------------------
(* Trimming, and the value of a line that is trimmed.                      *)

\* The first symbol that is not skipped is where Past stops.
LEMMA FirstOther ==
    ASSUME NEW A, NEW t \in Seq(A), NEW S, NEW i \in 1..Len(t) + 1, NEW k \in i..Len(t) + 1,
           k <= Len(t) => t[k] \notin S, \A j \in i..k - 1 : t[j] \in S
    PROVE  Past(t, i, S) = k
  <1> DEFINE u == Past(t, i, S)
  <1>0. Len(t) \in Nat
    BY LenProperties
  <1>1. /\ u \in i..Len(t) + 1
        /\ u <= Len(t) => t[u] \notin S
        /\ \A j \in i..u - 1 : t[j] \in S
    BY <1>0, PastIs
  <1> HIDE DEF u
  <1>2. ~(u > k)
    <2>1. ASSUME u > k PROVE FALSE
      <3>1. k \in i..u - 1 /\ k <= Len(t)
        BY <1>0, <1>1, <2>1
      <3> QED
        BY <1>1, <3>1
    <2> QED
      BY <2>1
  <1>3. ~(u < k)
    <2>1. ASSUME u < k PROVE FALSE
      <3>1. u \in i..k - 1 /\ u <= Len(t)
        BY <1>0, <1>1, <2>1
      <3> QED
        BY <1>1, <3>1
    <2> QED
      BY <2>1
  <1>4. u = k
    BY <1>0, <1>1, <1>2, <1>3
  <1> QED
    BY <1>4 DEF u

\* The end of a part is trimmed behind its last symbol that is not of S.
LEMMA TrimEndIs ==
    ASSUME NEW A, NEW t \in Seq(A), NEW S, NEW p \in 1..Len(t) + 1, NEW q \in p - 1..Len(t)
    PROVE  /\ \A b \in p..q : t[b] \notin S /\ (\A j \in b + 1..q : t[j] \in S) =>
                              TrimEnd(t, p, q, S) = SubSeq(t, p, b)
           /\ (\A j \in p..q : t[j] \in S) => TrimEnd(t, p, q, S) = <<>>
  <1> DEFINE T == {k \in p..q : t[k] \notin S} \cup {p - 1}
  <1>0. Len(t) \in Nat /\ p \in Nat /\ q \in Int /\ p - 1 \in 0..Len(t)
    BY LenProperties
  <1>1. T \subseteq 0..Len(t) /\ T # {}
    BY <1>0
  <1>2. Max(T) \in T /\ \A y \in T : Max(T) >= y
    <2> HIDE DEF T
    <2> QED
      BY <1>0, <1>1, MaxIsGreatest
  <1>3. TrimEnd(t, p, q, S) = SubSeq(t, p, Max(T))
    BY DEF TrimEnd
  <1> DEFINE x == Max(T)
  <1>4. /\ x = p - 1 \/ (x \in p..q /\ t[x] \notin S)
        /\ \A y \in p..q : t[y] \notin S => x >= y
    BY <1>2
  <1> HIDE DEF x, T
  <1>5. ASSUME NEW b \in p..q, t[b] \notin S, \A j \in b + 1..q : t[j] \in S
        PROVE  x = b
    <2>1. x >= b /\ x \in p..q /\ t[x] \notin S
      BY <1>0, <1>4, <1>5
    <2>2. ~(x > b)
      BY <1>0, <1>5, <2>1
    <2> QED
      BY <1>0, <2>1, <2>2
  <1>6. ASSUME \A j \in p..q : t[j] \in S
        PROVE  SubSeq(t, p, x) = <<>>
    <2>1. x = p - 1
      BY <1>4, <1>6
    <2>2. p \in Int /\ x \in Int /\ x < p
      BY <1>0, <2>1
    <2> QED
      BY <2>2, SubSeqEmpty
  <1> QED
    BY <1>3, <1>5, <1>6 DEF x

\* A part of a text, its length and its symbols.
LEMMA PartIs ==
    ASSUME NEW A, NEW t \in Seq(A), NEW i \in 1..Len(t) + 1, NEW q \in i - 1..Len(t)
    PROVE  /\ SubSeq(t, i, q) \in Seq(A) /\ Len(SubSeq(t, i, q)) = q - i + 1
           /\ \A j \in 1..q - i + 1 : SubSeq(t, i, q)[j] = t[i + j - 1]
  <1>0. Len(t) \in Nat /\ i \in Int /\ q \in Int /\ (i <= q \/ q - i + 1 = 0)
    BY LenProperties
  <1>1. \A j \in i..q : t[j] \in A
    <2>1. \A j \in i..q : j \in 1..Len(t)
      BY <1>0
    <2> QED
      BY <2>1, ElementOfSeq
  <1>2. /\ SubSeq(t, i, q) \in Seq(A)
        /\ Len(SubSeq(t, i, q)) = IF i <= q THEN q - i + 1 ELSE 0
        /\ \A j \in 1..q - i + 1 : SubSeq(t, i, q)[j] = t[i + j - 1]
    BY <1>0, <1>1, SubSeqProperties
  <1> QED
    BY <1>0, <1>2

\* The first and the last symbol that are not of S lie at a and at b.
Inked(t, S, i, q, a, b) ==
    /\ a \in i..q /\ b \in a..q /\ t[a] \notin S /\ t[b] \notin S
    /\ \A j \in i..a - 1 : t[j] \in S
    /\ \A j \in b + 1..q : t[j] \in S

\* A part of a text is trimmed to what lies between them.
LEMMA TrimmedIs ==
    ASSUME NEW A, NEW t \in Seq(A), NEW S, NEW i \in 1..Len(t) + 1, NEW q \in i - 1..Len(t)
    PROVE  /\ \A a, b : Inked(t, S, i, q, a, b) => Trim(SubSeq(t, i, q), S) = SubSeq(t, a, b)
           /\ (\A j \in i..q : t[j] \in S) => Trim(SubSeq(t, i, q), S) = <<>>
  <1> DEFINE x == SubSeq(t, i, q)
             m == q - i + 1
  <1>0. Len(t) \in Nat /\ i \in Nat /\ q \in Int /\ m \in Nat
    BY LenProperties
  <1>1. x \in Seq(A) /\ Len(x) = m /\ \A j \in 1..m : x[j] = t[i + j - 1]
    BY PartIs
  <1>2. ASSUME NEW a, NEW b, Inked(t, S, i, q, a, b)
        PROVE  Trim(x, S) = SubSeq(t, a, b)
    <2> DEFINE p == a - i + 1
               r == b - i + 1
    <2>0. /\ a \in i..q /\ b \in a..q /\ t[a] \notin S /\ t[b] \notin S
          /\ \A j \in i..a - 1 : t[j] \in S
          /\ \A j \in b + 1..q : t[j] \in S
      BY <1>2 DEF Inked
    <2>1. /\ p \in 1..m /\ r \in p..m /\ i + p - 1 = a /\ i + r - 1 = b
          /\ a \in Int /\ b \in Int
      BY <1>0, <2>0
    <2> HIDE DEF x
    <2>2. x[p] \notin S /\ x[r] \notin S
      BY <1>0, <1>1, <2>0, <2>1
    <2>3. ASSUME NEW j \in 1..p - 1 PROVE x[j] \in S
      <3>1. j \in 1..m /\ i + j - 1 \in i..a - 1
        BY <1>0, <2>0
      <3> QED
        BY <1>1, <2>0, <3>1
    <2>4. ASSUME NEW j \in r + 1..m PROVE x[j] \in S
      <3>1. j \in 1..m /\ i + j - 1 \in b + 1..q
        BY <1>0, <2>0
      <3> QED
        BY <1>1, <2>0, <3>1
    <2> HIDE DEF p, r, m
    <2>5. Past(x, 1, S) = p
      <3>1. 1 \in 1..Len(x) + 1 /\ p \in 1..Len(x) + 1
        BY <1>0, <1>1, <2>1
      <3> QED
        BY <1>1, <2>2, <2>3, <3>1, FirstOther
    <2>6. TrimEnd(x, p, m, S) = SubSeq(x, p, r)
      <3>1. p \in 1..Len(x) + 1 /\ m \in p - 1..Len(x)
        BY <1>0, <1>1, <2>1
      <3>2. x \in Seq(A) /\ r \in p..m /\ x[r] \notin S /\ \A j \in r + 1..m : x[j] \in S
        BY <1>1, <2>1, <2>2, <2>4
      <3> QED
        BY <3>1, <3>2, TrimEndIs, Zenon
    <2>7. SubSeq(x, p, r) = SubSeq(t, a, b)
      <3>1. /\ i \in 1..Len(t) /\ q \in 1..Len(t) /\ p \in 1..q - i + 1 /\ r \in 1..q - i + 1
        BY <1>0, <2>0, <2>1 DEF m
      <3>2. SubSeq(SubSeq(t, i, q), p, r) = SubSeq(t, i + p - 1, i + r - 1)
        BY <3>1, SubSeqOfSubSeq
      <3> QED
        BY <2>1, <3>2 DEF x
    <2> QED
      BY <1>1, <2>5, <2>6, <2>7 DEF Trim
  <1>3. ASSUME \A j \in i..q : t[j] \in S
        PROVE  Trim(x, S) = <<>>
    <2> HIDE DEF x
    <2>1. ASSUME NEW j \in 1..m PROVE x[j] \in S
      <3>1. i + j - 1 \in i..q
        BY <1>0
      <3> QED
        BY <1>1, <1>3, <3>1
    <2> HIDE DEF m
    <2>2. Past(x, 1, S) = m + 1
      <3>1. 1 \in 1..Len(x) + 1 /\ m + 1 \in 1..Len(x) + 1 /\ ~(m + 1 <= Len(x)) /\ m + 1 - 1 = m
        BY <1>0, <1>1
      <3>2. ASSUME NEW j \in 1..(m + 1) - 1 PROVE x[j] \in S
        <4>1. j \in 1..m
          BY <1>0
        <4> QED
          BY <2>1, <4>1
      <3> QED
        BY <1>1, <3>1, <3>2, FirstOther
    <2>3. TrimEnd(x, m + 1, m, S) = <<>>
      <3>1. m + 1 \in 1..Len(x) + 1 /\ m \in (m + 1) - 1..Len(x) /\ \A j \in m + 1..m : x[j] \in S
        BY <1>0, <1>1
      <3> QED
        BY <1>1, <3>1, TrimEndIs
    <2> QED
      BY <1>1, <2>2, <2>3 DEF Trim
  <1> QED
    BY <1>2, <1>3

\* The value of a trimmed line of a BLS entry that has the key and a value.
TrimmedValue(y, k, S, W, hash) ==
    LET v == Past(y, Upto(y, 1, S), W)
    IN  IF /\ y # <<>> /\ y[1] # hash
           /\ SubSeq(y, 1, Upto(y, 1, S) - 1) = <<k>>
           /\ SubSeq(y, v, Len(y)) # <<>>
        THEN <<SubSeq(y, v, Len(y))>> ELSE <<>>

\* A line has the key when it begins with it and ends there, or goes on with a blank.
LEMMA KeyIs ==
    ASSUME NEW A, NEW y \in Seq(A), y # <<>>, NEW S, NEW k, k \notin S
    PROVE  /\ SubSeq(y, 1, Upto(y, 1, S) - 1) = <<k>> <=>
                  y[1] = k /\ (Len(y) = 1 \/ y[2] \in S)
           /\ y[1] = k /\ (Len(y) = 1 \/ y[2] \in S) => Upto(y, 1, S) = 2
  <1> DEFINE m == Len(y)
             u == Upto(y, 1, S)
             h == SubSeq(y, 1, u - 1)
             e == <<k>>
  <1>0. m \in Nat \ {0}
    BY EmptySeq, LenProperties
  <1>1. /\ u \in 1..m + 1
        /\ u <= m => y[u] \in S
        /\ \A j \in 1..u - 1 : y[j] \notin S
    <2>1. 1 \in 1..Len(y) + 1
      BY <1>0
    <2> QED
      BY <2>1, UptoIs
  <1> HIDE DEF u
  <1>2. h \in Seq(A) /\ Len(h) = u - 1 /\ \A j \in 1..u - 1 : h[j] = y[j]
    <2>1. 1 \in 1..Len(y) + 1 /\ u - 1 \in 1 - 1..Len(y) /\ (u - 1) - 1 + 1 = u - 1
          /\ \A j \in Int : 1 + j - 1 = j
      BY <1>0, <1>1
    <2> DEFINE w == u - 1
    <2>2. w \in 1 - 1..Len(y) /\ w - 1 + 1 = w /\ w \in Int
      BY <1>0, <1>1
    <2> HIDE DEF w
    <2>3. /\ SubSeq(y, 1, w) \in Seq(A) /\ Len(SubSeq(y, 1, w)) = w - 1 + 1
          /\ \A j \in 1..w - 1 + 1 : SubSeq(y, 1, w)[j] = y[1 + j - 1]
      BY <2>1, <2>2, PartIs
    <2>4. ASSUME NEW j \in 1..w PROVE SubSeq(y, 1, w)[j] = y[j]
      BY <2>2, <2>3
    <2>5. SubSeq(y, 1, w) \in Seq(A) /\ Len(SubSeq(y, 1, w)) = w
      BY <2>2, <2>3
    <2> QED
      BY <2>4, <2>5 DEF w
  <1> HIDE DEF h
  <1>3. Len(e) = 1 /\ e[1] = k
    OBVIOUS
  <1> HIDE DEF e, m
  <1>4. ASSUME h = e PROVE y[1] = k /\ (m = 1 \/ y[2] \in S)
    <2>1. u = 2
      <3>1. Len(h) = 1
        BY <1>3, <1>4, Zenon
      <3>2. Len(h) = u - 1
        BY <1>2, Zenon
      <3>3. u - 1 = 1
        BY <3>1, <3>2, Zenon
      <3>4. u \in Int
        BY <1>0, <1>1
      <3> QED
        BY <3>3, <3>4
    <2>2. y[1] = k
      BY <1>2, <1>3, <1>4, <2>1
    <2>3. m = 1 \/ y[2] \in S
      BY <1>0, <1>1, <2>1
    <2> QED
      BY <2>2, <2>3
  <1>5. ASSUME y[1] = k, m = 1 \/ y[2] \in S PROVE u = 2 /\ h = e
    <2>1. u # 1
      BY <1>0, <1>1, <1>5
    <2>2. u = 2
      <3>1. CASE m = 1
        BY <1>1, <2>1, <3>1
      <3>2. CASE y[2] \in S
        <4>1. ~(2 \in 1..u - 1)
          BY <1>1, <3>2
        <4> QED
          BY <1>0, <1>1, <2>1, <4>1
      <3> QED
        BY <1>5, <3>1, <3>2
    <2>3. Len(h) = 1 /\ h[1] = k /\ h \in Seq(A)
      BY <1>2, <1>5, <2>2
    <2>4. h = e
      <3>1. \A j \in 1..1 : h[j] = e[j]
        BY <1>3, <2>3
      <3>2. k \in A
        BY <1>0, <1>5, ElementOfSeq DEF m
      <3>3. e \in Seq(A)
        BY <3>2 DEF e
      <3> QED
        BY <1>3, <2>3, <3>1, <3>3, SeqEqual
    <2> QED
      BY <2>2, <2>4
  <1> QED
    BY <1>4, <1>5 DEF m, u, h, e

\* The value is what follows the blanks behind the key.
LEMMA TrimmedValueIs ==
    ASSUME NEW A, NEW y \in Seq(A), y # <<>>, NEW S, NEW W, S \subseteq W, NEW k, k \notin W,
           NEW hash, k # hash, y[Len(y)] \notin W
    PROVE  LET v == Past(y, 2, W)
               P == 2 <= Len(y) /\ y[1] = k /\ y[2] \in S
           IN  /\ P => /\ v \in 3..Len(y)
                       /\ TrimmedValue(y, k, S, W, hash) = <<SubSeq(y, v, Len(y))>>
               /\ ~P => TrimmedValue(y, k, S, W, hash) = <<>>
  <1> DEFINE m == Len(y)
             u == Upto(y, 1, S)
             v == Past(y, 2, W)
             x == SubSeq(y, v, m)
             K == SubSeq(y, 1, u - 1) = <<k>>
             P == 2 <= m /\ y[1] = k /\ y[2] \in S
  <1>0. m \in Nat \ {0}
    BY EmptySeq, LenProperties
  <1>1. /\ K <=> y[1] = k /\ (m = 1 \/ y[2] \in S)
        /\ K => u = 2
    <2>1. k \notin S
      OBVIOUS
    <2>2. /\ K <=> y[1] = k /\ (m = 1 \/ y[2] \in S)
          /\ y[1] = k /\ (m = 1 \/ y[2] \in S) => u = 2
      BY <2>1, KeyIs, Zenon
    <2> HIDE DEF K, u, m
    <2> QED
      BY <2>2
  <1>2. /\ v \in 2..m + 1
        /\ v <= m => y[v] \notin W
        /\ \A j \in 2..v - 1 : y[j] \in W
    <2>1. 2 \in 1..Len(y) + 1
      BY <1>0
    <2> QED
      BY <2>1, PastIs
  <1> HIDE DEF v, u, K
  <1>3. TrimmedValue(y, k, S, W, hash) =
            IF y[1] # hash /\ K /\ SubSeq(y, Past(y, u, W), m) # <<>>
            THEN <<SubSeq(y, Past(y, u, W), m)>> ELSE <<>>
    BY Zenon DEF TrimmedValue, K, u, m
  <1> HIDE DEF m
  <1>4. ASSUME P PROVE /\ v \in 3..m
                       /\ TrimmedValue(y, k, S, W, hash) = <<x>>
    <2>1. v # 2
      BY <1>0, <1>2, <1>4
    <2>2. ~(m \in 2..v - 1)
      BY <1>2 DEF m
    <2>3. v \in 3..m
      BY <1>0, <1>2, <1>4, <2>1, <2>2
    <2>4. x # <<>>
      <3>1. v \in 1..Len(y) + 1 /\ m \in v - 1..Len(y) /\ m - v + 1 # 0
        BY <1>0, <2>3 DEF m
      <3>2. Len(SubSeq(y, v, m)) = m - v + 1
        BY <3>1, PartIs
      <3>3. Len(<<>>) = 0
        OBVIOUS
      <3> QED
        BY <3>1, <3>2, <3>3 DEF x
    <2>5. K /\ u = 2 /\ y[1] # hash
      BY <1>1, <1>4
    <2>6. Past(y, u, W) = v
      BY <2>5 DEF v
    <2> HIDE DEF x
    <2>7. TrimmedValue(y, k, S, W, hash) = IF x # <<>> THEN <<x>> ELSE <<>>
      BY <1>3, <2>5, <2>6, Zenon DEF x
    <2> QED
      BY <2>3, <2>4, <2>7, Zenon
  <1>5. ASSUME ~P PROVE TrimmedValue(y, k, S, W, hash) = <<>>
    <2>1. CASE ~K
      BY <1>3, <2>1, Zenon
    <2>2. CASE K
      <3>1. m = 1 /\ u = 2
        BY <1>0, <1>1, <1>5, <2>2
      <3>2. v = 2
        BY <1>2, <3>1
      <3>3. SubSeq(y, 2, 1) = <<>>
        <4>1. 2 \in Int /\ 1 \in Int /\ 1 < 2
          OBVIOUS
        <4> QED
          BY <4>1, SubSeqEmpty
      <3>4. SubSeq(y, Past(y, u, W), m) = <<>>
        BY <3>1, <3>2, <3>3 DEF v
      <3> QED
        BY <1>3, <3>4, Zenon
    <2> QED
      BY <2>1, <2>2
  <1> QED
    BY <1>4, <1>5 DEF m, v, x

-----------------------------------------------------------------------------
(* The lines of an entry, and what find_field reads from one.              *)

\* A text in which a carriage return ends a line, nl being the newline, cr the carriage
\* return, S the blanks and W what is trimmed.
EntryText(t, A, S, W, cr, nl) ==
    /\ t \in Seq(A)
    /\ S \subseteq W /\ cr \in W /\ nl \notin W
    /\ \A c \in W : c \in S \/ c = cr
    /\ \A i \in 1..Len(t) : t[i] = cr => i = Len(t) \/ t[i + 1] = nl

\* There is a first and a last symbol that is not of S.
LEMMA InkedExists ==
    ASSUME NEW n \in Nat, NEW t, NEW S, NEW i \in 1..n, NEW q \in i..n, NEW z \in i..q, t[z] \notin S
    PROVE  \E a, b : Inked(t, S, i, q, a, b)
  <1> DEFINE T == {k \in i..q : t[k] \notin S}
  <1>1. T \subseteq 0..n /\ T \subseteq Nat /\ T # {}
    OBVIOUS
  <1> HIDE DEF T
  <1>2. /\ Min(T) \in T /\ \A y \in T : Min(T) <= y
        /\ Max(T) \in T /\ \A y \in T : Max(T) >= y
    BY <1>1, MinIsLeast, MaxIsGreatest
  <1> DEFINE a == Min(T)
             b == Max(T)
  <1> HIDE DEF a, b
  <1>3. /\ a \in T /\ \A y \in T : a <= y
        /\ b \in T /\ \A y \in T : b >= y
    BY <1>2 DEF a, b
  <1>4. /\ a \in i..q /\ b \in a..q /\ t[a] \notin S /\ t[b] \notin S
        /\ a <= b /\ b \in i..q
    BY <1>3 DEF T
  <1>5. ASSUME NEW j \in i..a - 1 PROVE t[j] \in S
    <2>1. j \in i..q /\ ~(a <= j)
      BY <1>4
    <2> QED
      BY <1>3, <2>1 DEF T
  <1>6. ASSUME NEW j \in b + 1..q PROVE t[j] \in S
    <2>1. j \in i..q /\ ~(b >= j)
      BY <1>4
    <2> QED
      BY <1>3, <2>1 DEF T
  <1>7. Inked(t, S, i, q, a, b)
    BY <1>4, <1>5, <1>6 DEF Inked
  <1> QED
    BY <1>7

\* What a line, and what is left out at its end, is made of.
LineShape(t, S, W, cr, nl, j) ==
    LET e == Upto(t, j, {nl})
        q == LineEnd(t, {nl}, cr, j)
    IN  /\ e \in j..Len(t) + 1 /\ q \in j - 1..e - 1
        /\ e <= Len(t) => t[e] = nl
        /\ \A i \in j..e - 1 : t[i] # nl
        /\ \A i \in q + 1..e - 1 : t[i] \in W
        /\ \A i \in j..q : i < Len(t) => t[i] # cr
        /\ \A i \in j..e - 2 : t[i] # cr
        /\ \A p \in j..e : Upto(t, p, {nl}) = e

\* What a line of an entry is, from any position of it on.
LEMMA LineIs ==
    ASSUME NEW A, NEW t, NEW S, NEW W, NEW cr, NEW nl, EntryText(t, A, S, W, cr, nl),
           NEW j \in 1..Len(t)
    PROVE  LineShape(t, S, W, cr, nl, j)
  <1> DEFINE e == Upto(t, j, {nl})
             q == LineEnd(t, {nl}, cr, j)
  <1>0. /\ t \in Seq(A) /\ Len(t) \in Nat /\ cr \in W /\ nl \notin W
        /\ \A i \in 1..Len(t) : t[i] = cr => i = Len(t) \/ t[i + 1] = nl
    BY LenProperties DEF EntryText
  <1>1. /\ e \in j..Len(t) + 1
        /\ e <= Len(t) => t[e] \in {nl}
        /\ \A i \in j..e - 1 : t[i] \notin {nl}
    <2>1. j \in 1..Len(t) + 1
      BY <1>0
    <2> QED
      BY <1>0, <2>1, UptoIs
  <1>2. q = IF e \in j + 1..Len(t) /\ t[e - 1] = cr THEN e - 2 ELSE e - 1
    BY DEF LineEnd
  <1> HIDE DEF e, q
  <1>3. q \in j - 1..e - 1
    BY <1>0, <1>1, <1>2
  <1>4. \A i \in q + 1..e - 1 : t[i] \in W
    <2>1. CASE e \in j + 1..Len(t) /\ t[e - 1] = cr
      <3>1. q = e - 2
        BY <1>2, <2>1
      <3>2. ASSUME NEW i \in q + 1..e - 1 PROVE t[i] \in W
        <4>1. i = e - 1
          BY <2>1, <3>1
        <4> QED
          BY <1>0, <2>1, <4>1
      <3> QED
        BY <3>2
    <2>2. CASE ~(e \in j + 1..Len(t) /\ t[e - 1] = cr)
      <3>1. q = e - 1
        BY <1>2, <2>2
      <3> QED
        BY <1>1, <3>1
    <2> QED
      BY <2>1, <2>2
  <1>5. ASSUME NEW i \in j..e - 2 PROVE t[i] # cr
    <2>1. i \in 1..Len(t) /\ i # Len(t) /\ i + 1 \in j..e - 1
      BY <1>0, <1>1
    <2>2. t[i + 1] # nl
      BY <1>1, <2>1
    <2> QED
      BY <1>0, <2>1, <2>2
  <1>6. ASSUME NEW i \in j..q, i < Len(t) PROVE t[i] # cr
    <2>1. CASE i \in j..e - 2
      BY <1>5, <2>1
    <2>2. CASE i = e - 1 /\ q = e - 1
      <3>1. e \in j + 1..Len(t)
        BY <1>0, <1>1, <1>6, <2>2
      <3>2. t[e - 1] # cr
        BY <1>2, <2>2, <3>1
      <3> QED
        BY <2>2, <3>2
    <2> QED
      BY <1>1, <1>3, <2>1, <2>2
  <1>7. ASSUME NEW p \in j..e PROVE Upto(t, p, {nl}) = e
    <2>1. CASE e <= Len(t)
      <3>1. /\ p \in 1..Len(t) /\ e \in p..Len(t) /\ t[e] \in {nl}
            /\ \A i \in p..e - 1 : t[i] \notin {nl}
        BY <1>0, <1>1, <2>1
      <3> DEFINE N == {nl}
      <3> HIDE DEF N
      <3>2. Upto(t, p, N) = e
        BY <1>0, <3>1, FirstSeparator DEF N
      <3> QED
        BY <3>2 DEF N
    <2>2. CASE e = Len(t) + 1
      <3> DEFINE u == Upto(t, p, {nl})
      <3>1. /\ u \in p..Len(t) + 1
            /\ u <= Len(t) => t[u] \in {nl}
        <4>1. p \in 1..Len(t) + 1
          BY <1>0, <1>1
        <4> QED
          BY <1>0, <4>1, UptoIs
      <3> HIDE DEF u
      <3>2. ~(u <= Len(t))
        <4>1. ASSUME u <= Len(t) PROVE FALSE
          <5>1. u \in j..e - 1
            BY <1>0, <1>1, <2>2, <3>1, <4>1
          <5> QED
            BY <1>1, <3>1, <4>1, <5>1
        <4> QED
          BY <4>1
      <3>3. u = e
        BY <1>0, <2>2, <3>1, <3>2
      <3> QED
        BY <3>3 DEF u
    <2> QED
      BY <1>0, <1>1, <2>1, <2>2
  <1>8. /\ e <= Len(t) => t[e] = nl
        /\ \A i \in j..e - 1 : t[i] # nl
    BY <1>1
  <1> QED
    BY <1>1, <1>3, <1>4, <1>5, <1>6, <1>7, <1>8 DEF LineShape, e, q

\* A line with nothing in it is trimmed away, and the search for a key stops behind its
\* blanks; otherwise it stops at its first symbol, and the line is trimmed to what lies
\* between its first and its last.
LineTrim(t, S, W, cr, nl, j) ==
    LET e == Upto(t, j, {nl})
        y == Trim(SubSeq(t, j, LineEnd(t, {nl}, cr, j)), W)
    IN  \/ /\ y = <<>> /\ Past(t, j, S) \in j..e
           /\ \A i \in j..e - 1 : t[i] \in W
        \/ \E a, b : /\ Inked(t, W, j, e - 1, a, b) /\ y = SubSeq(t, a, b)
                     /\ Past(t, j, S) = a

\* What is left of it when it is trimmed, and where find_field begins to read it.
LEMMA LineIsTrimmed ==
    ASSUME NEW A, NEW t, NEW S, NEW W, NEW cr, NEW nl, EntryText(t, A, S, W, cr, nl),
           NEW j \in 1..Len(t)
    PROVE  LineTrim(t, S, W, cr, nl, j)
  <1> DEFINE e == Upto(t, j, {nl})
             q == LineEnd(t, {nl}, cr, j)
             y == Trim(SubSeq(t, j, q), W)
             s == Past(t, j, S)
  <1>0. /\ t \in Seq(A) /\ Len(t) \in Nat /\ cr \in W /\ nl \notin W /\ S \subseteq W
        /\ \A c \in W : c \in S \/ c = cr
    BY LenProperties DEF EntryText
  <1>1. LineShape(t, S, W, cr, nl, j)
    BY LineIs
  <1> HIDE DEF e, q, s
  <1>2. /\ e \in j..Len(t) + 1 /\ q \in j - 1..e - 1
        /\ e <= Len(t) => t[e] = nl
        /\ \A i \in q + 1..e - 1 : t[i] \in W
        /\ \A i \in j..e - 2 : t[i] # cr
    BY <1>1 DEF LineShape, e, q
  <1>3. /\ s \in j..Len(t) + 1
        /\ s <= Len(t) => t[s] \notin S
        /\ \A i \in j..s - 1 : t[i] \in S
    <2>1. j \in 1..Len(t) + 1
      BY <1>0
    <2> QED
      BY <1>0, <2>1, PastIs DEF s
  <1>4. j \in 1..Len(t) + 1 /\ q \in j - 1..Len(t)
    BY <1>0, <1>2
  <1>5. CASE \A i \in j..e - 1 : t[i] \in W
    <2>1. \A i \in j..q : t[i] \in W
      BY <1>2, <1>5
    <2>2. y = <<>>
      BY <1>0, <1>4, <2>1, TrimmedIs
    <2>3. s <= e
      <3>1. CASE e <= Len(t)
        <4>1. ~(e \in j..s - 1)
          BY <1>0, <1>2, <1>3, <3>1
        <4> QED
          BY <1>0, <1>2, <1>3, <4>1
      <3>2. CASE e = Len(t) + 1
        BY <1>3, <3>2
      <3> QED
        BY <1>0, <1>2, <3>1, <3>2
    <2>4. s \in j..e
      BY <1>0, <1>2, <1>3, <2>3
    <2> QED
      BY <1>5, <2>2, <2>4 DEF LineTrim, y, q, e, s
  <1>6. CASE \E i \in j..e - 1 : t[i] \notin W
    <2>1. PICK z \in j..e - 1 : t[z] \notin W
      BY <1>6
    <2>2. PICK a, b : Inked(t, W, j, e - 1, a, b)
      <3>1. e - 1 \in j..Len(t)
        BY <1>0, <1>2, <2>1
      <3> QED
        BY <1>0, <2>1, <3>1, InkedExists
    <2>3. /\ a \in j..e - 1 /\ b \in a..e - 1 /\ t[a] \notin W /\ t[b] \notin W
          /\ \A i \in j..a - 1 : t[i] \in W
          /\ \A i \in b + 1..e - 1 : t[i] \in W
      BY <2>2 DEF Inked
    <2>4. b <= q
      <3>1. ~(b \in q + 1..e - 1)
        BY <1>2, <2>3
      <3> QED
        BY <1>0, <1>2, <2>3, <3>1
    <2>5. Inked(t, W, j, q, a, b)
      <3>1. a \in j..q /\ b \in a..q /\ \A i \in b + 1..q : i \in b + 1..e - 1
        BY <1>0, <1>2, <2>3, <2>4
      <3> QED
        BY <2>3, <3>1 DEF Inked
    <2>6. y = SubSeq(t, a, b)
      BY <1>0, <1>4, <2>5, TrimmedIs
    <2>7. s = a
      <3>1. ASSUME NEW i \in j..a - 1 PROVE t[i] \in S
        <4>1. i \in j..e - 2
          BY <1>0, <1>2, <2>3
        <4> QED
          BY <1>0, <1>2, <2>3, <4>1
      <3>2. a \in j..Len(t) + 1 /\ t[a] \notin S
        BY <1>0, <1>2, <2>3
      <3> QED
        BY <1>0, <1>4, <3>1, <3>2, FirstOther DEF s
    <2> QED
      BY <2>2, <2>6, <2>7 DEF LineTrim, y, q, e, s
  <1> QED
    BY <1>5, <1>6

\* A line that begins at s with the key, and what find_field reads from it.
FieldHit(t, w, S, hash, s) ==
    /\ t[s] # hash
    /\ MatchAt(t, w, s)
    /\ s + Len(w) <= Len(t) /\ t[s + Len(w)] \in S

FieldAt(t, w, S, N, W, s) ==
    [value |-> TrimEnd(t, Past(t, s + Len(w) + 1, S), Upto(t, s, N) - 1, W),
     end   |-> Upto(t, s, N)]

\* One turn of the loop of FindField.
FieldBody(from, t, w, S, N, W, hash, j) ==
    LET s == Past(t, j, S)
    IN  CASE s > Len(t)                  -> Nothing
          [] FieldHit(t, w, S, hash, s)  -> Some(FieldAt(t, w, S, N, W, s))
          [] OTHER                       -> from[Upto(t, s, N) + 1]

\* The function it is.
FieldFrom(t, w, S, N, W, hash) ==
    CHOOSE f : f = [j \in 1..Len(t) + 2 |-> FieldBody(f, t, w, S, N, W, hash, j)]

\* What that function satisfies.
FieldTurns(f, t, w, S, N, W, hash) ==
    /\ f[Len(t) + 1] = Nothing /\ f[Len(t) + 2] = Nothing
    /\ \A j \in 1..Len(t) :
          f[j] = LET s == Past(t, j, S)
                 IN  IF s > Len(t) THEN Nothing
                     ELSE IF FieldHit(t, w, S, hash, s) THEN Some(FieldAt(t, w, S, N, W, s))
                     ELSE f[Upto(t, s, N) + 1]

\* find_field goes on line by line, to the end of the text.
LEMMA FieldLoop ==
    ASSUME NEW A, NEW t \in Seq(A), NEW w \in Seq(A), w # <<>>, NEW S, NEW N, NEW W, NEW hash
    PROVE  FieldTurns(FieldFrom(t, w, S, N, W, hash), t, w, S, N, W, hash)
  <1> DEFINE n       == Len(t) + 2
             s(j)    == Past(t, j, S)
             hit(j)  == FieldHit(t, w, S, hash, s(j))
             at(j)   == Some(FieldAt(t, w, S, N, W, s(j)))
             goes(j) == Upto(t, s(j), N) + 1
             V       == {Nothing} \cup {at(j) : j \in 1..n}
             next    == [j \in 1..n |-> IF j > Len(t) THEN n ELSE goes(j)]
             step    == [j \in 1..n |-> [v \in V |-> IF s(j) > Len(t) THEN Nothing
                                                     ELSE IF hit(j) THEN at(j) ELSE v]]
             body(f, j) == FieldBody(f, t, w, S, N, W, hash, j)
             from    == FieldFrom(t, w, S, N, W, hash)
  <1>0. /\ Len(t) \in Nat /\ n \in Nat \ {0} /\ Len(w) \in Nat \ {0}
        /\ 1..Len(t) \subseteq 1..n /\ Len(t) + 1 \in 1..n /\ n \in 1..n
        /\ \A j \in 1..n : j \in 1..Len(t) \/ j = Len(t) + 1 \/ j = n
    BY LenProperties, EmptySeq
  <1>1. \A j \in 1..Len(t) : s(j) \in j..Len(t) + 1
    <2>1. \A j \in 1..Len(t) : j \in 1..Len(t) + 1
      BY <1>0
    <2> QED
      BY <2>1, PastIs
  <1>2. s(Len(t) + 1) = Len(t) + 1
    <2>1. Len(t) + 1 \in 1..Len(t) + 1
      BY <1>0
    <2>2. s(Len(t) + 1) \in Len(t) + 1..Len(t) + 1
      BY <2>1, PastIs
    <2> QED
      BY <1>0, <2>2
  <1>3. s(n) = Len(t) + 1
    <2> DEFINE T == {k \in n..Len(t) : t[k] \notin S} \cup {Len(t) + 1}
    <2>1. T = {Len(t) + 1}
      BY <1>0
    <2>2. s(n) = Min(T)
      BY DEF Past
    <2> HIDE DEF T
    <2>3. T \subseteq Nat /\ T # {}
      BY <1>0, <2>1
    <2>4. Min(T) \in T
      BY <2>3, MinIsLeast
    <2> QED
      BY <2>1, <2>2, <2>4
  <1> HIDE DEF s
  <1>4. \A j \in 1..Len(t) : goes(j) \in j + 1..n
    <2>1. ASSUME NEW j \in 1..Len(t) PROVE goes(j) \in j + 1..n
      <3>1. s(j) \in j..Len(t) + 1 /\ s(j) \in 1..Len(t) + 1
        BY <1>0, <1>1
      <3>2. Upto(t, s(j), N) \in s(j)..Len(t) + 1
        BY <3>1, UptoIs
      <3> QED
        BY <1>0, <3>1, <3>2
    <2> QED
      BY <2>1
  <1> HIDE DEF goes, at, hit
  <1>5. /\ step \in [1..n -> [V -> V]] /\ Nothing \in V
    OBVIOUS
  <1>6. next \in [1..n -> 1..n] /\ \A j \in 1..n - 1 : next[j] > j
    <2>1. ASSUME NEW j \in 1..n PROVE next[j] \in 1..n /\ (j \in 1..n - 1 => next[j] > j)
      <3>1. CASE j \in 1..Len(t)
        <4>1. next[j] = goes(j) /\ goes(j) \in j + 1..n
          BY <1>0, <1>4, <3>1
        <4> QED
          BY <1>0, <4>1
      <3>2. CASE j > Len(t)
        BY <1>0, <3>2
      <3> QED
        BY <1>0, <3>1, <3>2
    <2>2. next = [j \in 1..n |-> next[j]]
      BY <1>0
    <2>3. \A j \in 1..n - 1 : j \in 1..n
      BY <1>0
    <2> HIDE DEF next, n
    <2> QED
      BY <2>1, <2>2, <2>3
  <1> HIDE DEF V
  <1>7. PICK f : GoesOn(f, n, V, Nothing, next, step)
    <2> HIDE DEF next, step, n
    <2> QED
      BY <1>0, <1>5, <1>6, GoesOnExists
  <1>8. ASSUME NEW g
        PROVE  /\ body(g, Len(t) + 1) = Nothing /\ body(g, n) = Nothing
               /\ \A j \in 1..Len(t) :
                     body(g, j) = IF s(j) > Len(t) THEN Nothing
                                  ELSE IF hit(j) THEN at(j) ELSE g[goes(j)]
    <2>1. ASSUME NEW j, s(j) \in Nat
          PROVE  body(g, j) = IF s(j) > Len(t) THEN Nothing
                              ELSE IF hit(j) THEN at(j) ELSE g[goes(j)]
      <3>1. s(j) > Len(t) => ~hit(j)
        <4>1. s(j) > Len(t) => ~(s(j) + Len(w) <= Len(t))
          BY <1>0, <2>1
        <4> QED
          BY <4>1, Zenon DEF hit, FieldHit
      <3>2. body(g, j) = CASE s(j) > Len(t) -> Nothing
                           [] hit(j)        -> at(j)
                           [] OTHER         -> g[goes(j)]
        BY Zenon DEF FieldBody, s, hit, at, goes
      <3> HIDE DEF body
      <3> QED
        BY <3>1, <3>2, Zenon
    <2>2. s(Len(t) + 1) \in Nat /\ s(n) \in Nat /\ s(Len(t) + 1) > Len(t) /\ s(n) > Len(t)
          /\ \A j \in 1..Len(t) : s(j) \in Nat
      BY <1>0, <1>1, <1>2, <1>3
    <2> HIDE DEF body, n
    <2> QED
      BY <2>1, <2>2, Zenon
  <1> HIDE DEF body
  <1>9. ASSUME NEW j \in 1..n PROVE f[j] = body(f, j)
    <2>1. CASE j \in 1..Len(t)
      <3>1. next[j] = goes(j) /\ next[j] \in 1..n /\ j \in 1..n - 1
        BY <1>0, <1>4, <2>1
      <3>2. f[j] = step[j][f[next[j]]] /\ f[next[j]] \in V
        BY <1>7, <3>1 DEF GoesOn
      <3> HIDE DEF n, next
      <3>3. f[j] = IF s(j) > Len(t) THEN Nothing ELSE IF hit(j) THEN at(j) ELSE f[next[j]]
        BY <3>2
      <3> QED
        BY <1>8, <2>1, <3>1, <3>3
    <2>2. CASE j = Len(t) + 1
      <3>1. j \in 1..n - 1 /\ next[j] = n /\ j \in 1..n
        BY <1>0, <2>2
      <3>2. f[j] = step[j][f[n]] /\ f[n] \in V
        BY <1>0, <1>7, <3>1 DEF GoesOn
      <3>3. s(j) > Len(t)
        BY <1>0, <1>2, <2>2
      <3> HIDE DEF n, next
      <3>4. f[j] = Nothing
        BY <3>1, <3>2, <3>3
      <3> QED
        BY <1>8, <2>2, <3>4
    <2>3. CASE j = n
      <3> HIDE DEF n, next, step
      <3> QED
        BY <1>7, <1>8, <2>3, Zenon DEF GoesOn
    <2> QED
      BY <1>0, <2>1, <2>2, <2>3
  <1> HIDE DEF next, step
  <1>10. f = [j \in 1..n |-> body(f, j)]
    <2>1. f = [j \in 1..n |-> f[j]]
      BY <1>7 DEF GoesOn
    <2> HIDE DEF n
    <2> QED
      BY <1>9, <2>1
  <1>11. from = [j \in 1..n |-> body(from, j)]
    BY <1>10, Zenon DEF n, FieldFrom, body
  <1> HIDE DEF from
  <1>12. \A j \in 1..n : from[j] = body(from, j)
    BY <1>11
  <1>13. from[Len(t) + 1] = Nothing /\ from[n] = Nothing
    <2> HIDE DEF n
    <2> QED
      BY <1>0, <1>8, <1>12, Zenon
  <1>14. \A j \in 1..Len(t) : from[j] = IF s(j) > Len(t) THEN Nothing
                                        ELSE IF hit(j) THEN at(j) ELSE from[goes(j)]
    <2>1. \A j \in 1..Len(t) : j \in 1..n
      BY <1>0
    <2> HIDE DEF n
    <2> QED
      BY <1>8, <1>12, <2>1, Zenon
  <1> QED
    BY <1>13, <1>14, Zenon DEF FieldTurns, n, s, hit, at, goes, from

\* What is told apart in a line.
KeySymbols(k, S, W, nl, hash) == k \notin W /\ k # nl /\ k # hash

\* The value behind the key, where the text of a line has it at a, and lies in a..b.
FoundBehind(t, A, S, W, nl, k, hash, j, a, b) ==
    LET c == TrimmedValue(SubSeq(t, a, b), k, S, W, hash)
        v == TrimEnd(t, Past(t, a + 2, S), Upto(t, j, {nl}) - 1, W)
    IN  /\ t[a] = k /\ a + 1 <= Len(t) /\ t[a + 1] \in S =>
               v \in Seq(A) /\ c = IF v = <<>> THEN Nothing ELSE Some(v)
        /\ ~(t[a] = k /\ a + 1 <= Len(t) /\ t[a + 1] \in S) => c = Nothing

\* A value that is found in the text is what stands behind the key in its trimmed line.
LEMMA ValueIsFound ==
    ASSUME NEW A, NEW t, NEW S, NEW W, NEW cr, NEW nl, EntryText(t, A, S, W, cr, nl),
           NEW j \in 1..Len(t), NEW k \in A, NEW hash, KeySymbols(k, S, W, nl, hash),
           NEW a, NEW b, Inked(t, W, j, Upto(t, j, {nl}) - 1, a, b)
    PROVE  FoundBehind(t, A, S, W, nl, k, hash, j, a, b)
  <1> DEFINE e == Upto(t, j, {nl})
             y == SubSeq(t, a, b)
             c == TrimmedValue(y, k, S, W, hash)
             p == Past(t, a + 2, S)
             v == TrimEnd(t, p, e - 1, W)
             m == b - a + 1
             H == t[a] = k /\ a + 1 <= Len(t) /\ t[a + 1] \in S
  <1>0. /\ t \in Seq(A) /\ Len(t) \in Nat /\ nl \notin W /\ S \subseteq W
        /\ \A x \in W : x \in S \/ x = cr
        /\ k \notin W /\ k # hash
    BY LenProperties DEF EntryText, KeySymbols
  <1>1. /\ e \in j..Len(t) + 1
        /\ e <= Len(t) => t[e] = nl
        /\ \A i \in j..e - 2 : t[i] # cr
    <2>1. LineShape(t, S, W, cr, nl, j)
      BY LineIs
    <2> HIDE DEF e
    <2> QED
      BY <2>1 DEF LineShape, e
  <1> HIDE DEF e
  <1>2. /\ a \in j..e - 1 /\ b \in a..e - 1 /\ t[a] \notin W /\ t[b] \notin W
        /\ \A i \in b + 1..e - 1 : t[i] \in W
    BY DEF Inked, e
  <1>3. /\ a \in 1..Len(t) /\ b \in a..Len(t) /\ a \in Nat /\ b \in Nat /\ e \in Nat
        /\ m \in Nat \ {0}
    BY <1>0, <1>1, <1>2
  <1>4. y \in Seq(A) /\ Len(y) = m /\ \A i \in 1..m : y[i] = t[a + i - 1]
    <2>1. a \in 1..Len(t) + 1 /\ b \in a - 1..Len(t)
      BY <1>0, <1>3
    <2> QED
      BY <1>0, <2>1, PartIs
  <1> HIDE DEF y
  <1>5. y # <<>> /\ y[1] = t[a] /\ y[m] = t[b] /\ (2 <= m => y[2] = t[a + 1])
    <2>1. Len(<<>>) = 0
      OBVIOUS
    <2>2. 1 \in 1..m /\ m \in 1..m /\ a + 1 - 1 = a /\ a + m - 1 = b /\ a + 2 - 1 = a + 1
      BY <1>3
    <2>3. 2 <= m => 2 \in 1..m
      BY <1>3
    <2>4. y[1] = t[a] /\ y[m] = t[b]
      BY <1>4, <2>2
    <2>5. 2 <= m => y[2] = t[a + 1]
      <3>1. 2 <= m => y[2] = t[a + 2 - 1]
        BY <1>4, <2>3
      <3> QED
        BY <2>2, <3>1
    <2>6. y # <<>>
      BY <1>3, <1>4, <2>1
    <2> QED
      BY <2>4, <2>5, <2>6
  <1>6. LET q == Past(y, 2, W)
            P == 2 <= m /\ y[1] = k /\ y[2] \in S
        IN  /\ P => q \in 3..m /\ c = <<SubSeq(y, q, m)>>
            /\ ~P => c = <<>>
    <2>1. /\ y \in Seq(A) /\ y # <<>> /\ S \subseteq W /\ k \notin W /\ k # hash
          /\ y[Len(y)] \notin W
      BY <1>0, <1>2, <1>4, <1>5
    <2>2. LET q == Past(y, 2, W)
              P == 2 <= Len(y) /\ y[1] = k /\ y[2] \in S
          IN  /\ P => q \in 3..Len(y) /\ TrimmedValue(y, k, S, W, hash) = <<SubSeq(y, q, Len(y))>>
              /\ ~P => TrimmedValue(y, k, S, W, hash) = <<>>
      BY <2>1, TrimmedValueIs, Zenon
    <2> HIDE DEF m
    <2> QED
      BY <1>4, <2>2, Zenon
  <1> HIDE DEF c
  <1>7. ASSUME H, b > a
        PROVE  v \in Seq(A) /\ c = IF v = <<>> THEN Nothing ELSE Some(v)
    <2> DEFINE q == Past(y, 2, W)
               z == a + q - 1
    <2>1. 2 <= m /\ y[1] = k /\ y[2] \in S
      BY <1>3, <1>5, <1>7
    <2>2. q \in 3..m /\ c = <<SubSeq(y, q, m)>>
      BY <1>6, <2>1
    <2>3. /\ y[q] \notin W
          /\ \A i \in 2..q - 1 : y[i] \in W
      <3>1. 2 \in 1..Len(y) + 1 /\ q <= Len(y)
        BY <1>3, <1>4, <2>1, <2>2
      <3> QED
        BY <1>4, <3>1, PastIs
    <2> HIDE DEF q
    <2>4. /\ z \in a + 2..b /\ t[z] = y[q] /\ z \in Nat
      BY <1>3, <1>4, <2>2
    <2>5. ASSUME NEW i \in a + 2..z - 1 PROVE t[i] \in S
      <3> DEFINE l == i - a + 1
      <3>1. l \in 2..q - 1 /\ l \in 1..m /\ a + l - 1 = i /\ i \in j..e - 2
        BY <1>1, <1>2, <1>3, <2>2, <2>4
      <3> HIDE DEF l
      <3>2. t[i] \in W
        BY <1>4, <2>3, <3>1
      <3> QED
        BY <1>0, <1>1, <3>1, <3>2
    <2> HIDE DEF z
    <2>6. p = z
      <3>1. /\ a + 2 \in 1..Len(t) + 1 /\ z \in a + 2..Len(t) + 1
            /\ z <= Len(t) => t[z] \notin S
        BY <1>0, <1>3, <1>7, <2>3, <2>4
      <3> DEFINE d == a + 2
      <3> HIDE DEF d
      <3>2. Past(t, d, S) = z
        BY <1>0, <2>5, <3>1, FirstOther DEF d
      <3> QED
        BY <3>2 DEF d
    <2>7. v = SubSeq(t, z, b)
      <3>1. /\ z \in 1..Len(t) + 1 /\ e - 1 \in z - 1..Len(t) /\ b \in z..e - 1
        BY <1>0, <1>1, <1>2, <1>3, <2>4
      <3>2. TrimEnd(t, z, e - 1, W) = SubSeq(t, z, b)
        BY <1>0, <1>2, <3>1, TrimEndIs, Zenon
      <3> QED
        BY <2>6, <3>2
    <2>8. SubSeq(y, q, m) = SubSeq(t, z, b)
      <3>1. /\ a \in 1..Len(t) /\ b \in 1..Len(t) /\ q \in 1..b - a + 1 /\ m \in 1..b - a + 1
            /\ a + m - 1 = b
        BY <1>0, <1>3, <2>2
      <3>2. SubSeq(SubSeq(t, a, b), q, m) = SubSeq(t, a + q - 1, a + m - 1)
        <4> HIDE DEF m
        <4> QED
          BY <1>0, <3>1, SubSeqOfSubSeq
      <3> QED
        BY <3>1, <3>2 DEF y, z
    <2>9. SubSeq(t, z, b) \in Seq(A) /\ SubSeq(t, z, b) # <<>>
      <3>1. z \in 1..Len(t) + 1 /\ b \in z - 1..Len(t) /\ b - z + 1 # 0
        BY <1>0, <1>3, <2>4
      <3>2. SubSeq(t, z, b) \in Seq(A) /\ Len(SubSeq(t, z, b)) = b - z + 1
        BY <1>0, <3>1, PartIs
      <3>3. Len(<<>>) = 0
        OBVIOUS
      <3> QED
        BY <3>1, <3>2, <3>3
    <2> HIDE DEF v, m
    <2> QED
      BY <2>2, <2>7, <2>8, <2>9, Zenon DEF Nothing, Some
  <1>8. ASSUME H, b = a
        PROVE  v = <<>> /\ c = Nothing
    <2>1. c = Nothing
      <3>1. ~(2 <= m)
        BY <1>3, <1>8
      <3> QED
        BY <1>6, <3>1 DEF Nothing
    <2>2. a + 1 <= e - 1
      <3>1. a + 1 # e
        BY <1>0, <1>1, <1>8
      <3> QED
        BY <1>1, <1>2, <1>3, <3>1
    <2>3. /\ p \in a + 2..Len(t) + 1
          /\ \A i \in a + 2..p - 1 : t[i] \in S
      <3> DEFINE d == a + 2
      <3>1. d \in 1..Len(t) + 1
        BY <1>0, <1>1, <1>3, <2>2
      <3> HIDE DEF d
      <3>2. /\ Past(t, d, S) \in d..Len(t) + 1
            /\ \A i \in d..Past(t, d, S) - 1 : t[i] \in S
        BY <1>0, <3>1, PastIs
      <3> QED
        BY <3>2 DEF d
    <2> HIDE DEF p
    <2>4. p <= e
      <3>1. CASE e <= Len(t)
        <4>1. ~(e \in a + 2..p - 1)
          BY <1>0, <1>1, <2>3, <3>1
        <4> QED
          BY <1>1, <1>3, <2>2, <2>3, <4>1
      <3>2. CASE e = Len(t) + 1
        BY <2>3, <3>2
      <3> QED
        BY <1>0, <1>1, <3>1, <3>2
    <2>5. /\ p \in 1..Len(t) + 1 /\ e - 1 \in p - 1..Len(t)
          /\ \A i \in p..e - 1 : t[i] \in W
      <3>1. \A i \in p..e - 1 : i \in b + 1..e - 1
        BY <1>3, <1>8, <2>3
      <3> QED
        BY <1>0, <1>1, <1>2, <1>3, <2>3, <2>4, <3>1
    <2>6. v = <<>>
      BY <1>0, <2>5, TrimEndIs, Zenon
    <2> QED
      BY <2>1, <2>6
  <1>9. ASSUME ~H PROVE c = Nothing
    <2>1. ~(2 <= m /\ y[1] = k /\ y[2] \in S)
      BY <1>3, <1>5, <1>9
    <2> QED
      BY <1>6, <2>1 DEF Nothing
  <1>10. <<>> \in Seq(A)
    OBVIOUS
  <1>11. b > a \/ b = a
    BY <1>3
  <1> HIDE DEF v
  <1>12. /\ H => v \in Seq(A) /\ c = IF v = <<>> THEN Nothing ELSE Some(v)
         /\ ~H => c = Nothing
    BY <1>7, <1>8, <1>9, <1>10, <1>11, Zenon
  <1> QED
    BY <1>12, Zenon DEF FoundBehind, v, c, y, p, e

\* A value, if there is anything in it.
Held(v) == IF v = <<>> THEN Nothing ELSE Some(v)

\* find_field from the beginning of a line on: c is the value of that line, if it has the
\* key and a value.
LineRead(f, j, e, A, c) ==
    \/ \E v \in Seq(A) : f[j] = Some([value |-> v, end |-> e]) /\ c = Held(v)
    \/ f[j] = f[e + 1] /\ c = Nothing

LineValue(x, k, S, W, hash) == TrimmedValue(Trim(x, W), k, S, W, hash)

\* find_field reads from a line what parse_bls reads from it.
LEMMA LineIsRead ==
    ASSUME NEW A, NEW t, NEW S, NEW W, NEW cr, NEW nl, EntryText(t, A, S, W, cr, nl),
           NEW k \in A, NEW hash, KeySymbols(k, S, W, nl, hash), NEW f,
           FieldTurns(f, t, <<k>>, S, {nl}, W, hash), NEW j \in 1..Len(t)
    PROVE  LineRead(f, j, Upto(t, j, {nl}), A,
                    LineValue(SubSeq(t, j, LineEnd(t, {nl}, cr, j)), k, S, W, hash))
  <1> DEFINE e == Upto(t, j, {nl})
             s == Past(t, j, S)
             y == Trim(SubSeq(t, j, LineEnd(t, {nl}, cr, j)), W)
             c == TrimmedValue(y, k, S, W, hash)
             w == <<k>>
             hit == FieldHit(t, w, S, hash, s)
             v == TrimEnd(t, Past(t, s + 2, S), e - 1, W)
             n == Len(t)
  <1>0. /\ t \in Seq(A) /\ n \in Nat /\ k \notin W /\ k # nl /\ k # hash /\ S \subseteq W
        /\ nl \notin W
    BY LenProperties DEF EntryText, KeySymbols
  <1>1. /\ e \in j..n + 1 /\ (e <= n => t[e] = nl)
        /\ \A p \in j..e : Upto(t, p, {nl}) = e
    <2>1. LineShape(t, S, W, cr, nl, j)
      BY LineIs
    <2> HIDE DEF e
    <2> QED
      BY <2>1 DEF LineShape, e
  <1>2. \/ y = <<>> /\ s \in j..e /\ \A i \in j..e - 1 : t[i] \in W
        \/ \E a, b : Inked(t, W, j, e - 1, a, b) /\ y = SubSeq(t, a, b) /\ s = a
    <2>1. LineTrim(t, S, W, cr, nl, j)
      BY LineIsTrimmed
    <2> QED
      BY <2>1, Zenon DEF LineTrim, e, y, s
  <1>3. Len(w) = 1 /\ w[1] = k /\ w \in Seq(A)
    OBVIOUS
  <1> HIDE DEF w, e, y
  <1>4. \A i \in Nat \ {0} : MatchAt(t, w, i) <=> i <= n /\ t[i] = k
    <2>1. ASSUME NEW i \in Nat \ {0} PROVE MatchAt(t, w, i) <=> i <= n /\ t[i] = k
      <3>1. MatchAt(t, w, i) <=> Matches(t, w, i)
        BY <1>0, <1>3, MatchIs, Zenon
      <3>2. Matches(t, w, i) <=> i + 1 - 1 <= n /\ \A l \in 1..1 : t[i + l - 1] = w[l]
        BY <1>3 DEF Matches
      <3>3. (\A l \in 1..1 : t[i + l - 1] = w[l]) <=> t[i] = k
        <4>1. \A l \in 1..1 : l = 1 /\ i + l - 1 = i
          BY <2>1
        <4> QED
          BY <1>3, <4>1
      <3> QED
        BY <1>0, <3>1, <3>2, <3>3
    <2> QED
      BY <2>1
  <1>5. s \in Nat \ {0} /\ s \in j..e
    <2>1. CASE s \in j..e
      BY <1>0, <1>1, <2>1
    <2>2. CASE \E a, b : Inked(t, W, j, e - 1, a, b) /\ s = a
      <3>1. s \in j..e - 1
        BY <2>2 DEF Inked
      <3> QED
        BY <1>0, <1>1, <3>1
    <2> QED
      BY <1>2, <2>1, <2>2
  <1>6. f[j] = IF s > n THEN Nothing
               ELSE IF hit THEN Some(FieldAt(t, w, S, {nl}, W, s))
               ELSE f[Upto(t, s, {nl}) + 1]
    BY Zenon DEF FieldTurns, s, hit, n, w
  <1>7. f[n + 1] = Nothing /\ f[n + 2] = Nothing
    BY Zenon DEF FieldTurns, n
  <1>8. Upto(t, s, {nl}) = e
    BY <1>1, <1>5
  <1>9. FieldAt(t, w, S, {nl}, W, s) = [value |-> v, end |-> e]
    <2>1. s + Len(w) + 1 = s + 2
      BY <1>3, <1>5
    <2> HIDE DEF s
    <2> QED
      BY <1>8, <2>1, Zenon DEF FieldAt, v
  <1>10. hit <=> s <= n /\ t[s] = k /\ s + 1 <= n /\ t[s + 1] \in S
    <2>1. MatchAt(t, w, s) <=> s <= n /\ t[s] = k
      BY <1>4, <1>5
    <2> HIDE DEF s
    <2> QED
      BY <1>0, <1>3, <2>1 DEF FieldHit
  <1> HIDE DEF s, hit, v
  <1>11. CASE y = <<>> /\ s \in j..e /\ \A i \in j..e - 1 : t[i] \in W
    <2>1. c = Nothing
      BY <1>11, Zenon DEF TrimmedValue, Nothing
    <2>2. f[j] = f[e + 1]
      <3>1. CASE s > n
        <4>1. e + 1 = n + 2
          BY <1>0, <1>1, <1>5, <3>1
        <4> QED
          BY <1>6, <1>7, <3>1, <4>1
      <3>2. CASE s <= n
        <4>1. ~hit
          <5>1. s = e \/ s \in j..e - 1
            BY <1>1, <1>5
          <5>2. t[s] # k
            BY <1>0, <1>1, <1>11, <3>2, <5>1
          <5> QED
            BY <1>10, <5>2
        <4>2. ~(s > n)
          BY <1>0, <1>5, <3>2
        <4> QED
          BY <1>6, <1>8, <4>1, <4>2, Zenon
      <3> QED
        BY <1>0, <1>5, <3>1, <3>2
    <2> HIDE DEF c
    <2> QED
      BY <2>1, <2>2, Zenon DEF LineRead, LineValue, c, y, e
  <1>12. CASE \E a, b : Inked(t, W, j, e - 1, a, b) /\ y = SubSeq(t, a, b) /\ s = a
    <2>1. PICK a, b : Inked(t, W, j, e - 1, a, b) /\ y = SubSeq(t, a, b) /\ s = a
      BY <1>12
    <2>2. /\ t[a] = k /\ a + 1 <= n /\ t[a + 1] \in S =>
                v \in Seq(A) /\ c = IF v = <<>> THEN Nothing ELSE Some(v)
          /\ ~(t[a] = k /\ a + 1 <= n /\ t[a + 1] \in S) => c = Nothing
      <3>1. Inked(t, W, j, Upto(t, j, {nl}) - 1, a, b)
        BY <2>1, Zenon DEF e
      <3>2. FoundBehind(t, A, S, W, nl, k, hash, j, a, b)
        BY <3>1, ValueIsFound, Zenon
      <3> QED
        BY <2>1, <3>2, Zenon DEF FoundBehind, v, n, e
    <2>3. s <= n
      <3>1. s \in j..e - 1
        BY <2>1 DEF Inked
      <3> QED
        BY <1>0, <1>1, <3>1
    <2>4. ~(s > n)
      BY <1>0, <1>5, <2>3
    <2> HIDE DEF c
    <2>5. CASE hit
      <3>1. v \in Seq(A) /\ c = Held(v)
        BY <1>10, <2>1, <2>2, <2>5, Zenon DEF Held
      <3>2. f[j] = Some([value |-> v, end |-> e])
        BY <1>6, <1>9, <2>4, <2>5, Zenon
      <3> QED
        BY <3>1, <3>2, Zenon DEF LineRead, LineValue, c, y, e
    <2>6. CASE ~hit
      <3>1. c = Nothing
        BY <1>10, <2>1, <2>2, <2>3, <2>6, Zenon
      <3>2. f[j] = f[e + 1]
        BY <1>6, <1>8, <2>4, <2>6, Zenon
      <3> QED
        BY <3>1, <3>2, Zenon DEF LineRead, LineValue, c, y, e
    <2> QED
      BY <2>5, <2>6
  <1> QED
    BY <1>2, <1>11, <1>12, Zenon

-----------------------------------------------------------------------------
(* What bls_field_all finds.                                               *)

\* What find_field finds lies at the position it is asked for, or behind it.
FieldsFound(f, n, A) ==
    \A i \in 1..n + 2 :
        f[i] = Nothing \/ \E v \in Seq(A), d \in i..n + 1 : f[i] = Some([value |-> v, end |-> d])

\* It finds nothing, or a text whose line ends at that position or behind it.
LEMMA FieldsAreFound ==
    ASSUME NEW n \in Nat, NEW A, NEW f, NEW e, f[n + 1] = Nothing, f[n + 2] = Nothing,
           \A i \in 1..n : e[i] \in i..n + 1 /\ \E c : LineRead(f, i, e[i], A, c)
    PROVE  FieldsFound(f, n, A)
  <1> DEFINE IsFound(i) == \/ f[i] = Nothing
                         \/ \E v \in Seq(A), d \in i..n + 1 : f[i] = Some([value |-> v, end |-> d])
             m == n + 2
             G == {i \in 1..m : IsFound(i)}
  <1>0. m \in Nat
    OBVIOUS
  <1>1. ASSUME NEW i \in 1..m, \A j \in i + 1..m : j \in G PROVE i \in G
    <2>1. CASE i > n
      <3>1. i = n + 1 \/ i = n + 2
        BY <2>1
      <3>2. f[i] = Nothing
        BY <3>1
      <3> QED
        BY <3>2
    <2>2. CASE i \in 1..n
      <3>1. PICK c : LineRead(f, i, e[i], A, c)
        BY <2>2
      <3>2. e[i] \in i..n + 1
        BY <2>2
      <3>3. CASE \E v \in Seq(A) : f[i] = Some([value |-> v, end |-> e[i]]) /\ c = Held(v)
        BY <2>2, <3>2, <3>3, Zenon
      <3>4. CASE f[i] = f[e[i] + 1]
        <4> DEFINE j == e[i] + 1
        <4>1. j \in i + 1..m /\ j \in 1..m /\ \A d \in j..n + 1 : d \in i..n + 1
          BY <2>2, <3>2
        <4>2. IsFound(j)
          BY <1>1, <4>1
        <4> HIDE DEF j
        <4>3. IsFound(i)
          <5>1. f[i] = f[j]
            BY <3>4 DEF j
          <5> QED
            BY <4>1, <4>2, <5>1, Zenon
        <4> HIDE DEF IsFound
        <4> QED
          BY <4>3
      <3> QED
        BY <3>1, <3>3, <3>4, Zenon DEF LineRead
    <2>3. i > n \/ i \in 1..n
      OBVIOUS
    <2> QED
      BY <2>1, <2>2, <2>3, Zenon
  <1> HIDE DEF G
  <1>2. \A i \in 1..m : i \in G
    BY <1>0, <1>1, FromTheEnd
  <1>3. \A i \in 1..m : IsFound(i)
    BY <1>2 DEF G
  <1> QED
    BY <1>3, Zenon DEF FieldsFound, m

\* One turn of the loop of BlsFieldAll, f being what find_field finds at each position.
AllBody(from, f, i) ==
    IF f[i] = Nothing THEN <<>> ELSE <<f[i][1].value>> \o from[f[i][1].end + 1]

\* The function it is.
AllFrom(f, n) == CHOOSE b : b = [i \in 1..n + 2 |-> AllBody(b, f, i)]

AllTurns(b, f, n, A) ==
    \A i \in 1..n + 2 :
        /\ b[i] \in Seq(Seq(A))
        /\ f[i] = Nothing => b[i] = <<>>
        /\ f[i] # Nothing => b[i] = <<f[i][1].value>> \o b[f[i][1].end + 1]

\* bls_field_all goes on behind each line it has found.
LEMMA AllLoop ==
    ASSUME NEW n \in Nat, NEW A, NEW f, FieldsFound(f, n, A)
    PROVE  AllTurns(AllFrom(f, n), f, n, A)
  <1> DEFINE m == n + 2
             none(i)  == f[i] = Nothing
             value(i) == f[i][1].value
             goes(i)  == f[i][1].end + 1
             h    == [i \in 1..m |-> IF none(i) THEN <<>> ELSE <<value(i)>>]
             next == [i \in 1..m |-> IF none(i) THEN m ELSE goes(i)]
             C    == Seq(A)
             all  == AllFrom(f, n)
  <1>0. m \in Nat \ {0} /\ m \in 1..m
    OBVIOUS
  <1>1. ASSUME NEW i \in 1..m, ~none(i)
        PROVE  value(i) \in C /\ goes(i) \in i + 1..m /\ i # m
    <2>1. PICK v \in Seq(A), d \in i..n + 1 : f[i] = Some([value |-> v, end |-> d])
      BY <1>1, Zenon DEF FieldsFound, m
    <2>2. f[i][1] = [value |-> v, end |-> d]
      BY <2>1 DEF Some
    <2>3. f[i][1].value = v /\ f[i][1].end = d
      BY <2>2
    <2> QED
      BY <2>3
  <1> HIDE DEF none, value, goes, C
  <1>2. none(m)
    BY <1>0, <1>1
  <1>3. h \in [1..m -> Seq(C)]
    <2>1. ASSUME NEW i \in 1..m PROVE (IF none(i) THEN <<>> ELSE <<value(i)>>) \in Seq(C)
      BY <1>1
    <2> HIDE DEF m
    <2> QED
      BY <2>1
  <1>4. next \in [1..m -> 1..m] /\ \A i \in 1..m - 1 : next[i] > i
    <2>1. ASSUME NEW i \in 1..m PROVE (IF none(i) THEN m ELSE goes(i)) \in 1..m
      BY <1>1
    <2>2. ASSUME NEW i \in 1..m - 1 PROVE next[i] > i
      <3>1. i \in 1..m
        BY <1>0
      <3> QED
        BY <1>1, <3>1
    <2>3. next \in [1..m -> 1..m]
      <3> HIDE DEF m
      <3> QED
        BY <2>1
    <2> QED
      BY <2>2, <2>3
  <1> HIDE DEF h, next
  <1>5. PICK g : Glues(g, m, C, h, next)
    <2> HIDE DEF m
    <2> QED
      BY <1>0, <1>3, <1>4, GluesExists
  <1>6. ASSUME NEW i \in 1..m PROVE g[i] = AllBody(g, f, i) /\ g[i] \in Seq(C)
    <2>1. g[m] = <<>> /\ g[i] \in Seq(C)
      BY <1>5 DEF Glues
    <2>2. CASE i = m
      <3>1. AllBody(g, f, i) = <<>>
        BY <1>2, <2>2, Zenon DEF AllBody, none
      <3> QED
        BY <2>1, <2>2, <3>1
    <2>3. CASE i # m
      <3>1. i \in 1..m - 1
        BY <1>0, <2>3
      <3>2. g[i] = h[i] \o g[next[i]]
        BY <1>5, <3>1 DEF Glues
      <3>3. CASE none(i)
        <4>1. h[i] = <<>> /\ next[i] = m
          BY <3>3 DEF h, next
        <4>2. <<>> \o <<>> = <<>>
          OBVIOUS
        <4>3. g[i] = <<>>
          BY <2>1, <3>2, <4>1, <4>2, Zenon
        <4> QED
          BY <2>1, <3>3, <4>3, Zenon DEF AllBody, none
      <3>4. CASE ~none(i)
        <4>1. h[i] = <<value(i)>> /\ next[i] = goes(i)
          BY <3>4 DEF h, next
        <4> QED
          BY <2>1, <3>2, <3>4, <4>1, Zenon DEF AllBody, none, value, goes
      <3> QED
        BY <3>3, <3>4
    <2> QED
      BY <2>2, <2>3
  <1>7. g = [i \in 1..m |-> AllBody(g, f, i)]
    <2>1. g = [i \in 1..m |-> g[i]]
      BY <1>5 DEF Glues
    <2> HIDE DEF m
    <2> QED
      BY <1>6, <2>1
  <1>8. all = [i \in 1..m |-> AllBody(all, f, i)]
    BY <1>7, Zenon DEF m, AllFrom
  <1> HIDE DEF all
  <1>9. \A i \in 1..m : all[i] = AllBody(all, f, i)
    BY <1>8
  <1>10. ASSUME NEW i \in 1..m
         PROVE  /\ none(i) => all[i] = <<>>
                /\ ~none(i) => all[i] = <<value(i)>> \o all[goes(i)]
    BY <1>9, Zenon DEF AllBody, none, value, goes
  <1>11. Glued(all, m, C, h, next)
    <2>1. all[m] = <<>>
      BY <1>0, <1>2, <1>10
    <2>2. ASSUME NEW i \in 1..m - 1
          PROVE  h[i] \in Seq(C) /\ next[i] \in i + 1..m /\ all[i] = h[i] \o all[next[i]]
      <3>1. i \in 1..m /\ i < m
        BY <1>0
      <3>2. h[i] \in Seq(C)
        BY <1>3, <3>1
      <3>3. next[i] \in i + 1..m
        <4>1. next[i] \in 1..m /\ next[i] > i
          BY <1>4, <3>1
        <4> QED
          BY <1>0, <4>1
      <3>4. CASE none(i)
        <4>1. h[i] = <<>> /\ next[i] = m
          BY <3>1, <3>4 DEF h, next
        <4>2. <<>> \o <<>> = <<>>
          OBVIOUS
        <4>3. all[i] = h[i] \o all[next[i]]
          BY <1>10, <2>1, <3>1, <3>4, <4>1, <4>2, Zenon
        <4> QED
          BY <3>2, <3>3, <4>3
      <3>5. CASE ~none(i)
        <4>1. h[i] = <<value(i)>> /\ next[i] = goes(i)
          BY <3>1, <3>5 DEF h, next
        <4>2. all[i] = h[i] \o all[next[i]]
          BY <1>10, <3>1, <3>5, <4>1, Zenon
        <4> QED
          BY <3>2, <3>3, <4>2
      <3> QED
        BY <3>4, <3>5
    <2> QED
      BY <2>1, <2>2, Zenon DEF Glued
  <1>12. \A i \in 1..m : all[i] \in Seq(C)
    <2> HIDE DEF m
    <2> QED
      BY <1>0, <1>11, GluedAreTexts
  <1> QED
    BY <1>10, <1>12, Zenon DEF AllTurns, m, none, value, goes, C, all

\* Functions from lines and from values: what has the key, and what is not empty.
LineValues(A, k, S, W, hash) == [x \in Seq(A) |-> LineValue(x, k, S, W, hash)]
Holds(A) == [v \in Seq(A) |-> Held(v)]

\* Both make texts of texts.
LEMMA ValuesAreTexts ==
    ASSUME NEW A, NEW k, NEW S, NEW W, NEW hash
    PROVE  /\ LineValues(A, k, S, W, hash) \in [Seq(A) -> Seq(Seq(A))]
           /\ Holds(A) \in [Seq(A) -> Seq(Seq(A))]
  <1> DEFINE C == Seq(A)
  <1>1. \A v \in C : <<v>> \in Seq(C)
    OBVIOUS
  <1>2. <<>> \in Seq(C)
    OBVIOUS
  <1>3. ASSUME NEW x \in C PROVE LineValue(x, k, S, W, hash) \in Seq(C)
    <2> DEFINE y == Trim(x, W)
               v == Past(y, Upto(y, 1, S), W)
               z == SubSeq(y, v, Len(y))
    <2>1. y \in Seq(A)
      BY TrimmedIsText
    <2> HIDE DEF y
    <2>2. v \in 1..Len(y) + 1 /\ Len(y) \in Nat
      <3>1. Len(y) \in Nat /\ 1 \in 1..Len(y) + 1
        BY <2>1, LenProperties
      <3>2. Upto(y, 1, S) \in 1..Len(y) + 1
        BY <2>1, <3>1, UptoIs
      <3>3. v \in Upto(y, 1, S)..Len(y) + 1
        BY <2>1, <3>2, PastIs
      <3> HIDE DEF v
      <3> QED
        BY <3>1, <3>2, <3>3
    <2> HIDE DEF v
    <2>3. z \in C
      <3>1. v \in Int /\ Len(y) \in Int /\ v >= 1 /\ Len(y) <= Len(y)
        BY <2>2
      <3> QED
        BY <2>1, <3>1, PartIsText
    <2> HIDE DEF C, z
    <2>4. TrimmedValue(y, k, S, W, hash) = <<z>> \/ TrimmedValue(y, k, S, W, hash) = <<>>
      BY Zenon DEF TrimmedValue, z, v
    <2> QED
      BY <1>1, <1>2, <2>3, <2>4, Zenon DEF LineValue, y
  <1>4. ASSUME NEW x \in C PROVE Held(x) \in Seq(C)
    <2> HIDE DEF C
    <2> QED
      BY <1>1, <1>2, Zenon DEF Held, Nothing, Some
  <1> HIDE DEF C
  <1>5. LineValues(A, k, S, W, hash) \in [C -> Seq(C)] /\ Holds(A) \in [C -> Seq(C)]
    BY <1>3, <1>4 DEF LineValues, Holds, C
  <1> QED
    BY <1>5 DEF C

\* The next line begins behind the end of a line, or there is none.
LEMMA NextLine ==
    ASSUME NEW A, NEW t \in Seq(A), NEW S, NEW j \in 1..Len(t)
    PROVE  LET e == Upto(t, j, S)
           IN  /\ e \in j..Len(t) + 1
               /\ e <= Len(t) => OptionNext(t, S, j) = e + 1
               /\ e = Len(t) + 1 => OptionNext(t, S, j) = Len(t) + 1
  <1> DEFINE e == Upto(t, j, S)
             T == {e + 1, Len(t) + 1}
  <1>0. Len(t) \in Nat
    BY LenProperties
  <1>1. e \in j..Len(t) + 1
    <2>1. j \in 1..Len(t) + 1
      BY <1>0
    <2> QED
      BY <2>1, UptoIs
  <1> HIDE DEF e
  <1>2. T \subseteq Nat /\ T # {}
    BY <1>0, <1>1
  <1>3. Min(T) \in T /\ \A y \in T : Min(T) <= y
    <2> HIDE DEF T
    <2> QED
      BY <1>2, MinIsLeast
  <1>4. Min(T) <= e + 1 /\ Min(T) <= Len(t) + 1 /\ (Min(T) = e + 1 \/ Min(T) = Len(t) + 1)
    BY <1>3
  <1>5. OptionNext(t, S, j) = Min(T)
    BY DEF OptionNext, e
  <1> HIDE DEF T
  <1> QED
    BY <1>0, <1>1, <1>4, <1>5 DEF e

\* The two readers agree on what stands from any position on, as if a line began there.
ReadersMeet(t, A, S, W, cr, nl, k, hash) ==
    LET f == FieldFrom(t, <<k>>, S, {nl}, W, hash)
    IN  /\ FieldsFound(f, Len(t), A)
        /\ Chosen(Holds(A), AllFrom(f, Len(t))[1]) =
               Chosen(LineValues(A, k, S, W, hash), LinesFrom(t, {nl}, cr)[1])

\* What bls_field_all finds and the values of the lines are the same, empty ones left out.
LEMMA ReadersAgreeOn ==
    ASSUME NEW A, NEW t, NEW S, NEW W, NEW cr, NEW nl, EntryText(t, A, S, W, cr, nl),
           NEW k \in A, NEW hash, KeySymbols(k, S, W, nl, hash)
    PROVE  ReadersMeet(t, A, S, W, cr, nl, k, hash)
  <1> DEFINE f == FieldFrom(t, <<k>>, S, {nl}, W, hash)
             n == Len(t)
             b == AllFrom(f, n)
             L == LinesFrom(t, {nl}, cr)
             X == Seq(A)
             H == Holds(A)
             c == LineValues(A, k, S, W, hash)
             e(j) == Upto(t, j, {nl})
             x(j) == SubSeq(t, j, LineEnd(t, {nl}, cr, j))
             m == n + 1
             G == {j \in 1..m : Chosen(H, b[j]) = Chosen(c, L[j])}
  <1>0. t \in Seq(A) /\ n \in Nat /\ m \in Nat /\ 1 \in 1..m /\ <<k>> \in Seq(A) /\ <<k>> # <<>>
    <2>1. t \in Seq(A)
      BY DEF EntryText
    <2>2. <<k>> \in Seq(A) /\ <<k>> # <<>>
      OBVIOUS
    <2>3. n \in Nat
      BY <2>1, LenProperties
    <2> QED
      BY <2>1, <2>2, <2>3
  <1>1. FieldTurns(f, t, <<k>>, S, {nl}, W, hash)
    BY <1>0, FieldLoop, Zenon
  <1> HIDE DEF f
  <1>2. \A j \in 1..n : LineRead(f, j, e(j), A, LineValue(x(j), k, S, W, hash))
    BY <1>1, LineIsRead, Zenon
  <1>3. /\ L[m] = <<>>
        /\ \A j \in 1..n : /\ x(j) \in X /\ OptionNext(t, {nl}, j) \in j + 1..m
                           /\ L[j] = <<x(j)>> \o L[OptionNext(t, {nl}, j)]
        /\ \A j \in 1..m : L[j] \in Seq(X)
    <2> DEFINE N == {nl}
    <2> HIDE DEF N
    <2>1. LinesTurns(LinesFrom(t, N, cr), t, A, N, cr)
      BY <1>0, LinesLoop
    <2> QED
      BY <2>1, Zenon DEF LinesTurns, L, n, m, x, X, N
  <1>4. \A j \in 1..n : /\ e(j) \in j..m
                        /\ e(j) <= n => OptionNext(t, {nl}, j) = e(j) + 1
                        /\ e(j) = m => OptionNext(t, {nl}, j) = m
    <2> DEFINE N == {nl}
    <2> HIDE DEF N
    <2>1. ASSUME NEW j \in 1..Len(t)
          PROVE  /\ Upto(t, j, N) \in j..Len(t) + 1
                 /\ Upto(t, j, N) <= Len(t) => OptionNext(t, N, j) = Upto(t, j, N) + 1
                 /\ Upto(t, j, N) = Len(t) + 1 => OptionNext(t, N, j) = Len(t) + 1
      BY <1>0, NextLine
    <2> QED
      BY <2>1, Zenon DEF e, n, m, N
  <1> HIDE DEF L, e, x
  <1>5. FieldsFound(f, n, A)
    <2> DEFINE E == [j \in 1..n |-> e(j)]
    <2>1. \A j \in 1..n : E[j] = e(j)
      OBVIOUS
    <2>2. f[n + 1] = Nothing /\ f[n + 2] = Nothing
      BY <1>1, Zenon DEF FieldTurns, n
    <2> HIDE DEF E, n
    <2>3. \A j \in 1..n : E[j] \in j..n + 1 /\ \E d : LineRead(f, j, E[j], A, d)
      BY <1>2, <1>4, <2>1, Zenon DEF m
    <2> QED
      BY <1>0, <2>2, <2>3, FieldsAreFound, Zenon
  <1>6. AllTurns(b, f, n, A)
    <2> HIDE DEF n
    <2> QED
      BY <1>0, <1>5, AllLoop, Zenon
  <1> HIDE DEF b
  <1>7. f[n + 1] = Nothing /\ f[n + 2] = Nothing /\ b[n + 1] = <<>> /\ b[n + 2] = <<>>
    <2>1. f[n + 1] = Nothing /\ f[n + 2] = Nothing
      BY <1>1, Zenon DEF FieldTurns, n
    <2>2. n + 1 \in 1..n + 2 /\ n + 2 \in 1..n + 2
      BY <1>0
    <2> HIDE DEF n
    <2> QED
      BY <1>6, <2>1, <2>2, Zenon DEF AllTurns
  <1> HIDE DEF n
  <1>8. c \in [X -> Seq(X)] /\ H \in [X -> Seq(X)]
    BY ValuesAreTexts
  <1>9. /\ \A z \in X : c[z] = LineValue(z, k, S, W, hash)
        /\ \A v \in X : H[v] = Held(v)
    BY Zenon DEF LineValues, Holds
  <1> HIDE DEF c, H
  <1>10. ASSUME NEW j \in 1..m, \A i \in j + 1..m : i \in G PROVE j \in G
    <2>1. CASE j = m
      <3>1. <<>> \in Seq(X)
        OBVIOUS
      <3> HIDE DEF X
      <3>2. <<>> \in X
        BY DEF X
      <3> DEFINE o == <<>>
      <3>3. o \in X /\ o \in Seq(X)
        BY <3>1, <3>2
      <3> HIDE DEF o
      <3>6. (o = <<>> => Chosen(H, o) = <<>>) /\ (o = <<>> => Chosen(c, o) = <<>>)
        <4>1. ChosenTurns(H, o, o, X) /\ ChosenTurns(c, o, o, X)
          BY <1>8, <3>3, ChosenIs
        <4> QED
          BY <4>1, Zenon DEF ChosenTurns
      <3>4. b[m] = L[m] /\ b[m] = <<>>
        BY <1>3, <1>7 DEF m
      <3>5. Chosen(H, b[m]) = Chosen(c, L[m])
        BY <3>4, <3>6, Zenon DEF o
      <3> QED
        BY <2>1, <3>5, Zenon
    <2>2. CASE j \in 1..n
      <3> DEFINE d == e(j)
                 y == x(j)
                 q == OptionNext(t, {nl}, j)
                 r == d + 1
      <3>1. d \in j..m /\ q \in j + 1..m /\ (d <= n => q = r) /\ (d = m => q = m) /\ j \in 1..n + 2
        <4>1. d \in j..m /\ (d <= n => q = r) /\ (d = m => q = m)
          <5> HIDE DEF m
          <5> QED
            BY <1>4, <2>2, Zenon
        <4>2. q \in j + 1..m
          <5> HIDE DEF m
          <5> QED
            BY <1>3, <2>2, Zenon
        <4>3. j \in 1..n + 2
          BY <1>0, <2>2
        <4> QED
          BY <4>1, <4>2, <4>3, Zenon
      <3>2. y \in X /\ L[j] = <<y>> \o L[q] /\ L[q] \in Seq(X)
        <4>1. q \in 1..m
          BY <3>1
        <4> QED
          BY <1>3, <2>2, <4>1
      <3>3. LineRead(f, j, d, A, c[y])
        BY <1>2, <1>9, <2>2, <3>2, Zenon
      <3> HIDE DEF d, y, q
      <3>4. Chosen(H, b[r]) = Chosen(c, L[q])
        <4>1. q \in G
          BY <1>10, <3>1
        <4>2. Chosen(H, b[q]) = Chosen(c, L[q])
          BY <4>1
        <4>3. b[r] = b[q]
          <5>1. CASE d <= n
            BY <3>1, <5>1
          <5>2. CASE d = m
            <6>1. r = n + 2 /\ q = n + 1
              BY <1>0, <3>1, <5>2 DEF m
            <6> QED
              BY <1>7, <6>1
          <5> QED
            BY <1>0, <3>1, <5>1, <5>2 DEF m
        <4> QED
          BY <4>2, <4>3
      <3>5. Chosen(c, L[j]) = c[y] \o Chosen(c, L[q])
        <4>1. Chosen(c, <<y>> \o L[q]) = c[y] \o Chosen(c, L[q])
          <5> DEFINE z == L[q]
          <5>1. z \in Seq(X) /\ y \in X
            BY <3>2
          <5> HIDE DEF z, X
          <5>2. Chosen(c, <<y>> \o z) = c[y] \o Chosen(c, z)
            <6>1. ChosenTurns(c, y, z, X)
              BY <1>8, <5>1, ChosenIs
            <6> QED
              BY <6>1, Zenon DEF ChosenTurns
          <5> QED
            BY <5>2 DEF z
        <4> QED
          BY <3>2, <4>1, Zenon
      <3>6. b[r] \in Seq(X) /\ r \in 1..n + 2
        <4>1. r \in 1..n + 2
          BY <1>0, <3>1, <2>2 DEF m
        <4> QED
          BY <1>6, <4>1, Zenon DEF AllTurns, X
      <3> HIDE DEF r, X
      <3>7. CASE \E v \in Seq(A) : f[j] = Some([value |-> v, end |-> d]) /\ c[y] = Held(v)
        <4>1. PICK v \in X : f[j] = Some([value |-> v, end |-> d]) /\ c[y] = Held(v)
          BY <3>7, Zenon DEF X
        <4>2. f[j] # Nothing /\ f[j][1] = [value |-> v, end |-> d]
          BY <4>1 DEF Some, Nothing
        <4>3. f[j][1].value = v /\ f[j][1].end = d
          BY <4>2
        <4>4. b[j] = <<v>> \o b[d + 1]
          BY <1>6, <3>1, <4>2, <4>3, Zenon DEF AllTurns
        <4>5. Chosen(H, <<v>> \o b[r]) = H[v] \o Chosen(H, b[r])
          <5> DEFINE z == b[r]
          <5>1. z \in Seq(X)
            BY <3>6
          <5> HIDE DEF z
          <5>2. Chosen(H, <<v>> \o z) = H[v] \o Chosen(H, z)
            <6>1. ChosenTurns(H, v, z, X)
              BY <1>8, <5>1, ChosenIs
            <6> QED
              BY <6>1, Zenon DEF ChosenTurns
          <5> QED
            BY <5>2 DEF z
        <4>6. Chosen(H, b[j]) = Chosen(c, L[j])
          BY <1>9, <3>4, <3>5, <4>1, <4>4, <4>5, Zenon DEF r
        <4> QED
          BY <4>6, Zenon
      <3>8. CASE f[j] = f[d + 1] /\ c[y] = Nothing
        <4>1. b[j] = b[r]
          <5>1. CASE f[j] = Nothing
            <6>1. b[j] = <<>> /\ b[r] = <<>>
              BY <1>6, <3>1, <3>6, <3>8, <5>1, Zenon DEF AllTurns, r
            <6> QED
              BY <6>1
          <5>2. CASE f[j] # Nothing
            <6>1. b[j] = <<f[j][1].value>> \o b[f[j][1].end + 1]
              BY <1>6, <3>1, <5>2, Zenon DEF AllTurns
            <6>2. b[r] = <<f[r][1].value>> \o b[f[r][1].end + 1]
              BY <1>6, <3>6, <3>8, <5>2, Zenon DEF AllTurns, r
            <6> QED
              BY <3>8, <6>1, <6>2, Zenon DEF r
          <5> QED
            BY <5>1, <5>2
        <4>2. Chosen(c, L[q]) \in Seq(X)
          <5>1. ChosenTurns(c, y, L[q], X)
            BY <1>8, <3>2, ChosenIs, Zenon
          <5> QED
            BY <5>1, Zenon DEF ChosenTurns
        <4>3. Nothing \o Chosen(c, L[q]) = Chosen(c, L[q])
          BY <4>2, ConcatEmptySeq, Zenon DEF Nothing
        <4>4. Chosen(H, b[j]) = Chosen(c, L[j])
          BY <3>4, <3>5, <3>8, <4>1, <4>3, Zenon
        <4> QED
          BY <4>4, Zenon
      <3> QED
        BY <3>3, <3>7, <3>8, Zenon DEF LineRead
    <2>3. j = m \/ j \in 1..n
      BY <1>0 DEF m
    <2> QED
      BY <2>1, <2>2, <2>3, Zenon
  <1> HIDE DEF G
  <1>11. \A j \in 1..m : j \in G
    <2> HIDE DEF m
    <2> QED
      BY <1>0, <1>10, FromTheEnd
  <1>12. Chosen(H, b[1]) = Chosen(c, L[1])
    <2> HIDE DEF m
    <2> QED
      BY <1>0, <1>11, Zenon DEF G
  <1> QED
    BY <1>5, <1>12, Zenon DEF f, b, c, H, L, n, ReadersMeet

-----------------------------------------------------------------------------
(* The two readers of an entry, by its lines.                              *)

\* What a function makes of the members of a sequence, given position by position.
LEMMA ChosenAt ==
    ASSUME NEW s, NEW c, NEW g, g = [i \in DOMAIN s |-> g[i]], \A i \in DOMAIN s : g[i] = c[s[i]]
    PROVE  FlattenSeq(g) = Chosen(c, s)
  <1>1. g = [i \in DOMAIN s |-> c[s[i]]]
    <2> DEFINE h == [i \in DOMAIN s |-> c[s[i]]]
    <2>1. g = h
      OBVIOUS
    <2> QED
      BY <2>1 DEF h
  <1> QED
    BY <1>1, Zenon DEF Chosen

\* The values of a sequence that are not empty.
LEMMA NonEmptyIs ==
    ASSUME NEW A, NEW s \in Seq(Seq(A))
    PROVE  NonEmpty(s) = Chosen(Holds(A), s)
  <1> DEFINE g == [i \in DOMAIN s |-> IF s[i] = <<>> THEN Nothing ELSE Some(s[i])]
  <1>1. \A i \in DOMAIN s : s[i] \in Seq(A)
    BY LenProperties, ElementOfSeq
  <1>2. \A i \in DOMAIN s : g[i] = Held(s[i])
    BY Zenon DEF Held
  <1>3. \A i \in DOMAIN s : Holds(A)[s[i]] = Held(s[i])
    BY <1>1, Zenon DEF Holds
  <1>4. g = [i \in DOMAIN s |-> g[i]]
    OBVIOUS
  <1> HIDE DEF g
  <1>5. FlattenSeq(g) = Chosen(Holds(A), s)
    BY <1>2, <1>3, <1>4, ChosenAt, Zenon
  <1> QED
    BY <1>5, Zenon DEF NonEmpty, g

\* find_field and bls_field_all are their loops.
LEMMA FindFieldIs ==
    ASSUME NEW t, NEW w, NEW i
    PROVE  FindField(t, w, i) = FieldFrom(t, w, Blank, Newline, White, "#")[i]
  BY Zenon DEF FindField, FieldFrom, FieldBody, FieldHit, FieldAt

\* So is bls_field_all.
LEMMA BlsFieldAllIs ==
    ASSUME NEW t, NEW w
    PROVE  BlsFieldAll(t, w) = AllFrom(FieldFrom(t, w, Blank, Newline, White, "#"), Len(t))[1]
  BY Zenon DEF BlsFieldAll, AllFrom, AllBody, FindField, FieldFrom, FieldBody, FieldHit, FieldAt

\* The value parse_bls reads from a line.
LEMMA LineValueIs ==
    ASSUME NEW x, NEW k
    PROVE  LineValue(x, k, Blank, White, "#") =
               Held(IF BlsLine(x).key = <<k>> THEN BlsLine(x).value ELSE <<>>)
  <1> DEFINE y == Trim(x, White)
             p == Upto(y, 1, Blank)
             v == Past(y, p, White)
             a == SubSeq(y, 1, p - 1)
             z == SubSeq(y, v, Len(y))
             P == y = <<>> \/ y[1] = "#"
  <1>1. BlsLine(x) = IF P THEN [key |-> <<>>, prefix |-> x, value |-> <<>>]
                     ELSE [key |-> a, prefix |-> SubSeq(y, 1, v - 1), value |-> z]
    BY Zenon DEF BlsLine
  <1>2. LineValue(x, k, Blank, White, "#") = IF ~P /\ a = <<k>> /\ z # <<>> THEN <<z>> ELSE <<>>
    <2>1. LineValue(x, k, Blank, White, "#") =
              IF y # <<>> /\ y[1] # "#" /\ a = <<k>> /\ z # <<>> THEN <<z>> ELSE <<>>
      BY Zenon DEF LineValue, TrimmedValue
    <2> HIDE DEF y, a, z
    <2> QED
      BY <2>1, Zenon
  <1>3. <<k>> # <<>>
    OBVIOUS
  <1> HIDE DEF y, p, v, a, z, P
  <1>4. CASE P
    <2>1. BlsLine(x).key = <<>>
      <3>1. BlsLine(x) = [key |-> <<>>, prefix |-> x, value |-> <<>>]
        BY <1>1, <1>4, Zenon
      <3> QED
        BY <3>1
    <2> QED
      BY <1>2, <1>3, <1>4, <2>1, Zenon DEF Held, Nothing
  <1>5. CASE ~P
    <2>1. BlsLine(x).key = a /\ BlsLine(x).value = z
      <3>1. BlsLine(x) = [key |-> a, prefix |-> SubSeq(y, 1, v - 1), value |-> z]
        BY <1>1, <1>5, Zenon
      <3> QED
        BY <3>1
    <2> QED
      BY <1>2, <1>5, <2>1, Zenon DEF Held, Nothing, Some
  <1> QED
    BY <1>4, <1>5

\* The lines parse_bls reads.
LEMMA ValuesOfIs ==
    ASSUME NEW A, NEW t \in Seq(A), NEW k
    PROVE  ValuesOf(ParseBls(t), <<k>>) = Chosen(LineValues(A, k, Blank, White, "#"), Lines(t))
  <1> DEFINE s == Lines(t)
             b == ParseBls(t)
             m == [i \in DOMAIN b |-> IF b[i].key = <<k>> THEN b[i].value ELSE <<>>]
             g == [i \in DOMAIN m |-> IF m[i] = <<>> THEN Nothing ELSE Some(m[i])]
             c == LineValues(A, k, Blank, White, "#")
  <1>1. \A i \in DOMAIN s : s[i] \in Seq(A)
    <2>1. s \in Seq(Seq(A))
      BY LinesAreTexts, Zenon
    <2> HIDE DEF s
    <2> QED
      BY <2>1, SequencesOf, Zenon
  <1>2. b = [i \in DOMAIN s |-> BlsLine(s[i])]
    BY Zenon DEF ParseBls
  <1> HIDE DEF s, b
  <1>3. DOMAIN b = DOMAIN s /\ DOMAIN m = DOMAIN s /\ g = [i \in DOMAIN s |-> g[i]]
    <2>1. DOMAIN b = DOMAIN s
      BY <1>2, Zenon
    <2>2. DOMAIN m = DOMAIN b /\ DOMAIN g = DOMAIN m
      BY Zenon
    <2>3. g = [i \in DOMAIN g |-> g[i]]
      BY Zenon
    <2> HIDE DEF m, g
    <2> QED
      BY <2>1, <2>2, <2>3, Zenon
  <1>4. ASSUME NEW i \in DOMAIN s PROVE g[i] = c[s[i]]
    <2>1. b[i] = BlsLine(s[i])
      BY <1>2, Zenon
    <2>2. m[i] = IF b[i].key = <<k>> THEN b[i].value ELSE <<>>
      BY <1>3, Zenon
    <2>3. g[i] = Held(m[i])
      BY <1>3, Zenon DEF Held
    <2>4. c[s[i]] = LineValue(s[i], k, Blank, White, "#")
      BY <1>1, Zenon DEF LineValues
    <2> HIDE DEF m, g, c
    <2> QED
      BY <2>1, <2>2, <2>3, <2>4, LineValueIs, Zenon
  <1>5. ValuesOf(b, <<k>>) = FlattenSeq(g)
    BY Zenon DEF ValuesOf, NonEmpty
  <1> HIDE DEF m, g, c
  <1>6. FlattenSeq(g) = Chosen(c, s)
    BY <1>3, <1>4, ChosenAt, Zenon
  <1> QED
    BY <1>5, <1>6, Zenon DEF b, c, s

\* An entry whose carriage returns end its lines is a text as above.
LEMMA EntryTextIs ==
    ASSUME NEW A, NEW t \in Seq(A), ReturnsEndLines(t)
    PROVE  EntryText(t, A, Blank, White, "\r", "\n")
  <1>1. \A c \in White : c \in Blank \/ c = "\r"
    BY Zenon DEF White
  <1>2. Blank \subseteq White /\ "\r" \in White
    BY Zenon DEF White
  <1>3. "\n" \notin White
    <2>1. "\n" # " " /\ "\n" # "\r"
      BY Zenon
    <2> QED
      BY <2>1, Zenon DEF White, Blank
  <1>4. DOMAIN t = 1..Len(t)
    BY LenProperties
  <1> QED
    BY <1>1, <1>2, <1>3, <1>4, Zenon DEF EntryText, ReturnsEndLines

\* The two keys are told apart from what else is in a line.
LEMMA KeysAreSymbols ==
    ASSUME NEW k \in {"linux", "initrd"}
    PROVE  KeySymbols(k, Blank, White, "\n", "#")
  <1>1. CASE k = "linux"
    <2>1. "linux" # " " /\ "linux" # "\r" /\ "linux" # "\n" /\ "linux" # "#"
      BY Zenon
    <2> QED
      BY <1>1, <2>1, Zenon DEF KeySymbols, White, Blank
  <1>2. CASE k = "initrd"
    <2>1. "initrd" # " " /\ "initrd" # "\r" /\ "initrd" # "\n" /\ "initrd" # "#"
      BY Zenon
    <2> QED
      BY <1>2, <2>1, Zenon DEF KeySymbols, White, Blank
  <1> QED
    BY <1>1, <1>2, Zenon

\* What bls_field_all finds are texts, and those that are not empty are the values of the
\* lines parse_bls reads.
FieldsAgree(t, A, k) ==
    /\ FieldsFound(FieldFrom(t, <<k>>, Blank, Newline, White, "#"), Len(t), A)
    /\ BlsFieldAll(t, <<k>>) \in Seq(Seq(A))
    /\ NonEmpty(BlsFieldAll(t, <<k>>)) = Chosen(LineValues(A, k, Blank, White, "#"), Lines(t))

\* This holds of every entry whose carriage returns end its lines.
LEMMA FieldsAreLineValues ==
    ASSUME NEW A, NEW t \in Seq(A), ReturnsEndLines(t), NEW k \in {"linux", "initrd"}, k \in A
    PROVE  FieldsAgree(t, A, k)
  <1> DEFINE f == FieldFrom(t, <<k>>, Blank, {"\n"}, White, "#")
             L == LinesFrom(t, {"\n"}, "\r")
             c == LineValues(A, k, Blank, White, "#")
             n == Len(t)
             b == AllFrom(f, n)
  <1>1. /\ EntryText(t, A, Blank, White, "\r", "\n")
        /\ KeySymbols(k, Blank, White, "\n", "#")
    BY EntryTextIs, KeysAreSymbols, Zenon
  <1>2. FieldsFound(f, n, A) /\ Chosen(Holds(A), b[1]) = Chosen(c, L[1])
    <2>1. ReadersMeet(t, A, Blank, White, "\r", "\n", k, "#")
      BY <1>1, ReadersAgreeOn, Zenon
    <2> QED
      BY <2>1, Zenon DEF ReadersMeet
  <1>3. Lines(t) = L[1]
    BY Zenon DEF Lines, LinesFrom, LinesBody, LineEnd, OptionNext, Newline
  <1>4. BlsFieldAll(t, <<k>>) = b[1]
    BY BlsFieldAllIs, Zenon DEF Newline
  <1>5. n \in Nat /\ 1 \in 1..n + 2
    BY LenProperties
  <1>6. FieldFrom(t, <<k>>, Blank, Newline, White, "#") = f
    BY Zenon DEF Newline
  <1> HIDE DEF f, L, c, n, b
  <1>7. AllTurns(b, f, n, A)
    BY <1>2, <1>5, AllLoop, Zenon DEF b
  <1>8. b[1] \in Seq(Seq(A))
    BY <1>5, <1>7, Zenon DEF AllTurns
  <1>9. NonEmpty(b[1]) = Chosen(Holds(A), b[1])
    BY <1>8, NonEmptyIs, Zenon
  <1> QED
    BY <1>2, <1>3, <1>4, <1>6, <1>8, <1>9, Zenon DEF FieldsAgree, c, n

\* A text of some symbols is one of these and one more.
LEMMA MoreSymbols ==
    ASSUME NEW A, NEW t \in Seq(A), NEW k
    PROVE  t \in Seq(A \cup {k}) /\ k \in A \cup {k}
  OBVIOUS

-----------------------------------------------------------------------------
(* What is made of two sequences, member by member.                        *)

\* What a function makes of the members of a sequence from position i on.
ChosenRest(c, s, i) == Chosen(c, SubSeq(s, i, Len(s)))

RestTurns(c, s, B) ==
    /\ ChosenRest(c, s, 1) = Chosen(c, s)
    /\ ChosenRest(c, s, Len(s) + 1) = <<>>
    /\ \A i \in 1..Len(s) + 1 : ChosenRest(c, s, i) \in Seq(B)
    /\ \A i \in 1..Len(s) : ChosenRest(c, s, i) = c[s[i]] \o ChosenRest(c, s, i + 1)

\* A sequence from position i on.
LEMMA RestIs ==
    ASSUME NEW X, NEW s \in Seq(X)
    PROVE  /\ SubSeq(s, 1, Len(s)) = s
           /\ SubSeq(s, Len(s) + 1, Len(s)) = <<>>
           /\ \A i \in 1..Len(s) + 1 : SubSeq(s, i, Len(s)) \in Seq(X)
           /\ \A i \in 1..Len(s) :
                 SubSeq(s, i, Len(s)) = <<s[i]>> \o SubSeq(s, i + 1, Len(s))
  <1> DEFINE n == Len(s)
             r(i) == SubSeq(s, i, n)
  <1>0. n \in Nat /\ \A i \in 1..n : s[i] \in X
    BY LenProperties, ElementOfSeq
  <1>1. ASSUME NEW i \in 1..n + 1
        PROVE  /\ r(i) \in Seq(X) /\ Len(r(i)) = n - i + 1
               /\ \A j \in 1..n - i + 1 : r(i)[j] = s[i + j - 1]
    <2>1. n \in i - 1..n
      BY <1>0
    <2> QED
      BY <2>1, PartIs
  <1> HIDE DEF r
  <1>2. r(1) = s
    <2> DEFINE z == r(1)
    <2>0. 1 \in 1..n + 1 /\ n - 1 + 1 = n
      BY <1>0
    <2>1. z \in Seq(X) /\ Len(z) = n /\ \A j \in 1..n : z[j] = s[1 + j - 1]
      BY <1>1, <2>0
    <2>2. \A j \in 1..n : 1 + j - 1 = j
      BY <1>0
    <2> HIDE DEF z
    <2>3. \A j \in 1..Len(z) : z[j] = s[j]
      BY <2>1, <2>2
    <2>4. z = s
      BY <2>1, <2>3, SeqEqual
    <2> QED
      BY <2>4 DEF z
  <1>3. r(n + 1) = <<>>
    <2>1. n + 1 \in 1..n + 1 /\ n - (n + 1) + 1 = 0
      BY <1>0
    <2>2. r(n + 1) \in Seq(X) /\ Len(r(n + 1)) = 0
      BY <1>1, <2>1
    <2> QED
      BY <2>2, EmptySeq
  <1>4. ASSUME NEW i \in 1..n PROVE r(i) = <<s[i]>> \o r(i + 1)
    <2> DEFINE k == i + 1
               y == s[i]
               p == r(k)
               q == <<y>> \o p
               z == r(i)
    <2>1. i \in 1..n + 1 /\ k \in 1..n + 1 /\ y \in X
      BY <1>0
    <2>2. p \in Seq(X) /\ Len(p) = n - k + 1 /\ \A j \in 1..n - k + 1 : p[j] = s[k + j - 1]
      BY <1>1, <2>1
    <2>3. z \in Seq(X) /\ Len(z) = n - i + 1 /\ \A j \in 1..n - i + 1 : z[j] = s[i + j - 1]
      BY <1>1, <2>1
    <2> HIDE DEF p, z, y
    <2>4. q \in Seq(X) /\ Len(q) = Len(p) + 1 /\ q[1] = y /\ \A j \in 1..Len(p) : q[j + 1] = p[j]
      BY <2>1, <2>2, OneInFront
    <2> HIDE DEF q
    <2>5. ASSUME NEW j \in 1..Len(z) PROVE z[j] = q[j]
      <3>1. CASE j = 1
        <4>1. i + 1 - 1 = i /\ 1 \in 1..n - i + 1
          BY <1>0
        <4>2. z[1] = s[i]
          BY <2>3, <4>1
        <4> QED
          BY <2>4, <3>1, <4>2 DEF y
      <3>2. CASE j # 1
        <4> DEFINE m == j - 1
        <4>1. m \in 1..n - k + 1 /\ j = m + 1 /\ k + m - 1 = i + j - 1 /\ m \in 1..Len(p)
          BY <1>0, <2>2, <2>3, <3>2
        <4> HIDE DEF m, k
        <4>2. q[j] = p[m] /\ p[m] = s[k + m - 1]
          BY <2>2, <2>4, <4>1
        <4>3. z[j] = s[i + j - 1]
          BY <2>3
        <4> QED
          BY <4>1, <4>2, <4>3
      <3> QED
        BY <3>1, <3>2
    <2>6. Len(z) = Len(q)
      BY <1>0, <2>2, <2>3, <2>4
    <2>7. z = q
      BY <2>3, <2>4, <2>5, <2>6, SeqEqual
    <2> QED
      BY <2>7, Zenon DEF z, q, p, y, k
  <1> QED
    BY <1>1, <1>2, <1>3, <1>4, Zenon DEF r, n

\* From one position to the next.
LEMMA RestsAre ==
    ASSUME NEW X, NEW B, NEW c \in [X -> Seq(B)], NEW s \in Seq(X), NEW o \in X
    PROVE  RestTurns(c, s, B)
  <1> DEFINE n == Len(s)
             r(i) == SubSeq(s, i, n)
  <1>0. n \in Nat /\ \A i \in 1..n : s[i] \in X /\ i + 1 \in 1..n + 1
    BY LenProperties, ElementOfSeq
  <1>1. /\ r(1) = s /\ r(n + 1) = <<>>
        /\ \A i \in 1..n + 1 : r(i) \in Seq(X)
        /\ \A i \in 1..n : r(i) = <<s[i]>> \o r(i + 1)
    BY RestIs, Zenon
  <1> HIDE DEF r
  <1>2. \A i \in 1..n + 1 : ChosenTurns(c, o, r(i), B)
    BY <1>1, ChosenIs, Zenon
  <1>3. \A i \in 1..n : ChosenTurns(c, s[i], r(i + 1), B)
    BY <1>0, <1>1, ChosenIs, Zenon
  <1>4. n + 1 \in 1..n + 1
    BY <1>0
  <1>5. Chosen(c, r(n + 1)) = <<>> /\ \A i \in 1..n + 1 : Chosen(c, r(i)) \in Seq(B)
    BY <1>1, <1>2, <1>4, Zenon DEF ChosenTurns
  <1>6. \A i \in 1..n : Chosen(c, r(i)) = c[s[i]] \o Chosen(c, r(i + 1))
    BY <1>1, <1>3, Zenon DEF ChosenTurns
  <1> QED
    BY <1>1, <1>5, <1>6, Zenon DEF RestTurns, ChosenRest, r, n

\* Functions that agree on the members of a sequence make the same of it.
LEMMA ChosenSame ==
    ASSUME NEW s, NEW c, NEW d, \A i \in DOMAIN s : c[s[i]] = d[s[i]]
    PROVE  Chosen(c, s) = Chosen(d, s)
  <1> DEFINE g == [i \in DOMAIN s |-> d[s[i]]]
  <1>1. g = [i \in DOMAIN s |-> g[i]] /\ \A i \in DOMAIN s : g[i] = c[s[i]]
    BY Zenon
  <1>2. Chosen(d, s) = FlattenSeq(g)
    BY Zenon DEF Chosen
  <1> HIDE DEF g
  <1>3. FlattenSeq(g) = Chosen(c, s)
    BY <1>1, ChosenAt, Zenon
  <1> QED
    BY <1>2, <1>3, Zenon

\* That a value is in a sequence.
HasMember(z, v) == \E j \in 1..Len(z) : z[j] = v

\* What is made of a member is in what is made of the sequence.
LEMMA ChosenHas ==
    ASSUME NEW X, NEW B, NEW c \in [X -> Seq(B)], NEW s \in Seq(X), NEW i \in 1..Len(s), NEW v \in B,
           c[s[i]] = <<v>>
    PROVE  HasMember(Chosen(c, s), v)
  <1> DEFINE n == Len(s)
             q(k) == ChosenRest(c, s, k)
             In(z) == \E j \in 1..Len(z) : z[j] = v
             G == {m \in 1..n : i + 1 - m \in 1..n => In(q(i + 1 - m))}
  <1>0. n \in Nat /\ s[i] \in X
    BY LenProperties, ElementOfSeq
  <1>1. RestTurns(c, s, B)
    BY <1>0, RestsAre
  <1>2. /\ q(1) = Chosen(c, s)
        /\ \A k \in 1..n + 1 : q(k) \in Seq(B)
        /\ \A k \in 1..n : q(k) = c[s[k]] \o q(k + 1)
    BY <1>1, Zenon DEF RestTurns
  <1>3. \A k \in 1..n : s[k] \in X /\ c[s[k]] \in Seq(B)
    BY <1>0, ElementOfSeq
  <1> HIDE DEF q
  <1>4. In(q(i))
    <2> DEFINE z == q(i + 1)
    <2>1. z \in Seq(B)
      BY <1>0, <1>2
    <2>2. q(i) = <<v>> \o z
      BY <1>2
    <2> HIDE DEF z
    <2>3. (<<v>> \o z)[1] = v /\ Len(<<v>> \o z) = Len(z) + 1 /\ Len(z) \in Nat
      BY <2>1, OneInFront, LenProperties
    <2>4. 1 \in 1..Len(z) + 1
      BY <2>3
    <2> QED
      BY <2>2, <2>3, <2>4, Zenon
  <1>5. ASSUME NEW m \in 1..n, \A l \in 1..m - 1 : l \in G PROVE m \in G
    <2>1. CASE m = 1
      <3>1. i + 1 - m = i
        BY <2>1
      <3> QED
        BY <1>4, <3>1
    <2>2. CASE m # 1 /\ i + 1 - m \in 1..n
      <3> DEFINE k == i + 1 - m
                 h == c[s[k]]
                 z == q(k + 1)
      <3>1. /\ m - 1 \in 1..m - 1 /\ i + 1 - (m - 1) = k + 1
            /\ k + 1 \in 1..n /\ k \in 1..n /\ k + 1 \in 1..n + 1
        BY <1>0, <2>2
      <3>2. In(z)
        <4>1. m - 1 \in G
          BY <1>5, <3>1
        <4>2. i + 1 - (m - 1) \in 1..n => In(q(i + 1 - (m - 1)))
          BY <4>1
        <4> QED
          BY <3>1, <4>2
      <3> HIDE DEF k
      <3>3. h \in Seq(B) /\ z \in Seq(B) /\ q(k) = h \o z
        BY <1>2, <1>3, <3>1
      <3> HIDE DEF h, z
      <3>4. /\ Len(h) \in Nat /\ Len(z) \in Nat /\ Len(h \o z) = Len(h) + Len(z)
            /\ \A j \in 1..Len(z) : (h \o z)[Len(h) + j] = z[j]
        BY <3>3, InFrontOf
      <3>5. PICK j \in 1..Len(z) : z[j] = v
        BY <3>2
      <3>6. Len(h) + j \in 1..Len(h \o z)
        BY <3>4
      <3>7. In(q(k))
        BY <3>3, <3>4, <3>5, <3>6
      <3> QED
        BY <3>7 DEF k
    <2> QED
      BY <2>1, <2>2
  <1>6. \A m \in 1..n : m \in G
    BY <1>0, <1>5, FromTheStart
  <1>7. In(q(1))
    <2>1. i \in 1..n /\ i + 1 - i = 1 /\ 1 \in 1..n
      BY <1>0
    <2>2. i + 1 - i \in 1..n => In(q(i + 1 - i))
      BY <1>6, <2>1
    <2> QED
      BY <2>1, <2>2
  <1> QED
    BY <1>2, <1>7, Zenon DEF HasMember

\* A function of every member of a sequence.
Mapped(m, z) == [j \in DOMAIN z |-> m[z[j]]]

MappedTurns(m, v, z) == Mapped(m, <<v>> \o z) = <<m[v]>> \o Mapped(m, z)

\* One more member in front, and its image is in front.
LEMMA MappedIs ==
    ASSUME NEW B, NEW M, NEW m \in [B -> M], NEW v \in B, NEW z \in Seq(B)
    PROVE  MappedTurns(m, v, z)
  <1> DEFINE q == <<v>> \o z
             n == Len(z)
             p == Mapped(m, z)
             w == Mapped(m, q)
             y == m[v]
             x == <<y>> \o p
  <1>1. /\ q \in Seq(B) /\ Len(q) = n + 1 /\ q[1] = v
        /\ \A i \in 1..n : q[i + 1] = z[i]
    BY OneInFront
  <1> HIDE DEF q
  <1>2. /\ n \in Nat /\ DOMAIN z = 1..n /\ DOMAIN q = 1..n + 1
        /\ \A i \in 1..n : z[i] \in B
        /\ \A i \in 1..n + 1 : q[i] \in B
    <2>1. n \in Nat /\ DOMAIN z = 1..n /\ \A i \in 1..n : z[i] \in B
      BY LenProperties, ElementOfSeq
    <2>2. DOMAIN q = 1..Len(q) /\ \A i \in 1..Len(q) : q[i] \in B
      BY <1>1, LenProperties, ElementOfSeq
    <2> QED
      BY <1>1, <2>1, <2>2
  <1>3. /\ p \in [1..n -> M] /\ w \in [1..n + 1 -> M] /\ y \in M
        /\ \A i \in 1..n : p[i] = m[z[i]]
        /\ \A i \in 1..n + 1 : w[i] = m[q[i]]
    BY <1>2 DEF Mapped
  <1> HIDE DEF p, w, y
  <1>4. p \in Seq(M) /\ Len(p) = n /\ w \in Seq(M) /\ Len(w) = n + 1
    <2>1. n + 1 \in Nat
      BY <1>2
    <2> HIDE DEF n
    <2> QED
      BY <1>2, <1>3, <2>1, IsSequence, Zenon
  <1>5. x \in Seq(M) /\ Len(x) = Len(p) + 1 /\ x[1] = y /\ \A i \in 1..Len(p) : x[i + 1] = p[i]
    BY <1>3, <1>4, OneInFront
  <1> HIDE DEF x
  <1>6. ASSUME NEW i \in 1..Len(w) PROVE w[i] = x[i]
    <2>1. CASE i = 1
      BY <1>1, <1>2, <1>3, <1>4, <1>5, <2>1 DEF y
    <2>2. CASE i # 1
      <3> DEFINE k == i - 1
      <3>1. k \in 1..n /\ i = k + 1 /\ i \in 1..n + 1
        BY <1>2, <1>4, <2>2
      <3> HIDE DEF k
      <3>2. w[k + 1] = m[q[k + 1]] /\ q[k + 1] = z[k] /\ x[k + 1] = p[k] /\ p[k] = m[z[k]]
        BY <1>1, <1>3, <1>4, <1>5, <3>1
      <3> QED
        BY <3>1, <3>2
    <2> QED
      BY <2>1, <2>2
  <1>7. w = x
    BY <1>4, <1>5, <1>6, SeqEqual
  <1> QED
    BY <1>7, Zenon DEF MappedTurns, q, w, x, p, y

\* What is made of two members: nothing, or one thing and its image.
Becomes(a, b, m, V) == \/ a = <<>> /\ b = <<>>
                       \/ \E v \in V : a = <<v>> /\ b = <<m[v]>>

ChosenMapped(c, d, m, s) == Chosen(d, s) = Mapped(m, Chosen(c, s))

\* If this is so for each member, what is made of all is the image of what is made of all.
LEMMA ChosenMaps ==
    ASSUME NEW X, NEW B, NEW M, NEW c \in [X -> Seq(B)], NEW d \in [X -> Seq(M)],
           NEW m \in [B -> M], NEW s \in Seq(X), NEW o \in X,
           \A i \in 1..Len(s) : Becomes(c[s[i]], d[s[i]], m, B)
    PROVE  ChosenMapped(c, d, m, s)
  <1> DEFINE n == Len(s)
             q(i) == ChosenRest(c, s, i)
             r(i) == ChosenRest(d, s, i)
             u == n + 1
             G == {i \in 1..u : r(i) = Mapped(m, q(i))}
  <1>0. n \in Nat /\ u \in Nat /\ 1 \in 1..u
    BY LenProperties
  <1>1. RestTurns(c, s, B) /\ RestTurns(d, s, M)
    BY RestsAre
  <1>2. /\ q(1) = Chosen(c, s) /\ q(u) = <<>>
        /\ \A i \in 1..u : q(i) \in Seq(B)
        /\ \A i \in 1..n : q(i) = c[s[i]] \o q(i + 1)
    BY <1>1, Zenon DEF RestTurns
  <1>3. /\ r(1) = Chosen(d, s) /\ r(u) = <<>>
        /\ \A i \in 1..u : r(i) \in Seq(M)
        /\ \A i \in 1..n : r(i) = d[s[i]] \o r(i + 1)
    BY <1>1, Zenon DEF RestTurns
  <1> HIDE DEF q, r
  <1>4. ASSUME NEW i \in 1..u, \A j \in i + 1..u : j \in G PROVE i \in G
    <2>1. CASE i = u
      <3>1. Mapped(m, <<>>) = <<>>
        BY DEF Mapped
      <3> HIDE DEF u
      <3>2. r(u) = Mapped(m, q(u))
        BY <1>2, <1>3, <3>1, Zenon
      <3> QED
        BY <2>1, <3>2
    <2>2. CASE i \in 1..n
      <3> DEFINE k == i + 1
                 z == q(k)
                 y == r(k)
      <3>1. k \in i + 1..u /\ k \in 1..u
        BY <1>0, <2>2
      <3>2. y = Mapped(m, z)
        <4>1. k \in G
          BY <1>4, <3>1
        <4> QED
          BY <4>1
      <3>3. q(i) = c[s[i]] \o z /\ r(i) = d[s[i]] \o y /\ z \in Seq(B) /\ y \in Seq(M)
        BY <1>2, <1>3, <2>2, <3>1
      <3> HIDE DEF z, y, k, u
      <3>4. CASE c[s[i]] = <<>> /\ d[s[i]] = <<>>
        <4>1. <<>> \o z = z /\ <<>> \o y = y
          BY <3>3, ConcatEmptySeq
        <4>2. r(i) = Mapped(m, q(i))
          BY <3>2, <3>3, <3>4, <4>1, Zenon
        <4> QED
          BY <4>2
      <3>5. CASE \E v \in B : c[s[i]] = <<v>> /\ d[s[i]] = <<m[v]>>
        <4>1. PICK v \in B : c[s[i]] = <<v>> /\ d[s[i]] = <<m[v]>>
          BY <3>5, Zenon
        <4>2. Mapped(m, <<v>> \o z) = <<m[v]>> \o Mapped(m, z)
          <5>1. MappedTurns(m, v, z)
            BY <3>3, MappedIs
          <5> QED
            BY <5>1, Zenon DEF MappedTurns
        <4>3. r(i) = Mapped(m, q(i))
          BY <3>2, <3>3, <4>1, <4>2, Zenon
        <4> QED
          BY <4>3
      <3>6. \/ c[s[i]] = <<>> /\ d[s[i]] = <<>>
            \/ \E v \in B : c[s[i]] = <<v>> /\ d[s[i]] = <<m[v]>>
        BY <2>2, Zenon DEF Becomes
      <3> QED
        BY <3>4, <3>5, <3>6, Zenon
    <2>3. i = u \/ i \in 1..n
      <3> HIDE DEF n, G
      <3> QED
        BY <1>0
    <2> QED
      BY <2>1, <2>2, <2>3, Zenon
  <1>5. \A i \in 1..u : i \in G
    <2> HIDE DEF u, G
    <2> QED
      BY <1>0, <1>4, FromTheEnd
  <1>6. r(1) = Mapped(m, q(1))
    <2> HIDE DEF u
    <2> QED
      BY <1>0, <1>5
  <1> QED
    BY <1>2, <1>3, <1>6, Zenon DEF ChosenMapped

-----------------------------------------------------------------------------
(* A line that is given another value.                                     *)

\* A text that has nothing to trim at its ends stays.
LEMMA TrimStays ==
    ASSUME NEW A, NEW z \in Seq(A), z # <<>>, NEW W, z[1] \notin W, z[Len(z)] \notin W
    PROVE  Trim(z, W) = z
  <1> DEFINE n == Len(z)
  <1>0. n \in Nat \ {0} /\ 1 \in 1..n + 1 /\ n \in 1 - 1..n
    BY LenProperties, EmptySeq
  <1>1. Inked(z, W, 1, n, 1, n)
    BY <1>0 DEF Inked
  <1>2. SubSeq(z, 1, n) = z
    BY RestIs, Zenon
  <1>3. \A a, b : Inked(z, W, 1, n, a, b) => Trim(SubSeq(z, 1, n), W) = SubSeq(z, a, b)
    BY <1>0, TrimmedIs
  <1> HIDE DEF n
  <1> QED
    BY <1>1, <1>2, <1>3, Zenon

\* A trimmed text, if anything is left, is a part of the text with nothing to trim at its
\* ends.
TrimmedPart(x, y, W) ==
    /\ y # <<>> /\ y[1] \notin W /\ y[Len(y)] \notin W /\ Trim(y, W) = y
    /\ \E a \in 1..Len(x) : \E b \in a..Len(x) :
          /\ Len(y) = b - a + 1
          /\ \A i \in 1..Len(y) : y[i] = x[a + i - 1]

\* Nothing is left, or such a part.
LEMMA TrimLeaves ==
    ASSUME NEW A, NEW x \in Seq(A), NEW W
    PROVE  Trim(x, W) = <<>> \/ TrimmedPart(x, Trim(x, W), W)
  <1> DEFINE n == Len(x)
             y == Trim(x, W)
  <1>0. n \in Nat /\ 1 \in 1..n + 1 /\ n \in 1 - 1..n
    BY LenProperties
  <1>1. /\ \A a, b : Inked(x, W, 1, n, a, b) => Trim(SubSeq(x, 1, n), W) = SubSeq(x, a, b)
        /\ (\A j \in 1..n : x[j] \in W) => Trim(SubSeq(x, 1, n), W) = <<>>
    BY <1>0, TrimmedIs
  <1>2. SubSeq(x, 1, n) = x
    BY RestIs, Zenon
  <1>3. ASSUME NEW z \in 1..n, x[z] \notin W PROVE TrimmedPart(x, y, W)
    <2>1. 1 \in 1..n /\ n \in 1..n
      BY <1>0, <1>3
    <2>2. PICK a, b : Inked(x, W, 1, n, a, b)
      <3> HIDE DEF n
      <3> QED
        BY <1>0, <1>3, <2>1, InkedExists
    <2>3. a \in 1..n /\ b \in a..n /\ x[a] \notin W /\ x[b] \notin W
      BY <2>2 DEF Inked
    <2>4. y = SubSeq(x, a, b)
      <3> HIDE DEF n
      <3> QED
        BY <1>1, <1>2, <2>2, Zenon
    <2>5. y \in Seq(A) /\ Len(y) = b - a + 1 /\ \A j \in 1..b - a + 1 : y[j] = x[a + j - 1]
      <3> DEFINE q == SubSeq(x, a, b)
      <3>1. a \in 1..Len(x) + 1 /\ b \in a - 1..Len(x)
        BY <1>0, <2>3
      <3>2. q \in Seq(A) /\ Len(q) = b - a + 1 /\ \A j \in 1..b - a + 1 : q[j] = x[a + j - 1]
        BY <3>1, PartIs
      <3> HIDE DEF q, y
      <3> QED
        BY <2>4, <3>2 DEF q
    <2> HIDE DEF y
    <2>6. Len(y) \in Nat \ {0} /\ y # <<>>
      BY <1>0, <2>3, <2>5, EmptySeq
    <2>7. y[1] = x[a] /\ y[Len(y)] = x[b]
      <3> DEFINE m == Len(y)
      <3>1. m \in 1..b - a + 1 /\ 1 \in 1..b - a + 1 /\ a + 1 - 1 = a /\ a + m - 1 = b
        BY <1>0, <2>3, <2>5, <2>6
      <3> HIDE DEF m
      <3>2. y[1] = x[a + 1 - 1] /\ y[m] = x[a + m - 1]
        BY <2>5, <3>1
      <3> QED
        BY <3>1, <3>2 DEF m
    <2>8. Trim(y, W) = y
      BY <2>3, <2>5, <2>6, <2>7, TrimStays
    <2>9. a \in 1..Len(x) /\ b \in a..Len(x) /\ Len(y) = b - a + 1 /\ \A i \in 1..Len(y) : y[i] = x[a + i - 1]
      BY <2>3, <2>5
    <2> HIDE DEF n
    <2> QED
      BY <2>3, <2>6, <2>7, <2>8, <2>9, Zenon DEF TrimmedPart
  <1> QED
    BY <1>1, <1>2, <1>3, Zenon

\* A line has no newline, and a carriage return only at its end; most have none.
Clean(x, nl, cr)  == \A i \in 1..Len(x) : x[i] # nl /\ x[i] # cr
Almost(x, nl, cr) == \A i \in 1..Len(x) : x[i] # nl /\ (x[i] = cr => i = Len(x))

\* What is left of a line has no carriage return.
LEMMA TrimmedIsClean ==
    ASSUME NEW A, NEW x \in Seq(A), NEW W, NEW nl, NEW cr \in W, Almost(x, nl, cr), NEW y,
           TrimmedPart(x, y, W)
    PROVE  Clean(y, nl, cr)
  <1>0. PICK a \in 1..Len(x) : \E b \in a..Len(x) :
               /\ Len(y) = b - a + 1
               /\ \A i \in 1..Len(y) : y[i] = x[a + i - 1]
    BY Zenon DEF TrimmedPart
  <1>1. PICK b \in a..Len(x) : /\ Len(y) = b - a + 1
                               /\ \A i \in 1..Len(y) : y[i] = x[a + i - 1]
    BY <1>0, Zenon
  <1>2. Len(x) \in Nat /\ Len(y) \in Nat \ {0}
    BY <1>1, LenProperties
  <1>3. ASSUME NEW i \in 1..Len(y) PROVE y[i] # nl /\ y[i] # cr
    <2> DEFINE j == a + i - 1
    <2>1. j \in 1..Len(x) /\ y[i] = x[j]
      BY <1>1, <1>2
    <2>2. x[j] # nl /\ (x[j] = cr => j = Len(x))
      BY <2>1 DEF Almost
    <2>3. j = Len(x) => i = Len(y)
      BY <1>1, <1>2
    <2> HIDE DEF j
    <2>4. y[Len(y)] \notin W
      BY Zenon DEF TrimmedPart
    <2> QED
      BY <2>1, <2>2, <2>3, <2>4
  <1> QED
    BY <1>3 DEF Clean

\* A line of a key with another value.
GivenValue(y, z, A, S, W, hash, k, w) ==
    /\ z \in Seq(A) /\ z # <<>> /\ z[1] = k /\ Trim(z, W) = z
    /\ SubSeq(z, 1, Upto(z, 1, S) - 1) = <<k>>
    /\ TrimmedValue(z, k, S, W, hash) = <<w>>
    /\ \A i \in 1..Len(z) : \/ \E j \in 1..Len(y) : z[i] = y[j]
                            \/ \E j \in 1..Len(w) : z[i] = w[j]

\* A line is rewritten by what follows its key and the blanks behind it.
LEMMA LineIsRewritten ==
    ASSUME NEW A, NEW y \in Seq(A), NEW S, NEW W, S \subseteq W, NEW k, k \notin W, NEW hash,
           k # hash, y[Len(y)] \notin W, 2 <= Len(y), y[1] = k, y[2] \in S,
           NEW w \in Seq(A), w # <<>>, w[1] \notin W, w[Len(w)] \notin W
    PROVE  GivenValue(y, SubSeq(y, 1, Past(y, 2, W) - 1) \o w, A, S, W, hash, k, w)
  <1> DEFINE v == Past(y, 2, W)
             q == v - 1
             g == SubSeq(y, 1, q)
             z == g \o w
             n == Len(y)
             l == Len(w)
  <1>0. n \in Nat /\ l \in Nat \ {0} /\ y # <<>> /\ k \notin S /\ 1 \in 1..n + 1 /\ 2 \in 1..n + 1
    BY LenProperties, EmptySeq
  <1>1. v \in 3..n
    BY <1>0, TrimmedValueIs
  <1>2. \A j \in 2..q : y[j] \in W
    BY <1>0, PastIs
  <1> HIDE DEF v
  <1>3. g \in Seq(A) /\ Len(g) = q /\ \A j \in 1..q : g[j] = y[j]
    <2>1. q \in 1 - 1..n /\ q - 1 + 1 = q /\ \A j \in 1..q : 1 + j - 1 = j
      BY <1>0, <1>1
    <2> HIDE DEF q, n
    <2>2. g \in Seq(A) /\ Len(g) = q - 1 + 1 /\ \A j \in 1..q - 1 + 1 : g[j] = y[1 + j - 1]
      BY <1>0, <2>1, PartIs DEF n
    <2> HIDE DEF g
    <2> QED
      BY <2>1, <2>2
  <1> HIDE DEF g
  <1>4. /\ z \in Seq(A) /\ Len(z) = q + l
        /\ \A i \in 1..q : z[i] = y[i]
        /\ \A i \in 1..l : z[q + i] = w[i]
    <2>1. /\ z \in Seq(A) /\ Len(z) = Len(g) + Len(w)
          /\ \A i \in 1..Len(g) : z[i] = g[i]
          /\ \A i \in 1..Len(w) : z[Len(g) + i] = w[i]
      <3>1. g \in Seq(A) /\ w \in Seq(A)
        BY <1>3
      <3> HIDE DEF q
      <3>2. z \in Seq(A) /\ Len(z) = Len(g) + Len(w)
        BY <3>1, ConcatProperties
      <3>3. \A i \in 1..Len(g) : z[i] = g[i]
        BY <3>1, InFrontOf
      <3>4. \A i \in 1..Len(w) : z[Len(g) + i] = w[i]
        BY <3>1, InFrontOf
      <3> HIDE DEF z, g
      <3> QED
        BY <3>2, <3>3, <3>4
    <2> HIDE DEF z
    <2>2. \A i \in 1..q : i \in 1..Len(g)
      BY <1>3
    <2> HIDE DEF q
    <2> QED
      BY <1>3, <2>1, <2>2
  <1>5. SubSeq(z, v, Len(z)) = w
    <2>1. SubSeq(g \o w, Len(g) + 1, Len(g \o w)) = w
      BY <1>3, BehindIt
    <2>2. Len(g) + 1 = v
      BY <1>1, <1>3
    <2> HIDE DEF q
    <2> QED
      BY <2>1, <2>2
  <1> HIDE DEF z
  <1>6. /\ z # <<>> /\ z[1] = k /\ z[2] \in S /\ 2 <= Len(z) /\ Len(z) \in Nat
        /\ z[v] \notin W /\ z[Len(z)] \notin W
    <2>1. Len(z) \in Nat /\ 3 <= Len(z) /\ 1 \in 1..q /\ 2 \in 1..q /\ 1 \in 1..l /\ l \in 1..l /\ q + 1 = v
      BY <1>0, <1>1, <1>4
    <2>2. z # <<>>
      BY <1>4, <2>1, EmptySeq
    <2>3. z[1] = k /\ z[2] \in S
      BY <1>4, <2>1
    <2>4. z[q + 1] = w[1] /\ z[q + l] = w[l]
      <3> HIDE DEF l, q
      <3> QED
        BY <1>4, <2>1
    <2> QED
      BY <1>4, <2>1, <2>2, <2>3, <2>4
  <1>7. Past(z, 2, W) = v
    <2>1. 2 \in 1..Len(z) + 1 /\ v \in 2..Len(z) + 1
      BY <1>0, <1>1, <1>4
    <2>2. \A j \in 2..v - 1 : z[j] \in W
      <3>1. \A j \in 2..v - 1 : j \in 1..q
        BY <1>1
      <3> QED
        BY <1>2, <1>4, <3>1
    <2> HIDE DEF q
    <2> QED
      <3>1. z \in Seq(A) /\ z[v] \notin W
        BY <1>4, <1>6
      <3> QED
        BY <2>1, <2>2, <3>1, FirstOther, Zenon
  <1>8. TrimmedValue(z, k, S, W, hash) = <<w>>
    <2>1. TrimmedValue(z, k, S, W, hash) = <<SubSeq(z, Past(z, 2, W), Len(z))>>
      <3> HIDE DEF q, l, n
      <3>1. z \in Seq(A) /\ z # <<>> /\ z[Len(z)] \notin W /\ 2 <= Len(z) /\ z[1] = k /\ z[2] \in S
        BY <1>4, <1>6
      <3> QED
        BY <3>1, TrimmedValueIs, SMTT(15)
    <2> HIDE DEF q, l, n
    <2> QED
      BY <1>5, <1>7, <2>1, Zenon
  <1>9. SubSeq(z, 1, Upto(z, 1, S) - 1) = <<k>>
    <2> HIDE DEF q, l, n
    <2> QED
      BY <1>0, <1>4, <1>6, KeyIs
  <1>10. Trim(z, W) = z
    BY <1>4, <1>6, TrimStays
  <1>11. ASSUME NEW i \in 1..Len(z)
         PROVE  (\E j \in 1..Len(y) : z[i] = y[j]) \/ (\E j \in 1..Len(w) : z[i] = w[j])
    <2>1. CASE i <= q
      <3>1. i \in 1..q /\ i \in 1..Len(y)
        BY <1>0, <1>1, <1>4, <2>1
      <3> QED
        BY <1>4, <3>1
    <2>2. CASE i > q
      <3> DEFINE j == i - q
      <3>1. j \in 1..l /\ i = q + j
        BY <1>0, <1>1, <1>4, <2>2
      <3> HIDE DEF j
      <3>2. z[i] = w[j]
        BY <1>4, <3>1
      <3> QED
        BY <3>1, <3>2
    <2> QED
      BY <1>0, <1>1, <1>4, <2>1, <2>2
  <1> HIDE DEF q, l, n
  <1> QED
    BY <1>4, <1>6, <1>8, <1>9, <1>10, <1>11, Zenon DEF GivenValue, z, g, q, v

-----------------------------------------------------------------------------
(* Lines that are joined, and divided again.                               *)

\* What ends something in the end of a text is what ends it there.
LEMMA UptoAtEnd ==
    ASSUME NEW A, NEW u \in Seq(A), NEW y \in Seq(A), NEW d \in Nat, EndsWith(u, d, y),
           NEW S, NEW i \in 1..Len(y) + 1
    PROVE  Upto(u, d + i, S) = d + Upto(y, i, S)
  <1> DEFINE e == Upto(y, i, S)
             p == Upto(u, d + i, S)
  <1>0. Len(y) \in Nat /\ Len(u) = d + Len(y) /\ \A j \in 1..Len(y) : u[d + j] = y[j]
    BY LenProperties DEF EndsWith
  <1>1. e \in i..Len(y) + 1 /\ (e <= Len(y) => y[e] \in S) /\ \A j \in i..e - 1 : y[j] \notin S
    BY UptoIs
  <1>2. /\ p \in d + i..Len(u) + 1 /\ (p <= Len(u) => u[p] \in S)
        /\ \A j \in d + i..p - 1 : u[j] \notin S
    <2>1. d + i \in 1..Len(u) + 1
      BY <1>0
    <2> QED
      BY <2>1, UptoIs
  <1> HIDE DEF e, p
  <1>3. ASSUME NEW j \in i..e - 1 PROVE u[d + j] \notin S
    <2>1. j \in 1..Len(y)
      BY <1>0, <1>1
    <2>2. y[j] \notin S
      BY <1>1
    <2> QED
      BY <1>0, <2>1, <2>2
  <1>4. ~(p < d + e)
    <2>1. SUFFICES ASSUME p < d + e PROVE FALSE
      OBVIOUS
    <2>2. p - d \in i..e - 1 /\ d + (p - d) = p /\ p <= Len(u)
      BY <1>0, <1>1, <1>2, <2>1
    <2>3. u[d + (p - d)] \notin S
      BY <1>3, <2>2
    <2> QED
      BY <1>2, <2>2, <2>3
  <1>5. ~(p > d + e)
    <2>1. SUFFICES ASSUME p > d + e PROVE FALSE
      OBVIOUS
    <2>2. d + e \in d + i..p - 1 /\ e \in 1..Len(y)
      BY <1>0, <1>1, <1>2, <2>1
    <2> QED
      <3>1. u[d + e] \notin S
        BY <1>2, <2>2
      <3>2. y[e] \in S
        BY <1>1, <2>2
      <3>3. u[d + e] = y[e]
        BY <1>0, <2>2
      <3> QED
        BY <3>1, <3>2, <3>3
  <1>6. p = d + e
    BY <1>0, <1>1, <1>2, <1>4, <1>5
  <1> QED
    BY <1>6 DEF e, p

\* The lines of the end of a text are its lines.
LEMMA LinesAtEnd ==
    ASSUME NEW A, NEW u \in Seq(A), NEW y \in Seq(A), NEW d \in Nat, EndsWith(u, d, y),
           NEW S, NEW cr
    PROVE  \A j \in 1..Len(y) + 1 : LinesFrom(u, S, cr)[d + j] = LinesFrom(y, S, cr)[j]
  <1> DEFINE f == LinesFrom(y, S, cr)
             g == LinesFrom(u, S, cr)
             n == Len(y) + 1
             G == {j \in 1..n : g[d + j] = f[j]}
  <1>0. Len(y) \in Nat /\ Len(u) = d + Len(y) /\ n \in Nat /\ \A j \in 1..Len(y) : u[d + j] = y[j]
    BY LenProperties DEF EndsWith
  <1>1. LinesTurns(f, y, A, S, cr) /\ LinesTurns(g, u, A, S, cr)
    BY LinesLoop
  <1> HIDE DEF f, g
  <1>2. ASSUME NEW i \in 1..n, \A j \in i + 1..n : j \in G PROVE i \in G
    <2>1. CASE i = n
      <3>1. d + n = Len(u) + 1
        BY <1>0
      <3>2. f[n] = <<>> /\ g[Len(u) + 1] = <<>>
        BY <1>1 DEF LinesTurns
      <3> QED
        BY <2>1, <3>1, <3>2
    <2>2. CASE i \in 1..Len(y)
      <3> DEFINE e == Upto(y, i, S)
                 k == d + i
                 q == LineEnd(y, S, cr, i)
                 p == OptionNext(y, S, i)
      <3>0. k \in 1..Len(u)
        BY <1>0, <2>2
      <3>1. e \in i..n /\ Upto(u, k, S) = d + e
        <4>1. e \in i..n
          BY UptoIs
        <4> QED
          BY <4>1, UptoAtEnd
      <3> HIDE DEF e
      <3>2. q \in i - 1..Len(y) /\ LineEnd(u, S, cr, k) = d + q
        <4>1. q = IF e \in i + 1..Len(y) /\ y[e - 1] = cr THEN e - 2 ELSE e - 1
          BY DEF LineEnd, e
        <4>2. LineEnd(u, S, cr, k) =
                  IF d + e \in k + 1..Len(u) /\ u[d + e - 1] = cr THEN d + e - 2 ELSE d + e - 1
          <5> DEFINE z == Upto(u, k, S)
          <5>1. LineEnd(u, S, cr, k) = IF z \in k + 1..Len(u) /\ u[z - 1] = cr THEN z - 2 ELSE z - 1
            BY DEF LineEnd
          <5>2. z = d + e
            BY <3>1
          <5>3. e \in Nat /\ k \in Nat
            BY <1>0, <2>2, <3>0, <3>1
          <5> HIDE DEF k, z, q, p, n, G
          <5>4. CASE z \in k + 1..Len(u) /\ u[z - 1] = cr
            BY <5>1, <5>2, <5>3, <5>4
          <5>5. CASE ~(z \in k + 1..Len(u) /\ u[z - 1] = cr)
            BY <5>1, <5>2, <5>3, <5>5
          <5> QED
            BY <5>4, <5>5
        <4>3. d + e \in k + 1..Len(u) <=> e \in i + 1..Len(y)
          BY <1>0, <2>2, <3>1
        <4>4. e \in i + 1..Len(y) => u[d + e - 1] = y[e - 1]
          <5>1. ASSUME e \in i + 1..Len(y) PROVE u[d + e - 1] = y[e - 1]
            <6> DEFINE b == e - 1
            <6>1. b \in 1..Len(y) /\ d + e - 1 = d + b
              BY <1>0, <2>2, <3>1, <5>1
            <6> HIDE DEF b
            <6>2. u[d + b] = y[b]
              BY <1>0, <6>1
            <6> QED
              BY <6>1, <6>2 DEF b
          <5> QED
            BY <5>1
        <4> HIDE DEF k, q
        <4> QED
          BY <1>0, <2>2, <3>1, <4>1, <4>2, <4>3, <4>4
      <3>3. SubSeq(u, k, LineEnd(u, S, cr, k)) = SubSeq(y, i, q)
        <4> DEFINE a == i
        <4>1. a \in Nat \ {0} /\ q \in Int /\ q <= Len(y)
          BY <1>0, <2>2, <3>2
        <4> HIDE DEF a, q
        <4>2. SamePart(u, d, y, a, q)
          BY <4>1, EndOfText
        <4>3. SubSeq(u, d + i, d + q) = SubSeq(y, i, q)
          BY <4>2 DEF SamePart, a
        <4> QED
          BY <3>2, <4>3
      <3>4. p \in i + 1..n /\ OptionNext(u, S, k) = d + p
        <4>1. (e <= Len(y) => p = e + 1) /\ (e = Len(y) + 1 => p = Len(y) + 1)
          BY <2>2, NextLine DEF e
        <4>2. /\ d + e <= Len(u) => OptionNext(u, S, k) = d + e + 1
              /\ d + e = Len(u) + 1 => OptionNext(u, S, k) = Len(u) + 1
          <5>1. /\ Upto(u, k, S) <= Len(u) => OptionNext(u, S, k) = Upto(u, k, S) + 1
                /\ Upto(u, k, S) = Len(u) + 1 => OptionNext(u, S, k) = Len(u) + 1
            <6> HIDE DEF k
            <6> QED
              BY <3>0, NextLine
          <5> HIDE DEF k
          <5> QED
            BY <3>1, <5>1
        <4> HIDE DEF p, k
        <4>3. CASE e <= Len(y)
          <5>1. p = e + 1 /\ d + e <= Len(u)
            BY <1>0, <3>1, <4>1, <4>3
          <5>2. OptionNext(u, S, k) = d + e + 1
            BY <4>2, <5>1
          <5> QED
            BY <1>0, <2>2, <3>1, <4>3, <5>1, <5>2
        <4>4. CASE e = Len(y) + 1
          <5>1. p = Len(y) + 1 /\ d + e = Len(u) + 1
            BY <1>0, <4>1, <4>4
          <5>2. OptionNext(u, S, k) = Len(u) + 1
            BY <4>2, <5>1
          <5> QED
            BY <1>0, <2>2, <5>1, <5>2
        <4> QED
          BY <1>0, <3>1, <4>3, <4>4
      <3> HIDE DEF p, q, k
      <3>5. f[i] = <<SubSeq(y, i, q)>> \o f[p]
        BY <1>1, <2>2, Zenon DEF LinesTurns, p, q
      <3>6. g[k] = <<SubSeq(y, i, q)>> \o g[d + p]
        BY <1>1, <3>0, <3>3, <3>4, Zenon DEF LinesTurns
      <3>7. g[d + p] = f[p]
        <4>1. p \in G
          BY <1>2, <3>4
        <4> QED
          BY <4>1
      <3>8. g[k] = f[i]
        BY <3>5, <3>6, <3>7, Zenon
      <3> QED
        BY <3>8 DEF k
    <2> QED
      BY <1>0, <2>1, <2>2
  <1>3. \A j \in 1..n : j \in G
    <2> HIDE DEF G
    <2> QED
      BY <1>0, <1>2, FromTheEnd
  <1> QED
    BY <1>3 DEF f, g

\* A line in front of a text is its first line.
LinesPut(g, r, nl, cr) ==
    LinesFrom(g \o (<<nl>> \o r), {nl}, cr)[1] = <<g>> \o LinesFrom(r, {nl}, cr)[1]

\* Its own line has to be clean: a carriage return before the newline would be dropped.
LEMMA LinesCons ==
    ASSUME NEW A, NEW nl \in A, NEW cr, NEW g \in Seq(A), Clean(g, nl, cr), NEW r \in Seq(A)
    PROVE  LinesPut(g, r, nl, cr)
  <1> DEFINE q == <<nl>> \o r
             u == g \o q
             l == Len(g)
             d == l + 1
             N == {nl}
             f == LinesFrom(u, N, cr)
  <1>1. /\ q \in Seq(A) /\ Len(q) = Len(r) + 1 /\ q[1] = nl
        /\ \A i \in 1..Len(r) : q[i + 1] = r[i]
    BY OneInFront
  <1> HIDE DEF q
  <1>2. /\ u \in Seq(A) /\ Len(u) = l + Len(q) /\ l \in Nat /\ Len(r) \in Nat
        /\ \A i \in 1..l : u[i] = g[i]
        /\ \A i \in 1..Len(q) : u[l + i] = q[i]
    <2>1. u \in Seq(A) /\ Len(u) = Len(g) + Len(q)
      BY <1>1, ConcatProperties
    <2>2. Len(g) \in Nat /\ Len(r) \in Nat
      BY LenProperties
    <2>3. \A i \in 1..Len(g) : u[i] = g[i]
      BY <1>1, InFrontOf
    <2>4. \A i \in 1..Len(q) : u[Len(g) + i] = q[i]
      BY <1>1, InFrontOf
    <2> HIDE DEF u
    <2> QED
      BY <2>1, <2>2, <2>3, <2>4
  <1> HIDE DEF u
  <1>0. Len(q) = Len(r) + 1 /\ l \in Nat /\ Len(r) \in Nat
    BY <1>1, <1>2
  <1>3. Len(u) = d + Len(r) /\ d \in Nat /\ d \in 1..Len(u) /\ 1 \in 1..Len(u) /\ d \in 1..Len(u) + 1
    BY <1>1, <1>2
  <1>4. EndsWith(u, d, r)
    <2>1. ASSUME NEW j \in 1..Len(r) PROVE u[d + j] = r[j]
      <3> DEFINE k == j + 1
      <3>1. k \in 1..Len(q) /\ l + k = d + j
        BY <1>0
      <3>2. q[k] = r[j]
        BY <1>1
      <3> HIDE DEF k
      <3>3. u[l + k] = q[k]
        BY <1>2, <3>1
      <3> QED
        BY <3>1, <3>2, <3>3
    <2> QED
      BY <1>3, <2>1 DEF EndsWith
  <1>5. Upto(u, 1, N) = d
    <2>1. u[d] \in N
      <3>1. 1 \in 1..Len(q)
        BY <1>1, <1>2
      <3>2. u[l + 1] = q[1]
        BY <1>2, <3>1
      <3> QED
        BY <1>1, <3>2
    <2>2. \A j \in 1..d - 1 : u[j] \notin N
      <3>1. \A j \in 1..d - 1 : j \in 1..l
        BY <1>2
      <3>2. \A j \in 1..l : u[j] # nl
        BY <1>2 DEF Clean
      <3> QED
        BY <3>1, <3>2
    <2> HIDE DEF N, d
    <2> QED
      BY <1>2, <1>3, <2>1, <2>2, FirstSeparator
  <1>6. LineEnd(u, N, cr, 1) = l
    <2>1. ~(d \in 1 + 1..Len(u) /\ u[d - 1] = cr)
      <3>1. SUFFICES ASSUME d \in 1 + 1..Len(u), u[d - 1] = cr PROVE FALSE
        OBVIOUS
      <3>2. l \in 1..l /\ d - 1 = l
        BY <1>2, <3>1
      <3>3. u[l] = g[l] /\ g[l] # cr
        <4>1. \A j \in 1..l : g[j] # cr
          BY DEF Clean
        <4> QED
          BY <1>2, <3>2, <4>1
      <3> QED
        BY <3>1, <3>2, <3>3
    <2>2. d - 1 = l
      BY <1>2
    <2> HIDE DEF N, d
    <2> QED
      BY <1>5, <2>1, <2>2, Zenon DEF LineEnd
  <1>7. OptionNext(u, N, 1) = d + 1
    <2> HIDE DEF N, d
    <2>1. Upto(u, 1, N) <= Len(u) => OptionNext(u, N, 1) = Upto(u, 1, N) + 1
      BY <1>2, <1>3, NextLine
    <2> QED
      BY <1>3, <1>5, <2>1
  <1>8. SubSeq(u, 1, l) = g
    <2>1. SubSeq(u, 1, Len(u)) = g \o q /\ 1 \in 1..Len(u) + 1
      <3>1. SubSeq(u, 1, Len(u)) = u
        BY <1>2, RestIs, Zenon
      <3> QED
        BY <1>3, <3>1 DEF u
    <2>2. LiesAt(u, 1, g, q)
      BY <1>1, <1>2, <2>1, InFront
    <2>3. 1 + Len(g) - 1 = l
      BY <1>2
    <2> QED
      BY <2>2, <2>3 DEF LiesAt
  <1>9. LinesTurns(f, u, A, N, cr)
    BY <1>2, LinesLoop
  <1>10. f[1] = <<g>> \o f[d + 1]
    <2> HIDE DEF f, N, l, d
    <2> QED
      BY <1>3, <1>6, <1>7, <1>8, <1>9, Zenon DEF LinesTurns
  <1>11. f[d + 1] = LinesFrom(r, N, cr)[1]
    <2>1. \A j \in 1..Len(r) + 1 : f[d + j] = LinesFrom(r, N, cr)[j]
      <3> HIDE DEF N, d
      <3> QED
        BY <1>2, <1>3, <1>4, LinesAtEnd
    <2>2. 1 \in 1..Len(r) + 1
      BY <1>2
    <2> QED
      BY <2>1, <2>2
  <1> QED
    BY <1>10, <1>11, Zenon DEF LinesPut, f, u, q, N

\* A text without newlines is its only line, if there is anything in it.
LEMMA LinesOne ==
    ASSUME NEW A, NEW nl, NEW cr, NEW g \in Seq(A), Almost(g, nl, cr)
    PROVE  LinesFrom(g, {nl}, cr)[1] = IF g = <<>> THEN <<>> ELSE <<g>>
  <1> DEFINE N == {nl}
             f == LinesFrom(g, N, cr)
             n == Len(g)
  <1>0. n \in Nat /\ n + 1 \in 1..n + 1
    BY LenProperties
  <1>1. LinesTurns(f, g, A, N, cr)
    BY LinesLoop
  <1>2. CASE g = <<>>
    <2>1. n + 1 = 1
      BY <1>2
    <2>2. f[n + 1] = <<>>
      BY <1>1 DEF LinesTurns
    <2> QED
      BY <1>2, <2>1, <2>2
  <1>3. CASE g # <<>>
    <2>0. 1 \in 1..n /\ 1 \in 1..n + 1
      BY <1>0, <1>3, EmptySeq
    <2>1. Upto(g, 1, N) = n + 1
      <3>1. Upto(g, 1, N) \in 1..n + 1 /\ (Upto(g, 1, N) <= n => g[Upto(g, 1, N)] \in N)
        BY <2>0, UptoIs
      <3>2. \A j \in 1..n : g[j] \notin N
        BY DEF Almost
      <3> HIDE DEF N
      <3> QED
        BY <1>0, <3>1, <3>2
    <2>2. LineEnd(g, N, cr, 1) = n
      <3>1. ~(n + 1 \in 1 + 1..n) /\ n + 1 - 1 = n
        BY <1>0
      <3> HIDE DEF N, n
      <3> QED
        BY <2>1, <3>1 DEF LineEnd, n
    <2>3. OptionNext(g, N, 1) = n + 1
      <3> HIDE DEF N
      <3>1. Upto(g, 1, N) = Len(g) + 1 => OptionNext(g, N, 1) = Len(g) + 1
        BY <2>0, NextLine
      <3> QED
        BY <2>1, <3>1
    <2>4. SubSeq(g, 1, n) = g
      BY RestIs, Zenon
    <2>5. f[1] = <<g>> \o f[n + 1] /\ f[n + 1] = <<>>
      <3> HIDE DEF f, N
      <3> QED
        BY <1>1, <2>0, <2>2, <2>3, <2>4, Zenon DEF LinesTurns, n
    <2>6. <<g>> \o <<>> = <<g>>
      OBVIOUS
    <2> HIDE DEF f, N
    <2>7. f[1] = <<g>>
      BY <2>5, <2>6, Zenon
    <2> QED
      BY <1>3, <2>7, Zenon DEF f, N
  <1> QED
    BY <1>2, <1>3

\* What is joined of the lines from position i on.
LinesOn(F, h, i) == F[i] \o h[i + 1]

JoinsLines(F, h, nl, A) ==
    LET n == Len(F)
    IN  /\ n = 0 => h[1] = <<>>
        /\ n # 0 => h[1] = LinesOn(F, h, 1) /\ LinesOn(F, h, n) = F[n]
        /\ \A i \in 1..n : LinesOn(F, h, i) \in Seq(A)
        /\ \A i \in 1..n - 1 : LinesOn(F, h, i) = F[i] \o (<<nl>> \o LinesOn(F, h, i + 1))

\* Each line, a newline, and what is joined of those behind it.
LEMMA LinesAreJoined ==
    ASSUME NEW A, NEW F \in Seq(Seq(A)), NEW nl \in A
    PROVE  JoinsLines(F, JoinedFrom(F, <<nl>>), nl, A)
  <1> DEFINE h == JoinedFrom(F, <<nl>>)
             n == Len(F)
             m == <<nl>>
  <1>0. n \in Nat /\ m \in Seq(A) /\ \A i \in 1..n : F[i] \in Seq(A)
    BY LenProperties, ElementOfSeq
  <1>1. /\ h[n + 1] = <<>>
        /\ \A i \in 1..n : h[i] = Line(F, m, i) \o h[i + 1]
        /\ \A i \in 1..n + 1 : h[i] \in Seq(A)
    <2>1. JoinedTurns(h, F, m, A)
      BY <1>0, JoinedLoop
    <2> QED
      BY <2>1, Zenon DEF JoinedTurns
  <1> HIDE DEF h, m
  <1>2. \A i \in 1..n : i + 1 \in 1..n + 1 /\ h[i + 1] \in Seq(A)
    BY <1>0, <1>1
  <1>3. n # 0 => h[1] = LinesOn(F, h, 1) /\ LinesOn(F, h, n) = F[n]
    <2>1. SUFFICES ASSUME n # 0 PROVE h[1] = LinesOn(F, h, 1) /\ LinesOn(F, h, n) = F[n]
      OBVIOUS
    <2>2. 1 \in 1..n /\ n \in 1..n
      BY <1>0, <2>1
    <2>3. Line(F, m, 1) = F[1]
      BY DEF Line
    <2>4. h[1] = F[1] \o h[1 + 1]
      BY <1>1, <2>2, <2>3
    <2>5. F[n] \o <<>> = F[n]
      BY <1>0, <2>2, ConcatEmptySeq
    <2> HIDE DEF n
    <2> QED
      BY <1>1, <2>4, <2>5, Zenon DEF LinesOn
  <1>4. ASSUME NEW i \in 1..n PROVE LinesOn(F, h, i) \in Seq(A)
    BY <1>0, <1>2, ConcatProperties DEF LinesOn
  <1>5. ASSUME NEW i \in 1..n - 1 PROVE LinesOn(F, h, i) = F[i] \o (m \o LinesOn(F, h, i + 1))
    <2> DEFINE k == i + 1
               x == F[k]
               y == h[k + 1]
    <2>1. k \in 1..n /\ k # 1
      BY <1>0
    <2>2. h[k] = Line(F, m, k) \o y
      BY <1>1, <2>1
    <2>3. Line(F, m, k) = m \o x
      BY <2>1 DEF Line
    <2>4. x \in Seq(A) /\ y \in Seq(A)
      BY <1>0, <1>2, <2>1
    <2> HIDE DEF x, y
    <2>5. (m \o x) \o y = m \o (x \o y)
      <3>1. Regroups(A)
        BY Associative
      <3> QED
        BY <1>0, <2>4, <3>1 DEF Regroups
    <2>6. h[k] = m \o (x \o y)
      BY <2>2, <2>3, <2>5, Zenon
    <2> QED
      BY <2>6, Zenon DEF LinesOn, x, y, k
  <1>6. n = 0 => h[1] = <<>>
    BY <1>1
  <1> QED
    BY <1>3, <1>4, <1>5, <1>6, Zenon DEF JoinsLines, h, n, m

\* Lines of which only the last may end in a carriage return.
GoodLines(F, nl, cr) ==
    \A i \in 1..Len(F) : Almost(F[i], nl, cr) /\ (i < Len(F) => Clean(F[i], nl, cr))

\* The lines of a text that is joined of lines are these, but for an empty one at the end.
LinesOfJoined(c, F, nl, cr) ==
    Chosen(c, LinesFrom(JoinedFrom(F, <<nl>>)[1], {nl}, cr)[1]) = Chosen(c, F)

\* A line that is dropped is an empty one, of which nothing is made.
LEMMA JoinedLines ==
    ASSUME NEW A, NEW F \in Seq(Seq(A)), NEW nl \in A, NEW cr, GoodLines(F, nl, cr),
           NEW B, NEW c \in [Seq(A) -> Seq(B)], c[<<>>] = <<>>
    PROVE  LinesOfJoined(c, F, nl, cr)
  <1> DEFINE X    == Seq(A)
             n    == Len(F)
             h    == JoinedFrom(F, <<nl>>)
             N    == {nl}
             L(u) == LinesFrom(u, N, cr)[1]
             R(i) == LinesOn(F, h, i)
             q(i) == ChosenRest(c, F, i)
             G    == {i \in 1..n : Chosen(c, L(R(i))) = q(i)}
  <1>0. n \in Nat /\ <<>> \in X /\ \A i \in 1..n : F[i] \in X
    BY LenProperties, ElementOfSeq
  <1>1. /\ n = 0 => h[1] = <<>>
        /\ n # 0 => h[1] = R(1) /\ R(n) = F[n]
        /\ \A i \in 1..n : R(i) \in X
        /\ \A i \in 1..n - 1 : R(i) = F[i] \o (<<nl>> \o R(i + 1))
    <2>1. JoinsLines(F, h, nl, A)
      BY LinesAreJoined
    <2> QED
      BY <2>1, Zenon DEF JoinsLines
  <1> HIDE DEF h
  <1>2. \A u \in X : L(u) \in Seq(X)
    <2>1. ASSUME NEW u \in X PROVE L(u) \in Seq(X)
      <3>1. LinesTurns(LinesFrom(u, N, cr), u, A, N, cr) /\ 1 \in 1..Len(u) + 1
        <4> HIDE DEF N
        <4> QED
          BY LinesLoop, HasFirst
      <3> HIDE DEF N
      <3> QED
        BY <3>1, Zenon DEF LinesTurns
    <2> QED
      BY <2>1
  <1>3. \A g \in X : Almost(g, nl, cr) => L(g) = IF g = <<>> THEN <<>> ELSE <<g>>
    BY LinesOne
  <1>4. \A g, r \in X : Clean(g, nl, cr) => L(g \o (<<nl>> \o r)) = <<g>> \o L(r)
    <2>1. ASSUME NEW g \in X, NEW r \in X, Clean(g, nl, cr)
          PROVE  L(g \o (<<nl>> \o r)) = <<g>> \o L(r)
      <3>1. LinesPut(g, r, nl, cr)
        BY <2>1, LinesCons
      <3> QED
        BY <3>1, Zenon DEF LinesPut
    <2> QED
      BY <2>1
  <1> HIDE DEF L, R
  <1>5. /\ Chosen(c, <<>>) = <<>>
        /\ \A x \in X : \A s \in Seq(X) : Chosen(c, <<x>> \o s) = c[x] \o Chosen(c, s)
    <2>1. \A x \in X : \A s \in Seq(X) : ChosenTurns(c, x, s, B)
      <3> HIDE DEF X
      <3> QED
        BY ChosenIs DEF X
    <2>2. <<>> \in Seq(X)
      OBVIOUS
    <2> HIDE DEF X
    <2> QED
      BY <1>0, <2>1, <2>2, Zenon DEF ChosenTurns
  <1>6. /\ q(1) = Chosen(c, F) /\ q(n + 1) = <<>>
        /\ \A i \in 1..n : q(i) = c[F[i]] \o q(i + 1)
    <2>1. RestTurns(c, F, B)
      BY <1>0, RestsAre
    <2> QED
      BY <2>1, Zenon DEF RestTurns
  <1> HIDE DEF q
  <1>7. ASSUME NEW i \in 1..n, \A j \in i + 1..n : j \in G PROVE i \in G
    <2> DEFINE g == F[i]
               k == i + 1
    <2>1. g \in X /\ Almost(g, nl, cr) /\ (i < n => Clean(g, nl, cr))
      BY <1>0 DEF GoodLines
    <2>2. c[g] \in Seq(B) /\ c[g] \o <<>> = c[g]
      <3>1. c[g] \in Seq(B)
        BY <2>1
      <3> QED
        BY <3>1, ConcatEmptySeq
    <2>3. CASE i = n
      <3>1. R(i) = g
        BY <1>0, <1>1, <2>3
      <3>2. q(i) = c[g]
        <4>1. q(i) = c[g] \o q(n + 1)
          BY <1>6, <2>3
        <4> QED
          BY <1>6, <2>2, <4>1, Zenon
      <3> HIDE DEF g
      <3>3. Chosen(c, L(g)) = c[g]
        <4>1. CASE g = <<>>
          <5>1. L(g) = <<>>
            BY <1>3, <2>1, <4>1
          <5> QED
            BY <1>5, <4>1, <5>1, Zenon
        <4>2. CASE g # <<>>
          <5>1. L(g) = <<g>> /\ <<g>> \o <<>> = <<g>> /\ <<>> \in Seq(X)
            BY <1>3, <2>1, <4>2
          <5> HIDE DEF X
          <5>2. Chosen(c, <<g>> \o <<>>) = c[g] \o Chosen(c, <<>>)
            BY <1>5, <2>1, <5>1, Zenon
          <5> QED
            BY <1>5, <2>2, <5>1, <5>2, Zenon
        <4> QED
          BY <4>1, <4>2, Zenon
      <3>4. Chosen(c, L(R(i))) = q(i)
        BY <3>1, <3>2, <3>3, Zenon
      <3> QED
        BY <3>4
    <2>4. CASE i # n
      <3>1. k \in i + 1..n /\ k \in 1..n /\ i \in 1..n - 1 /\ i < n
        BY <1>0, <2>4
      <3>2. Chosen(c, L(R(k))) = q(k)
        <4>1. k \in G
          BY <1>7, <3>1
        <4> QED
          BY <4>1
      <3>3. R(k) \in X /\ R(i) = g \o (<<nl>> \o R(k)) /\ q(i) = c[g] \o q(k)
        BY <1>1, <1>6, <3>1
      <3>4. L(R(k)) \in Seq(X)
        BY <1>2, <3>3
      <3> HIDE DEF g, k, n, X
      <3>5. L(g \o (<<nl>> \o R(k))) = <<g>> \o L(R(k))
        BY <1>4, <2>1, <3>1, <3>3, Zenon
      <3>6. Chosen(c, <<g>> \o L(R(k))) = c[g] \o Chosen(c, L(R(k)))
        BY <1>5, <2>1, <3>4, Zenon
      <3>7. Chosen(c, L(R(i))) = q(i)
        BY <3>2, <3>3, <3>5, <3>6, Zenon
      <3> QED
        BY <3>7
    <2> QED
      BY <2>3, <2>4
  <1>8. \A i \in 1..n : i \in G
    <2> HIDE DEF G
    <2> QED
      BY <1>0, <1>7, FromTheEnd
  <1>9. Chosen(c, L(h[1])) = Chosen(c, F)
    <2>1. CASE n = 0
      <3>1. h[1] = <<>> /\ F = <<>>
        BY <1>1, <2>1, EmptySeq
      <3>2. L(<<>>) = <<>>
        <4>1. Almost(<<>>, nl, cr)
          BY DEF Almost
        <4> DEFINE o == <<>>
        <4>2. o \in X /\ Almost(o, nl, cr)
          BY <4>1
        <4> HIDE DEF o
        <4>3. L(o) = IF o = <<>> THEN <<>> ELSE <<o>>
          BY <1>3, <4>2
        <4> QED
          BY <4>3 DEF o
      <3> QED
        BY <3>1, <3>2, Zenon
    <2>2. CASE n # 0
      <3>1. 1 \in 1..n
        BY <1>0, <2>2
      <3>2. Chosen(c, L(R(1))) = q(1)
        <4>1. 1 \in G
          BY <1>8, <3>1
        <4> QED
          BY <4>1
      <3> HIDE DEF n
      <3> QED
        BY <1>1, <1>6, <2>2, <3>2, Zenon
    <2> QED
      BY <2>1, <2>2, Zenon
  <1> QED
    BY <1>9, Zenon DEF LinesOfJoined, L, h, N

\* In such a text a carriage return ends a line.
Returns(u, nl, cr) == \A j \in 1..Len(u) : u[j] = cr => j = Len(u) \/ u[j + 1] = nl

\* The lines end in newlines, and only the last may end in a carriage return.
LEMMA JoinedReturns ==
    ASSUME NEW A, NEW F \in Seq(Seq(A)), NEW nl \in A, NEW cr, cr # nl, GoodLines(F, nl, cr)
    PROVE  Returns(JoinedFrom(F, <<nl>>)[1], nl, cr) /\ JoinedFrom(F, <<nl>>)[1] \in Seq(A)
  <1> DEFINE X    == Seq(A)
             n    == Len(F)
             h    == JoinedFrom(F, <<nl>>)
             R(i) == LinesOn(F, h, i)
             G    == {i \in 1..n : Returns(R(i), nl, cr)}
  <1>0. n \in Nat /\ \A i \in 1..n : F[i] \in X
    BY LenProperties, ElementOfSeq
  <1>1. /\ n = 0 => h[1] = <<>>
        /\ n # 0 => h[1] = R(1) /\ R(n) = F[n]
        /\ \A i \in 1..n : R(i) \in X
        /\ \A i \in 1..n - 1 : R(i) = F[i] \o (<<nl>> \o R(i + 1))
    <2>1. JoinsLines(F, h, nl, A)
      BY LinesAreJoined
    <2> QED
      BY <2>1, Zenon DEF JoinsLines
  <1> HIDE DEF h, R
  <1>2. ASSUME NEW i \in 1..n, \A j \in i + 1..n : j \in G PROVE i \in G
    <2> DEFINE g == F[i]
               k == i + 1
               r == R(k)
               p == <<nl>> \o r
               u == g \o p
    <2>1. g \in X /\ Almost(g, nl, cr) /\ (i < n => Clean(g, nl, cr))
      BY <1>0 DEF GoodLines
    <2>2. CASE i = n
      <3>1. R(i) = g
        BY <1>0, <1>1, <2>2
      <3> HIDE DEF g
      <3>2. Returns(g, nl, cr)
        BY <2>1 DEF Almost, Returns
      <3>3. Returns(R(i), nl, cr)
        BY <3>1, <3>2
      <3> QED
        BY <3>3
    <2>3. CASE i # n
      <3>1. k \in i + 1..n /\ k \in 1..n /\ i \in 1..n - 1 /\ i < n
        BY <1>0, <2>3
      <3>2. Returns(r, nl, cr)
        <4>1. k \in G
          BY <1>2, <3>1
        <4> QED
          BY <4>1
      <3>3. r \in X /\ R(i) = u
        BY <1>1, <3>1
      <3>4. Clean(g, nl, cr)
        BY <2>1, <3>1
      <3> HIDE DEF g, k, r, n
      <3>5. /\ p \in Seq(A) /\ Len(p) = Len(r) + 1 /\ p[1] = nl
            /\ \A j \in 1..Len(r) : p[j + 1] = r[j]
        BY <3>3, OneInFront
      <3> HIDE DEF p
      <3>6. /\ Len(g) \in Nat /\ Len(r) \in Nat /\ Len(u) = Len(g) + Len(p)
            /\ \A j \in 1..Len(g) : u[j] = g[j]
            /\ \A j \in 1..Len(p) : u[Len(g) + j] = p[j]
        <4>1. Len(u) = Len(g) + Len(p)
          BY <2>1, <3>5, ConcatProperties
        <4>2. \A j \in 1..Len(g) : u[j] = g[j]
          BY <2>1, <3>5, InFrontOf
        <4>3. \A j \in 1..Len(p) : u[Len(g) + j] = p[j]
          BY <2>1, <3>5, InFrontOf
        <4>4. Len(g) \in Nat /\ Len(r) \in Nat
          BY <2>1, <3>3, LenProperties
        <4> HIDE DEF u
        <4> QED
          BY <4>1, <4>2, <4>3, <4>4
      <3> HIDE DEF u
      <3> DEFINE l == Len(g)
                 d == l + 1
      <3>7. /\ l \in Nat /\ Len(u) = d + Len(r) /\ u[d] = nl
            /\ \A j \in 1..Len(r) : u[d + j] = r[j]
        <4>1. Len(u) = d + Len(r)
          BY <3>5, <3>6
        <4>2. 1 \in 1..Len(p)
          BY <3>5, <3>6
        <4>3. u[l + 1] = p[1]
          BY <3>6, <4>2
        <4>4. ASSUME NEW j \in 1..Len(r) PROVE u[d + j] = r[j]
          <5> DEFINE m == j + 1
          <5>1. m \in 1..Len(p) /\ Len(g) + m = d + j
            BY <3>5, <3>6
          <5>2. p[m] = r[j]
            BY <3>5
          <5> HIDE DEF m
          <5>3. u[Len(g) + m] = p[m]
            BY <3>6, <5>1
          <5> QED
            BY <5>1, <5>2, <5>3
        <4> QED
          BY <3>5, <3>6, <4>1, <4>3, <4>4
      <3>8. \A j \in 1..l : u[j] # cr
        BY <3>4, <3>6 DEF Clean
      <3> HIDE DEF l
      <3>9. ASSUME NEW j \in 1..Len(u), u[j] = cr PROVE j = Len(u) \/ u[j + 1] = nl
        <4> DEFINE b == j - d
        <4>1. b \in 1..Len(r) /\ j = d + b
          <5>1. ~(j \in 1..l) /\ j # d
            BY <3>7, <3>8, <3>9
          <5> QED
            BY <3>6, <3>7, <5>1
        <4> HIDE DEF b
        <4>2. r[b] = cr
          BY <3>7, <3>9, <4>1
        <4>3. b = Len(r) \/ r[b + 1] = nl
          BY <3>2, <4>1, <4>2 DEF Returns
        <4>4. CASE b = Len(r)
          BY <3>7, <4>1, <4>4
        <4>5. CASE b # Len(r)
          <5> DEFINE e == b + 1
          <5>1. e \in 1..Len(r) /\ j + 1 = d + e
            BY <3>6, <3>7, <4>1, <4>5
          <5>2. r[e] = nl
            BY <4>3, <4>5
          <5> HIDE DEF e
          <5>3. u[d + e] = r[e]
            BY <3>7, <5>1
          <5> QED
            BY <5>1, <5>2, <5>3
        <4> QED
          BY <4>4, <4>5
      <3>10. Returns(u, nl, cr)
        BY <3>9 DEF Returns
      <3>11. Returns(R(i), nl, cr)
        BY <3>3, <3>10
      <3> QED
        BY <3>11
    <2> QED
      BY <2>2, <2>3
  <1>3. \A i \in 1..n : i \in G
    <2> HIDE DEF G
    <2> QED
      BY <1>0, <1>2, FromTheEnd
  <1>4. CASE n = 0
    <2>1. h[1] = <<>>
      BY <1>1, <1>4
    <2>2. Returns(<<>>, nl, cr) /\ <<>> \in Seq(A)
      BY DEF Returns
    <2> QED
      BY <2>1, <2>2, Zenon DEF h
  <1>5. CASE n # 0
    <2>1. 1 \in 1..n
      BY <1>0, <1>5
    <2>2. Returns(R(1), nl, cr) /\ R(1) \in Seq(A)
      <3>1. 1 \in G
        BY <1>3, <2>1
      <3> QED
        BY <1>1, <2>1, <3>1
    <2> QED
      BY <1>1, <1>5, <2>2, Zenon DEF h
  <1> QED
    BY <1>4, <1>5, Zenon

-----------------------------------------------------------------------------
(* The lines of an entry, and what is written for each.                    *)

\* A good line in front of good lines.
LEMMA GoodCons ==
    ASSUME NEW X, NEW x \in X, NEW s \in Seq(X), NEW nl, NEW cr, Almost(x, nl, cr),
           GoodLines(s, nl, cr), s = <<>> \/ Clean(x, nl, cr)
    PROVE  GoodLines(<<x>> \o s, nl, cr)
  <1> DEFINE u == <<x>> \o s
  <1>1. Len(u) = Len(s) + 1 /\ u[1] = x /\ \A i \in 1..Len(s) : u[i + 1] = s[i]
    BY OneInFront
  <1>2. Len(s) \in Nat
    BY LenProperties
  <1> HIDE DEF u
  <1>3. ASSUME NEW i \in 1..Len(u)
        PROVE  Almost(u[i], nl, cr) /\ (i < Len(u) => Clean(u[i], nl, cr))
    <2>1. CASE i = 1
      <3>1. Almost(u[i], nl, cr)
        BY <1>1, <2>1
      <3>2. ASSUME i < Len(u) PROVE Clean(u[i], nl, cr)
        <4>1. s # <<>>
          BY <1>1, <1>2, <2>1, <3>2, EmptySeq
        <4> QED
          BY <1>1, <2>1, <4>1
      <3> QED
        BY <3>1, <3>2
    <2>2. CASE i # 1
      <3> DEFINE j == i - 1
      <3>1. j \in 1..Len(s) /\ j + 1 = i /\ (i < Len(u) => j < Len(s))
        BY <1>1, <1>2, <2>2
      <3> HIDE DEF j
      <3>2. u[i] = s[j]
        BY <1>1, <3>1
      <3>3. Almost(s[j], nl, cr) /\ (j < Len(s) => Clean(s[j], nl, cr))
        BY <3>1 DEF GoodLines
      <3> QED
        BY <3>1, <3>2, <3>3
    <2> QED
      BY <2>1, <2>2
  <1> QED
    BY <1>3 DEF GoodLines, u

\* So are those of an entry whose carriage returns end lines.
LEMMA LinesAreGood ==
    ASSUME NEW A, NEW t, NEW S, NEW W, NEW cr, NEW nl, EntryText(t, A, S, W, cr, nl)
    PROVE  GoodLines(LinesFrom(t, {nl}, cr)[1], nl, cr)
  <1> DEFINE X == Seq(A)
             N == {nl}
             n == Len(t)
             f == LinesFrom(t, N, cr)
             Q(j) == LineEnd(t, N, cr, j)
             e(j) == Upto(t, j, N)
             nx(j) == OptionNext(t, N, j)
             G == {j \in 1..n : GoodLines(f[j], nl, cr)}
  <1>0. t \in Seq(A) /\ n \in Nat
    BY LenProperties DEF EntryText
  <1>1. /\ f[n + 1] = <<>>
        /\ \A i \in 1..n : /\ SubSeq(t, i, Q(i)) \in X
                           /\ nx(i) \in i + 1..n + 1
                           /\ f[i] = <<SubSeq(t, i, Q(i))>> \o f[nx(i)]
        /\ \A i \in 1..n + 1 : f[i] \in Seq(X)
    <2>1. LinesTurns(f, t, A, N, cr)
      BY <1>0, LinesLoop
    <2> QED
      BY <2>1, Zenon DEF LinesTurns
  <1> HIDE DEF f
  <1>2. GoodLines(<<>>, nl, cr)
    BY DEF GoodLines
  <1>3. ASSUME NEW i \in 1..n, \A j \in i + 1..n : j \in G PROVE i \in G
    <2> DEFINE x == SubSeq(t, i, Q(i))
               k == nx(i)
               q == Q(i)
               d == e(i)
    <2>1. LineShape(t, S, W, cr, nl, i)
      BY LineIs
    <2>2. /\ d \in i..n + 1 /\ q \in i - 1..d - 1
          /\ \A j \in i..d - 1 : t[j] # nl
          /\ \A j \in i..q : j < n => t[j] # cr
      BY <2>1, Zenon DEF LineShape
    <2>3. x \in X /\ Len(x) = q - i + 1 /\ \A j \in 1..q - i + 1 : x[j] = t[i + j - 1]
      <3> HIDE DEF q
      <3>1. i \in 1..Len(t) + 1 /\ q \in i - 1..Len(t)
        BY <1>0, <2>2
      <3> QED
        BY <1>0, <3>1, PartIs DEF q
    <2>4. d <= n => k = d + 1
      <3> HIDE DEF N
      <3> QED
        BY <1>0, NextLine
    <2>5. d = n + 1 => k = n + 1
      <3> HIDE DEF N
      <3> QED
        BY <1>0, NextLine
    <2>6. k \in i + 1..n + 1 /\ f[i] = <<x>> \o f[k] /\ f[k] \in Seq(X)
      <3>1. k \in i + 1..n + 1 /\ f[i] = <<x>> \o f[k]
        BY <1>1, Zenon
      <3> HIDE DEF k
      <3>2. k \in 1..n + 1
        BY <1>0, <3>1
      <3> HIDE DEF x
      <3> QED
        BY <1>1, <3>1, <3>2, Zenon
    <2> HIDE DEF x, k, q, d, N
    <2>7. ASSUME NEW j \in 1..Len(x)
          PROVE  x[j] # nl /\ (x[j] = cr => j = Len(x) /\ d = n + 1)
      <3> DEFINE p == i + j - 1
      <3>1. p \in i..q /\ p \in i..d - 1 /\ x[j] = t[p] /\ p <= n
        BY <1>0, <2>2, <2>3
      <3>2. p = n => j = Len(x) /\ d = n + 1
        BY <1>0, <2>2, <2>3, <3>1
      <3>3. t[p] # nl /\ (p < n => t[p] # cr)
        BY <2>2, <3>1
      <3> HIDE DEF p
      <3>4. p < n \/ p = n
        BY <1>0, <2>2, <3>1
      <3> QED
        BY <3>1, <3>2, <3>3, <3>4
    <2>8. Almost(x, nl, cr)
      BY <2>7 DEF Almost
    <2>9. GoodLines(f[k], nl, cr)
      <3>1. CASE k = n + 1
        BY <1>1, <1>2, <3>1
      <3>2. CASE k # n + 1
        <4>1. k \in i + 1..n
          <5>1. k \in i + 1..n + 1
            BY <2>6, Zenon
          <5> QED
            BY <1>0, <3>2, <5>1
        <4>2. k \in G
          BY <1>3, <4>1
        <4> QED
          BY <4>2
      <3> QED
        BY <3>1, <3>2
    <2>10. f[k] = <<>> \/ Clean(x, nl, cr)
      <3>1. CASE d = n + 1
        BY <1>1, <2>5, <3>1
      <3>2. CASE d # n + 1
        BY <2>7, <3>2 DEF Clean
      <3> QED
        BY <3>1, <3>2
    <2>11. GoodLines(<<x>> \o f[k], nl, cr)
      <3> DEFINE s == f[k]
      <3>1. s \in Seq(X) /\ GoodLines(s, nl, cr) /\ (s = <<>> \/ Clean(x, nl, cr))
        BY <2>6, <2>9, <2>10
      <3> HIDE DEF s
      <3>2. GoodLines(<<x>> \o s, nl, cr)
        BY <2>3, <2>8, <3>1, GoodCons
      <3> QED
        BY <3>2, Zenon DEF s
    <2>12. GoodLines(f[i], nl, cr)
      BY <2>6, <2>11, Zenon
    <2> QED
      BY <2>12
  <1>4. \A i \in 1..n : i \in G
    <2> HIDE DEF G
    <2> QED
      BY <1>0, <1>3, FromTheEnd
  <1>5. GoodLines(f[1], nl, cr)
    <2>1. CASE n = 0
      BY <1>1, <1>2, <2>1
    <2>2. CASE n # 0
      <3>1. 1 \in 1..n
        BY <1>0, <2>2
      <3>2. 1 \in G
        BY <1>4, <3>1
      <3> QED
        BY <3>2
    <2> QED
      BY <2>1, <2>2
  <1> QED
    BY <1>5, Zenon DEF f, N

\* What BlsLine makes of a line.
LineParts(x, l, S, W, hash) ==
    LET y == Trim(x, W)
        v == Past(y, Upto(y, 1, S), W)
    IN  l = IF y = <<>> \/ y[1] = hash THEN [key |-> <<>>, prefix |-> x, value |-> <<>>]
            ELSE [key    |-> SubSeq(y, 1, Upto(y, 1, S) - 1),
                  prefix |-> SubSeq(y, 1, v - 1),
                  value  |-> SubSeq(y, v, Len(y))]

\* A text is what is before a position and what is from there on.
LEMMA DividedAt ==
    ASSUME NEW A, NEW y \in Seq(A), NEW v \in 1..Len(y) + 1
    PROVE  SubSeq(y, 1, v - 1) \o SubSeq(y, v, Len(y)) = y
  <1> DEFINE n == Len(y)
             g == SubSeq(y, 1, v - 1)
             h == SubSeq(y, v, n)
             u == g \o h
             q == v - 1
  <1>0. n \in Nat /\ q \in 0..n /\ n = q + (n - v + 1) /\ v = q + 1
    BY LenProperties
  <1>1. g \in Seq(A) /\ Len(g) = q /\ \A j \in 1..q : g[j] = y[j]
    <2>1. 1 \in 1..n + 1 /\ q \in 1 - 1..n /\ q - 1 + 1 = q /\ \A j \in 1..q : 1 + j - 1 = j
      BY <1>0
    <2> HIDE DEF q, n
    <2>2. SubSeq(y, 1, q) \in Seq(A) /\ Len(SubSeq(y, 1, q)) = q - 1 + 1
          /\ \A j \in 1..q - 1 + 1 : SubSeq(y, 1, q)[j] = y[1 + j - 1]
      BY <2>1, PartIs DEF n
    <2>3. g = SubSeq(y, 1, q)
      BY Zenon DEF q
    <2> HIDE DEF g
    <2> QED
      BY <2>1, <2>2, <2>3
  <1>2. h \in Seq(A) /\ Len(h) = n - v + 1 /\ \A j \in 1..n - v + 1 : h[j] = y[v + j - 1]
    <2>1. v \in 1..n + 1 /\ n \in v - 1..n
      BY <1>0
    <2> HIDE DEF n
    <2> QED
      BY <2>1, PartIs DEF n
  <1>3. u \in Seq(A) /\ Len(u) = Len(g) + Len(h)
    <2> HIDE DEF g, h
    <2> QED
      BY <1>1, <1>2, ConcatProperties
  <1>4. /\ \A i \in 1..Len(g) : u[i] = g[i]
        /\ \A i \in 1..Len(h) : u[Len(g) + i] = h[i]
    <2> HIDE DEF g, h
    <2>1. \A i \in 1..Len(g) : u[i] = g[i]
      BY <1>1, <1>2, InFrontOf
    <2>2. \A i \in 1..Len(h) : u[Len(g) + i] = h[i]
      BY <1>1, <1>2, InFrontOf
    <2> HIDE DEF u
    <2> QED
      BY <2>1, <2>2
  <1> HIDE DEF u, g, h
  <1>5. ASSUME NEW i \in 1..n PROVE u[i] = y[i]
    <2>1. CASE i <= q
      BY <1>0, <1>1, <1>4, <2>1
    <2>2. CASE i > q
      <3> DEFINE j == i - q
      <3>1. j \in 1..Len(h) /\ Len(g) + j = i /\ v + j - 1 = i /\ j \in 1..n - v + 1
        BY <1>0, <1>1, <1>2, <2>2
      <3> HIDE DEF j
      <3>2. u[Len(g) + j] = h[j] /\ h[j] = y[v + j - 1]
        BY <1>2, <1>4, <3>1
      <3> QED
        BY <3>1, <3>2
    <2> QED
      BY <1>0, <2>1, <2>2
  <1>6. Len(u) = Len(y)
    BY <1>0, <1>1, <1>2, <1>3
  <1>7. u = y
    <2> HIDE DEF q
    <2> QED
      BY <1>3, <1>5, <1>6, SeqEqual
  <1> QED
    BY <1>7, Zenon DEF u, g, h, n

\* What is kept of a line that is rewritten: all of it but the value of a key in K.
LineTo(x, z, lx, lz, A, K, w, nl, cr) ==
    /\ z \in Seq(A) /\ Almost(z, nl, cr)
    /\ Clean(x, nl, cr) => Clean(z, nl, cr)
    /\ lx.key \notin K => lz = lx
    /\ lx.key \in K => lz.key = lx.key /\ lz.value = w

\* A line without such a key stays what it is to the reader.
LEMMA LineBecomes ==
    ASSUME NEW A, NEW x \in Seq(A), NEW S, NEW W, S \subseteq W, NEW nl, NEW cr \in W, NEW hash,
           Almost(x, nl, cr), NEW lx, LineParts(x, lx, S, W, hash),
           NEW K, \A q \in K : \E k : q = <<k>> /\ k \notin W /\ k # hash,
           lx.key \in K => lx.value # <<>>,
           NEW w \in Seq(A), w # <<>>, w[1] \notin W, w[Len(w)] \notin W, Clean(w, nl, cr),
           NEW z, lx.key \in K => z = lx.prefix \o w, lx.key \notin K => z = lx.prefix \o lx.value,
           NEW lz, LineParts(z, lz, S, W, hash)
    PROVE  LineTo(x, z, lx, lz, A, K, w, nl, cr)
  <1> DEFINE y == Trim(x, W)
             P == y = <<>> \/ y[1] = hash
             s == Upto(y, 1, S)
             v == Past(y, s, W)
  <1>1. y \in Seq(A)
    BY TrimmedIsText
  <1>2. s \in 1..Len(y) + 1 /\ v \in s..Len(y) + 1 /\ v \in 1..Len(y) + 1 /\ Len(y) \in Nat
    <2>1. 1 \in 1..Len(y) + 1 /\ Len(y) \in Nat
      BY <1>1, HasFirst, LenProperties
    <2> HIDE DEF y
    <2>2. s \in 1..Len(y) + 1
      BY <1>1, <2>1, UptoIs
    <2> HIDE DEF s
    <2>3. v \in s..Len(y) + 1
      BY <1>1, <2>2, PastIs
    <2> HIDE DEF v
    <2> QED
      BY <2>1, <2>2, <2>3
  <1>3. /\ P => lx = [key |-> <<>>, prefix |-> x, value |-> <<>>]
        /\ ~P => lx = [key |-> SubSeq(y, 1, s - 1), prefix |-> SubSeq(y, 1, v - 1),
                       value |-> SubSeq(y, v, Len(y))]
    BY Zenon DEF LineParts
  <1>4. CASE P
    <2>1. lx.key = <<>> /\ lx.prefix = x /\ lx.value = <<>>
      <3> HIDE DEF P
      <3>1. lx = [key |-> <<>>, prefix |-> x, value |-> <<>>]
        BY <1>3, <1>4
      <3> QED
        BY <3>1
    <2>2. lx.key \notin K
      BY <2>1
    <2>3. z = x
      <3>1. x \o <<>> = x
        BY ConcatEmptySeq
      <3> QED
        BY <2>1, <2>2, <3>1, Zenon
    <2>4. lz = lx
      BY <2>3, Zenon DEF LineParts
    <2> QED
      BY <2>2, <2>3, <2>4, Zenon DEF LineTo
  <1>5. CASE ~P
    <2>1. TrimmedPart(x, y, W)
      BY <1>5, TrimLeaves
    <2>2. y # <<>> /\ y[1] \notin W /\ y[Len(y)] \notin W /\ Trim(y, W) = y
      BY <2>1, Zenon DEF TrimmedPart
    <2>3. Clean(y, nl, cr)
      <3> HIDE DEF y
      <3> QED
        BY <2>1, TrimmedIsClean
    <2>4. /\ lx.key = SubSeq(y, 1, s - 1) /\ lx.prefix = SubSeq(y, 1, v - 1)
          /\ lx.value = SubSeq(y, v, Len(y))
      <3> HIDE DEF P, y, s, v
      <3>1. lx = [key |-> SubSeq(y, 1, s - 1), prefix |-> SubSeq(y, 1, v - 1),
                  value |-> SubSeq(y, v, Len(y))]
        BY <1>3, <1>5
      <3> QED
        BY <3>1
    <2>5. CASE lx.key \notin K
      <3>1. z = y
        <4> HIDE DEF y, s, v
        <4>1. SubSeq(y, 1, v - 1) \o SubSeq(y, v, Len(y)) = y
          BY <1>1, <1>2, DividedAt
        <4> QED
          BY <2>4, <2>5, <4>1, Zenon
      <3>2. lz = lx
        <4> DEFINE L(u) == IF u = <<>> \/ u[1] = hash THEN [key |-> <<>>, prefix |-> z, value |-> <<>>]
                           ELSE [key |-> SubSeq(u, 1, Upto(u, 1, S) - 1),
                                 prefix |-> SubSeq(u, 1, Past(u, Upto(u, 1, S), W) - 1),
                                 value |-> SubSeq(u, Past(u, Upto(u, 1, S), W), Len(u))]
        <4>1. lz = L(Trim(z, W))
          BY Zenon DEF LineParts
        <4>2. Trim(z, W) = y
          <5> HIDE DEF y
          <5> QED
            BY <2>2, <3>1, Zenon
        <4>3. L(y) = [key |-> SubSeq(y, 1, s - 1), prefix |-> SubSeq(y, 1, v - 1),
                      value |-> SubSeq(y, v, Len(y))]
          <5> HIDE DEF y
          <5> QED
            BY <1>5, Zenon
        <4> HIDE DEF L, y, s, v
        <4> QED
          BY <1>3, <1>5, <4>1, <4>2, <4>3, Zenon
      <3>3. Almost(y, nl, cr)
        BY <2>3 DEF Almost, Clean
      <3> HIDE DEF y
      <3> QED
        BY <1>1, <2>3, <2>5, <3>1, <3>2, <3>3, Zenon DEF LineTo
    <2>6. CASE lx.key \in K
      <3>1. PICK k : lx.key = <<k>> /\ k \notin W /\ k # hash
        BY <2>6
      <3> HIDE DEF P, y, v
      <3>2. /\ SubSeq(y, 1, s - 1) = <<k>> <=> y[1] = k /\ (Len(y) = 1 \/ y[2] \in S)
            /\ y[1] = k /\ (Len(y) = 1 \/ y[2] \in S) => s = 2
        <4>1. k \notin S
          BY <3>1
        <4> QED
          BY <1>1, <2>2, <4>1, KeyIs
      <3> HIDE DEF s
      <3>3. y[1] = k /\ (Len(y) = 1 \/ y[2] \in S) /\ s = 2
        BY <2>4, <3>1, <3>2
      <3>4. 2 <= Len(y)
        <4> DEFINE n == Len(y)
        <4>1. n \in Nat /\ n # 0
          BY <1>1, <1>2, <2>2, EmptySeq
        <4>2. ASSUME n = 1 PROVE FALSE
          <5>1. v = n + 1
            BY <1>2, <3>3, <4>2
          <5>2. SubSeq(y, n + 1, n) = <<>>
            BY <1>1, RestIs
          <5>3. lx.value = <<>>
            BY <2>4, <5>1, <5>2, Zenon
          <5> QED
            BY <2>6, <5>3
        <4> HIDE DEF n
        <4>3. 2 <= n
          BY <4>1, <4>2
        <4> QED
          BY <4>3 DEF n
      <3>5. y[2] \in S
        BY <3>3, <3>4
      <3>6. z = SubSeq(y, 1, Past(y, 2, W) - 1) \o w
        BY <2>4, <2>6, <3>3, Zenon DEF v
      <3>7. GivenValue(y, z, A, S, W, hash, k, w)
        <4>1. GivenValue(y, SubSeq(y, 1, Past(y, 2, W) - 1) \o w, A, S, W, hash, k, w)
          BY <1>1, <2>2, <3>1, <3>3, <3>4, <3>5, LineIsRewritten
        <4> QED
          BY <3>6, <4>1, Zenon
      <3>8. /\ z \in Seq(A) /\ z # <<>> /\ z[1] = k /\ Trim(z, W) = z
            /\ SubSeq(z, 1, Upto(z, 1, S) - 1) = <<k>>
            /\ TrimmedValue(z, k, S, W, hash) = <<w>>
            /\ \A i \in 1..Len(z) : \/ \E j \in 1..Len(y) : z[i] = y[j]
                                    \/ \E j \in 1..Len(w) : z[i] = w[j]
        BY <3>7, Zenon DEF GivenValue
      <3>9. Clean(z, nl, cr)
        BY <2>3, <3>8 DEF Clean
      <3>10. Almost(z, nl, cr)
        BY <3>9 DEF Almost, Clean
      <3> DEFINE u == Past(z, Upto(z, 1, S), W)
                 r == SubSeq(z, u, Len(z))
      <3>11. lz = [key |-> <<k>>, prefix |-> SubSeq(z, 1, u - 1), value |-> r]
        <4>1. z # <<>> /\ z[1] # hash
          BY <3>1, <3>8
        <4> QED
          BY <3>8, <4>1, Zenon DEF LineParts
      <3>12. r = w
        <4>1. TrimmedValue(z, k, S, W, hash) = <<r>> \/ TrimmedValue(z, k, S, W, hash) = <<>>
          BY Zenon DEF TrimmedValue
        <4> HIDE DEF r
        <4>2. <<r>> = <<w>> \/ <<>> = <<w>>
          BY <3>8, <4>1, Zenon
        <4> QED
          BY <4>2
      <3> HIDE DEF r, u
      <3>13. lz.key = lx.key /\ lz.value = w
        BY <3>1, <3>11, <3>12
      <3> QED
        BY <2>6, <3>8, <3>9, <3>10, <3>13, Zenon DEF LineTo
    <2> QED
      BY <2>5, <2>6
  <1> QED
    BY <1>4, <1>5

\* A value that may be written in place of a path: bad is in none.
Proper(w, A, W, nl, cr, bad) ==
    /\ w \in Seq(A) /\ w # <<>> /\ w[1] \notin W /\ w[Len(w)] \notin W
    /\ Clean(w, nl, cr)
    /\ \A i \in 1..Len(w) : w[i] # bad

\* One word is, and so are three of which the blank is in the middle.
LEMMA ProperWords ==
    ASSUME NEW A, NEW W, NEW nl, NEW cr, NEW bad, NEW a \in A, NEW b \in A, NEW c \in A,
           a \notin W, c \notin W, a \notin {nl, cr, bad}, b \notin {nl, cr, bad},
           c \notin {nl, cr, bad}
    PROVE  Proper(<<a>>, A, W, nl, cr, bad) /\ Proper(<<a, b, c>>, A, W, nl, cr, bad)
  <1>1. Proper(<<a>>, A, W, nl, cr, bad)
    <2> DEFINE w == <<a>>
    <2>1. w \in Seq(A) /\ Len(w) = 1 /\ w[1] = a /\ w # <<>>
      OBVIOUS
    <2> HIDE DEF w
    <2>2. \A i \in 1..Len(w) : w[i] = a
      BY <2>1
    <2>3. w[1] \notin W /\ w[Len(w)] \notin W
      BY <2>1
    <2>4. Clean(w, nl, cr) /\ \A i \in 1..Len(w) : w[i] # bad
      BY <2>2 DEF Clean
    <2> QED
      BY <2>1, <2>3, <2>4, Zenon DEF Proper, w
  <1>2. Proper(<<a, b, c>>, A, W, nl, cr, bad)
    <2> DEFINE w == <<a, b, c>>
    <2>1. w \in Seq(A) /\ Len(w) = 3 /\ w[1] = a /\ w[2] = b /\ w[3] = c /\ w # <<>>
      OBVIOUS
    <2> HIDE DEF w
    <2>2. \A i \in 1..Len(w) : w[i] = a \/ w[i] = b \/ w[i] = c
      BY <2>1
    <2>3. w[1] \notin W /\ w[Len(w)] \notin W
      BY <2>1
    <2>4. Clean(w, nl, cr) /\ \A i \in 1..Len(w) : w[i] # bad
      BY <2>2 DEF Clean
    <2> QED
      BY <2>1, <2>3, <2>4, Zenon DEF Proper, w
  <1> QED
    BY <1>1, <1>2

\* The symbols the tool writes.
SymlinkWords == {"/vmlinuz", "/initramfs", " ", "$tuned_initrd"}

\* The value a kernel or initrd line gets.
SymlinkOf(l) == IF l.key = <<"linux">> THEN <<"/vmlinuz">> ELSE FixedInitrd(l.value)

\* The paths of the symlinks are such values, with tuned's initrd behind them or not.
LEMMA SymlinkIsProper ==
    ASSUME NEW A, SymlinkWords \subseteq A
    PROVE  /\ Proper(<<"/vmlinuz">>, A, White, "\n", "\r", "/boot/")
           /\ \A v : Proper(FixedInitrd(v), A, White, "\n", "\r", "/boot/")
  <1>1. "/vmlinuz" \in A /\ "/initramfs" \in A /\ " " \in A /\ "$tuned_initrd" \in A
    BY Zenon DEF SymlinkWords
  <1>2. "/vmlinuz" \notin White /\ "/initramfs" \notin White /\ "$tuned_initrd" \notin White
    <2>1. /\ "/vmlinuz" # " " /\ "/initramfs" # " " /\ "$tuned_initrd" # " "
          /\ "/vmlinuz" # "\r" /\ "/initramfs" # "\r" /\ "$tuned_initrd" # "\r"
      BY Zenon
    <2> QED
      BY <2>1, Zenon DEF White, Blank
  <1>3. /\ "/vmlinuz" \notin {"\n", "\r", "/boot/"} /\ "/initramfs" \notin {"\n", "\r", "/boot/"}
        /\ " " \notin {"\n", "\r", "/boot/"} /\ "$tuned_initrd" \notin {"\n", "\r", "/boot/"}
    BY Zenon
  <1>4. Proper(<<"/vmlinuz">>, A, White, "\n", "\r", "/boot/")
    BY <1>1, <1>2, <1>3, ProperWords, Zenon
  <1>5. /\ Proper(<<"/initramfs">>, A, White, "\n", "\r", "/boot/")
        /\ Proper(<<"/initramfs", " ", "$tuned_initrd">>, A, White, "\n", "\r", "/boot/")
    BY <1>1, <1>2, <1>3, ProperWords, Zenon
  <1>6. ASSUME NEW v PROVE Proper(FixedInitrd(v), A, White, "\n", "\r", "/boot/")
    <2>1. CASE "$tuned_initrd" \in ToSet(v)
      BY <1>5, <2>1, Zenon DEF FixedInitrd
    <2>2. CASE "$tuned_initrd" \notin ToSet(v)
      BY <1>5, <2>2, Zenon DEF FixedInitrd
    <2> QED
      BY <2>1, <2>2
  <1> QED
    BY <1>4, <1>6, Zenon

\* The line that is written for a line.
LEMMA FixedLineIs ==
    ASSUME NEW l
    PROVE  /\ l.key \in Rewritten => FixedLine(l) = l.prefix \o SymlinkOf(l)
           /\ l.key \notin Rewritten => FixedLine(l) = l.prefix \o l.value
  <1>1. <<"linux">> # <<"initrd">>
    <2>1. <<"linux">>[1] = "linux" /\ <<"initrd">>[1] = "initrd" /\ "linux" # "initrd"
      BY Zenon
    <2> QED
      BY <2>1, Zenon
  <1>2. CASE l.key = <<"linux">>
    BY <1>1, <1>2, Zenon DEF FixedLine, SymlinkOf, Rewritten
  <1>3. CASE l.key = <<"initrd">> /\ "$tuned_initrd" \in ToSet(l.value)
    <2>1. FixedLine(l) = l.prefix \o <<"/initramfs", " ", "$tuned_initrd">>
      BY <1>1, <1>3, Zenon DEF FixedLine
    <2>2. SymlinkOf(l) = <<"/initramfs", " ", "$tuned_initrd">>
      BY <1>1, <1>3, Zenon DEF SymlinkOf, FixedInitrd
    <2> QED
      BY <1>3, <2>1, <2>2, Zenon DEF Rewritten
  <1>4. CASE l.key = <<"initrd">> /\ "$tuned_initrd" \notin ToSet(l.value)
    <2>1. FixedLine(l) = l.prefix \o <<"/initramfs">>
      BY <1>1, <1>4, Zenon DEF FixedLine
    <2>2. SymlinkOf(l) = <<"/initramfs">>
      BY <1>1, <1>4, Zenon DEF SymlinkOf, FixedInitrd
    <2> QED
      BY <1>4, <2>1, <2>2, Zenon DEF Rewritten
  <1>5. CASE l.key # <<"linux">> /\ l.key # <<"initrd">>
    BY <1>5, Zenon DEF FixedLine, Rewritten
  <1> QED
    BY <1>2, <1>3, <1>4, <1>5, Zenon

\* A line whose key is rewritten has a value.
HasValue(x) == BlsLine(x).key \in Rewritten => BlsLine(x).value # <<>>

FixedOf(x) == FixedLine(BlsLine(x))

\* What fix_bls_paths writes for a line is what is kept of it and the new value.
LEMMA LineIsFixed ==
    ASSUME NEW A, SymlinkWords \subseteq A, NEW x \in Seq(A), Almost(x, "\n", "\r"), HasValue(x)
    PROVE  LineTo(x, FixedOf(x), BlsLine(x), BlsLine(FixedOf(x)), A, Rewritten,
                  SymlinkOf(BlsLine(x)), "\n", "\r")
  <1> DEFINE l == BlsLine(x)
             w == SymlinkOf(l)
             z == FixedOf(x)
             lz == BlsLine(z)
  <1>1. LineParts(x, l, Blank, White, "#") /\ LineParts(z, lz, Blank, White, "#")
    BY Zenon DEF LineParts, BlsLine
  <1>2. /\ l.key \in Rewritten => z = l.prefix \o w
        /\ l.key \notin Rewritten => z = l.prefix \o l.value
    BY FixedLineIs, Zenon DEF FixedOf
  <1>3. Proper(w, A, White, "\n", "\r", "/boot/")
    BY SymlinkIsProper, Zenon DEF SymlinkOf
  <1>4. \A q \in Rewritten : \E k : q = <<k>> /\ k \notin White /\ k # "#"
    <2>1. \A k \in {"linux", "initrd"} : k \notin White /\ k # "#"
      BY KeysAreSymbols, Zenon DEF KeySymbols
    <2> QED
      BY <2>1, Zenon DEF Rewritten
  <1>5. Blank \subseteq White /\ "\r" \in White
    BY Zenon DEF White
  <1>6. l.key \in Rewritten => l.value # <<>>
    BY Zenon DEF HasValue
  <1> HIDE DEF l, w, z, lz
  <1>7. w \in Seq(A) /\ w # <<>> /\ w[1] \notin White /\ w[Len(w)] \notin White /\ Clean(w, "\n", "\r")
    BY <1>3, Zenon DEF Proper
  <1>8. LineTo(x, z, l, lz, A, Rewritten, w, "\n", "\r")
    BY <1>1, <1>2, <1>4, <1>5, <1>6, <1>7, LineBecomes, Zenon
  <1> QED
    BY <1>8, Zenon DEF l, w, z, lz

\* The value that takes the place of another.
NewValues(A, k) == [v \in Seq(A) |-> IF k = "linux" THEN <<"/vmlinuz">> ELSE FixedInitrd(v)]

\* What is read of the line that is written for a line is the new value of its key.
LEMMA ValueOfFixed ==
    ASSUME NEW A, SymlinkWords \subseteq A, NEW x \in Seq(A), Almost(x, "\n", "\r"), HasValue(x),
           NEW k \in {"linux", "initrd"}
    PROVE  Becomes(LineValues(A, k, Blank, White, "#")[x],
                   LineValues(A, k, Blank, White, "#")[FixedOf(x)], NewValues(A, k), Seq(A))
  <1> DEFINE l  == BlsLine(x)
             z  == FixedOf(x)
             lz == BlsLine(z)
             w  == SymlinkOf(l)
             c  == LineValues(A, k, Blank, White, "#")
             m  == NewValues(A, k)
  <1>1. /\ z \in Seq(A)
        /\ l.key \notin Rewritten => lz = l
        /\ l.key \in Rewritten => lz.key = l.key /\ lz.value = w
    <2>1. LineTo(x, z, l, lz, A, Rewritten, w, "\n", "\r")
      BY LineIsFixed, Zenon
    <2> QED
      BY <2>1, Zenon DEF LineTo
  <1>2. /\ c[x] = Held(IF l.key = <<k>> THEN l.value ELSE <<>>)
        /\ c[z] = Held(IF lz.key = <<k>> THEN lz.value ELSE <<>>)
    <2>1. c[x] = LineValue(x, k, Blank, White, "#") /\ c[z] = LineValue(z, k, Blank, White, "#")
      BY <1>1, Zenon DEF LineValues
    <2> QED
      BY <2>1, LineValueIs, Zenon
  <1>3. <<k>> \in Rewritten
    BY Zenon DEF Rewritten
  <1>4. Held(<<>>) = <<>> /\ \A v : v # <<>> => Held(v) = <<v>>
    BY Zenon DEF Held, Nothing, Some
  <1>5. l.value \in Seq(A)
    BY BlsLineIsText, Zenon
  <1>6. l.key \in Rewritten => l.value # <<>>
    BY Zenon DEF HasValue
  <1>7. Proper(w, A, White, "\n", "\r", "/boot/")
    BY SymlinkIsProper, Zenon DEF SymlinkOf
  <1>8. l.key = <<k>> => w = m[l.value]
    <2>1. <<"linux">> # <<"initrd">> /\ "linux" # "initrd"
      <3>1. <<"linux">>[1] = "linux" /\ <<"initrd">>[1] = "initrd" /\ "linux" # "initrd"
        BY Zenon
      <3> QED
        BY <3>1, Zenon
    <2>2. m[l.value] = IF k = "linux" THEN <<"/vmlinuz">> ELSE FixedInitrd(l.value)
      BY <1>5, Zenon DEF NewValues
    <2>3. CASE k = "linux"
      BY <2>2, <2>3, Zenon DEF SymlinkOf
    <2>4. CASE k = "initrd"
      BY <2>1, <2>2, <2>4, Zenon DEF SymlinkOf
    <2> QED
      BY <2>3, <2>4, Zenon
  <1> HIDE DEF l, z, lz, w, c, m
  <1>9. CASE l.key = <<k>>
    <2>1. l.key \in Rewritten /\ l.value # <<>>
      BY <1>3, <1>6, <1>9, Zenon
    <2>2. c[x] = <<l.value>>
      BY <1>2, <1>4, <1>9, <2>1, Zenon
    <2>3. lz.key = <<k>> /\ lz.value = w /\ w # <<>>
      BY <1>1, <1>7, <1>9, <2>1, Zenon DEF Proper
    <2>4. c[z] = <<w>>
      BY <1>2, <1>4, <2>3, Zenon
    <2>5. c[z] = <<m[l.value]>>
      BY <1>8, <1>9, <2>4, Zenon
    <2> QED
      BY <1>5, <2>2, <2>5, Zenon DEF Becomes, z, c, m
  <1>10. CASE l.key # <<k>>
    <2>1. lz.key # <<k>>
      BY <1>1, <1>10, Zenon
    <2> QED
      BY <1>2, <1>4, <1>10, <2>1, Zenon DEF Becomes, z, c, m
  <1> QED
    BY <1>9, <1>10, Zenon

\* A line that rewriting does not touch, as a sequence of at most one line.
KeptOf(x) ==
    IF BlsLine(x).key \notin Rewritten /\ Trim(BlsLine(x).prefix, White) # <<>>
    THEN <<BlsLine(x)>> ELSE <<>>

\* The line that is written for such a line is read as the same line.
LEMMA KeptOfFixed ==
    ASSUME NEW A, SymlinkWords \subseteq A, NEW x \in Seq(A), Almost(x, "\n", "\r"), HasValue(x)
    PROVE  KeptOf(FixedOf(x)) = KeptOf(x)
  <1> DEFINE l  == BlsLine(x)
             z  == FixedOf(x)
             lz == BlsLine(z)
  <1>1. /\ l.key \notin Rewritten => lz = l
        /\ l.key \in Rewritten => lz.key = l.key
    <2>1. LineTo(x, z, l, lz, A, Rewritten, SymlinkOf(l), "\n", "\r")
      BY LineIsFixed, Zenon
    <2> QED
      BY <2>1, Zenon DEF LineTo
  <1> HIDE DEF l, lz
  <1>2. CASE l.key \notin Rewritten
    BY <1>1, <1>2, Zenon DEF KeptOf, l, lz, z
  <1>3. CASE l.key \in Rewritten
    BY <1>1, <1>3, Zenon DEF KeptOf, l, lz, z
  <1> QED
    BY <1>2, <1>3, Zenon

\* Lines whose keys have values, once they are rewritten, are good lines if they were.
FixedLines(s) == [i \in DOMAIN s |-> FixedOf(s[i])]

\* A carriage return at the end of the last line stays there, or is trimmed.
LEMMA FixedLinesAreGood ==
    ASSUME NEW A, SymlinkWords \subseteq A, NEW s \in Seq(Seq(A)), GoodLines(s, "\n", "\r"),
           \A i \in DOMAIN s : HasValue(s[i])
    PROVE  FixedLines(s) \in Seq(Seq(A)) /\ GoodLines(FixedLines(s), "\n", "\r")
  <1> DEFINE F == FixedLines(s)
  <1>1. DOMAIN s = 1..Len(s) /\ Len(s) \in Nat /\ \A i \in 1..Len(s) : s[i] \in Seq(A)
    BY LenProperties, ElementOfSeq
  <1>2. F = [i \in DOMAIN s |-> F[i]] /\ \A i \in DOMAIN s : F[i] = FixedOf(s[i])
    BY Zenon DEF FixedLines
  <1> HIDE DEF F
  <1>3. ASSUME NEW i \in DOMAIN s
        PROVE  F[i] \in Seq(A) /\ Almost(F[i], "\n", "\r")
               /\ (Clean(s[i], "\n", "\r") => Clean(F[i], "\n", "\r"))
    <2> DEFINE x == s[i]
    <2>1. x \in Seq(A) /\ Almost(x, "\n", "\r") /\ HasValue(x)
      BY <1>1, Zenon DEF GoodLines
    <2>2. F[i] = FixedOf(x)
      BY <1>2, Zenon
    <2> HIDE DEF x
    <2>3. LineTo(x, FixedOf(x), BlsLine(x), BlsLine(FixedOf(x)), A, Rewritten,
                 SymlinkOf(BlsLine(x)), "\n", "\r")
      BY <2>1, LineIsFixed, Zenon
    <2>4. F[i] \in Seq(A) /\ Almost(F[i], "\n", "\r") /\ (Clean(x, "\n", "\r") => Clean(F[i], "\n", "\r"))
      BY <2>2, <2>3, Zenon DEF LineTo
    <2> QED
      BY <2>4, Zenon DEF x
  <1>4. F \in Seq(Seq(A))
    BY <1>2, <1>3, SequencesOf, Zenon
  <1>5. Len(F) = Len(s)
    <2>1. F = [i \in 1..Len(s) |-> F[i]]
      BY <1>1, <1>2, Zenon
    <2> QED
      BY <1>1, <1>4, <2>1, LenProperties
  <1>6. GoodLines(F, "\n", "\r")
    <2>1. \A i \in 1..Len(s) : i < Len(s) => Clean(s[i], "\n", "\r")
      BY Zenon DEF GoodLines
    <2>2. \A i \in 1..Len(s) : Almost(F[i], "\n", "\r")
      BY <1>1, <1>3, Zenon
    <2>3. \A i \in 1..Len(s) : i < Len(s) => Clean(F[i], "\n", "\r")
      BY <1>1, <1>3, <2>1, Zenon
    <2> QED
      BY <1>5, <2>2, <2>3, Zenon DEF GoodLines
  <1> QED
    BY <1>4, <1>6, Zenon DEF F

-----------------------------------------------------------------------------
(* The entry that is written for an entry.                                 *)

\* The entry that is written for a text, by its lines.
FixedText(t, u, A) ==
    LET s == Lines(t)
    IN  /\ s \in Seq(Seq(A)) /\ GoodLines(s, "\n", "\r") /\ \A i \in DOMAIN s : HasValue(s[i])
        /\ u = JoinedFrom(FixedLines(s), <<"\n">>)[1]
        /\ u \in Seq(A) /\ ReturnsEndLines(u)

\* Its carriage returns end its lines, as they do in the text it is written for.
LEMMA FixedTextIs ==
    ASSUME NEW A, SymlinkWords \subseteq A, "\n" \in A, NEW t \in Seq(A), WellFormed(t)
    PROVE  FixedText(t, FixedEntry(t), A)
  <1> DEFINE s == Lines(t)
             b == ParseBls(t)
             F == FixedLines(s)
             u == FixedEntry(t)
  <1>1. s \in Seq(Seq(A))
    BY LinesAreTexts, Zenon
  <1>2. GoodLines(s, "\n", "\r")
    <2>1. EntryText(t, A, Blank, White, "\r", "\n")
      BY EntryTextIs, Zenon DEF WellFormed
    <2>2. GoodLines(LinesFrom(t, {"\n"}, "\r")[1], "\n", "\r")
      BY <2>1, LinesAreGood, Zenon
    <2>3. s = LinesFrom(t, {"\n"}, "\r")[1]
      BY Zenon DEF Lines, LinesFrom, LinesBody, LineEnd, OptionNext, Newline
    <2> QED
      BY <2>2, <2>3, Zenon
  <1>3. b = [i \in DOMAIN s |-> BlsLine(s[i])]
    BY Zenon DEF ParseBls
  <1>4. ASSUME NEW i \in DOMAIN s PROVE HasValue(s[i])
    <2>1. i \in DOMAIN b /\ b[i] = BlsLine(s[i])
      BY <1>3, Zenon
    <2>2. \A l \in ToSet(b) : l.key \in Rewritten => l.value # <<>>
      BY Zenon DEF WellFormed
    <2>3. b[i] \in ToSet(b)
      BY <2>1, Zenon DEF ToSet
    <2> HIDE DEF b, s
    <2> QED
      BY <2>1, <2>2, <2>3, Zenon DEF HasValue
  <1>5. u = JoinedFrom(F, <<"\n">>)[1]
    <2> HIDE DEF s, b
    <2>1. F = [i \in DOMAIN b |-> FixedLine(b[i])]
      <3>1. DOMAIN b = DOMAIN s /\ \A i \in DOMAIN s : b[i] = BlsLine(s[i])
        BY <1>3, Zenon
      <3> QED
        BY <3>1, Zenon DEF FixedLines, FixedOf
    <2>2. u = Joined([i \in DOMAIN b |-> FixedLine(b[i])])
      BY Zenon DEF FixedEntry, b
    <2> HIDE DEF F
    <2>3. Joined(F) = JoinedFrom(F, <<"\n">>)[1]
      BY Zenon DEF Joined, JoinedFrom, JoinedBody, Line
    <2> QED
      BY <2>1, <2>2, <2>3, Zenon
  <1>6. u \in Seq(A) /\ Returns(u, "\n", "\r")
    <2>1. F \in Seq(Seq(A)) /\ GoodLines(F, "\n", "\r")
      <3> HIDE DEF s
      <3> QED
        BY <1>1, <1>2, <1>4, FixedLinesAreGood, Zenon
    <2>2. "\r" # "\n"
      BY Zenon
    <2> HIDE DEF F, u
    <2>3. Returns(JoinedFrom(F, <<"\n">>)[1], "\n", "\r") /\ JoinedFrom(F, <<"\n">>)[1] \in Seq(A)
      BY <2>1, <2>2, JoinedReturns, Zenon
    <2> QED
      BY <1>5, <2>3, Zenon
  <1>7. ReturnsEndLines(u)
    <2> HIDE DEF u
    <2>1. DOMAIN u = 1..Len(u)
      BY <1>6, LenProperties, Zenon
    <2> QED
      BY <1>6, <2>1, Zenon DEF ReturnsEndLines, Returns
  <1> QED
    BY <1>1, <1>2, <1>4, <1>5, <1>6, <1>7, Zenon DEF FixedText

\* What a function makes of the lines of the entry that is written.
FixedChosen(t, u, A, c) ==
    Chosen(c, Lines(u)) = Chosen([x \in Seq(A) |-> c[FixedOf(x)]], Lines(t))

\* It is made of the lines that are written for the lines of the text.
LEMMA FixedChosenIs ==
    ASSUME NEW A, SymlinkWords \subseteq A, "\n" \in A, NEW t \in Seq(A), NEW u, FixedText(t, u, A),
           NEW B, NEW c \in [Seq(A) -> Seq(B)], c[<<>>] = <<>>
    PROVE  FixedChosen(t, u, A, c)
  <1> DEFINE s == Lines(t)
             F == FixedLines(s)
             d == [x \in Seq(A) |-> c[FixedOf(x)]]
             g == [i \in DOMAIN s |-> c[F[i]]]
  <1>1. /\ s \in Seq(Seq(A)) /\ GoodLines(s, "\n", "\r") /\ \A i \in DOMAIN s : HasValue(s[i])
        /\ u = JoinedFrom(F, <<"\n">>)[1]
    BY Zenon DEF FixedText
  <1> HIDE DEF s
  <1>2. F \in Seq(Seq(A)) /\ GoodLines(F, "\n", "\r")
    BY <1>1, FixedLinesAreGood, Zenon
  <1>3. Lines(u) = LinesFrom(u, {"\n"}, "\r")[1]
    BY Zenon DEF Lines, LinesFrom, LinesBody, LineEnd, OptionNext, Newline
  <1>4. Chosen(c, LinesFrom(JoinedFrom(F, <<"\n">>)[1], {"\n"}, "\r")[1]) = Chosen(c, F)
    <2> HIDE DEF F
    <2>1. LinesOfJoined(c, F, "\n", "\r")
      BY <1>2, JoinedLines, Zenon
    <2> QED
      BY <2>1, Zenon DEF LinesOfJoined
  <1>5. Chosen(c, F) = FlattenSeq(g)
    <2>1. DOMAIN F = DOMAIN s
      BY Zenon DEF FixedLines
    <2> HIDE DEF F
    <2> QED
      BY <2>1, Zenon DEF Chosen
  <1>6. \A i \in DOMAIN s : g[i] = d[s[i]]
    <2>1. \A i \in DOMAIN s : s[i] \in Seq(A)
      BY <1>1, SequencesOf, Zenon
    <2>2. \A i \in DOMAIN s : F[i] = FixedOf(s[i])
      BY Zenon DEF FixedLines
    <2> HIDE DEF F
    <2> QED
      BY <2>1, <2>2, Zenon
  <1>7. g = [i \in DOMAIN s |-> g[i]]
    BY Zenon
  <1> HIDE DEF g, d, F
  <1>8. FlattenSeq(g) = Chosen(d, s)
    BY <1>6, <1>7, ChosenAt, Zenon
  <1> QED
    BY <1>1, <1>3, <1>4, <1>5, <1>8, Zenon DEF FixedChosen, d, s

\* Nothing is left of an empty line, and it has no value.
LEMMA EmptyLine ==
    ASSUME NEW A, NEW W
    PROVE  Trim(<<>>, W) = <<>>
  <1> DEFINE x == <<>>
  <1>1. x \in Seq(A) /\ Len(x) = 0
    OBVIOUS
  <1> HIDE DEF x
  <1>2. Trim(x, W) = <<>> \/ TrimmedPart(x, Trim(x, W), W)
    BY <1>1, TrimLeaves
  <1>3. ~TrimmedPart(x, Trim(x, W), W)
    <2>1. SUFFICES ASSUME TrimmedPart(x, Trim(x, W), W) PROVE FALSE
      OBVIOUS
    <2>2. \E a \in 1..Len(x) : TRUE
      BY <2>1, Zenon DEF TrimmedPart
    <2> QED
      BY <1>1, <2>2
  <1> QED
    BY <1>2, <1>3 DEF x

\* What is read of the lines of an entry: functions on all texts.
LEMMA LinesRead ==
    ASSUME NEW A, NEW k
    PROVE  /\ LineValues(A, k, Blank, White, "#") \in [Seq(A) -> Seq(Seq(A))]
           /\ LineValues(A, k, Blank, White, "#")[<<>>] = <<>>
           /\ KeptOf(<<>>) = <<>>
  <1>1. Trim(<<>>, White) = <<>>
    BY EmptyLine, Zenon
  <1>2. LineValues(A, k, Blank, White, "#") \in [Seq(A) -> Seq(Seq(A))]
    BY ValuesAreTexts, Zenon
  <1>3. LineValues(A, k, Blank, White, "#")[<<>>] = <<>>
    <2>1. <<>> \in Seq(A)
      OBVIOUS
    <2>2. LineValue(<<>>, k, Blank, White, "#") = <<>>
      BY <1>1, Zenon DEF LineValue, TrimmedValue
    <2> QED
      BY <2>1, <2>2, Zenon DEF LineValues
  <1>4. KeptOf(<<>>) = <<>>
    <2>1. BlsLine(<<>>) = [key |-> <<>>, prefix |-> <<>>, value |-> <<>>]
      BY <1>1, Zenon DEF BlsLine
    <2> DEFINE l == BlsLine(<<>>)
    <2>2. l.prefix = <<>>
      <3> HIDE DEF l
      <3>1. l = [key |-> <<>>, prefix |-> <<>>, value |-> <<>>]
        BY <2>1, Zenon DEF l
      <3> QED
        BY <3>1
    <2> QED
      BY <1>1, <2>2, Zenon DEF KeptOf
  <1> QED
    BY <1>2, <1>3, <1>4

\* The line that is written for a text is a text.
LEMMA FixedOfIsText ==
    ASSUME NEW A, SymlinkWords \subseteq A, NEW x \in Seq(A)
    PROVE  FixedOf(x) \in Seq(A)
  <1>1. BlsLine(x).prefix \in Seq(A) /\ BlsLine(x).value \in Seq(A)
    BY BlsLineIsText, Zenon
  <1> QED
    BY <1>1, FixedLineIsText, Zenon DEF FixedOf, SymlinkWords

\* The values that are read of the entry that is written for a text.
FixedValues(t, u, A, k) ==
    LET values == ValuesOf(ParseBls(t), <<k>>)
    IN  /\ values \in Seq(Seq(A))
        /\ BlsFieldAll(u, <<k>>) \in Seq(Seq(A))
        /\ NonEmpty(BlsFieldAll(u, <<k>>)) = Mapped(NewValues(A, k), values)

\* The new values are texts, and none is a path in /boot.
LEMMA NewValuesAre ==
    ASSUME NEW A, SymlinkWords \subseteq A, NEW k
    PROVE  /\ NewValues(A, k) \in [Seq(A) -> Seq(A)]
           /\ \A v \in Seq(A) : ~HasBadPath(NewValues(A, k)[v])
  <1> DEFINE m == NewValues(A, k)
  <1>1. ASSUME NEW v \in Seq(A) PROVE Proper(m[v], A, White, "\n", "\r", "/boot/")
    <2>1. m[v] = IF k = "linux" THEN <<"/vmlinuz">> ELSE FixedInitrd(v)
      BY Zenon DEF NewValues
    <2> HIDE DEF m
    <2>2. CASE k = "linux"
      BY <2>1, <2>2, SymlinkIsProper, Zenon
    <2>3. CASE k # "linux"
      BY <2>1, <2>3, SymlinkIsProper, Zenon
    <2> QED
      BY <2>2, <2>3
  <1>2. m = [v \in Seq(A) |-> m[v]]
    BY Zenon DEF NewValues
  <1> HIDE DEF m
  <1>3. \A v \in Seq(A) : m[v] \in Seq(A)
    BY <1>1, Zenon DEF Proper
  <1>4. m \in [Seq(A) -> Seq(A)]
    BY <1>2, <1>3, Zenon
  <1>5. ASSUME NEW v \in Seq(A) PROVE ~HasBadPath(m[v])
    <2> DEFINE w == m[v]
    <2>1. w \in Seq(A) /\ \A i \in 1..Len(w) : w[i] # "/boot/"
      BY <1>1, Zenon DEF Proper
    <2> HIDE DEF w
    <2>2. DOMAIN w = 1..Len(w)
      BY <2>1, LenProperties, Zenon
    <2>3. ~HasBadPath(w)
      BY <2>1, <2>2, Zenon DEF HasBadPath, ToSet
    <2> QED
      BY <2>3, Zenon DEF w
  <1> QED
    BY <1>4, <1>5, Zenon DEF m

\* They are the new values of those that are read of the text.
LEMMA FixedValuesAre ==
    ASSUME NEW A, SymlinkWords \subseteq A, "\n" \in A, NEW t \in Seq(A), WellFormed(t),
           NEW k \in {"linux", "initrd"}, k \in A
    PROVE  FixedValues(t, FixedEntry(t), A, k)
  <1> DEFINE X == Seq(A)
             u == FixedEntry(t)
             s == Lines(t)
             c == LineValues(A, k, Blank, White, "#")
             d == [x \in X |-> c[FixedOf(x)]]
             m == NewValues(A, k)
             o == <<>>
  <1>1. FixedText(t, u, A)
    BY FixedTextIs, Zenon
  <1> HIDE DEF u
  <1>2. s \in Seq(X) /\ GoodLines(s, "\n", "\r") /\ (\A i \in DOMAIN s : HasValue(s[i]))
        /\ u \in X /\ ReturnsEndLines(u)
    BY <1>1, Zenon DEF FixedText
  <1>3. c \in [X -> Seq(X)] /\ c[<<>>] = <<>>
    BY LinesRead, Zenon
  <1>4. m \in [X -> X]
    BY NewValuesAre, Zenon
  <1>5. o \in X
    OBVIOUS
  <1>6. Chosen(c, Lines(u)) = Chosen(d, s)
    <2> HIDE DEF c
    <2>1. FixedChosen(t, u, A, c)
      BY <1>1, <1>3, FixedChosenIs, Zenon
    <2> QED
      BY <2>1, Zenon DEF FixedChosen
  <1>7. DOMAIN s = 1..Len(s) /\ \A i \in 1..Len(s) : s[i] \in X
    <2> HIDE DEF s, X
    <2> QED
      BY <1>2, LenProperties, ElementOfSeq
  <1>8. d \in [X -> Seq(X)]
    <2>1. \A x \in X : d[x] \in Seq(X)
      BY <1>3, FixedOfIsText, Zenon
    <2> QED
      BY <2>1, Zenon
  <1>9. ASSUME NEW i \in 1..Len(s) PROVE Becomes(c[s[i]], d[s[i]], m, X)
    <2> DEFINE x == s[i]
    <2>1. x \in X /\ Almost(x, "\n", "\r") /\ HasValue(x)
      BY <1>2, <1>7, Zenon DEF GoodLines
    <2>2. d[x] = c[FixedOf(x)]
      BY <2>1, Zenon
    <2> HIDE DEF s, x, c, d, m
    <2>3. Becomes(c[x], c[FixedOf(x)], m, X)
      BY <2>1, ValueOfFixed, Zenon DEF c, m
    <2>4. Becomes(c[x], d[x], m, X)
      BY <2>2, <2>3, Zenon
    <2> QED
      BY <2>4, Zenon DEF x
  <1>10. ValuesOf(ParseBls(t), <<k>>) = Chosen(c, s)
    BY ValuesOfIs, Zenon
  <1>11. BlsFieldAll(u, <<k>>) \in Seq(X) /\ NonEmpty(BlsFieldAll(u, <<k>>)) = Chosen(c, Lines(u))
    <2>1. FieldsAgree(u, A, k)
      BY <1>2, FieldsAreLineValues, Zenon
    <2> QED
      BY <2>1, Zenon DEF FieldsAgree
  <1> HIDE DEF s, c, d, m, o, X
  <1>12. Chosen(d, s) = Mapped(m, Chosen(c, s))
    <2>1. ChosenMapped(c, d, m, s)
      BY <1>2, <1>3, <1>4, <1>5, <1>8, <1>9, ChosenMaps
    <2> QED
      BY <2>1, Zenon DEF ChosenMapped
  <1>13. Chosen(c, s) \in Seq(X)
    <2>1. ChosenTurns(c, o, s, X)
      BY <1>2, <1>3, <1>5, ChosenIs
    <2> QED
      BY <2>1, Zenon DEF ChosenTurns
  <1>14. NonEmpty(BlsFieldAll(u, <<k>>)) = Mapped(m, ValuesOf(ParseBls(t), <<k>>))
    BY <1>6, <1>10, <1>11, <1>12, Zenon
  <1> QED
    BY <1>10, <1>11, <1>13, <1>14, Zenon DEF FixedValues, X, m, u

\* None of the values of the entry that is written lies in /boot.
LEMMA FixedPathsAreGood ==
    ASSUME NEW A, SymlinkWords \subseteq A, NEW t, NEW u, NEW k, FixedValues(t, u, A, k)
    PROVE  \A v \in ToSet(BlsFieldAll(u, <<k>>)) : ~HasBadPath(v)
  <1> DEFINE X == Seq(A)
             s == BlsFieldAll(u, <<k>>)
             L == ValuesOf(ParseBls(t), <<k>>)
             m == NewValues(A, k)
             h == Holds(A)
             z == Chosen(h, s)
  <1>1. L \in Seq(X) /\ s \in Seq(X) /\ NonEmpty(s) = Mapped(m, L)
    BY Zenon DEF FixedValues
  <1>2. m \in [X -> X] /\ \A v \in X : ~HasBadPath(m[v])
    BY NewValuesAre, Zenon
  <1>3. h \in [X -> Seq(X)]
    BY ValuesAreTexts, Zenon
  <1> HIDE DEF s, L, m
  <1>4. z = Mapped(m, L)
    BY <1>1, NonEmptyIs, Zenon
  <1> HIDE DEF z, h
  <1>5. DOMAIN s = 1..Len(s) /\ DOMAIN L = 1..Len(L) /\ Len(L) \in Nat
    BY <1>1, LenProperties
  <1>6. \A i \in 1..Len(L) : L[i] \in X
    BY <1>1, ElementOfSeq
  <1>7. Len(z) = Len(L) /\ \A j \in 1..Len(L) : z[j] = m[L[j]]
    <2>1. z = [j \in 1..Len(L) |-> m[L[j]]]
      BY <1>4, <1>5, Zenon DEF Mapped
    <2>2. z \in [1..Len(L) -> X]
      BY <1>2, <1>6, <2>1
    <2>3. Len(z) = Len(L)
      <3> DEFINE n == Len(L)
      <3>1. n \in Nat /\ z \in [1..n -> X]
        BY <1>5, <2>2
      <3> HIDE DEF n
      <3>2. Len(z) = n
        BY <3>1, IsSequence
      <3> QED
        BY <3>2 DEF n
    <2> QED
      BY <2>1, <2>3
  <1>8. ASSUME NEW i \in DOMAIN s PROVE ~HasBadPath(s[i])
    <2> DEFINE v == s[i]
    <2>1. i \in 1..Len(s) /\ v \in X
      BY <1>1, <1>5, ElementOfSeq
    <2>2. h[v] = Held(v)
      BY <2>1, Zenon DEF Holds, h
    <2> HIDE DEF v
    <2>3. CASE v = <<>>
      <3>1. ToSet(<<>>) = {}
        BY DEF ToSet
      <3> QED
        BY <2>3, <3>1, Zenon DEF HasBadPath, v
    <2>4. CASE v # <<>>
      <3>1. h[s[i]] = <<v>>
        BY <2>2, <2>4, Zenon DEF Held, Some, v
      <3>2. \E j \in 1..Len(z) : z[j] = v
        <4> HIDE DEF X
        <4>1. HasMember(Chosen(h, s), v)
          BY <1>1, <1>3, <2>1, <3>1, ChosenHas
        <4> QED
          BY <4>1, Zenon DEF HasMember, z
      <3>3. PICK j \in 1..Len(L) : v = m[L[j]]
        BY <1>7, <3>2
      <3> QED
        BY <1>2, <1>6, <3>3, Zenon DEF v
    <2> QED
      BY <2>3, <2>4
  <1> QED
    BY <1>8, Zenon DEF ToSet, s

\* What find_field finds first is one of what bls_field_all finds.
LEMMA FirstIsFound ==
    ASSUME NEW n \in Nat, NEW A, NEW f, FieldsFound(f, n, A), f[1] # Nothing
    PROVE  f[1][1].value \in ToSet(AllFrom(f, n)[1])
  <1> DEFINE b == AllFrom(f, n)
             v == f[1][1].value
             j == f[1][1].end + 1
             r == b[j]
             s == b[1]
  <1>1. AllTurns(b, f, n, A)
    BY AllLoop
  <1>2. 1 \in 1..n + 2
    OBVIOUS
  <1>3. v \in Seq(A) /\ j \in 1..n + 2
    <2>1. PICK w \in Seq(A), d \in 1..n + 1 : f[1] = Some([value |-> w, end |-> d])
      BY <1>2, Zenon DEF FieldsFound
    <2>2. f[1][1] = [value |-> w, end |-> d]
      BY <2>1 DEF Some
    <2>3. f[1][1].value = w /\ f[1][1].end = d
      BY <2>2
    <2> QED
      BY <2>3
  <1> HIDE DEF b
  <1>4. r \in Seq(Seq(A)) /\ s = <<v>> \o r /\ s \in Seq(Seq(A))
    <2> HIDE DEF j
    <2>1. r \in Seq(Seq(A)) /\ s \in Seq(Seq(A))
      BY <1>1, <1>2, <1>3, Zenon DEF AllTurns
    <2>2. s = <<v>> \o r
      BY <1>1, <1>2, Zenon DEF AllTurns, j
    <2> QED
      BY <2>1, <2>2
  <1> HIDE DEF v, r, s
  <1>5. Len(s) = Len(r) + 1 /\ s[1] = v /\ Len(r) \in Nat
    <2>1. Len(<<v>> \o r) = Len(r) + 1 /\ (<<v>> \o r)[1] = v
      BY <1>3, <1>4, OneInFront
    <2>2. Len(r) \in Nat
      BY <1>4, LenProperties
    <2> QED
      BY <1>4, <2>1, <2>2
  <1>6. DOMAIN s = 1..Len(s)
    BY <1>4, LenProperties
  <1>7. 1 \in DOMAIN s
    BY <1>5, <1>6
  <1> QED
    BY <1>5, <1>7, Zenon DEF ToSet, s, b, v

\* The lines that rewriting does not touch.
LEMMA KeptLinesAre ==
    ASSUME NEW A, NEW t \in Seq(A)
    PROVE  KeptLines(t) = Chosen([x \in Seq(A) |-> KeptOf(x)], Lines(t))
  <1> DEFINE s == Lines(t)
             b == ParseBls(t)
             Kept(l) == l.key \notin Rewritten /\ Trim(l.prefix, White) # <<>>
             g == [i \in DOMAIN b |-> IF Kept(b[i]) THEN Some(b[i]) ELSE Nothing]
             c == [x \in Seq(A) |-> KeptOf(x)]
  <1>1. \A i \in DOMAIN s : s[i] \in Seq(A)
    <2>1. s \in Seq(Seq(A))
      BY LinesAreTexts, Zenon
    <2> HIDE DEF s
    <2> QED
      BY <2>1, SequencesOf, Zenon
  <1>2. DOMAIN b = DOMAIN s /\ \A i \in DOMAIN s : b[i] = BlsLine(s[i])
    BY Zenon DEF ParseBls
  <1>3. KeptLines(t) = FlattenSeq(g)
    BY Zenon DEF KeptLines
  <1> HIDE DEF s, b
  <1>4. \A i \in DOMAIN s : g[i] = c[s[i]]
    <2>1. ASSUME NEW i \in DOMAIN s PROVE g[i] = c[s[i]]
      <3>1. g[i] = IF Kept(b[i]) THEN Some(b[i]) ELSE Nothing
        BY <1>2, Zenon
      <3>2. c[s[i]] = KeptOf(s[i])
        BY <1>1, Zenon
      <3>3. b[i] = BlsLine(s[i])
        BY <1>2, Zenon
      <3> QED
        BY <3>1, <3>2, <3>3, Zenon DEF KeptOf, Some, Nothing
    <2> QED
      BY <2>1, Zenon
  <1>5. g = [i \in DOMAIN s |-> g[i]]
    BY <1>2, Zenon
  <1> HIDE DEF g, c
  <1>6. FlattenSeq(g) = Chosen(c, s)
    BY <1>4, <1>5, ChosenAt, Zenon
  <1> QED
    BY <1>3, <1>6, Zenon DEF c, s

\* Rewriting an entry does not touch them.
LEMMA FixedKeepsLines ==
    ASSUME NEW A, SymlinkWords \subseteq A, "\n" \in A, NEW t \in Seq(A), WellFormed(t)
    PROVE  KeptLines(FixedEntry(t)) = KeptLines(t)
  <1> DEFINE X == Seq(A)
             u == FixedEntry(t)
             s == Lines(t)
             B == {BlsLine(x) : x \in X}
             c == [x \in X |-> KeptOf(x)]
             d == [x \in X |-> c[FixedOf(x)]]
  <1>1. FixedText(t, u, A)
    BY FixedTextIs, Zenon
  <1> HIDE DEF u
  <1>2. s \in Seq(X) /\ GoodLines(s, "\n", "\r") /\ (\A i \in DOMAIN s : HasValue(s[i])) /\ u \in X
    BY <1>1, Zenon DEF FixedText
  <1>3. c \in [X -> Seq(B)] /\ c[<<>>] = <<>>
    <2>1. ASSUME NEW x \in X PROVE KeptOf(x) \in Seq(B)
      <3> DEFINE l == BlsLine(x)
      <3>1. l \in B
        BY Zenon
      <3>2. KeptOf(x) = <<l>> \/ KeptOf(x) = <<>>
        BY Zenon DEF KeptOf
      <3> HIDE DEF B, l
      <3>3. <<l>> \in Seq(B) /\ <<>> \in Seq(B)
        BY <3>1
      <3> QED
        BY <3>2, <3>3, Zenon
    <2>2. <<>> \in X
      OBVIOUS
    <2>3. KeptOf(<<>>) = <<>>
      BY LinesRead, Zenon
    <2> HIDE DEF B, X
    <2> QED
      BY <2>1, <2>2, <2>3, Zenon
  <1>4. Chosen(c, Lines(u)) = Chosen(d, s)
    <2> HIDE DEF c, B
    <2>1. FixedChosen(t, u, A, c)
      BY <1>1, <1>3, FixedChosenIs, Zenon
    <2> QED
      BY <2>1, Zenon DEF FixedChosen
  <1>5. DOMAIN s = 1..Len(s) /\ \A i \in 1..Len(s) : s[i] \in X
    <2> HIDE DEF s, X
    <2> QED
      BY <1>2, LenProperties, ElementOfSeq
  <1>6. \A i \in DOMAIN s : d[s[i]] = c[s[i]]
    <2>1. ASSUME NEW i \in DOMAIN s PROVE d[s[i]] = c[s[i]]
      <3> DEFINE x == s[i]
      <3>1. x \in X /\ Almost(x, "\n", "\r") /\ HasValue(x)
        BY <1>2, <1>5, Zenon DEF GoodLines
      <3> HIDE DEF x, s
      <3>2. KeptOf(FixedOf(x)) = KeptOf(x)
        BY <3>1, KeptOfFixed, Zenon
      <3>3. FixedOf(x) \in X
        BY <3>1, FixedOfIsText, Zenon
      <3>4. d[x] = c[x]
        BY <3>1, <3>2, <3>3, Zenon
      <3> QED
        BY <3>4, Zenon DEF x
    <2> QED
      BY <2>1, Zenon
  <1> HIDE DEF d, c
  <1>7. Chosen(d, s) = Chosen(c, s)
    <2> HIDE DEF s
    <2> QED
      BY <1>6, ChosenSame, Zenon
  <1>8. KeptLines(u) = Chosen(c, Lines(u)) /\ KeptLines(t) = Chosen(c, s)
    BY <1>2, KeptLinesAre, Zenon DEF c
  <1> QED
    BY <1>4, <1>7, <1>8, Zenon DEF u

\* The tool finds no reason to rewrite what it wrote.
LEMMA FixedNeedsNoFix ==
    ASSUME NEW A, SymlinkWords \subseteq A, "\n" \in A, "linux" \in A, "initrd" \in A,
           NEW t \in Seq(A), WellFormed(t)
    PROVE  ~NeedsFix(FixedEntry(t))
  <1> DEFINE u == FixedEntry(t)
             f == FieldFrom(u, <<"linux">>, Blank, Newline, White, "#")
             n == Len(u)
             s == BlsFieldAll(u, <<"linux">>)
  <1>1. u \in Seq(A) /\ ReturnsEndLines(u)
    <2>1. FixedText(t, u, A)
      BY FixedTextIs, Zenon
    <2> HIDE DEF u
    <2> QED
      BY <2>1, Zenon DEF FixedText
  <1>2. /\ \A v \in ToSet(BlsFieldAll(u, <<"linux">>)) : ~HasBadPath(v)
        /\ \A v \in ToSet(BlsFieldAll(u, <<"initrd">>)) : ~HasBadPath(v)
    <2>1. FixedValues(t, u, A, "linux") /\ FixedValues(t, u, A, "initrd")
      BY FixedValuesAre, Zenon
    <2> HIDE DEF u
    <2> QED
      BY <2>1, FixedPathsAreGood, Zenon
  <1> HIDE DEF u
  <1>3. FieldsFound(f, n, A)
    <2>1. FieldsAgree(u, A, "linux")
      BY <1>1, FieldsAreLineValues, Zenon
    <2> QED
      BY <2>1, Zenon DEF FieldsAgree
  <1>4. FindField(u, <<"linux">>, 1) = f[1] /\ s = AllFrom(f, n)[1]
    BY FindFieldIs, BlsFieldAllIs, Zenon
  <1>5. n \in Nat
    BY <1>1, LenProperties, Zenon
  <1> HIDE DEF f, n, s
  <1>6. f[1] # Nothing => f[1][1].value \in ToSet(s)
    BY <1>3, <1>4, <1>5, FirstIsFound, Zenon
  <1>7. f[1] # Nothing => ~HasBadPath(f[1][1].value)
    BY <1>2, <1>6, Zenon DEF s
  <1> QED
    BY <1>2, <1>4, <1>7, Zenon DEF NeedsFix, u

-----------------------------------------------------------------------------
(* Every entry the specification reaches.                                 *)

\* The two readers of BLS entries agree on every entry, of any length and of any symbols,
\* whose carriage returns end its lines.
THEOREM ReadersAlwaysAgree == ParseSpec => []ReadersAgree
  <1>1. TextInv => ReadersAgree
    <2>1. ASSUME TextInv, ReturnsEndLines(text), NEW k \in {"linux", "initrd"}
          PROVE  NonEmpty(BlsFieldAll(text, <<k>>)) = ValuesOf(ParseBls(text), <<k>>)
      <3> DEFINE A == Symbols \cup {k}
      <3>1. text \in Seq(A) /\ k \in A
        <4>1. text \in Seq(Symbols)
          BY <2>1, Zenon DEF TextInv
        <4> QED
          BY <4>1, MoreSymbols, Zenon
      <3> HIDE DEF A
      <3>2. FieldsAgree(text, A, k)
        BY <2>1, <3>1, FieldsAreLineValues, Zenon
      <3>3. ValuesOf(ParseBls(text), <<k>>) = Chosen(LineValues(A, k, Blank, White, "#"), Lines(text))
        BY <3>1, ValuesOfIs, Zenon
      <3> QED
        BY <3>2, <3>3, Zenon DEF FieldsAgree
    <2> QED
      BY <2>1, Zenon DEF ReadersAgree, Rewritten
  <1> QED
    BY <1>1, TextInvHolds, PTL

\* A rewritten entry of any length whose carriage returns end its lines, and whose kernel
\* and initrd lines have a value, names the symlinks and only those, keeps tuned's initrd
\* and every other line, and is not rewritten again.
THEOREM RewritingIsExact == ParseSpec => FixRewritesPathsOnly
  <1> DEFINE W == SymlinkWords
             A == (Symbols \cup {"linux"}) \cup {"initrd"}
             linux  == ValuesOf(ParseBls(text), <<"linux">>)
             initrd == ValuesOf(ParseBls(text), <<"initrd">>)
             P == /\ NonEmpty(BlsFieldAll(text', <<"linux">>)) =
                         [i \in DOMAIN linux |-> <<"/vmlinuz">>]
                  /\ NonEmpty(BlsFieldAll(text', <<"initrd">>)) =
                         [i \in DOMAIN initrd |-> FixedInitrd(initrd[i])]
                  /\ KeptLines(text') = KeptLines(text)
                  /\ ~NeedsFix(text')
  <1>1. W \subseteq A /\ "\n" \in A /\ "linux" \in A /\ "initrd" \in A
    <2>1. W \subseteq Symbols /\ "\n" \in Symbols
      BY Zenon DEF Symbols, SymlinkWords
    <2> HIDE DEF W
    <2>2. \A c \in Symbols : c \in A
      BY Zenon
    <2>3. "linux" \in A /\ "initrd" \in A
      BY Zenon
    <2> HIDE DEF A
    <2> QED
      BY <2>1, <2>2, <2>3, Zenon
  <1>2. TextInv /\ FixBlsPaths /\ WellFormed(text) => P
    <2>1. SUFFICES ASSUME TextInv, FixBlsPaths, WellFormed(text) PROVE P
      OBVIOUS
    <2> DEFINE u == FixedEntry(text)
    <2>2. text \in Seq(A)
      <3>1. text \in Seq(Symbols)
        BY <2>1, Zenon DEF TextInv
      <3>2. text \in Seq(Symbols \cup {"linux"})
        BY <3>1, MoreSymbols, Zenon
      <3> QED
        BY <3>2, MoreSymbols, Zenon
    <2>3. text' = u
      BY <2>1, Zenon DEF FixBlsPaths
    <2> HIDE DEF A
    <2>4. FixedValues(text, u, A, "linux") /\ FixedValues(text, u, A, "initrd")
      BY <1>1, <2>1, <2>2, FixedValuesAre, Zenon
    <2>5. KeptLines(u) = KeptLines(text) /\ ~NeedsFix(u)
      BY <1>1, <2>1, <2>2, FixedKeepsLines, FixedNeedsNoFix, Zenon
    <2> HIDE DEF u
    <2>6. NonEmpty(BlsFieldAll(u, <<"linux">>)) = [i \in DOMAIN linux |-> <<"/vmlinuz">>]
      <3> DEFINE m == NewValues(A, "linux")
      <3>1. linux \in Seq(Seq(A)) /\ NonEmpty(BlsFieldAll(u, <<"linux">>)) = Mapped(m, linux)
        BY <2>4, Zenon DEF FixedValues
      <3> HIDE DEF m, linux
      <3>2. \A i \in DOMAIN linux : m[linux[i]] = <<"/vmlinuz">>
        <4>1. \A i \in DOMAIN linux : linux[i] \in Seq(A)
          BY <3>1, SequencesOf, Zenon
        <4> QED
          BY <4>1, Zenon DEF NewValues, m
      <3> QED
        BY <3>1, <3>2, Zenon DEF Mapped
    <2>7. NonEmpty(BlsFieldAll(u, <<"initrd">>)) = [i \in DOMAIN initrd |-> FixedInitrd(initrd[i])]
      <3> DEFINE m == NewValues(A, "initrd")
      <3>1. initrd \in Seq(Seq(A)) /\ NonEmpty(BlsFieldAll(u, <<"initrd">>)) = Mapped(m, initrd)
        BY <2>4, Zenon DEF FixedValues
      <3> HIDE DEF m, initrd
      <3>2. \A i \in DOMAIN initrd : m[initrd[i]] = FixedInitrd(initrd[i])
        <4>1. \A i \in DOMAIN initrd : initrd[i] \in Seq(A)
          BY <3>1, SequencesOf, Zenon
        <4>2. "initrd" # "linux"
          BY Zenon
        <4> QED
          BY <4>1, <4>2, Zenon DEF NewValues, m
      <3> QED
        BY <3>1, <3>2, Zenon DEF Mapped
    <2> QED
      BY <2>3, <2>5, <2>6, <2>7, Zenon
  <1>3. TextInv /\ [Next]_<<alphabet, text>> =>
            [FixBlsPaths /\ WellFormed(text) => P]_<<alphabet, text>>
    <2> HIDE DEF P
    <2> QED
      BY <1>2, Zenon
  <1> QED
    BY <1>3, TextInvHolds, PTL DEF ParseSpec, FixRewritesPathsOnly

=============================================================================
