------------------------------ MODULE Parse_proofs ------------------------------
(***************************************************************************)
(* Proofs about Parse: what its readers read from texts of any length, of  *)
(* any symbols.                                                            *)
(***************************************************************************)
EXTENDS Parse, SequenceTheorems, WellFoundedInduction, TLAPS

-----------------------------------------------------------------------------
(* Numbers, and definitions that go from one position to a later one.      *)

\* A set of natural numbers that is not empty has a least member.
LEMMA LeastNat ==
    ASSUME NEW T, T \subseteq Nat, T # {}
    PROVE  \E x \in T : \A y \in T : x <= y
  <1> DEFINE Less == {ss \in Nat \X Nat : ss[1] < ss[2]}
  <1>1. IsWellFoundedOn(Less, Nat)
    BY NatLessThanWellFounded DEF OpToRel
  <1>2. PICK x \in T : \A y \in T : ~(<<y, x>> \in Less)
    <2> HIDE DEF Less
    <2> QED
      BY <1>1, WFMin, Zenon
  <1>3. ASSUME NEW y \in T PROVE x <= y
    <2>1. ~(<<y, x>> \in Less)
      BY <1>2
    <2>2. ~(y < x)
      BY <2>1
    <2> QED
      BY <2>2
  <1> QED
    BY <1>3

\* Min is the least member of a set of natural numbers.
LEMMA MinIsLeast ==
    ASSUME NEW T, T \subseteq Nat, T # {}
    PROVE  Min(T) \in T /\ \A y \in T : Min(T) <= y
  BY LeastNat DEF Min

\* Max is the greatest member of a set of numbers that has a bound.
LEMMA MaxIsGreatest ==
    ASSUME NEW n \in Nat, NEW T, T \subseteq 0..n, T # {}
    PROVE  Max(T) \in T /\ \A y \in T : Max(T) >= y
  <1> DEFINE B == {n - x : x \in T}
  <1>1. B \subseteq Nat /\ B # {}
    <2>1. ASSUME NEW x \in T PROVE n - x \in Nat
      BY x \in 0..n
    <2> QED
      BY <2>1
  <1>2. PICK b \in B : \A c \in B : b <= c
    <2> HIDE DEF B
    <2> QED
      BY <1>1, LeastNat
  <1>3. PICK x \in T : b = n - x
    OBVIOUS
  <1>4. ASSUME NEW y \in T PROVE x >= y
    <2>1. n - x <= n - y
      BY <1>2, <1>3
    <2>2. x \in 0..n /\ y \in 0..n
      OBVIOUS
    <2> QED
      BY <2>1, <2>2
  <1> QED
    BY <1>4 DEF Max

\* What holds at a position whenever it holds at all later ones holds at all.
LEMMA FromTheEnd ==
    ASSUME NEW n \in Nat, NEW G,
           \A i \in 1..n : (\A j \in i + 1..n : j \in G) => i \in G
    PROVE  \A i \in 1..n : i \in G
  <1> DEFINE B == {i \in 1..n : i \notin G}
  <1> SUFFICES ASSUME B # {} PROVE FALSE
    OBVIOUS
  <1>1. PICK x \in B : \A y \in B : x >= y
    <2>1. B \subseteq 0..n
      OBVIOUS
    <2> HIDE DEF B
    <2> QED
      BY <2>1, MaxIsGreatest
  <1>2. \A j \in x + 1..n : j \in G
    BY <1>1
  <1> QED
    BY <1>2

\* A function that is given at the end, and elsewhere by its value at a later position.
GoesOn(f, n, V, base, next, step) ==
    /\ f \in [1..n -> V]
    /\ f[n] = base
    /\ \A i \in 1..n - 1 : f[i] = step[i][f[next[i]]]

\* There is one: what the LET functions of Parse are defined by.
LEMMA GoesOnExists ==
    ASSUME NEW n \in Nat \ {0}, NEW V, NEW base \in V,
           NEW next \in [1..n -> 1..n], \A i \in 1..n - 1 : next[i] > i,
           NEW step \in [1..n -> [V -> V]]
    PROVE  \E f : GoesOn(f, n, V, base, next, step)
  <1> DEFINE Solves(f, k) == f[n] = base /\ \A i \in k..n - 1 : f[i] = step[i][f[next[i]]]
             G == {k \in 1..n : \E f \in [1..n -> V] : Solves(f, k)}
  <1>1. ASSUME NEW k \in 1..n, \A j \in k + 1..n : j \in G
        PROVE  k \in G
    <2>1. CASE k = n
      <3> DEFINE f == [i \in 1..n |-> base]
      <3>1. f \in [1..n -> V] /\ Solves(f, k)
        BY <2>1
      <3> QED
        BY <3>1
    <2>2. CASE k # n
      <3>1. k + 1 \in G
        <4>1. k + 1 \in k + 1..n
          BY <2>2
        <4> QED
          BY <1>1, <4>1
      <3>2. PICK f \in [1..n -> V] : Solves(f, k + 1)
        BY <3>1
      <3> DEFINE g == [f EXCEPT ![k] = step[k][f[next[k]]]]
      <3>3. next[k] \in 1..n /\ next[k] > k /\ step[k] \in [V -> V]
        BY <2>2
      <3>4. g \in [1..n -> V]
        BY <3>3
      <3>5. g[n] = base
        BY <2>2, <3>2
      <3>6. ASSUME NEW i \in k..n - 1
            PROVE  g[i] = step[i][g[next[i]]]
        <4>1. next[i] \in 1..n /\ next[i] > i
          OBVIOUS
        <4>2. g[next[i]] = f[next[i]]
          BY <4>1
        <4>3. CASE i = k
          BY <4>2, <4>3
        <4>4. CASE i # k
          <5>1. i \in k + 1..n - 1 /\ i \in 1..n /\ g[i] = f[i]
            BY <3>4, <4>4
          <5>2. f[i] = step[i][f[next[i]]]
            BY <3>2, <5>1
          <5> QED
            BY <4>2, <5>1, <5>2
        <4> QED
          BY <4>3, <4>4
      <3> QED
        BY <3>4, <3>5, <3>6
    <2> QED
      BY <2>1, <2>2
  <1>2. \A k \in 1..n : k \in G
    <2> HIDE DEF G
    <2> QED
      BY <1>1, FromTheEnd
  <1>3. 1 \in G
    <2>1. 1 \in 1..n
      OBVIOUS
    <2> QED
      BY <1>2, <2>1
  <1>4. PICK f \in [1..n -> V] : Solves(f, 1)
    BY <1>3
  <1> QED
    BY <1>4 DEF GoesOn

-----------------------------------------------------------------------------
(* Where the loops stop.                                                   *)

\* The end of something is the first separator, or the end of the text.
LEMMA UptoIs ==
    ASSUME NEW A, NEW t \in Seq(A), NEW i \in 1..Len(t) + 1, NEW S
    PROVE  /\ Upto(t, i, S) \in i..Len(t) + 1
           /\ Upto(t, i, S) <= Len(t) => t[Upto(t, i, S)] \in S
           /\ \A j \in i..Upto(t, i, S) - 1 : t[j] \notin S
  <1> DEFINE T == {j \in i..Len(t) : t[j] \in S} \cup {Len(t) + 1}
  <1>0. Len(t) \in Nat
    BY LenProperties
  <1>1. T \subseteq i..Len(t) + 1 /\ T \subseteq Nat /\ T # {}
    BY <1>0
  <1>2. Min(T) \in T /\ \A y \in T : Min(T) <= y
    <2> HIDE DEF T
    <2> QED
      BY <1>1, MinIsLeast
  <1>3. Upto(t, i, S) = Min(T)
    BY DEF Upto
  <1> HIDE DEF T
  <1>4. ASSUME NEW j \in i..Min(T) - 1 PROVE t[j] \notin S
    <2>0. i \in Nat
      BY <1>0
    <2>1. Min(T) \in i..Len(t) + 1
      BY <1>1, <1>2
    <2>2. j \in i..Len(t) /\ j < Min(T)
      BY <1>0, <2>0, <2>1
    <2>3. j \notin T
      BY <1>2, <2>1, <2>2
    <2> QED
      BY <2>2, <2>3 DEF T
  <1>5. Min(T) <= Len(t) => t[Min(T)] \in S
    BY <1>0, <1>2 DEF T
  <1> QED
    BY <1>1, <1>2, <1>3, <1>4, <1>5

\* Past stops at the first symbol that is not skipped, or at the end of the text.
LEMMA PastIs ==
    ASSUME NEW A, NEW t \in Seq(A), NEW i \in 1..Len(t) + 1, NEW S
    PROVE  /\ Past(t, i, S) \in i..Len(t) + 1
           /\ Past(t, i, S) <= Len(t) => t[Past(t, i, S)] \notin S
           /\ \A j \in i..Past(t, i, S) - 1 : t[j] \in S
  <1> DEFINE T == {j \in i..Len(t) : t[j] \notin S} \cup {Len(t) + 1}
  <1>0. Len(t) \in Nat
    BY LenProperties
  <1>1. T \subseteq i..Len(t) + 1 /\ T \subseteq Nat /\ T # {}
    BY <1>0
  <1>2. Min(T) \in T /\ \A y \in T : Min(T) <= y
    <2> HIDE DEF T
    <2> QED
      BY <1>1, MinIsLeast
  <1>3. Past(t, i, S) = Min(T)
    BY DEF Past
  <1> HIDE DEF T
  <1>4. ASSUME NEW j \in i..Min(T) - 1 PROVE t[j] \in S
    <2>0. i \in Nat
      BY <1>0
    <2>1. Min(T) \in i..Len(t) + 1
      BY <1>1, <1>2
    <2>2. j \in i..Len(t) /\ j < Min(T)
      BY <1>0, <2>0, <2>1
    <2>3. j \notin T
      BY <1>2, <2>1, <2>2
    <2> QED
      BY <2>2, <2>3 DEF T
  <1>5. Min(T) <= Len(t) => t[Min(T)] \notin S
    BY <1>0, <1>2 DEF T
  <1> QED
    BY <1>1, <1>2, <1>3, <1>4, <1>5

\* The first separator is where Upto stops.
LEMMA FirstSeparator ==
    ASSUME NEW A, NEW t \in Seq(A), NEW S, NEW i \in 1..Len(t), NEW k \in i..Len(t),
           t[k] \in S, \A j \in i..k - 1 : t[j] \notin S
    PROVE  Upto(t, i, S) = k
  <1> DEFINE u == Upto(t, i, S)
  <1>0. Len(t) \in Nat
    BY LenProperties
  <1>1. /\ u \in i..Len(t) + 1
        /\ u <= Len(t) => t[u] \in S
        /\ \A j \in i..u - 1 : t[j] \notin S
    BY <1>0, UptoIs
  <1> HIDE DEF u
  <1>2. ~(u > k)
    BY <1>0, <1>1
  <1>3. ~(u < k)
    BY <1>0, <1>1
  <1>4. u = k
    BY <1>0, <1>1, <1>2, <1>3
  <1> QED
    BY <1>4 DEF u

-----------------------------------------------------------------------------
(* The path in a line of btrfs subvolume list.                             *)

\* What is behind the first part of a text is the second part.
LEMMA BehindIt ==
    ASSUME NEW A, NEW s \in Seq(A), NEW t \in Seq(A)
    PROVE  SubSeq(s \o t, Len(s) + 1, Len(s \o t)) = t
  <1> DEFINE u == SubSeq(s \o t, Len(s) + 1, Len(s \o t))
  <1>0. Len(s) \in Nat /\ Len(t) \in Nat
    BY LenProperties
  <1>1. /\ s \o t \in Seq(A) /\ Len(s \o t) = Len(s) + Len(t)
        /\ \A i \in 1..Len(s) + Len(t) :
              (s \o t)[i] = IF i <= Len(s) THEN s[i] ELSE t[i - Len(s)]
    BY ConcatProperties
  <1>2. \A i \in Len(s) + 1..Len(s \o t) : (s \o t)[i] \in A
    BY <1>0, <1>1, ElementOfSeq
  <1>3. /\ u \in Seq(A) /\ Len(u) = Len(t)
        /\ \A i \in 1..Len(t) : u[i] = (s \o t)[Len(s) + 1 + i - 1]
    BY <1>0, <1>1, <1>2, SubSeqProperties
  <1> HIDE DEF u
  <1>4. ASSUME NEW i \in 1..Len(t) PROVE u[i] = t[i]
    <2>1. /\ Len(s) + i \in 1..Len(s) + Len(t) /\ ~(Len(s) + i <= Len(s))
          /\ Len(s) + 1 + i - 1 = Len(s) + i /\ (Len(s) + i) - Len(s) = i
      BY <1>0
    <2> QED
      BY <1>1, <1>3, <2>1
  <1>5. u = t
    BY <1>3, <1>4, SeqEqual
  <1> QED
    BY <1>5 DEF u

\* The symbols of the first part of a text are where they were.
LEMMA BeforeIt ==
    ASSUME NEW A, NEW s \in Seq(A), NEW t \in Seq(A)
    PROVE  /\ s \o t \in Seq(A) /\ Len(s \o t) = Len(s) + Len(t)
           /\ \A i \in 1..Len(s) : (s \o t)[i] = s[i]
  <1>0. Len(s) \in Nat /\ Len(t) \in Nat
    BY LenProperties
  <1>1. /\ s \o t \in Seq(A) /\ Len(s \o t) = Len(s) + Len(t)
        /\ \A i \in 1..Len(s) + Len(t) :
              (s \o t)[i] = IF i <= Len(s) THEN s[i] ELSE t[i - Len(s)]
    BY ConcatProperties
  <1>2. ASSUME NEW i \in 1..Len(s) PROVE (s \o t)[i] = s[i]
    BY <1>0, <1>1
  <1> QED
    BY <1>1, <1>2

\* Three separators at their places are found behind one another, whatever they are.
LEMMA SeparatorsAreFound ==
    ASSUME NEW A, NEW line \in Seq(A), 7 <= Len(line),
           line[2] # line[3], line[4] # line[5], line[6] # line[7]
    PROVE  /\ Upto(line, 2, {line[3]}) = 3 /\ Upto(line, 3 + 1, {line[5]}) = 5
           /\ Upto(line, 5 + 1, {line[7]}) = 7
           /\ line # <<>>
  <1>0. Len(line) \in Nat
    BY LenProperties
  <1>1. Upto(line, 2, {line[3]}) = 3
    <2>1. /\ 2 \in 1..Len(line) /\ 3 \in 2..Len(line)
          /\ \A j \in 2..3 - 1 : line[j] \notin {line[3]}
      BY <1>0
    <2> QED
      BY <2>1, FirstSeparator
  <1>2. Upto(line, 3 + 1, {line[5]}) = 5
    <2>1. /\ 4 \in 1..Len(line) /\ 5 \in 4..Len(line)
          /\ \A j \in 4..5 - 1 : line[j] \notin {line[5]}
      BY <1>0
    <2> QED
      BY <2>1, FirstSeparator
  <1>3. Upto(line, 5 + 1, {line[7]}) = 7
    <2>1. /\ 6 \in 1..Len(line) /\ 7 \in 6..Len(line)
          /\ \A j \in 6..7 - 1 : line[j] \notin {line[7]}
      BY <1>0
    <2> QED
      BY <2>1, FirstSeparator
  <1>4. line # <<>>
    BY <1>0
  <1> QED
    BY <1>1, <1>2, <1>3, <1>4

\* Seven words before a path are where they were, and the path is behind them.
LEMMA BehindSeven ==
    ASSUME NEW A, NEW pre \in Seq(A), NEW path \in Seq(A), Len(pre) = 7
    PROVE  /\ pre \o path \in Seq(A) /\ 7 <= Len(pre \o path)
           /\ \A i \in 1..7 : (pre \o path)[i] = pre[i]
           /\ SubSeq(pre \o path, 7 + 1, Len(pre \o path)) = path
  <1>1. Len(path) \in Nat
    BY LenProperties
  <1>2. /\ pre \o path \in Seq(A) /\ Len(pre \o path) = Len(pre) + Len(path)
        /\ \A i \in 1..Len(pre) : (pre \o path)[i] = pre[i]
    BY BeforeIt
  <1>3. SubSeq(pre \o path, Len(pre) + 1, Len(pre \o path)) = path
    BY BehindIt
  <1> QED
    BY <1>1, <1>2, <1>3

\* A text of seven words.
LEMMA SevenWords ==
    ASSUME NEW A, NEW a \in A, NEW b \in A, NEW c \in A, NEW d \in A, NEW n \in A
    PROVE  LET pre == <<a, n, b, n, c, n, d>>
           IN  /\ pre \in Seq(A) /\ Len(pre) = 7
               /\ pre[1] = a /\ pre[2] = n /\ pre[3] = b /\ pre[4] = n
               /\ pre[5] = c /\ pre[6] = n /\ pre[7] = d
  OBVIOUS

\* The path is what is behind the separator that is behind the two before it, wherever
\* else the path itself has one.
LEMMA PathIsRead ==
    ASSUME NEW A, NEW path \in Seq(A)
    PROVE  ParseSubvolLine(<<"ID ", "n", " gen ", "n", " top level ", "n", " path ">> \o path)
               = Some(path)
  <1> DEFINE pre == <<"ID ", "n", " gen ", "n", " top level ", "n", " path ">>
             B   == A \cup {"ID ", "n", " gen ", " top level ", " path "}
  <1>1. /\ pre \in Seq(B) /\ Len(pre) = 7
        /\ pre[1] = "ID " /\ pre[2] = "n" /\ pre[3] = " gen " /\ pre[4] = "n"
        /\ pre[5] = " top level " /\ pre[6] = "n" /\ pre[7] = " path "
    BY SevenWords, Zenon
  <1>2. path \in Seq(B)
    <2>1. A \subseteq B
      BY Zenon
    <2> HIDE DEF B
    <2> QED
      BY <2>1, SeqMonotonic
  <1> DEFINE line == pre \o path
  <1> HIDE DEF pre, B
  <1>3. line \in Seq(B) /\ 7 <= Len(line)
    BY <1>1, <1>2, BehindSeven, Zenon
  <1>4. /\ line[1] = pre[1] /\ line[2] = pre[2] /\ line[3] = pre[3] /\ line[4] = pre[4]
        /\ line[5] = pre[5] /\ line[6] = pre[6] /\ line[7] = pre[7]
    <2>1. \A i \in 1..7 : line[i] = pre[i]
      BY <1>1, <1>2, BehindSeven, Zenon
    <2> HIDE DEF line
    <2> QED
      BY <2>1
  <1>5. SubSeq(line, 7 + 1, Len(line)) = path
    BY <1>1, <1>2, BehindSeven, Zenon
  <1> HIDE DEF line
  <1>6. /\ line[1] = "ID " /\ line[2] = "n" /\ line[3] = " gen " /\ line[4] = "n"
        /\ line[5] = " top level " /\ line[6] = "n" /\ line[7] = " path "
    BY <1>1, <1>4, Zenon
  <1>7. /\ Upto(line, 2, {" gen "}) = 3 /\ Upto(line, 3 + 1, {" top level "}) = 5
        /\ Upto(line, 5 + 1, {" path "}) = 7
        /\ line # <<>>
    <2>1. "n" # " gen " /\ "n" # " top level " /\ "n" # " path "
      BY Zenon
    <2>2. line[2] # " gen " /\ line[4] # " top level " /\ line[6] # " path "
      BY <1>6, <2>1, Zenon
    <2>3. line[2] # line[3] /\ line[4] # line[5] /\ line[6] # line[7]
      BY <1>6, <2>2, Zenon
    <2>4. /\ Upto(line, 2, {line[3]}) = 3 /\ Upto(line, 3 + 1, {line[5]}) = 5
          /\ Upto(line, 5 + 1, {line[7]}) = 7
          /\ line # <<>>
      BY <1>3, <2>3, SeparatorsAreFound, Zenon
    <2> QED
      BY <1>6, <2>4, Zenon
  <1>8. ParseSubvolLine(line) = Some(path)
    BY <1>3, <1>5, <1>6, <1>7, Zenon DEF ParseSubvolLine
  <1> QED
    BY <1>8 DEF line, pre

-----------------------------------------------------------------------------
(* A search that goes from item to item finds the first item.              *)

\* The positions in front of the items of a text, the item behind one, and what the
\* readers ask of it.
Starts(t, S)     == {0} \cup {i \in 1..Len(t) : t[i] \in S}
ItemAt(t, S, e)  == SubSeq(t, e + 1, Upto(t, e + 1, S) - 1)
Hit(t, S, w, least, e) ==
    MatchAt(t, w, e + 1) /\ e + 1 + Len(w) + least <= Upto(t, e + 1, S)
Value(t, S, w, e) == SubSeq(t, e + 1 + Len(w), Upto(t, e + 1, S) - 1)

\* The items of a text, each up to the separator behind it.
LEMMA ItemsAre ==
    ASSUME NEW A, NEW t \in Seq(A), NEW S
    PROVE  Items(t, S) = {<<e, ItemAt(t, S, e)>> : e \in Starts(t, S)}
  <1> DEFINE n    == Len(t) + 1
             ends == {0, n} \cup {i \in DOMAIN t : t[i] \in S}
  <1>0. Len(t) \in Nat /\ DOMAIN t = 1..Len(t)
    BY LenProperties
  <1>1. ends \ {n} = Starts(t, S)
    BY <1>0 DEF Starts
  <1>2. ASSUME NEW e \in Starts(t, S)
        PROVE  Min({j \in ends : j > e}) = Upto(t, e + 1, S)
    <2>1. e \in 0..Len(t)
      BY <1>0 DEF Starts
    <2>2. {j \in ends : j > e} = {j \in e + 1..Len(t) : t[j] \in S} \cup {Len(t) + 1}
      BY <1>0, <2>1
    <2> HIDE DEF ends
    <2> QED
      BY <2>2 DEF Upto
  <1>3. Items(t, S) = {<<e, SubSeq(t, e + 1, Min({j \in ends : j > e}) - 1)>> : e \in ends \ {n}}
    BY DEF Items
  <1> HIDE DEF ends, n
  <1>4. Items(t, S) = {<<e, SubSeq(t, e + 1, Min({j \in ends : j > e}) - 1)>> : e \in Starts(t, S)}
    BY <1>1, <1>3
  <1>5. \A e \in Starts(t, S) :
           SubSeq(t, e + 1, Min({j \in ends : j > e}) - 1) = ItemAt(t, S, e)
    BY <1>2 DEF ItemAt
  <1> QED
    BY <1>4, <1>5

\* An item that begins with a word and has enough behind it, and what it has behind it, as
\* positions of the text.
LEMMA HitsAre ==
    ASSUME NEW A, NEW t \in Seq(A), NEW S, NEW w \in Seq(A), w # <<>>, NEW least \in Nat,
           NEW e \in 0..Len(t)
    PROVE  /\ Hit(t, S, w, least, e) <=>
                  /\ IsPrefix(w, ItemAt(t, S, e))
                  /\ Len(ItemAt(t, S, e)) >= Len(w) + least
           /\ Hit(t, S, w, least, e) =>
                  Value(t, S, w, e) =
                      SubSeq(ItemAt(t, S, e), Len(w) + 1, Len(ItemAt(t, S, e)))
  <1> DEFINE u == Upto(t, e + 1, S)
             k == Len(w)
             m == ItemAt(t, S, e)
  <1>0. Len(t) \in Nat /\ k \in Nat \ {0} /\ SubSeq(w, 1, k) = w
    BY LenProperties, EmptySeq, SubSeqFull
  <1>1. u \in e + 1..Len(t) + 1
    BY <1>0, UptoIs
  <1>2. m = SubSeq(t, e + 1, u - 1)
    BY DEF ItemAt
  <1> HIDE DEF u, k, m
  <1>3. Len(m) = u - (e + 1)
    <2>1. \A i \in e + 1..u - 1 : t[i] \in A
      BY <1>0, <1>1, ElementOfSeq
    <2>2. Len(m) = IF e + 1 <= u - 1 THEN (u - 1) - (e + 1) + 1 ELSE 0
      BY <1>0, <1>1, <1>2, <2>1, SubSeqProperties
    <2> QED
      BY <1>0, <1>1, <2>2
  <1>4. ASSUME e + 1 + k <= u
        PROVE  SubSeq(m, 1, k) = SubSeq(t, e + 1, e + k)
    <2>1. /\ e + 1 \in 1..Len(t) /\ u - 1 \in 1..Len(t)
          /\ 1 \in 1..(u - 1) - (e + 1) + 1 /\ k \in 1..(u - 1) - (e + 1) + 1
      BY <1>0, <1>1, <1>4
    <2>2. SubSeq(m, 1, k) = SubSeq(t, (e + 1) + 1 - 1, (e + 1) + k - 1)
      BY <1>2, <2>1, SubSeqOfSubSeq
    <2> QED
      BY <1>0, <2>2
  <1>5. ASSUME e + 1 + k <= u
        PROVE  SubSeq(m, k + 1, Len(m)) = SubSeq(t, e + 1 + k, u - 1)
    <2>1. CASE e + 1 + k = u
      <3>1. k + 1 \in Int /\ Len(m) \in Int /\ Len(m) < k + 1
            /\ e + 1 + k \in Int /\ u - 1 \in Int /\ u - 1 < e + 1 + k
        BY <1>0, <1>1, <1>3, <2>1
      <3> QED
        BY <3>1, SubSeqEmpty
    <2>2. CASE e + 1 + k < u
      <3>1. /\ e + 1 \in 1..Len(t) /\ u - 1 \in 1..Len(t)
            /\ k + 1 \in 1..(u - 1) - (e + 1) + 1 /\ Len(m) \in 1..(u - 1) - (e + 1) + 1
        BY <1>0, <1>1, <1>3, <2>2
      <3>2. SubSeq(m, k + 1, Len(m)) = SubSeq(t, (e + 1) + (k + 1) - 1, (e + 1) + Len(m) - 1)
        <4>1. ASSUME NEW a \in 1..(u - 1) - (e + 1) + 1, NEW b \in 1..(u - 1) - (e + 1) + 1
              PROVE  SubSeq(m, a, b) = SubSeq(t, (e + 1) + a - 1, (e + 1) + b - 1)
          BY <1>2, <3>1, SubSeqOfSubSeq
        <4> QED
          BY <3>1, <4>1
      <3>3. (e + 1) + (k + 1) - 1 = e + 1 + k /\ (e + 1) + Len(m) - 1 = u - 1
        BY <1>0, <1>1, <1>3
      <3> QED
        BY <3>2, <3>3
    <2> QED
      BY <1>0, <1>1, <1>5, <2>1, <2>2
  <1>6. Hit(t, S, w, least, e) <=>
           e + k <= Len(t) /\ SubSeq(t, e + 1, e + k) = w /\ e + 1 + k + least <= u
    <2>1. (e + 1) + k - 1 = e + k
      BY <1>0
    <2>2. Hit(t, S, w, least, e) <=>
             /\ (e + 1) + k - 1 <= Len(t) /\ SubSeq(t, e + 1, (e + 1) + k - 1) = w
             /\ e + 1 + k + least <= u
      BY DEF Hit, MatchAt, u, k
    <2> QED
      BY <2>1, <2>2
  <1>7. (IsPrefix(w, m) /\ Len(m) >= k + least) <=>
           /\ k <= Len(m) /\ w = SubSeq(m, 1, k) /\ Len(m) >= k + least
    BY <1>0 DEF IsPrefix, k
  <1>8. Hit(t, S, w, least, e) <=> IsPrefix(w, m) /\ Len(m) >= k + least
    <2>1. ASSUME Hit(t, S, w, least, e) PROVE IsPrefix(w, m) /\ Len(m) >= k + least
      <3>1. e + 1 + k <= u /\ k <= Len(m) /\ Len(m) >= k + least
        BY <1>0, <1>1, <1>3, <1>6, <2>1
      <3> QED
        BY <1>4, <1>6, <1>7, <2>1, <3>1
    <2>2. ASSUME IsPrefix(w, m), Len(m) >= k + least PROVE Hit(t, S, w, least, e)
      <3>1. e + 1 + k <= u /\ e + k <= Len(t) /\ e + 1 + k + least <= u
        BY <1>0, <1>1, <1>3, <2>2
      <3> QED
        BY <1>4, <1>6, <1>7, <2>2, <3>1
    <2> QED
      BY <2>1, <2>2
  <1>9. Hit(t, S, w, least, e) => Value(t, S, w, e) = SubSeq(m, k + 1, Len(m))
    <2>1. SUFFICES ASSUME Hit(t, S, w, least, e)
                   PROVE  Value(t, S, w, e) = SubSeq(m, k + 1, Len(m))
      OBVIOUS
    <2>2. e + 1 + k <= u
      BY <1>0, <1>1, <1>6, <2>1
    <2>3. Value(t, S, w, e) = SubSeq(t, e + 1 + k, u - 1)
      BY DEF Value, u, k
    <2> QED
      BY <1>5, <2>2, <2>3
  <1> QED
    BY <1>8, <1>9 DEF m, k

\* A loop that, from the start of an item, stops at a hit and otherwise goes on behind the
\* end of the item, over nothing but separators.
Searches(f, next, t, S, w, least) ==
    /\ f[Len(t) + 1] = Nothing
    /\ \A i \in 1..Len(t) :
          /\ next[i] \in i + 1..Len(t) + 1
          /\ next[i] = Len(t) + 1 \/ next[i] > Upto(t, i, S)
          /\ \A j \in Upto(t, i, S)..next[i] - 1 : j <= Len(t) => t[j] \in S
          /\ Hit(t, S, w, least, i - 1) => f[i] = Some(Value(t, S, w, i - 1))
          /\ ~Hit(t, S, w, least, i - 1) => f[i] = f[next[i]]

\* What such a loop is to find from position i on.
Finds(f, i, t, S, w, least) ==
    LET hits == {e \in Starts(t, S) : e >= i - 1 /\ Hit(t, S, w, least, e)}
    IN  /\ hits = {} => f[i] = Nothing
        /\ \A e \in hits : (\A d \in hits : e <= d) => f[i] = Some(Value(t, S, w, e))

\* No item starts with a hit where there is only a separator.
LEMMA NoHitAtSeparator ==
    ASSUME NEW A, NEW t \in Seq(A), NEW S, NEW w \in Seq(A), w # <<>>, NEW least \in Nat,
           NEW e \in 0..Len(t), e + 1 <= Len(t) => t[e + 1] \in S
    PROVE  ~Hit(t, S, w, least, e)
  <1>0. Len(t) \in Nat /\ Len(w) \in Nat \ {0}
    BY LenProperties, EmptySeq
  <1>1. Upto(t, e + 1, S) = e + 1
    <2>1. /\ Upto(t, e + 1, S) \in e + 1..Len(t) + 1
          /\ \A j \in e + 1..Upto(t, e + 1, S) - 1 : t[j] \notin S
      BY <1>0, UptoIs
    <2>2. CASE e = Len(t)
      BY <1>0, <2>1, <2>2
    <2>3. CASE e + 1 <= Len(t)
      <3>1. e + 1 \notin e + 1..Upto(t, e + 1, S) - 1
        BY <2>1, <2>3
      <3> QED
        BY <1>0, <2>1, <3>1
    <2> QED
      BY <1>0, <2>2, <2>3
  <1> QED
    BY <1>0, <1>1 DEF Hit

\* From every start of an item, and from the end, the loop finds what it is to find.
LEMMA LoopFinds ==
    ASSUME NEW A, NEW t \in Seq(A), NEW S, NEW w \in Seq(A), w # <<>>, NEW least \in Nat,
           NEW f, NEW next, Searches(f, next, t, S, w, least)
    PROVE  Finds(f, 1, t, S, w, least)
  <1> DEFINE n    == Len(t) + 1
             H(e) == Hit(t, S, w, least, e)
             V(e) == Value(t, S, w, e)
             St   == Starts(t, S)
             G    == {i \in 1..n : i = n \/ i - 1 \in St => Finds(f, i, t, S, w, least)}
  <1>0. Len(t) \in Nat /\ n \in Nat /\ St \subseteq 0..Len(t) /\ 0 \in St
    BY LenProperties DEF Starts
  <1>1. \A i \in 1..Len(t) : i \in St <=> t[i] \in S
    BY <1>0 DEF Starts
  <1>2. f[n] = Nothing
    BY DEF Searches
  <1>3. ASSUME NEW i \in 1..n, \A j \in i + 1..n : j \in G
        PROVE  i \in G
    <2>1. CASE i = n
      <3>1. ASSUME NEW e \in St, e >= n - 1 PROVE ~H(e)
        <4>1. e \in 0..Len(t) /\ ~(e + 1 <= Len(t))
          BY <1>0, <3>1
        <4> QED
          BY <4>1, NoHitAtSeparator
      <3> QED
        BY <1>2, <2>1, <3>1 DEF Finds
    <2>2. CASE i # n /\ i - 1 \in St
      <3>0. i \in 1..Len(t) /\ i - 1 \in 0..Len(t) /\ (i - 1) + 1 = i
        BY <1>0, <2>2
      <3>1. /\ next[i] \in i + 1..n
            /\ next[i] = n \/ next[i] > Upto(t, i, S)
            /\ \A j \in Upto(t, i, S)..next[i] - 1 : j <= Len(t) => t[j] \in S
            /\ H(i - 1) => f[i] = Some(V(i - 1))
            /\ ~H(i - 1) => f[i] = f[next[i]]
        BY <3>0 DEF Searches
      <3>2. /\ Upto(t, i, S) \in i..n
            /\ \A j \in i..Upto(t, i, S) - 1 : t[j] \notin S
        BY <3>0, UptoIs
      <3>3. CASE H(i - 1)
        <4>1. \A e \in St : e >= i - 1 => i - 1 <= e
          BY <1>0, <3>0
        <4>2. \A e \in St : e >= i - 1 /\ e <= i - 1 => e = i - 1
          BY <1>0, <3>0
        <4>3. i - 1 \in {e \in St : e >= i - 1 /\ H(e)}
          BY <2>2, <3>0, <3>3
        <4>4. \A e \in {d \in St : d >= i - 1 /\ H(d)} :
                 (\A d \in {c \in St : c >= i - 1 /\ H(c)} : e <= d) => e = i - 1
          BY <4>2, <4>3
        <4>5. Finds(f, i, t, S, w, least)
          BY <3>1, <3>3, <4>3, <4>4 DEF Finds
        <4> QED
          BY <4>5
      <3>4. CASE ~H(i - 1)
        <4>1. ASSUME NEW e \in St, e >= i - 1, H(e)
              PROVE  e >= next[i] - 1
          <5>0. e \in 0..Len(t) /\ e # i - 1
            BY <1>0, <3>4, <4>1
          <5>1. ~(e < Upto(t, i, S))
            <6>1. SUFFICES ASSUME e < Upto(t, i, S) PROVE FALSE
              OBVIOUS
            <6>2. e \in i..Upto(t, i, S) - 1 /\ e \in 1..Len(t)
              BY <1>0, <3>0, <3>2, <4>1, <5>0, <6>1
            <6> QED
              BY <1>1, <3>2, <6>2
          <5>2. ~(e < next[i] - 1)
            <6>1. SUFFICES ASSUME e < next[i] - 1 PROVE FALSE
              OBVIOUS
            <6>2. e + 1 \in Upto(t, i, S)..next[i] - 1 /\ e + 1 <= Len(t)
              BY <1>0, <3>1, <3>2, <5>0, <5>1, <6>1
            <6>3. t[e + 1] \in S
              BY <3>1, <6>2
            <6> QED
              BY <4>1, <5>0, <6>3, NoHitAtSeparator
          <5> QED
            BY <1>0, <3>1, <5>0, <5>2
        <4>2. \A e \in St : e >= next[i] - 1 => e >= i - 1
          BY <1>0, <3>0, <3>1
        <4>3. {e \in St : e >= i - 1 /\ H(e)} = {e \in St : e >= next[i] - 1 /\ H(e)}
          BY <4>1, <4>2
        <4>4. next[i] = n \/ next[i] - 1 \in St
          <5>1. SUFFICES ASSUME next[i] # n PROVE next[i] - 1 \in St
            OBVIOUS
          <5>2. /\ next[i] - 1 \in Upto(t, i, S)..next[i] - 1
                /\ next[i] - 1 \in 1..Len(t)
            BY <1>0, <3>0, <3>1, <3>2, <5>1
          <5> QED
            BY <1>1, <3>1, <5>2
        <4>5. next[i] \in G
          BY <1>3, <3>1
        <4>6. Finds(f, next[i], t, S, w, least)
          BY <4>4, <4>5
        <4>7. Finds(f, i, t, S, w, least)
          BY <3>1, <3>4, <4>3, <4>6 DEF Finds
        <4> QED
          BY <4>7
      <3> QED
        BY <3>3, <3>4
    <2> QED
      BY <2>1, <2>2
  <1>4. 1 \in G
    <2>1. \A i \in 1..n : i \in G
      <3> HIDE DEF G
      <3> QED
        BY <1>0, <1>3, FromTheEnd
    <2> QED
      BY <1>0, <2>1
  <1> QED
    BY <1>0, <1>4

\* What the loop finds from the first position on is the first of the items.
LEMMA SearchFindsFirst ==
    ASSUME NEW A, NEW t \in Seq(A), NEW S, NEW w \in Seq(A), w # <<>>, NEW least \in Nat,
           NEW f, NEW next, Searches(f, next, t, S, w, least)
    PROVE  f[1] = FirstOf(t, S, w, least)
  <1> DEFINE St    == Starts(t, S)
             H(e)  == Hit(t, S, w, least, e)
             early == {e \in St : e >= 1 - 1 /\ H(e)}
             Like(item) == IsPrefix(w, item[2]) /\ Len(item[2]) >= Len(w) + least
             hits  == {item \in Items(t, S) : Like(item)}
             Rest(item) == Some(SubSeq(item[2], Len(w) + 1, Len(item[2])))
  <1>0. Len(t) \in Nat /\ St \subseteq 0..Len(t)
    BY LenProperties DEF Starts
  <1>1. Items(t, S) = {<<e, ItemAt(t, S, e)>> : e \in St}
    BY ItemsAre
  <1>2. ASSUME NEW e \in St
        PROVE  /\ Like(<<e, ItemAt(t, S, e)>>) <=> H(e)
               /\ H(e) => Rest(<<e, ItemAt(t, S, e)>>) = Some(Value(t, S, w, e))
    <2>0. e \in 0..Len(t)
      BY <1>0
    <2>1. H(e) <=> IsPrefix(w, ItemAt(t, S, e)) /\ Len(ItemAt(t, S, e)) >= Len(w) + least
      BY <2>0, HitsAre
    <2>2. ASSUME H(e)
          PROVE  Value(t, S, w, e) =
                    SubSeq(ItemAt(t, S, e), Len(w) + 1, Len(ItemAt(t, S, e)))
      BY <2>0, <2>2, HitsAre
    <2> QED
      BY <2>1, <2>2
  <1>3. /\ early = {} => f[1] = Nothing
        /\ \A e \in early : (\A d \in early : e <= d) => f[1] = Some(Value(t, S, w, e))
    <2>1. Finds(f, 1, t, S, w, least)
      BY LoopFinds
    <2> QED
      BY <2>1 DEF Finds
  <1>4. early = {e \in St : H(e)} /\ early \subseteq Nat
    BY <1>0
  <1> HIDE DEF Like, Rest, St, H
  <1>5. hits = {<<e, ItemAt(t, S, e)>> : e \in early}
    BY <1>1, <1>2, <1>4
  <1>6. FirstOf(t, S, w, least) =
           IF hits = {} THEN Nothing
           ELSE Rest(CHOOSE h \in hits : \A g \in hits : h[1] <= g[1])
    BY DEF FirstOf, Like, Rest
  <1> HIDE DEF early, hits
  <1>7. CASE early = {}
    BY <1>3, <1>5, <1>6, <1>7
  <1>8. CASE early # {}
    <2>1. PICK e \in early : \A d \in early : e <= d
      BY <1>4, <1>8, LeastNat
    <2>2. \E h \in hits : \A g \in hits : h[1] <= g[1]
      <3>1. <<e, ItemAt(t, S, e)>> \in hits
        BY <1>5
      <3>2. ASSUME NEW g \in hits PROVE <<e, ItemAt(t, S, e)>>[1] <= g[1]
        <4>1. PICK d \in early : g = <<d, ItemAt(t, S, d)>>
          BY <1>5
        <4> QED
          BY <2>1, <4>1
      <3> QED
        BY <3>1, <3>2
    <2>3. PICK h \in hits : /\ \A g \in hits : h[1] <= g[1]
                            /\ FirstOf(t, S, w, least) = Rest(h)
      BY <1>6, <2>2
    <2>4. PICK d \in early : h = <<d, ItemAt(t, S, d)>>
      BY <1>5, <2>3
    <2>5. \A c \in early : d <= c
      <3>1. ASSUME NEW c \in early PROVE d <= c
        <4>1. <<c, ItemAt(t, S, c)>> \in hits
          BY <1>5
        <4>2. h[1] <= <<c, ItemAt(t, S, c)>>[1]
          BY <2>3, <4>1
        <4> QED
          BY <2>4, <4>2
      <3> QED
        BY <3>1
    <2>6. f[1] = Some(Value(t, S, w, d))
      BY <1>3, <2>5
    <2>7. Rest(h) = Some(Value(t, S, w, d))
      BY <1>2, <1>4, <2>4
    <2> QED
      BY <2>3, <2>6, <2>7
  <1> QED
    BY <1>7, <1>8

\* A function that stops at hits and goes on as it is told.
Searching(f, next, t, S, w, least) ==
    /\ f = [i \in 1..Len(t) + 1 |-> f[i]]
    /\ f[Len(t) + 1] = Nothing
    /\ \A i \in 1..Len(t) :
          f[i] = IF Hit(t, S, w, least, i - 1) THEN Some(Value(t, S, w, i - 1))
                 ELSE f[next[i]]

\* There is one.
LEMMA SearchExists ==
    ASSUME NEW t, Len(t) \in Nat, NEW S, NEW w, NEW least,
           NEW next \in [1..Len(t) + 1 -> 1..Len(t) + 1],
           \A i \in 1..Len(t) : next[i] > i
    PROVE  \E f : Searching(f, next, t, S, w, least)
  <1> DEFINE n == Len(t) + 1
             H(i) == Hit(t, S, w, least, i - 1)
             W(i) == Some(Value(t, S, w, i - 1))
             V    == {Nothing} \cup {W(i) : i \in 1..n}
             step == [i \in 1..n |-> [v \in V |-> IF H(i) THEN W(i) ELSE v]]
  <1> HIDE DEF H, W
  <1>1. n \in Nat \ {0} /\ n - 1 = Len(t) /\ Nothing \in V /\ step \in [1..n -> [V -> V]]
    OBVIOUS
  <1>2. PICK f : GoesOn(f, n, V, Nothing, next, step)
    <2>1. next \in [1..n -> 1..n] /\ \A i \in 1..n - 1 : next[i] > i
      BY <1>1
    <2> HIDE DEF n, V, step
    <2> QED
      BY <1>1, <2>1, GoesOnExists
  <1>3. /\ f \in [1..n -> V] /\ f[n] = Nothing
        /\ \A i \in 1..n - 1 : f[i] = step[i][f[next[i]]]
    BY <1>2 DEF GoesOn
  <1>4. ASSUME NEW i \in 1..Len(t)
        PROVE  f[i] = IF H(i) THEN W(i) ELSE f[next[i]]
    <2>1. i \in 1..n - 1 /\ i \in 1..n /\ next[i] \in 1..n
      OBVIOUS
    <2>2. f[next[i]] \in V
      BY <1>3, <2>1
    <2>3. step[i][f[next[i]]] = IF H(i) THEN W(i) ELSE f[next[i]]
      BY <2>1, <2>2
    <2> QED
      BY <1>3, <2>1, <2>3
  <1>5. f = [i \in 1..n |-> f[i]]
    BY <1>3
  <1> QED
    BY <1>3, <1>4, <1>5 DEF H, W, Searching

\* One turn of the loop of find_option, at position i: a key with its "=" has k + 1 symbols.
OptionBody(from, t, S, w, k, i) ==
    LET end == Upto(t, i, S)
        val == i + k + 1
    IN  CASE i > Len(t)                        -> Nothing
          [] MatchAt(t, w, i) /\ val <= end    -> Some(SubSeq(t, val, end - 1))
          [] OTHER -> from[Min({end + 1, Len(t) + 1})]

\* Where it goes on.
OptionNext(t, S, i) == Min({Upto(t, i, S) + 1, Len(t) + 1})

\* A turn that stops at a hit and elsewhere goes on at next.
Turns(turn, f, next, t, S, w, least, i) ==
    turn = IF Hit(t, S, w, least, i - 1) THEN Some(Value(t, S, w, i - 1)) ELSE f[next]

\* What it does at a hit, and elsewhere.
LEMMA OptionTurn ==
    ASSUME NEW A, NEW t \in Seq(A), NEW S, NEW w \in Seq(A), NEW k \in Nat, Len(w) = k + 1,
           NEW f, NEW i \in 1..Len(t)
    PROVE  Turns(OptionBody(f, t, S, w, k, i), f, OptionNext(t, S, i), t, S, w, 0, i)
  <1>0. Len(t) \in Nat
    BY LenProperties
  <1>1. ~(i > Len(t)) /\ (i - 1) + 1 = i /\ i + k + 1 = i + Len(w)
        /\ Upto(t, i, S) \in i..Len(t) + 1 /\ i + Len(w) \in Int
    BY <1>0, UptoIs
  <1>2. Hit(t, S, w, 0, i - 1) <=> MatchAt(t, w, i) /\ i + k + 1 <= Upto(t, i, S)
    BY <1>0, <1>1 DEF Hit
  <1>3. Some(Value(t, S, w, i - 1)) = Some(SubSeq(t, i + k + 1, Upto(t, i, S) - 1))
    BY <1>1 DEF Value
  <1>4. CASE Hit(t, S, w, 0, i - 1)
    BY <1>1, <1>2, <1>3, <1>4, Zenon DEF OptionBody, OptionNext, Turns
  <1>5. CASE ~Hit(t, S, w, 0, i - 1)
    BY <1>1, <1>2, <1>5, Zenon DEF OptionBody, OptionNext, Turns
  <1> QED
    BY <1>4, <1>5, Zenon

\* At the end.
LEMMA OptionEnd ==
    ASSUME NEW A, NEW t \in Seq(A), NEW S, NEW w \in Seq(A), Len(w) \in Nat \ {0}, NEW k, NEW f
    PROVE  OptionBody(f, t, S, w, k, Len(t) + 1) = Nothing
  <1>1. Len(t) + 1 > Len(t) /\ ~MatchAt(t, w, Len(t) + 1)
    BY LenProperties DEF MatchAt
  <1> QED
    BY <1>1, Zenon DEF OptionBody

\* It goes on at later positions, and skips nothing but separators.
SkipsTo(next, t, S) ==
    /\ next \in [1..Len(t) + 1 -> 1..Len(t) + 1]
    /\ \A i \in 1..Len(t) :
          /\ next[i] \in i + 1..Len(t) + 1
          /\ next[i] = Len(t) + 1 \/ next[i] > Upto(t, i, S)
          /\ \A j \in Upto(t, i, S)..next[i] - 1 : j <= Len(t) => t[j] \in S

\* The loop of find_option goes on behind the separator.
LEMMA OptionGoesOn ==
    ASSUME NEW A, NEW t \in Seq(A), NEW S, NEW next,
           next = [i \in 1..Len(t) + 1 |-> Min({Upto(t, i, S) + 1, Len(t) + 1})]
    PROVE  SkipsTo(next, t, S)
  <1>0. Len(t) \in Nat
    BY LenProperties
  <1>1. ASSUME NEW i \in 1..Len(t) + 1
        PROVE  /\ next[i] \in {Upto(t, i, S) + 1, Len(t) + 1}
               /\ next[i] <= Upto(t, i, S) + 1 /\ next[i] <= Len(t) + 1
    <2> DEFINE T == {Upto(t, i, S) + 1, Len(t) + 1}
    <2>1. Upto(t, i, S) \in i..Len(t) + 1
      BY UptoIs
    <2>2. T \subseteq Nat /\ T # {}
      BY <1>0, <2>1
    <2>3. Min(T) \in T /\ \A y \in T : Min(T) <= y
      <3> HIDE DEF T
      <3> QED
        BY <2>2, MinIsLeast
    <2>4. next[i] = Min(T)
      OBVIOUS
    <2> QED
      BY <2>3, <2>4
  <1>2. ASSUME NEW i \in 1..Len(t)
        PROVE  /\ next[i] \in i + 1..Len(t) + 1
               /\ next[i] = Len(t) + 1 \/ next[i] > Upto(t, i, S)
               /\ \A j \in Upto(t, i, S)..next[i] - 1 : j <= Len(t) => t[j] \in S
    <2>0. i \in 1..Len(t) + 1
      BY <1>0
    <2>1. /\ Upto(t, i, S) \in i..Len(t) + 1
          /\ Upto(t, i, S) <= Len(t) => t[Upto(t, i, S)] \in S
      BY <2>0, UptoIs
    <2>2. /\ next[i] \in {Upto(t, i, S) + 1, Len(t) + 1}
          /\ next[i] <= Upto(t, i, S) + 1 /\ next[i] <= Len(t) + 1
      BY <1>1, <2>0
    <2>3. ASSUME NEW j \in Upto(t, i, S)..next[i] - 1, j <= Len(t)
          PROVE  t[j] \in S
      <3>1. j = Upto(t, i, S)
        BY <1>0, <2>1, <2>2, <2>3
      <3> QED
        BY <2>1, <2>3, <3>1
    <2>4. next[i] \in i + 1..Len(t) + 1
      BY <1>0, <2>1, <2>2
    <2>5. next[i] = Len(t) + 1 \/ next[i] > Upto(t, i, S)
      BY <1>0, <2>1, <2>2
    <2> QED
      BY <2>3, <2>4, <2>5
  <1>3. ASSUME NEW i \in 1..Len(t) + 1
        PROVE  next[i] \in 1..Len(t) + 1
    <2>1. Upto(t, i, S) \in i..Len(t) + 1
      BY UptoIs
    <2> QED
      BY <1>0, <1>1, <2>1
  <1>4. next = [i \in 1..Len(t) + 1 |-> next[i]]
    OBVIOUS
  <1>5. next \in [1..Len(t) + 1 -> 1..Len(t) + 1]
    <2>1. DOMAIN next = 1..Len(t) + 1
      OBVIOUS
    <2> QED
      BY <1>3, <1>4, <2>1
  <1> QED
    BY <1>2, <1>5 DEF SkipsTo

\* A function that goes on in this way from turn to turn is a search.
LEMMA OptionSearches ==
    ASSUME NEW A, NEW t \in Seq(A), NEW S, NEW w \in Seq(A), NEW k \in Nat, Len(w) = k + 1,
           NEW from,
           from = CHOOSE f : f = [i \in 1..Len(t) + 1 |-> OptionBody(f, t, S, w, k, i)]
    PROVE  Searches(from, [i \in 1..Len(t) + 1 |-> OptionNext(t, S, i)], t, S, w, 0)
  <1> DEFINE next == [i \in 1..Len(t) + 1 |-> Min({Upto(t, i, S) + 1, Len(t) + 1})]
  <1>0. Len(t) \in Nat /\ w # <<>>
    BY LenProperties
  <1>1. /\ next \in [1..Len(t) + 1 -> 1..Len(t) + 1]
        /\ \A i \in 1..Len(t) :
              /\ next[i] \in i + 1..Len(t) + 1
              /\ next[i] = Len(t) + 1 \/ next[i] > Upto(t, i, S)
              /\ \A j \in Upto(t, i, S)..next[i] - 1 : j <= Len(t) => t[j] \in S
    <2>1. SkipsTo(next, t, S)
      BY OptionGoesOn
    <2> HIDE DEF next
    <2> QED
      BY <2>1 DEF SkipsTo
  <1>2. ASSUME NEW f
        PROVE  /\ OptionBody(f, t, S, w, k, Len(t) + 1) = Nothing
               /\ \A i \in 1..Len(t) :
                     OptionBody(f, t, S, w, k, i) =
                         IF Hit(t, S, w, 0, i - 1) THEN Some(Value(t, S, w, i - 1))
                         ELSE f[next[i]]
    <2>1. OptionBody(f, t, S, w, k, Len(t) + 1) = Nothing
      BY OptionEnd
    <2>2. ASSUME NEW i \in 1..Len(t)
          PROVE  OptionBody(f, t, S, w, k, i) =
                     IF Hit(t, S, w, 0, i - 1) THEN Some(Value(t, S, w, i - 1))
                     ELSE f[next[i]]
      <3>1. next[i] = OptionNext(t, S, i)
        BY <1>0 DEF OptionNext
      <3> HIDE DEF next
      <3>2. Turns(OptionBody(f, t, S, w, k, i), f, OptionNext(t, S, i), t, S, w, 0, i)
        BY OptionTurn
      <3> QED
        BY <3>1, <3>2 DEF Turns
    <2> QED
      BY <2>1, <2>2
  <1> HIDE DEF next
  <1>3. \E f : f = [i \in 1..Len(t) + 1 |-> OptionBody(f, t, S, w, k, i)]
    <2>0. \A i \in 1..Len(t) : next[i] > i
      BY <1>0, <1>1
    <2>1. PICK f : Searching(f, next, t, S, w, 0)
      BY <1>0, <1>1, <2>0, SearchExists
    <2>2. ASSUME NEW i \in 1..Len(t) + 1 PROVE f[i] = OptionBody(f, t, S, w, k, i)
      <3>1. i = Len(t) + 1 \/ i \in 1..Len(t)
        BY <1>0
      <3> QED
        BY <1>2, <2>1, <3>1 DEF Searching
    <2>3. f = [i \in 1..Len(t) + 1 |-> OptionBody(f, t, S, w, k, i)]
      BY <2>1, <2>2 DEF Searching
    <2> QED
      BY <2>3
  <1>4. from = [i \in 1..Len(t) + 1 |-> OptionBody(from, t, S, w, k, i)]
    BY <1>3
  <1>5. \A i \in 1..Len(t) + 1 : from[i] = OptionBody(from, t, S, w, k, i)
    BY <1>4
  <1>6. Searches(from, next, t, S, w, 0)
    <2>1. from[Len(t) + 1] = Nothing
      BY <1>0, <1>2, <1>5
    <2>2. \A i \in 1..Len(t) :
             from[i] = IF Hit(t, S, w, 0, i - 1) THEN Some(Value(t, S, w, i - 1))
                       ELSE from[next[i]]
      BY <1>0, <1>2, <1>5
    <2> QED
      BY <1>1, <2>1, <2>2 DEF Searches
  <1>7. next = [i \in 1..Len(t) + 1 |-> OptionNext(t, S, i)]
    BY DEF next, OptionNext
  <1> QED
    BY <1>6, <1>7

\* What it has at its first position.
LEMMA OptionLoop ==
    ASSUME NEW A, NEW t \in Seq(A), NEW S, NEW w \in Seq(A), NEW k \in Nat, Len(w) = k + 1
    PROVE  (CHOOSE f : f = [i \in 1..Len(t) + 1 |-> OptionBody(f, t, S, w, k, i)])[1]
               = FirstOf(t, S, w, 0)
  <1> DEFINE from == CHOOSE f : f = [i \in 1..Len(t) + 1 |-> OptionBody(f, t, S, w, k, i)]
             next == [i \in 1..Len(t) + 1 |-> OptionNext(t, S, i)]
  <1>0. Len(t) \in Nat /\ w # <<>>
    BY LenProperties
  <1>1. Searches(from, next, t, S, w, 0)
    BY OptionSearches
  <1> HIDE DEF from, next
  <1>2. from[1] = FirstOf(t, S, w, 0)
    BY <1>0, <1>1, SearchFindsFirst
  <1> QED
    BY <1>2 DEF from

\* find_option reads the first option that begins with the key and "=".
LEMMA FindOptionReads ==
    ASSUME NEW A, NEW t \in Seq(A), NEW key \in Seq(A), "=" \in A
    PROVE  FindOption(t, key) = FirstOf(t, {","}, key \o <<"=">>, 0)
  <1> DEFINE w == key \o <<"=">>
  <1>1. w \in Seq(A) /\ Len(w) = Len(key) + 1 /\ Len(key) \in Nat
    <2>1. <<"=">> \in Seq(A) /\ Len(<<"=">>) = 1
      OBVIOUS
    <2> QED
      BY <2>1, ConcatProperties, LenProperties
  <1>2. FindOption(t, key) =
           (CHOOSE f : f = [i \in 1..Len(t) + 1 |->
                               OptionBody(f, t, {","}, w, Len(key), i)])[1]
    BY Zenon DEF FindOption, OptionBody
  <1> HIDE DEF w
  <1>3. (CHOOSE f : f = [i \in 1..Len(t) + 1 |->
                            OptionBody(f, t, {","}, w, Len(key), i)])[1]
           = FirstOf(t, {","}, w, 0)
    BY <1>1, OptionLoop, Zenon
  <1>4. FindOption(t, key) = FirstOf(t, {","}, w, 0)
    BY <1>2, <1>3, Zenon
  <1> QED
    BY <1>4, Zenon DEF w

\* One turn of the loop of find_root_uuid, at position i.
UuidBody(from, t, S, w, i) ==
    LET end == Upto(t, i, S)
        val == i + Len(w)
    IN  CASE i > Len(t)                      -> Nothing
          [] MatchAt(t, w, i) /\ val < end   -> Some(SubSeq(t, val, end - 1))
          [] OTHER -> from[Max({Past(t, end, S), i + 1})]

\* Where it goes on: behind all the blanks that end the token.
UuidNext(t, S, i) == Past(t, Upto(t, i, S), S)

\* It goes on at a later position, and skips nothing but blanks.
LEMMA UuidGoesOn ==
    ASSUME NEW A, NEW t \in Seq(A), NEW S, NEW i \in 1..Len(t)
    PROVE  /\ UuidNext(t, S, i) \in i + 1..Len(t) + 1
           /\ UuidNext(t, S, i) = Len(t) + 1 \/ UuidNext(t, S, i) > Upto(t, i, S)
           /\ \A j \in Upto(t, i, S)..UuidNext(t, S, i) - 1 : j <= Len(t) => t[j] \in S
           /\ Max({Past(t, Upto(t, i, S), S), i + 1}) = UuidNext(t, S, i)
  <1> DEFINE u == Upto(t, i, S)
             p == Past(t, u, S)
             T == {p, i + 1}
  <1>0. Len(t) \in Nat
    BY LenProperties
  <1>1. u \in i..Len(t) + 1 /\ (u <= Len(t) => t[u] \in S)
    BY <1>0, UptoIs
  <1> HIDE DEF u
  <1>2. /\ p \in u..Len(t) + 1 /\ (p <= Len(t) => t[p] \notin S)
        /\ \A j \in u..p - 1 : t[j] \in S
    <2>1. u \in 1..Len(t) + 1
      BY <1>0, <1>1
    <2> QED
      BY <2>1, PastIs
  <1> HIDE DEF p
  <1>3. p \in i + 1..Len(t) + 1 /\ (p = Len(t) + 1 \/ p > u)
    <2>1. CASE u = Len(t) + 1
      BY <1>0, <1>1, <1>2, <2>1
    <2>2. CASE u <= Len(t)
      <3>1. p # u
        BY <1>1, <1>2, <2>2
      <3> QED
        BY <1>0, <1>1, <1>2, <2>2, <3>1
    <2> QED
      BY <1>0, <1>1, <2>1, <2>2
  <1>4. Max(T) = p
    <2>1. T \subseteq 0..Len(t) + 1 /\ T # {} /\ Len(t) + 1 \in Nat
      BY <1>0, <1>3
    <2>2. Max(T) \in T /\ \A y \in T : Max(T) >= y
      <3> HIDE DEF T
      <3> QED
        BY <2>1, MaxIsGreatest
    <2> QED
      BY <1>0, <1>3, <2>2
  <1>5. UuidNext(t, S, i) = p
    BY DEF UuidNext, p, u
  <1> QED
    BY <1>2, <1>3, <1>4, <1>5 DEF p, u

\* What it does at a hit, and elsewhere.
LEMMA UuidTurn ==
    ASSUME NEW A, NEW t \in Seq(A), NEW S, NEW w \in Seq(A), NEW f, NEW i \in 1..Len(t)
    PROVE  Turns(UuidBody(f, t, S, w, i), f, UuidNext(t, S, i), t, S, w, 1, i)
  <1>0. Len(t) \in Nat /\ Len(w) \in Nat
    BY LenProperties
  <1>1. ~(i > Len(t)) /\ (i - 1) + 1 = i /\ Upto(t, i, S) \in i..Len(t) + 1
    BY <1>0, UptoIs
  <1>2. Hit(t, S, w, 1, i - 1) <=> MatchAt(t, w, i) /\ i + Len(w) < Upto(t, i, S)
    BY <1>0, <1>1 DEF Hit
  <1>3. Some(Value(t, S, w, i - 1)) = Some(SubSeq(t, i + Len(w), Upto(t, i, S) - 1))
    BY <1>1 DEF Value
  <1>4. Max({Past(t, Upto(t, i, S), S), i + 1}) = UuidNext(t, S, i)
    BY UuidGoesOn
  <1>5. CASE Hit(t, S, w, 1, i - 1)
    BY <1>1, <1>2, <1>3, <1>5, Zenon DEF UuidBody, Turns
  <1>6. CASE ~Hit(t, S, w, 1, i - 1)
    BY <1>1, <1>2, <1>4, <1>6, Zenon DEF UuidBody, Turns
  <1> QED
    BY <1>5, <1>6, Zenon

\* At the end.
LEMMA UuidEnd ==
    ASSUME NEW A, NEW t \in Seq(A), NEW S, NEW w \in Seq(A), Len(w) \in Nat \ {0}, NEW f
    PROVE  UuidBody(f, t, S, w, Len(t) + 1) = Nothing
  <1>1. Len(t) + 1 > Len(t) /\ ~MatchAt(t, w, Len(t) + 1)
    BY LenProperties DEF MatchAt
  <1> QED
    BY <1>1, Zenon DEF UuidBody

\* What a function that goes on in this way from turn to turn has at its first position.
LEMMA UuidLoop ==
    ASSUME NEW A, NEW t \in Seq(A), NEW S, NEW w \in Seq(A), Len(w) \in Nat \ {0}
    PROVE  (CHOOSE f : f = [i \in 1..Len(t) + 1 |-> UuidBody(f, t, S, w, i)])[1]
               = FirstOf(t, S, w, 1)
  <1> DEFINE from == CHOOSE f : f = [i \in 1..Len(t) + 1 |-> UuidBody(f, t, S, w, i)]
             next == [i \in 1..Len(t) + 1 |-> IF i = Len(t) + 1 THEN i ELSE UuidNext(t, S, i)]
  <1>0. Len(t) \in Nat /\ w # <<>>
    BY LenProperties
  <1>1. ASSUME NEW i \in 1..Len(t)
        PROVE  /\ next[i] = UuidNext(t, S, i)
               /\ next[i] \in i + 1..Len(t) + 1
               /\ next[i] = Len(t) + 1 \/ next[i] > Upto(t, i, S)
               /\ \A j \in Upto(t, i, S)..next[i] - 1 : j <= Len(t) => t[j] \in S
    <2>1. next[i] = UuidNext(t, S, i)
      BY <1>0
    <2>2. /\ UuidNext(t, S, i) \in i + 1..Len(t) + 1
          /\ UuidNext(t, S, i) = Len(t) + 1 \/ UuidNext(t, S, i) > Upto(t, i, S)
          /\ \A j \in Upto(t, i, S)..UuidNext(t, S, i) - 1 : j <= Len(t) => t[j] \in S
      BY UuidGoesOn
    <2> HIDE DEF next
    <2> QED
      BY <2>1, <2>2
  <1>2. next \in [1..Len(t) + 1 -> 1..Len(t) + 1]
    <2>1. ASSUME NEW i \in 1..Len(t) + 1 PROVE next[i] \in 1..Len(t) + 1
      <3>1. CASE i = Len(t) + 1
        BY <3>1
      <3>2. CASE i \in 1..Len(t)
        <4>1. next[i] \in i + 1..Len(t) + 1
          BY <1>1, <3>2
        <4> HIDE DEF next
        <4> QED
          BY <1>0, <4>1
      <3> QED
        BY <1>0, <3>1, <3>2
    <2>2. next = [i \in 1..Len(t) + 1 |-> next[i]] /\ DOMAIN next = 1..Len(t) + 1
      OBVIOUS
    <2> HIDE DEF next
    <2> QED
      BY <2>1, <2>2
  <1>3. ASSUME NEW f
        PROVE  /\ UuidBody(f, t, S, w, Len(t) + 1) = Nothing
               /\ \A i \in 1..Len(t) :
                     UuidBody(f, t, S, w, i) =
                         IF Hit(t, S, w, 1, i - 1) THEN Some(Value(t, S, w, i - 1))
                         ELSE f[next[i]]
    <2> HIDE DEF next
    <2>1. UuidBody(f, t, S, w, Len(t) + 1) = Nothing
      BY UuidEnd
    <2>2. ASSUME NEW i \in 1..Len(t)
          PROVE  UuidBody(f, t, S, w, i) =
                     IF Hit(t, S, w, 1, i - 1) THEN Some(Value(t, S, w, i - 1))
                     ELSE f[next[i]]
      <3>1. next[i] = UuidNext(t, S, i)
        BY <1>1
      <3>2. Turns(UuidBody(f, t, S, w, i), f, UuidNext(t, S, i), t, S, w, 1, i)
        BY UuidTurn
      <3> QED
        BY <3>1, <3>2 DEF Turns
    <2> QED
      BY <2>1, <2>2
  <1> HIDE DEF next
  <1>4. \E f : f = [i \in 1..Len(t) + 1 |-> UuidBody(f, t, S, w, i)]
    <2>0. \A i \in 1..Len(t) : next[i] > i
      BY <1>0, <1>1
    <2>1. PICK f : Searching(f, next, t, S, w, 1)
      BY <1>0, <1>2, <2>0, SearchExists
    <2>2. ASSUME NEW i \in 1..Len(t) + 1 PROVE f[i] = UuidBody(f, t, S, w, i)
      <3>1. i = Len(t) + 1 \/ i \in 1..Len(t)
        BY <1>0
      <3> QED
        BY <1>3, <2>1, <3>1 DEF Searching
    <2>3. f = [i \in 1..Len(t) + 1 |-> UuidBody(f, t, S, w, i)]
      BY <2>1, <2>2 DEF Searching
    <2> QED
      BY <2>3
  <1>5. from = [i \in 1..Len(t) + 1 |-> UuidBody(from, t, S, w, i)]
    BY <1>4
  <1> HIDE DEF from
  <1>6. \A i \in 1..Len(t) + 1 : from[i] = UuidBody(from, t, S, w, i)
    BY <1>5
  <1>7. Searches(from, next, t, S, w, 1)
    <2>1. from[Len(t) + 1] = Nothing
      BY <1>0, <1>3, <1>6
    <2>2. \A i \in 1..Len(t) :
             from[i] = IF Hit(t, S, w, 1, i - 1) THEN Some(Value(t, S, w, i - 1))
                       ELSE from[next[i]]
      BY <1>0, <1>3, <1>6
    <2> QED
      BY <1>1, <2>1, <2>2 DEF Searches
  <1>8. from[1] = FirstOf(t, S, w, 1)
    BY <1>0, <1>7, SearchFindsFirst
  <1> QED
    BY <1>8 DEF from

\* find_root_uuid reads the first token that begins with the words and goes on.
LEMMA FindRootUuidReads ==
    ASSUME NEW A, NEW t \in Seq(A), NEW w \in Seq(A), Len(w) \in Nat \ {0}
    PROVE  FindRootUuid(t, w) = FirstOf(t, Blank, w, 1)
  <1>1. FindRootUuid(t, w) =
           (CHOOSE f : f = [i \in 1..Len(t) + 1 |-> UuidBody(f, t, Blank, w, i)])[1]
    BY Zenon DEF FindRootUuid, UuidBody
  <1>2. (CHOOSE f : f = [i \in 1..Len(t) + 1 |-> UuidBody(f, t, Blank, w, i)])[1]
           = FirstOf(t, Blank, w, 1)
    BY UuidLoop, Zenon
  <1> QED
    BY <1>1, <1>2, Zenon

-----------------------------------------------------------------------------
(* Fields of fstab.                                                        *)

\* A function that puts something in front of its value at a later position.
Glues(f, n, B, h, next) ==
    /\ f = [i \in 1..n |-> f[i]]
    /\ \A i \in 1..n : f[i] \in Seq(B)
    /\ f[n] = <<>>
    /\ \A i \in 1..n - 1 : f[i] = h[i] \o f[next[i]]

\* There is one.
LEMMA GluesExists ==
    ASSUME NEW n \in Nat \ {0}, NEW B, NEW h \in [1..n -> Seq(B)],
           NEW next \in [1..n -> 1..n], \A i \in 1..n - 1 : next[i] > i
    PROVE  \E f : Glues(f, n, B, h, next)
  <1> DEFINE V    == Seq(B)
             step == [i \in 1..n |-> [v \in V |-> h[i] \o v]]
  <1>1. <<>> \in V
    OBVIOUS
  <1>2. step \in [1..n -> [V -> V]]
    <2>1. ASSUME NEW i \in 1..n, NEW v \in V PROVE h[i] \o v \in V
      BY ConcatProperties
    <2> HIDE DEF V
    <2> QED
      BY <2>1
  <1>3. PICK f : GoesOn(f, n, V, <<>>, next, step)
    <2> HIDE DEF V, step
    <2> QED
      BY <1>1, <1>2, GoesOnExists
  <1>4. /\ f \in [1..n -> V] /\ f[n] = <<>>
        /\ \A i \in 1..n - 1 : f[i] = step[i][f[next[i]]]
    BY <1>3 DEF GoesOn
  <1>5. ASSUME NEW i \in 1..n - 1 PROVE f[i] = h[i] \o f[next[i]]
    <2>1. i \in 1..n
      OBVIOUS
    <2>2. next[i] \in 1..n
      BY <2>1
    <2>3. f[next[i]] \in V
      BY <1>4, <2>2
    <2> QED
      BY <1>4, <2>1, <2>3
  <1>6. \A i \in 1..n : f[i] \in Seq(B)
    BY <1>4
  <1>7. f = [i \in 1..n |-> f[i]]
    BY <1>4
  <1> QED
    BY <1>4, <1>5, <1>6, <1>7 DEF Glues

\* Something put together of pieces.
Glued(f, n, B, h, next) ==
    /\ f[n] = <<>>
    /\ \A i \in 1..n - 1 : /\ h[i] \in Seq(B)
                           /\ next[i] \in i + 1..n
                           /\ f[i] = h[i] \o f[next[i]]

\* Whatever function is put together in this way, its values are of that kind.
LEMMA GluedAreTexts ==
    ASSUME NEW n \in Nat \ {0}, NEW B, NEW h, NEW next, NEW f, Glued(f, n, B, h, next)
    PROVE  \A i \in 1..n : f[i] \in Seq(B)
  <1> DEFINE G == {i \in 1..n : f[i] \in Seq(B)}
  <1>1. ASSUME NEW i \in 1..n, \A j \in i + 1..n : j \in G
        PROVE  i \in G
    <2>1. CASE i = n
      <3>1. <<>> \in Seq(B)
        OBVIOUS
      <3> QED
        BY <2>1, <3>1 DEF Glued
    <2>2. CASE i \in 1..n - 1
      <3>1. h[i] \in Seq(B) /\ f[next[i]] \in Seq(B)
        BY <1>1, <2>2 DEF Glued
      <3>2. h[i] \o f[next[i]] \in Seq(B)
        BY <3>1, ConcatProperties
      <3> QED
        BY <2>2, <3>2 DEF Glued
    <2> QED
      BY <2>1, <2>2
  <1>2. \A i \in 1..n : i \in G
    <2> HIDE DEF G
    <2> QED
      BY <1>1, FromTheEnd
  <1> QED
    BY <1>2

\* What is escaped in a field, and what is escaped is read.
Escaped(esc, bs, c)  == <<bs>> \o esc[CHOOSE e \in DOMAIN esc : esc[e].for = c].code
Found(esc, code)     == {e \in DOMAIN esc : esc[e].code = code}

\* One turn of the encoding of EscapedFieldIsRead.
EncodeBody(from, t, esc, bs, S, i) ==
    CASE i > Len(t)                             -> <<>>
      [] i <= Len(t) /\ t[i] \in S       -> Escaped(esc, bs, t[i]) \o from[i + 1]
      [] OTHER                                  -> <<t[i]>> \o from[i + 1]

\* One turn of the loop of fstab_decode.
DecodeBody(from, t, esc, bs, i) ==
    LET rest == SubSeq(t, i + 1, Min({i + 3, Len(t)}))
        at   == Found(esc, rest)
    IN  CASE i > Len(t)                -> <<>>
          [] i <= Len(t) /\ t[i] # bs  -> <<t[i]>> \o from[i + 1]
          [] OTHER ->
               (IF at = {} THEN <<t[i]>> \o rest
                ELSE <<esc[CHOOSE e \in at : TRUE].for>>)
               \o from[Min({i + 4, Len(t) + 1})]

\* What they put in front of what, and where they go on.
Encoded(esc, bs, S, c) == IF c \in S THEN Escaped(esc, bs, c) ELSE <<c>>

EncodeHead(t, esc, bs, S, i) == Encoded(esc, bs, S, t[i])

DecodeRest(t, i) == SubSeq(t, i + 1, Min({i + 3, Len(t)}))

DecodeHead(t, esc, bs, i) ==
    IF t[i] # bs THEN <<t[i]>>
    ELSE IF Found(esc, DecodeRest(t, i)) = {} THEN <<t[i]>> \o DecodeRest(t, i)
    ELSE <<esc[CHOOSE e \in Found(esc, DecodeRest(t, i)) : TRUE].for>>

DecodeNext(t, bs, i) == IF t[i] # bs THEN i + 1 ELSE Min({i + 4, Len(t) + 1})

\* A table of escapes has what is escaped: each symbol of S, the backslash among them, has a
\* code of three symbols that no other symbol has.
Coded(esc, B, bs, c) ==
    \E d \in Seq(B), e \in DOMAIN esc :
        /\ Len(d) = 3 /\ Escaped(esc, bs, c) = <<bs>> \o d
        /\ Found(esc, d) = {e} /\ esc[e].for = c

Table(esc, B, bs, S) ==
    /\ S \subseteq B /\ bs \in S
    /\ \A c \in S : Coded(esc, B, bs, c)
    /\ \A e \in DOMAIN esc : esc[e].for \in B

\* The turns put something in front of what the later turns make.
LEMMA EncodeTurn ==
    ASSUME NEW t, Len(t) \in Nat, NEW esc, NEW bs, NEW S, NEW f, NEW i \in 1..Len(t)
    PROVE  EncodeBody(f, t, esc, bs, S, i) = EncodeHead(t, esc, bs, S, i) \o f[i + 1]
  <1>1. ~(i > Len(t)) /\ i <= Len(t)
    OBVIOUS
  <1>2. CASE t[i] \in S
    BY <1>1, <1>2, Zenon DEF EncodeBody, EncodeHead, Encoded
  <1>3. CASE t[i] \notin S
    BY <1>1, <1>3, Zenon DEF EncodeBody, EncodeHead, Encoded
  <1> QED
    BY <1>2, <1>3, Zenon

\* The same of the decoding.
LEMMA DecodeTurn ==
    ASSUME NEW t, Len(t) \in Nat, NEW esc, NEW bs, NEW f, NEW i \in 1..Len(t)
    PROVE  DecodeBody(f, t, esc, bs, i) =
               DecodeHead(t, esc, bs, i) \o f[DecodeNext(t, bs, i)]
  <1>1. ~(i > Len(t)) /\ i <= Len(t)
    OBVIOUS
  <1>2. CASE t[i] # bs
    <2>1. DecodeBody(f, t, esc, bs, i) = <<t[i]>> \o f[i + 1]
      BY <1>1, <1>2, Zenon DEF DecodeBody
    <2>2. DecodeHead(t, esc, bs, i) = <<t[i]>> /\ DecodeNext(t, bs, i) = i + 1
      BY <1>2, Zenon DEF DecodeHead, DecodeNext
    <2> QED
      BY <2>1, <2>2
  <1>3. CASE t[i] = bs /\ Found(esc, DecodeRest(t, i)) = {}
    <2> DEFINE x == <<t[i]>> \o DecodeRest(t, i)
    <2>1. DecodeBody(f, t, esc, bs, i) = x \o f[Min({i + 4, Len(t) + 1})]
      BY <1>1, <1>3, Zenon DEF DecodeBody, DecodeRest
    <2>2. DecodeHead(t, esc, bs, i) = x
      BY <1>3, Zenon DEF DecodeHead
    <2>3. DecodeNext(t, bs, i) = Min({i + 4, Len(t) + 1})
      BY <1>3, Zenon DEF DecodeNext
    <2> HIDE DEF x
    <2> QED
      BY <2>1, <2>2, <2>3
  <1>4. CASE t[i] = bs /\ Found(esc, DecodeRest(t, i)) # {}
    <2> DEFINE x == <<esc[CHOOSE e \in Found(esc, DecodeRest(t, i)) : TRUE].for>>
    <2>1. DecodeBody(f, t, esc, bs, i) = x \o f[Min({i + 4, Len(t) + 1})]
      BY <1>1, <1>4, Zenon DEF DecodeBody, DecodeRest
    <2>2. DecodeHead(t, esc, bs, i) = x
      BY <1>4, Zenon DEF DecodeHead
    <2>3. DecodeNext(t, bs, i) = Min({i + 4, Len(t) + 1})
      BY <1>4, Zenon DEF DecodeNext
    <2> HIDE DEF x
    <2> QED
      BY <2>1, <2>2, <2>3
  <1>5. CASE t[i] = bs
    BY <1>3, <1>4, <1>5, Zenon
  <1> QED
    BY <1>2, <1>5, Zenon

\* At the end there is nothing.
LEMMA CodeEnd ==
    ASSUME NEW t, Len(t) \in Nat, NEW esc, NEW bs, NEW S, NEW f
    PROVE  /\ EncodeBody(f, t, esc, bs, S, Len(t) + 1) = <<>>
           /\ DecodeBody(f, t, esc, bs, Len(t) + 1) = <<>>
  <1>1. Len(t) + 1 > Len(t) /\ ~(Len(t) + 1 <= Len(t))
    OBVIOUS
  <1>2. EncodeBody(f, t, esc, bs, S, Len(t) + 1) = <<>>
    BY <1>1, Zenon DEF EncodeBody
  <1> QED
    BY <1>1, <1>2, Zenon DEF DecodeBody

\* A text has h at p, and r behind it to its end.
LiesAt(u, p, h, r) ==
    /\ p + Len(h) \in 1..Len(u) + 1
    /\ Len(r) = Len(u) - (p + Len(h)) + 1
    /\ SubSeq(u, p, p + Len(h) - 1) = h
    /\ SubSeq(u, p + Len(h), Len(u)) = r
    /\ \A k \in 1..Len(h) : u[p + k - 1] = h[k]

\* What a text is in front of something is where it was, and the rest is behind it.
LEMMA InFront ==
    ASSUME NEW B, NEW u \in Seq(B), NEW p \in 1..Len(u) + 1, NEW h \in Seq(B),
           NEW r \in Seq(B), SubSeq(u, p, Len(u)) = h \o r
    PROVE  LiesAt(u, p, h, r)
  <1> DEFINE n == Len(u)
             c == Len(h)
             s == SubSeq(u, p, n)
  <1>0. n \in Nat /\ c \in Nat /\ Len(r) \in Nat
    BY LenProperties
  <1>1. /\ Len(s) = n - p + 1
        /\ \A k \in 1..n - p + 1 : s[k] = u[p + k - 1]
    <2>1. \A i \in p..n : u[i] \in B
      BY <1>0, ElementOfSeq
    <2>2. /\ Len(s) = IF p <= n THEN n - p + 1 ELSE 0
          /\ \A k \in 1..n - p + 1 : s[k] = u[p + k - 1]
      <3>1. p \in Int /\ n \in Int
        BY <1>0
      <3> HIDE DEF n
      <3> QED
        BY <2>1, <3>1, SubSeqProperties
    <2>3. p \in 1..n + 1
      OBVIOUS
    <2> HIDE DEF s, n
    <2> QED
      BY <1>0, <2>2, <2>3
  <1>2. /\ Len(h \o r) = c + Len(r)
        /\ \A k \in 1..c + Len(r) : (h \o r)[k] = IF k <= c THEN h[k] ELSE r[k - c]
    BY ConcatProperties
  <1>3. c + Len(r) = n - p + 1
    BY <1>1, <1>2
  <1>4. ASSUME NEW k \in 1..c PROVE u[p + k - 1] = h[k]
    <2>1. k \in 1..c + Len(r) /\ k \in 1..n - p + 1
      BY <1>0, <1>3
    <2> QED
      BY <1>1, <1>2, <2>1
  <1>5. ASSUME NEW k \in 1..Len(r) PROVE u[p + c + k - 1] = r[k]
    <2>1. /\ c + k \in 1..c + Len(r) /\ c + k \in 1..n - p + 1 /\ ~(c + k <= c)
          /\ (c + k) - c = k /\ p + (c + k) - 1 = p + c + k - 1
      BY <1>0, <1>3
    <2>2. s[c + k] = r[k]
      BY <1>2, <2>1
    <2>3. s[c + k] = u[p + (c + k) - 1]
      BY <1>1, <2>1
    <2> QED
      BY <2>1, <2>2, <2>3
  <1> HIDE DEF s, n, c
  <1>6. SubSeq(u, p, p + c - 1) = h
    <2> DEFINE x == SubSeq(u, p, p + c - 1)
    <2>1. \A i \in p..p + c - 1 : u[i] \in B
      <3>1. \A i \in p..p + c - 1 : i \in 1..n
        BY <1>0, <1>3
      <3> QED
        BY <3>1, ElementOfSeq DEF n
    <2>2. p \in Int /\ p + c - 1 \in Int
      BY <1>0
    <2>3. /\ x \in Seq(B) /\ Len(x) = IF p <= p + c - 1 THEN (p + c - 1) - p + 1 ELSE 0
          /\ \A k \in 1..(p + c - 1) - p + 1 : x[k] = u[p + k - 1]
      BY <2>1, <2>2, SubSeqProperties
    <2> HIDE DEF x
    <2>4. Len(x) = Len(h) /\ \A k \in 1..Len(x) : x[k] = h[k]
      <3>1. (p + c - 1) - p + 1 = c /\ (p <= p + c - 1 \/ c = 0)
        BY <1>0, <2>2
      <3>2. Len(x) = c
        BY <2>3, <3>1
      <3>3. \A k \in 1..c : x[k] = h[k]
        BY <1>4, <2>3, <3>1
      <3> QED
        BY <3>2, <3>3 DEF c
    <2>5. x = h
      BY <2>3, <2>4, SeqEqual
    <2> QED
      BY <2>5 DEF x
  <1>7. SubSeq(u, p + c, n) = r
    <2> DEFINE x == SubSeq(u, p + c, n)
    <2>1. \A i \in p + c..n : u[i] \in B
      <3>1. \A i \in p + c..n : i \in 1..n
        BY <1>0, <1>3
      <3> QED
        BY <3>1, ElementOfSeq DEF n
    <2>2. p + c \in Int /\ n \in Int
      BY <1>0
    <2>3. /\ x \in Seq(B) /\ Len(x) = IF p + c <= n THEN n - (p + c) + 1 ELSE 0
          /\ \A k \in 1..n - (p + c) + 1 : x[k] = u[p + c + k - 1]
      <3> DEFINE m == p + c
                 y == SubSeq(u, m, n)
      <3>1. m \in Int /\ n \in Int /\ \A i \in m..n : u[i] \in B
        BY <2>1, <2>2
      <3> HIDE DEF m
      <3>2. /\ y \in Seq(B) /\ Len(y) = IF m <= n THEN n - m + 1 ELSE 0
            /\ \A k \in 1..n - m + 1 : y[k] = u[m + k - 1]
        BY <3>1, SubSeqProperties
      <3> HIDE DEF x, y
      <3>3. x = y
        BY DEF x, y, m
      <3> QED
        BY <3>2, <3>3 DEF m
    <2> HIDE DEF x
    <2>4. Len(x) = Len(r) /\ \A k \in 1..Len(x) : x[k] = r[k]
      <3>1. Len(x) = Len(r) /\ n - (p + c) + 1 = Len(r)
        BY <1>0, <1>3, <2>2, <2>3
      <3>2. \A k \in 1..Len(r) : x[k] = r[k]
        BY <1>5, <2>3, <3>1
      <3> QED
        BY <3>1, <3>2
    <2>5. x = r
      BY <2>3, <2>4, SeqEqual
    <2> QED
      BY <2>5 DEF x
  <1>8. p + c \in 1..n + 1 /\ Len(r) = n - (p + c) + 1
    BY <1>0, <1>3
  <1> QED
    BY <1>4, <1>6, <1>7, <1>8 DEF n, c, LiesAt

\* The decoding puts a symbol in front and goes on with what is behind it.
ReadsHead(u, esc, bs, p, c, r) ==
    /\ p \in 1..Len(u) /\ DecodeHead(u, esc, bs, p) = <<c>>
    /\ DecodeNext(u, bs, p) \in 1..Len(u) + 1
    /\ SubSeq(u, DecodeNext(u, bs, p), Len(u)) = r

\* Where the suffix is what a symbol or an escape begins, the decoding puts the symbol in
\* front, and goes on behind it.
LEMMA HeadIsRead ==
    ASSUME NEW esc, NEW B, NEW bs, NEW S, Table(esc, B, bs, S),
           NEW u \in Seq(B), NEW p \in 1..Len(u) + 1, NEW c \in B, NEW r \in Seq(B),
           SubSeq(u, p, Len(u)) = Encoded(esc, bs, S, c) \o r
    PROVE  ReadsHead(u, esc, bs, p, c, r)
  <1> DEFINE h == Encoded(esc, bs, S, c)
  <1>0. Len(u) \in Nat /\ bs \in B /\ bs \in S
    BY LenProperties DEF Table
  <1>h. h = IF c \in S THEN Escaped(esc, bs, c) ELSE <<c>>
    BY DEF Encoded
  <1> HIDE DEF h
  <1>s. SubSeq(u, p, Len(u)) = h \o r
    BY DEF h
  <1>1. CASE c \notin S
    <2>1. h = <<c>> /\ h \in Seq(B) /\ Len(h) = 1 /\ h[1] = c
      BY <1>1, <1>h
    <2>2. /\ p + 1 \in 1..Len(u) + 1 /\ u[p + 1 - 1] = c
          /\ SubSeq(u, p + 1, Len(u)) = r
      <3>1. LiesAt(u, p, h, r)
        BY <1>s, <2>1, InFront
      <3>2. /\ p + Len(h) \in 1..Len(u) + 1
            /\ SubSeq(u, p + Len(h), Len(u)) = r
        BY <3>1 DEF LiesAt
      <3>3. u[p + 1 - 1] = h[1]
        <4>1. 1 \in 1..Len(h)
          BY <2>1
        <4> QED
          BY <3>1, <4>1 DEF LiesAt
      <3> QED
        BY <2>1, <3>2, <3>3
    <2>3. p \in 1..Len(u) /\ u[p] = c /\ u[p] # bs
      BY <1>0, <1>1, <2>2
    <2>4. DecodeHead(u, esc, bs, p) = <<c>> /\ DecodeNext(u, bs, p) = p + 1
      BY <2>3, Zenon DEF DecodeHead, DecodeNext
    <2> QED
      BY <2>2, <2>3, <2>4 DEF ReadsHead
  <1>2. ASSUME NEW d \in Seq(B), Len(d) = 3, h = <<bs>> \o d, NEW e,
               Found(esc, d) = {e}, esc[e].for = c
        PROVE  ReadsHead(u, esc, bs, p, c, r)
    <2>1. <<bs>> \in Seq(B) /\ Len(<<bs>>) = 1 /\ <<bs>>[1] = bs
      BY <1>0
    <2> DEFINE o == <<bs>>
    <2> HIDE DEF o
    <2>2. d \o r \in Seq(B) /\ h \o r = o \o (d \o r)
      <3>1. d \o r \in Seq(B)
        BY <1>2, ConcatProperties
      <3>2. (o \o d) \o r = o \o (d \o r)
        BY <1>2, <2>1, ConcatAssociative DEF o
      <3> QED
        BY <1>2, <3>1, <3>2 DEF o
    <2>3. /\ p + 1 \in 1..Len(u) + 1 /\ u[p + 1 - 1] = bs
          /\ SubSeq(u, p + 1, Len(u)) = d \o r
      <3>1. SubSeq(u, p, Len(u)) = o \o (d \o r) /\ o \in Seq(B) /\ Len(o) = 1 /\ o[1] = bs
        BY <1>s, <2>1, <2>2 DEF o
      <3>2. LiesAt(u, p, o, d \o r)
        BY <2>2, <3>1, InFront
      <3>3. /\ p + Len(o) \in 1..Len(u) + 1
            /\ SubSeq(u, p + Len(o), Len(u)) = d \o r
            /\ \A k \in 1..Len(o) : u[p + k - 1] = o[k]
        BY <3>2, Zenon DEF LiesAt
      <3>4. 1 \in 1..Len(o)
        BY <3>1
      <3>5. u[p + 1 - 1] = o[1]
        BY <3>3, <3>4
      <3> QED
        BY <3>1, <3>3, <3>5
    <2>4. /\ (p + 1) + 3 \in 1..Len(u) + 1 /\ SubSeq(u, p + 1, (p + 1) + 3 - 1) = d
          /\ SubSeq(u, (p + 1) + 3, Len(u)) = r
      <3>1. LiesAt(u, p + 1, d, r)
        BY <1>2, <2>3, InFront
      <3> QED
        BY <1>2, <3>1 DEF LiesAt
    <2>5. /\ p \in 1..Len(u) /\ u[p] = bs /\ p + 3 \in 1..Len(u) /\ p + 4 \in 1..Len(u) + 1
          /\ (p + 1) + 3 - 1 = p + 3 /\ (p + 1) + 3 = p + 4
      BY <1>0, <2>3, <2>4
    <2>6. Min({p + 3, Len(u)}) = p + 3 /\ Min({p + 4, Len(u) + 1}) = p + 4
      <3>1. ASSUME NEW x \in Nat, NEW y \in Nat, x <= y PROVE Min({x, y}) = x
        <4>1. {x, y} \subseteq Nat /\ {x, y} # {}
          OBVIOUS
        <4>2. Min({x, y}) \in {x, y} /\ \A z \in {x, y} : Min({x, y}) <= z
          BY <4>1, MinIsLeast
        <4> QED
          BY <3>1, <4>2
      <3>2. /\ p + 3 \in Nat /\ Len(u) \in Nat /\ p + 3 <= Len(u)
            /\ p + 4 \in Nat /\ Len(u) + 1 \in Nat /\ p + 4 <= Len(u) + 1
        BY <1>0, <2>5
      <3> QED
        BY <3>1, <3>2
    <2>7. DecodeRest(u, p) = d
      BY <2>4, <2>5, <2>6 DEF DecodeRest
    <2>8. Found(esc, DecodeRest(u, p)) = {e} /\ Found(esc, DecodeRest(u, p)) # {}
          /\ (CHOOSE x \in Found(esc, DecodeRest(u, p)) : TRUE) = e
      BY <1>2, <2>7
    <2>9. DecodeHead(u, esc, bs, p) = <<c>>
      BY <1>2, <2>5, <2>8, Zenon DEF DecodeHead
    <2>10. DecodeNext(u, bs, p) = p + 4
      BY <2>5, <2>6, Zenon DEF DecodeNext
    <2> QED
      BY <2>4, <2>5, <2>9, <2>10 DEF ReadsHead
  <1>3. CASE c \in S
    <2>1. PICK d \in Seq(B), e \in DOMAIN esc :
              /\ Len(d) = 3 /\ Escaped(esc, bs, c) = <<bs>> \o d
              /\ Found(esc, d) = {e} /\ esc[e].for = c
      BY <1>3, Zenon DEF Table, Coded
    <2>2. h = <<bs>> \o d
      BY <1>3, <1>h, <2>1
    <2> QED
      BY <1>2, <2>1, <2>2
  <1> QED
    BY <1>1, <1>3

\* What the encoding and the decoding put in front are texts, and both go on.
LEMMA HeadsAreTexts ==
    ASSUME NEW esc, NEW B, NEW bs, NEW S, Table(esc, B, bs, S),
           NEW t \in Seq(B), NEW i \in 1..Len(t)
    PROVE  /\ EncodeHead(t, esc, bs, S, i) \in Seq(B)
           /\ DecodeHead(t, esc, bs, i) \in Seq(B)
           /\ DecodeNext(t, bs, i) \in i + 1..Len(t) + 1
  <1>0. /\ Len(t) \in Nat /\ t[i] \in B /\ bs \in B
        /\ \A e \in DOMAIN esc : esc[e].for \in B
    BY LenProperties, ElementOfSeq DEF Table
  <1>1. \A c \in B : <<c>> \in Seq(B)
    OBVIOUS
  <1>2. EncodeHead(t, esc, bs, S, i) \in Seq(B)
    <2>1. ASSUME NEW c \in S PROVE Escaped(esc, bs, c) \in Seq(B)
      <3>1. PICK d \in Seq(B) : Escaped(esc, bs, c) = <<bs>> \o d
        BY Zenon DEF Table, Coded
      <3>2. <<bs>> \o d \in Seq(B)
        BY <1>0, <1>1, ConcatProperties
      <3> QED
        BY <3>1, <3>2
    <2> QED
      BY <1>0, <1>1, <2>1 DEF EncodeHead, Encoded
  <1>3. ASSUME NEW x \in Nat, NEW y \in Nat
        PROVE  Min({x, y}) \in {x, y} /\ Min({x, y}) <= x /\ Min({x, y}) <= y
    <2>1. {x, y} \subseteq Nat /\ {x, y} # {}
      OBVIOUS
    <2> QED
      BY <2>1, MinIsLeast
  <1>4. DecodeNext(t, bs, i) \in i + 1..Len(t) + 1
    <2>1. i + 4 \in Nat /\ Len(t) + 1 \in Nat
      BY <1>0
    <2>2. DecodeNext(t, bs, i) = i + 1 \/ DecodeNext(t, bs, i) \in {i + 4, Len(t) + 1}
      BY <1>3, <2>1 DEF DecodeNext
    <2>3. DecodeNext(t, bs, i) <= Len(t) + 1
      <3>1. Min({i + 4, Len(t) + 1}) <= Len(t) + 1
        BY <1>3, <2>1
      <3> QED
        BY <1>0, <3>1 DEF DecodeNext
    <2> QED
      BY <1>0, <2>2, <2>3
  <1>5. DecodeRest(t, i) \in Seq(B)
    <2>1. i + 3 \in Nat
      OBVIOUS
    <2>2. Min({i + 3, Len(t)}) \in Int /\ Min({i + 3, Len(t)}) <= Len(t)
      BY <1>0, <1>3, <2>1
    <2>3. \A j \in i + 1..Min({i + 3, Len(t)}) : t[j] \in B
      <3>1. \A j \in i + 1..Min({i + 3, Len(t)}) : j \in 1..Len(t)
        BY <1>0, <2>2
      <3> QED
        BY <3>1, ElementOfSeq
    <2>4. i + 1 \in Int
      OBVIOUS
    <2> QED
      BY <2>2, <2>3, <2>4, SubSeqProperties DEF DecodeRest
  <1>6. DecodeHead(t, esc, bs, i) \in Seq(B)
    <2>1. <<t[i]>> \o DecodeRest(t, i) \in Seq(B)
      BY <1>0, <1>1, <1>5, ConcatProperties
    <2>2. ASSUME Found(esc, DecodeRest(t, i)) # {}
          PROVE  esc[CHOOSE e \in Found(esc, DecodeRest(t, i)) : TRUE].for \in B
      <3>1. (CHOOSE e \in Found(esc, DecodeRest(t, i)) : TRUE) \in DOMAIN esc
        BY <2>2 DEF Found
      <3> QED
        BY <1>0, <3>1
    <2> QED
      BY <1>0, <1>1, <2>1, <2>2 DEF DecodeHead
  <1> QED
    BY <1>2, <1>4, <1>6

\* What the encoding makes.
Encodes(f, t, B, esc, bs, S) ==
    /\ \A i \in 1..Len(t) + 1 : f[i] \in Seq(B)
    /\ f[Len(t) + 1] = <<>>
    /\ \A i \in 1..Len(t) : f[i] = EncodeHead(t, esc, bs, S, i) \o f[i + 1]

\* What the decoding makes.
Decodes(f, t, esc, bs) ==
    /\ f[Len(t) + 1] = <<>>
    /\ \A i \in 1..Len(t) : f[i] = DecodeHead(t, esc, bs, i) \o f[DecodeNext(t, bs, i)]

\* The function the encoding is defined by does.
LEMMA EncodeLoop ==
    ASSUME NEW esc, NEW B, NEW bs, NEW S, Table(esc, B, bs, S),
           NEW t \in Seq(B), NEW from,
           from = CHOOSE f : f = [i \in 1..Len(t) + 1 |-> EncodeBody(f, t, esc, bs, S, i)]
    PROVE  Encodes(from, t, B, esc, bs, S)
  <1> DEFINE n    == Len(t) + 1
             h    == [i \in 1..n |-> IF i = n THEN <<>> ELSE EncodeHead(t, esc, bs, S, i)]
             next == [i \in 1..n |-> IF i = n THEN i ELSE i + 1]
  <1>0. Len(t) \in Nat /\ n \in Nat \ {0} /\ n - 1 = Len(t)
    BY LenProperties
  <1>1. \A i \in 1..Len(t) : h[i] = EncodeHead(t, esc, bs, S, i) /\ next[i] = i + 1
    BY <1>0
  <1>2. h \in [1..n -> Seq(B)]
    <2>1. \A i \in 1..Len(t) : EncodeHead(t, esc, bs, S, i) \in Seq(B)
      BY HeadsAreTexts
    <2>2. <<>> \in Seq(B)
      OBVIOUS
    <2> QED
      BY <1>0, <2>1, <2>2
  <1>3. next \in [1..n -> 1..n] /\ \A i \in 1..n - 1 : next[i] > i
    BY <1>0
  <1> HIDE DEF h, next
  <1>4. PICK f : Glues(f, n, B, h, next)
    <2> HIDE DEF n
    <2> QED
      BY <1>0, <1>2, <1>3, GluesExists
  <1>5. ASSUME NEW g
        PROVE  /\ EncodeBody(g, t, esc, bs, S, n) = <<>>
               /\ \A i \in 1..Len(t) : EncodeBody(g, t, esc, bs, S, i) =
                                          EncodeHead(t, esc, bs, S, i) \o g[i + 1]
    BY <1>0, EncodeTurn, CodeEnd
  <1> HIDE DEF n
  <1>6. ASSUME NEW i \in 1..n PROVE f[i] = EncodeBody(f, t, esc, bs, S, i)
    <2>1. CASE i = n
      BY <1>4, <1>5, <2>1 DEF Glues
    <2>2. CASE i \in 1..Len(t)
      <3>1. f[i] = h[i] \o f[next[i]]
        BY <1>0, <1>4, <2>2 DEF Glues
      <3> QED
        BY <1>1, <1>5, <2>2, <3>1
    <2> QED
      BY <1>0, <2>1, <2>2
  <1>7. f = [i \in 1..n |-> EncodeBody(f, t, esc, bs, S, i)]
    BY <1>4, <1>6 DEF Glues
  <1>8. from = [i \in 1..n |-> EncodeBody(from, t, esc, bs, S, i)]
    BY <1>7 DEF n
  <1>9. \A i \in 1..n : from[i] = EncodeBody(from, t, esc, bs, S, i)
    BY <1>8
  <1>10. from[n] = <<>> /\ \A i \in 1..Len(t) :
                              from[i] = EncodeHead(t, esc, bs, S, i) \o from[i + 1]
    <2>1. n \in 1..n
      BY <1>0
    <2>2. ASSUME NEW i \in 1..Len(t)
          PROVE  from[i] = EncodeHead(t, esc, bs, S, i) \o from[i + 1]
      <3>1. i \in 1..n
        BY <1>0
      <3> QED
        BY <1>5, <1>9, <3>1
    <2> QED
      BY <1>5, <1>9, <2>1, <2>2
  <1>11. \A i \in 1..n : from[i] \in Seq(B)
    <2>1. ASSUME NEW i \in 1..n - 1
          PROVE  /\ h[i] \in Seq(B) /\ next[i] \in i + 1..n
                 /\ from[i] = h[i] \o from[next[i]]
      <3>1. i \in 1..n /\ i \in 1..Len(t)
        BY <1>0
      <3>2. next[i] \in i + 1..n
        <4>1. next[i] = i + 1
          BY <1>1, <3>1
        <4> QED
          BY <1>0, <4>1
      <3>3. h[i] \in Seq(B)
        BY <1>2, <3>1
      <3>4. from[i] = h[i] \o from[next[i]]
        BY <1>1, <1>10, <3>1
      <3> QED
        BY <3>2, <3>3, <3>4
    <2>2. Glued(from, n, B, h, next)
      BY <1>10, <2>1, Zenon DEF Glued
    <2> QED
      BY <1>0, <2>2, GluedAreTexts
  <1> QED
    BY <1>10, <1>11 DEF Encodes, n

\* The function the decoding is defined by does.
LEMMA DecodeLoop ==
    ASSUME NEW esc, NEW B, NEW bs, NEW S, Table(esc, B, bs, S),
           NEW t \in Seq(B), NEW from,
           from = CHOOSE f : f = [i \in 1..Len(t) + 1 |-> DecodeBody(f, t, esc, bs, i)]
    PROVE  Decodes(from, t, esc, bs)
  <1> DEFINE n    == Len(t) + 1
             h    == [i \in 1..n |-> IF i = n THEN <<>> ELSE DecodeHead(t, esc, bs, i)]
             next == [i \in 1..n |-> IF i = n THEN i ELSE DecodeNext(t, bs, i)]
  <1>0. Len(t) \in Nat /\ n \in Nat \ {0} /\ n - 1 = Len(t)
    BY LenProperties
  <1>1. \A i \in 1..Len(t) : /\ h[i] = DecodeHead(t, esc, bs, i)
                             /\ next[i] = DecodeNext(t, bs, i)
    BY <1>0
  <1>2. h \in [1..n -> Seq(B)]
    <2>1. \A i \in 1..Len(t) : DecodeHead(t, esc, bs, i) \in Seq(B)
      BY HeadsAreTexts
    <2>2. <<>> \in Seq(B)
      OBVIOUS
    <2> QED
      BY <1>0, <2>1, <2>2
  <1>3. next \in [1..n -> 1..n] /\ \A i \in 1..n - 1 : next[i] > i
    <2>1. ASSUME NEW i \in 1..Len(t)
          PROVE  DecodeNext(t, bs, i) \in 1..n /\ DecodeNext(t, bs, i) > i
      <3>1. DecodeNext(t, bs, i) \in i + 1..Len(t) + 1
        BY HeadsAreTexts
      <3> QED
        BY <1>0, <3>1
    <2> QED
      BY <1>0, <2>1
  <1> HIDE DEF h, next
  <1>4. PICK f : Glues(f, n, B, h, next)
    <2> HIDE DEF n
    <2> QED
      BY <1>0, <1>2, <1>3, GluesExists
  <1>5. ASSUME NEW g
        PROVE  /\ DecodeBody(g, t, esc, bs, n) = <<>>
               /\ \A i \in 1..Len(t) : DecodeBody(g, t, esc, bs, i) =
                                          DecodeHead(t, esc, bs, i) \o g[DecodeNext(t, bs, i)]
    BY <1>0, DecodeTurn, CodeEnd
  <1> HIDE DEF n
  <1>6. ASSUME NEW i \in 1..n PROVE f[i] = DecodeBody(f, t, esc, bs, i)
    <2>1. CASE i = n
      BY <1>4, <1>5, <2>1 DEF Glues
    <2>2. CASE i \in 1..Len(t)
      <3>1. f[i] = h[i] \o f[next[i]]
        BY <1>0, <1>4, <2>2 DEF Glues
      <3> QED
        BY <1>1, <1>5, <2>2, <3>1
    <2> QED
      BY <1>0, <2>1, <2>2
  <1>7. f = [i \in 1..n |-> DecodeBody(f, t, esc, bs, i)]
    BY <1>4, <1>6 DEF Glues
  <1>8. from = [i \in 1..n |-> DecodeBody(from, t, esc, bs, i)]
    BY <1>7 DEF n
  <1>9. \A i \in 1..n : from[i] = DecodeBody(from, t, esc, bs, i)
    BY <1>8
  <1>10. from[n] = <<>> /\ \A i \in 1..Len(t) :
                              from[i] = DecodeHead(t, esc, bs, i) \o from[DecodeNext(t, bs, i)]
    <2>1. n \in 1..n
      BY <1>0
    <2>2. ASSUME NEW i \in 1..Len(t)
          PROVE  from[i] = DecodeHead(t, esc, bs, i) \o from[DecodeNext(t, bs, i)]
      <3>1. i \in 1..n
        BY <1>0
      <3> QED
        BY <1>5, <1>9, <3>1
    <2> QED
      BY <1>5, <1>9, <2>1, <2>2
  <1> QED
    BY <1>10 DEF Decodes, n

\* An encoding, and a decoding of it.
RoundTrip(esc, B, bs, S, t, from, back) ==
    /\ Table(esc, B, bs, S)
    /\ t \in Seq(B)
    /\ Encodes(from, t, B, esc, bs, S)
    /\ Decodes(back, from[1], esc, bs)

\* What is encoded is decoded.
LEMMA EscapedIsRead ==
    ASSUME NEW esc, NEW B, NEW bs, NEW S, NEW t, NEW from, NEW back,
           RoundTrip(esc, B, bs, S, t, from, back)
    PROVE  back[1] = t
  <1>t. /\ Table(esc, B, bs, S) /\ t \in Seq(B)
        /\ Encodes(from, t, B, esc, bs, S) /\ Decodes(back, from[1], esc, bs)
    BY DEF RoundTrip
  <1> DEFINE n == Len(t)
             u == from[1]
             m == Len(u)
             G == {i \in 1..n + 1 : \A p \in 1..m + 1 :
                      SubSeq(u, p, m) = from[i] => back[p] = SubSeq(t, i, n)}
  <1>0. n \in Nat /\ u \in Seq(B) /\ m \in Nat
    BY <1>t, LenProperties DEF Encodes
  <1> HIDE DEF u
  <1>1. ASSUME NEW i \in 1..n + 1, \A j \in i + 1..n + 1 : j \in G
        PROVE  i \in G
    <2>1. SUFFICES ASSUME NEW p \in 1..m + 1, SubSeq(u, p, m) = from[i]
                   PROVE  back[p] = SubSeq(t, i, n)
      OBVIOUS
    <2>2. CASE i = n + 1
      <3>1. p = m + 1
        <4>1. SubSeq(u, p, m) = <<>>
          BY <1>t, <2>1, <2>2 DEF Encodes
        <4>2. \A j \in p..m : u[j] \in B
          <5>1. \A j \in p..m : j \in 1..m
            BY <1>0
          <5> QED
            BY <1>0, <5>1, ElementOfSeq
        <4>3. Len(SubSeq(u, p, m)) = IF p <= m THEN m - p + 1 ELSE 0
          BY <1>0, <4>2, SubSeqProperties
        <4>4. Len(SubSeq(u, p, m)) = 0
          BY <4>1
        <4> HIDE DEF m
        <4> QED
          BY <1>0, <4>3, <4>4
      <3>2. back[p] = <<>>
        BY <1>t, <3>1 DEF Decodes, u
      <3>3. SubSeq(t, i, n) = <<>>
        BY <1>0, <1>t, <2>2, SubSeqEmpty
      <3> QED
        BY <3>2, <3>3
    <2>3. CASE i \in 1..n
      <3> DEFINE c == t[i]
                 h == EncodeHead(t, esc, bs, S, i)
                 r == from[i + 1]
                 q == DecodeNext(u, bs, p)
      <3>1. c \in B /\ r \in Seq(B) /\ i + 1 \in i + 1..n + 1 /\ from[i] = h \o r
        <4>1. c \in B /\ i + 1 \in i + 1..n + 1 /\ i + 1 \in 1..n + 1
          <5>1. c \in B
            BY <1>t, <2>3, ElementOfSeq
          <5>2. i + 1 \in i + 1..n + 1 /\ i + 1 \in 1..n + 1
            BY <1>0, <2>3
          <5> QED
            BY <5>1, <5>2
        <4>2. r \in Seq(B)
          BY <1>t, <4>1 DEF Encodes
        <4>3. from[i] = h \o r
          BY <1>t, <2>3 DEF Encodes
        <4> QED
          BY <4>1, <4>2, <4>3
      <3>2. h = Encoded(esc, bs, S, c)
        BY DEF EncodeHead
      <3>3. ReadsHead(u, esc, bs, p, c, r)
        <4>1. SubSeq(u, p, m) = Encoded(esc, bs, S, c) \o r
          BY <2>1, <3>1, <3>2
        <4> HIDE DEF c, h, r
        <4> QED
          BY <1>0, <1>t, <3>1, <4>1, HeadIsRead
      <3>4. back[q] = SubSeq(t, i + 1, n)
        <4>1. i + 1 \in G
          BY <1>1, <3>1
        <4>2. q \in 1..m + 1 /\ SubSeq(u, q, m) = r
          BY <3>3 DEF ReadsHead
        <4> HIDE DEF q, m
        <4> QED
          BY <4>1, <4>2
      <3>5. back[p] = <<c>> \o back[q]
        BY <1>t, <3>3 DEF Decodes, ReadsHead, u
      <3>6. SubSeq(t, i, n) = <<t[i]>> \o SubSeq(t, i + 1, n)
        BY <1>0, <1>t, <2>3, SubSeqRecursiveFirst
      <3> QED
        BY <3>4, <3>5, <3>6
    <2> QED
      BY <1>0, <2>2, <2>3
  <1>2. 1 \in G
    <2>1. \A i \in 1..n + 1 : i \in G
      <3> HIDE DEF G
      <3>1. n + 1 \in Nat
        BY <1>0
      <3> QED
        BY <1>1, <3>1, FromTheEnd
    <2> QED
      BY <1>0, <2>1
  <1>3. SubSeq(u, 1, m) = from[1] /\ 1 \in 1..m + 1
    <2>1. SubSeq(u, 1, m) = u
      BY <1>0, SubSeqFull
    <2> QED
      BY <1>0, <2>1 DEF u
  <1>4. back[1] = SubSeq(t, 1, n)
    BY <1>2, <1>3
  <1> QED
    BY <1>4, <1>t, SubSeqFull

\* Two texts of three symbols that differ in one of them.
LEMMA CodesDiffer ==
    ASSUME NEW x1, NEW x2, NEW x3, NEW y1, NEW y2, NEW y3, x1 # y1 \/ x2 # y2 \/ x3 # y3
    PROVE  <<x1, x2, x3>> # <<y1, y2, y3>>
  <1>1. /\ <<x1, x2, x3>>[1] = x1 /\ <<x1, x2, x3>>[2] = x2 /\ <<x1, x2, x3>>[3] = x3
        /\ <<y1, y2, y3>>[1] = y1 /\ <<y1, y2, y3>>[2] = y2 /\ <<y1, y2, y3>>[3] = y3
    OBVIOUS
  <1> QED
    BY <1>1, Zenon

\* The entry e of a table whose codes, and whose symbols, all differ.
LEMMA EntryIsCoded ==
    ASSUME NEW esc, NEW C, NEW bs, NEW e \in DOMAIN esc,
           esc[e].code \in Seq(C), Len(esc[e].code) = 3,
           \A f \in DOMAIN esc : esc[f].code = esc[e].code \/ esc[f].for = esc[e].for => f = e
    PROVE  Coded(esc, C, bs, esc[e].for)
  <1> DEFINE c == esc[e].for
             d == esc[e].code
  <1>1. (CHOOSE f \in DOMAIN esc : esc[f].for = c) = e
    <2>1. \A f \in DOMAIN esc : esc[f].for = c <=> f = e
      OBVIOUS
    <2> QED
      BY <2>1
  <1>2. Escaped(esc, bs, c) = <<bs>> \o d
    BY <1>1, Zenon DEF Escaped
  <1>3. Found(esc, d) = {e}
    BY DEF Found
  <1> QED
    BY <1>2, <1>3, Zenon DEF Coded

\* Four escapes whose codes, and whose symbols, differ are a table.
FourEscapes(w, x, y, z, a, b, c, d) ==
    << [code |-> w, for |-> a], [code |-> x, for |-> b],
       [code |-> y, for |-> c], [code |-> z, for |-> d] >>

LEMMA TableOf ==
    ASSUME NEW C, NEW a \in C, NEW b \in C, NEW c \in C, NEW d \in C,
           a # b, a # c, a # d, b # c, b # d, c # d,
           NEW w \in Seq(C), NEW x \in Seq(C), NEW y \in Seq(C), NEW z \in Seq(C),
           Len(w) = 3, Len(x) = 3, Len(y) = 3, Len(z) = 3,
           w # x, w # y, w # z, x # y, x # z, y # z
    PROVE  Table(FourEscapes(w, x, y, z, a, b, c, d), C, d, {a, b, c, d})
  <1> DEFINE esc == FourEscapes(w, x, y, z, a, b, c, d)
  <1>1. /\ DOMAIN esc = {1, 2, 3, 4}
        /\ esc[1].code = w /\ esc[2].code = x /\ esc[3].code = y /\ esc[4].code = z
        /\ esc[1].for = a /\ esc[2].for = b /\ esc[3].for = c /\ esc[4].for = d
    <2>1. DOMAIN esc = 1..4
      BY DEF FourEscapes
    <2>2. 1..4 = {1, 2, 3, 4}
      OBVIOUS
    <2> QED
      BY <2>1, <2>2 DEF FourEscapes
  <1> HIDE DEF esc
  <1>2. ASSUME NEW e \in DOMAIN esc
        PROVE  Coded(esc, C, d, esc[e].for)
    <2>1. esc[e].code \in Seq(C) /\ Len(esc[e].code) = 3
      BY <1>1
    <2>2. \A f \in DOMAIN esc : esc[f].code = esc[e].code \/ esc[f].for = esc[e].for => f = e
      <3>1. SUFFICES ASSUME NEW f \in DOMAIN esc,
                            esc[f].code = esc[e].code \/ esc[f].for = esc[e].for
                     PROVE  f = e
        BY Zenon
      <3>2. e \in {1, 2, 3, 4} /\ f \in {1, 2, 3, 4}
        BY <1>1, <1>2, <3>1, Zenon
      <3>3. CASE e = 1
        BY <1>1, <3>1, <3>2, <3>3, Zenon
      <3>4. CASE e = 2
        BY <1>1, <3>1, <3>2, <3>4, Zenon
      <3>5. CASE e = 3
        BY <1>1, <3>1, <3>2, <3>5, Zenon
      <3>6. CASE e = 4
        BY <1>1, <3>1, <3>2, <3>6, Zenon
      <3> QED
        BY <3>2, <3>3, <3>4, <3>5, <3>6, Zenon
    <2> QED
      BY <2>1, <2>2, EntryIsCoded, Zenon
  <1>3. \A f \in {a, b, c, d} : Coded(esc, C, d, f)
    BY <1>1, <1>2, Zenon
  <1>4. \A e \in DOMAIN esc : esc[e].for \in C
    BY <1>1, Zenon
  <1>5. {a, b, c, d} \subseteq C /\ d \in {a, b, c, d}
    BY Zenon
  <1> QED
    BY <1>3, <1>4, <1>5, Zenon DEF Table, esc

\* A table whose codes are made of digits as those of fstab are.
LEMMA DigitTable ==
    ASSUME NEW C, NEW d0 \in C, NEW d1 \in C, NEW d2 \in C, NEW d3 \in C, NEW d4 \in C,
           d0 # d1, d0 # d2, d0 # d4, d1 # d2, d1 # d4, d2 # d4,
           NEW s1 \in C, NEW s2 \in C, NEW s3 \in C, NEW s4 \in C,
           s1 # s2, s1 # s3, s1 # s4, s2 # s3, s2 # s4, s3 # s4
    PROVE  Table(FourEscapes(<<d0, d4, d0>>, <<d0, d1, d1>>, <<d0, d1, d2>>, <<d1, d3, d4>>,
                             s1, s2, s3, s4), C, s4, {s1, s2, s3, s4})
  <1> DEFINE w == <<d0, d4, d0>>
             x == <<d0, d1, d1>>
             y == <<d0, d1, d2>>
             z == <<d1, d3, d4>>
  <1>1. /\ w \in Seq(C) /\ x \in Seq(C) /\ y \in Seq(C) /\ z \in Seq(C)
        /\ Len(w) = 3 /\ Len(x) = 3 /\ Len(y) = 3 /\ Len(z) = 3
    OBVIOUS
  <1>2. w # x /\ w # y /\ w # z /\ x # y /\ x # z /\ y # z
    BY CodesDiffer, Zenon
  <1> HIDE DEF w, x, y, z
  <1>3. Table(FourEscapes(w, x, y, z, s1, s2, s3, s4), C, s4, {s1, s2, s3, s4})
    BY <1>1, <1>2, TableOf
  <1> QED
    BY <1>3, Zenon DEF w, x, y, z

\* The table of fstab.
LEMMA FstabTable ==
    ASSUME NEW C, {" ", "\t", "\n", "\\", "0", "1", "2", "3", "4"} \subseteq C
    PROVE  Table(Escapes, C, "\\", {" ", "\t", "\n", "\\"})
  <1>1. /\ " " \in C /\ "\t" \in C /\ "\n" \in C /\ "\\" \in C
        /\ "0" \in C /\ "1" \in C /\ "2" \in C /\ "3" \in C /\ "4" \in C
    BY Zenon
  <1>3. /\ "0" # "1" /\ "0" # "2" /\ "0" # "4" /\ "1" # "2" /\ "1" # "4" /\ "2" # "4"
        /\ " " # "\t" /\ " " # "\n" /\ " " # "\\" /\ "\t" # "\n" /\ "\t" # "\\"
        /\ "\n" # "\\"
    BY Zenon
  <1>4. Table(FourEscapes(<<"0", "4", "0">>, <<"0", "1", "1">>, <<"0", "1", "2">>,
                          <<"1", "3", "4">>, " ", "\t", "\n", "\\"),
              C, "\\", {" ", "\t", "\n", "\\"})
    BY <1>1, <1>3, DigitTable, Zenon
  <1> QED
    BY <1>4, Zenon DEF Escapes, FourEscapes

\* fstab_decode reads what fstab(5) has written of a text of any symbols.
LEMMA FieldIsRead ==
    ASSUME NEW B, text \in Seq(B)
    PROVE  EscapedFieldIsRead
  <1> DEFINE S  == {" ", "\t", "\n", "\\"}
             C  == B \cup {" ", "\t", "\n", "\\", "0", "1", "2", "3", "4"}
             from == CHOOSE f : f = [i \in 1..Len(text) + 1 |->
                                        EncodeBody(f, text, Escapes, "\\", S, i)]
             back == CHOOSE f : f = [i \in 1..Len(from[1]) + 1 |->
                                        DecodeBody(f, from[1], Escapes, "\\", i)]
  <1>1. text \in Seq(C)
    <2>1. B \subseteq C
      BY Zenon
    <2> HIDE DEF C
    <2> QED
      BY <2>1, SeqMonotonic
  <1>2. Table(Escapes, C, "\\", S)
    <2>1. {" ", "\t", "\n", "\\", "0", "1", "2", "3", "4"} \subseteq C
      BY Zenon
    <2> HIDE DEF C
    <2> QED
      BY <2>1, FstabTable, Zenon
  <1> HIDE DEF C, S
  <1>3. Encodes(from, text, C, Escapes, "\\", S)
    BY <1>1, <1>2, EncodeLoop, Zenon
  <1>4. from[1] \in Seq(C)
    <2> HIDE DEF from
    <2>1. 1 \in 1..Len(text) + 1
      BY <1>1, LenProperties
    <2> QED
      BY <1>3, <2>1, Zenon DEF Encodes
  <1>5. Decodes(back, from[1], Escapes, "\\")
    <2> HIDE DEF from
    <2> QED
      BY <1>2, <1>4, DecodeLoop, Zenon
  <1>6. FstabDecode(from[1]) = back[1]
    <2> HIDE DEF from
    <2> QED
      BY Zenon DEF FstabDecode, DecodeBody, Found
  <1>7. back[1] = text
    <2> HIDE DEF from, back
    <2>1. RoundTrip(Escapes, C, "\\", S, text, from, back)
      BY <1>1, <1>2, <1>3, <1>5, Zenon DEF RoundTrip
    <2> QED
      BY <2>1, EscapedIsRead, Zenon
  <1>8. FstabDecode(from[1]) = text
    <2> HIDE DEF from, back
    <2> QED
      BY <1>6, <1>7, Zenon
  <1> QED
    BY <1>8, Zenon DEF EscapedFieldIsRead, EncodeBody, Escaped, S

-----------------------------------------------------------------------------
(* The mount options of /var.                                              *)

\* A word matches where the text has its symbols.
Matches(t, w, i) == i + Len(w) - 1 <= Len(t) /\ \A k \in 1..Len(w) : t[i + k - 1] = w[k]

LEMMA MatchIs ==
    ASSUME NEW A, NEW t \in Seq(A), NEW w \in Seq(A), NEW i \in Nat \ {0}
    PROVE  MatchAt(t, w, i) <=> Matches(t, w, i)
  <1> DEFINE s == SubSeq(t, i, i + Len(w) - 1)
  <1>0. Len(t) \in Nat /\ Len(w) \in Nat
    BY LenProperties
  <1>1. SUFFICES ASSUME i + Len(w) - 1 <= Len(t)
                 PROVE  s = w <=> \A k \in 1..Len(w) : t[i + k - 1] = w[k]
    BY DEF MatchAt, Matches
  <1>2. /\ s \in Seq(A) /\ Len(s) = Len(w)
        /\ \A k \in 1..Len(w) : s[k] = t[i + k - 1]
    <2>1. \A j \in i..i + Len(w) - 1 : t[j] \in A
      <3>1. \A j \in i..i + Len(w) - 1 : j \in 1..Len(t)
        BY <1>0, <1>1
      <3> QED
        BY <3>1, ElementOfSeq
    <2>2. i \in Int /\ i + Len(w) - 1 \in Int
      BY <1>0
    <2>3. /\ s \in Seq(A)
          /\ Len(s) = IF i <= i + Len(w) - 1 THEN (i + Len(w) - 1) - i + 1 ELSE 0
          /\ \A k \in 1..(i + Len(w) - 1) - i + 1 : s[k] = t[i + k - 1]
      BY <2>1, <2>2, SubSeqProperties
    <2> HIDE DEF s
    <2> QED
      BY <1>0, <2>3
  <1> HIDE DEF s
  <1>3. ASSUME s = w PROVE \A k \in 1..Len(w) : t[i + k - 1] = w[k]
    BY <1>2, <1>3
  <1>4. ASSUME \A k \in 1..Len(w) : t[i + k - 1] = w[k] PROVE s = w
    <2>1. \A k \in 1..Len(s) : s[k] = w[k]
      BY <1>2, <1>4
    <2> QED
      BY <1>2, <2>1, SeqEqual
  <1> QED
    BY <1>3, <1>4

\* One turn of str::replace(), at position i.
ReplaceBody(from, t, old, new, i) ==
    CASE i > Len(t)          -> <<>>
      [] MatchAt(t, old, i)  -> new \o from[i + Len(old)]
      [] OTHER               -> <<t[i]>> \o from[i + 1]

\* What it writes, and where it goes on.
Written(t, old, new, i) == IF MatchAt(t, old, i) THEN new ELSE <<t[i]>>
Behind(t, old, i)       == IF MatchAt(t, old, i) THEN i + Len(old) ELSE i + 1

\* What it makes of the text.
Replaces(f, t, B, old, new) ==
    /\ \A i \in 1..Len(t) + 1 : f[i] \in Seq(B)
    /\ f[Len(t) + 1] = <<>>
    /\ \A i \in 1..Len(t) : f[i] = Written(t, old, new, i) \o f[Behind(t, old, i)]

\* A turn writes something and goes on, and at the end there is nothing.
LEMMA ReplaceTurn ==
    ASSUME NEW t, Len(t) \in Nat, NEW old, Len(old) \in Nat \ {0}, NEW new, NEW f
    PROVE  /\ \A i \in 1..Len(t) : ReplaceBody(f, t, old, new, i) =
                                      Written(t, old, new, i) \o f[Behind(t, old, i)]
           /\ ReplaceBody(f, t, old, new, Len(t) + 1) = <<>>
  <1>1. ASSUME NEW i \in 1..Len(t)
        PROVE  ReplaceBody(f, t, old, new, i) =
                  Written(t, old, new, i) \o f[Behind(t, old, i)]
    <2>1. ~(i > Len(t))
      OBVIOUS
    <2>2. CASE MatchAt(t, old, i)
      BY <2>1, <2>2, Zenon DEF ReplaceBody, Written, Behind
    <2>3. CASE ~MatchAt(t, old, i)
      BY <2>1, <2>3, Zenon DEF ReplaceBody, Written, Behind
    <2> QED
      BY <2>2, <2>3, Zenon
  <1>2. Len(t) + 1 > Len(t) /\ ~MatchAt(t, old, Len(t) + 1)
    BY DEF MatchAt
  <1>3. ReplaceBody(f, t, old, new, Len(t) + 1) = <<>>
    BY <1>2, Zenon DEF ReplaceBody
  <1> QED
    BY <1>1, <1>3

\* The function str::replace() is defined by does.
LEMMA ReplaceLoop ==
    ASSUME NEW B, NEW t \in Seq(B), NEW old \in Seq(B), old # <<>>, NEW new \in Seq(B),
           NEW from,
           from = CHOOSE f : f = [i \in 1..Len(t) + 1 |-> ReplaceBody(f, t, old, new, i)]
    PROVE  Replaces(from, t, B, old, new)
  <1> DEFINE n    == Len(t) + 1
             h    == [i \in 1..n |-> IF i = n THEN <<>> ELSE Written(t, old, new, i)]
             next == [i \in 1..n |-> IF i = n THEN i ELSE Behind(t, old, i)]
  <1>0. Len(t) \in Nat /\ n \in Nat \ {0} /\ n - 1 = Len(t) /\ Len(old) \in Nat \ {0}
    BY LenProperties, EmptySeq
  <1>1. \A i \in 1..Len(t) : h[i] = Written(t, old, new, i) /\ next[i] = Behind(t, old, i)
    BY <1>0
  <1>2. h \in [1..n -> Seq(B)]
    <2>1. ASSUME NEW i \in 1..Len(t) PROVE Written(t, old, new, i) \in Seq(B)
      <3>1. t[i] \in B
        BY ElementOfSeq
      <3>2. <<t[i]>> \in Seq(B)
        BY <3>1
      <3> QED
        BY <3>2 DEF Written
    <2>2. <<>> \in Seq(B)
      OBVIOUS
    <2> QED
      BY <1>0, <2>1, <2>2
  <1>3. \A i \in 1..Len(t) : Behind(t, old, i) \in i + 1..n
    BY <1>0 DEF Behind, MatchAt
  <1>4. next \in [1..n -> 1..n] /\ \A i \in 1..n - 1 : next[i] > i
    BY <1>0, <1>3
  <1> HIDE DEF h, next
  <1>5. PICK f : Glues(f, n, B, h, next)
    <2> HIDE DEF n
    <2> QED
      BY <1>0, <1>2, <1>4, GluesExists
  <1>6. ASSUME NEW g
        PROVE  /\ ReplaceBody(g, t, old, new, n) = <<>>
               /\ \A i \in 1..Len(t) : ReplaceBody(g, t, old, new, i) =
                                          Written(t, old, new, i) \o g[Behind(t, old, i)]
    BY <1>0, ReplaceTurn
  <1> HIDE DEF n
  <1>7. ASSUME NEW i \in 1..n PROVE f[i] = ReplaceBody(f, t, old, new, i)
    <2>1. CASE i = n
      BY <1>5, <1>6, <2>1 DEF Glues
    <2>2. CASE i \in 1..Len(t)
      <3>1. f[i] = h[i] \o f[next[i]]
        BY <1>0, <1>5, <2>2 DEF Glues
      <3> QED
        BY <1>1, <1>6, <2>2, <3>1
    <2> QED
      BY <1>0, <2>1, <2>2
  <1>8. f = [i \in 1..n |-> ReplaceBody(f, t, old, new, i)]
    BY <1>5, <1>7 DEF Glues
  <1>9. from = [i \in 1..n |-> ReplaceBody(from, t, old, new, i)]
    BY <1>8 DEF n
  <1>10. \A i \in 1..n : from[i] = ReplaceBody(from, t, old, new, i)
    BY <1>9
  <1>11. from[n] = <<>>
    <2>1. n \in 1..n
      BY <1>0
    <2> QED
      BY <1>6, <1>10, <2>1
  <1>12. \A i \in 1..Len(t) : from[i] = Written(t, old, new, i) \o from[Behind(t, old, i)]
    <2>1. ASSUME NEW i \in 1..Len(t)
          PROVE  from[i] = Written(t, old, new, i) \o from[Behind(t, old, i)]
      <3>1. i \in 1..n
        BY <1>0
      <3> QED
        BY <1>6, <1>10, <3>1
    <2> QED
      BY <2>1
  <1>13. \A i \in 1..n : from[i] \in Seq(B)
    <2>1. ASSUME NEW i \in 1..n - 1
          PROVE  /\ h[i] \in Seq(B) /\ next[i] \in i + 1..n
                 /\ from[i] = h[i] \o from[next[i]]
      <3>1. i \in 1..n /\ i \in 1..Len(t)
        BY <1>0
      <3>2. h[i] \in Seq(B)
        BY <1>2, <3>1
      <3> QED
        BY <1>1, <1>3, <1>12, <3>1, <3>2
    <2>2. Glued(from, n, B, h, next)
      BY <1>11, <2>1, Zenon DEF Glued
    <2> QED
      BY <1>0, <2>2, GluedAreTexts
  <1> QED
    BY <1>11, <1>12, <1>13 DEF Replaces, n

\* A text that ends with another, behind position d.
EndsWith(u, d, y) == Len(u) = d + Len(y) /\ \A j \in 1..Len(y) : u[d + j] = y[j]

\* A part of the end of a text is a part of the text.
SamePart(u, d, y, a, b) == SubSeq(u, d + a, d + b) = SubSeq(y, a, b)

LEMMA EndOfText ==
    ASSUME NEW A, NEW u \in Seq(A), NEW y \in Seq(A), NEW d \in Nat, EndsWith(u, d, y),
           NEW a \in Nat \ {0}, NEW b \in Int, b <= Len(y)
    PROVE  SamePart(u, d, y, a, b)
  <1> DEFINE v == SubSeq(u, d + a, d + b)
             x == SubSeq(y, a, b)
  <1>0. Len(y) \in Nat /\ Len(u) = d + Len(y) /\ \A j \in 1..Len(y) : u[d + j] = y[j]
    BY LenProperties DEF EndsWith
  <1>1. \A j \in d + a..d + b : u[j] \in A
    <2>1. \A j \in d + a..d + b : j \in 1..Len(u)
      BY <1>0
    <2> QED
      BY <2>1, ElementOfSeq
  <1>2. \A j \in a..b : y[j] \in A
    <2>1. \A j \in a..b : j \in 1..Len(y)
      BY <1>0
    <2> QED
      BY <2>1, ElementOfSeq
  <1>3. /\ v \in Seq(A) /\ Len(v) = IF d + a <= d + b THEN (d + b) - (d + a) + 1 ELSE 0
        /\ \A k \in 1..(d + b) - (d + a) + 1 : v[k] = u[(d + a) + k - 1]
    <2>1. d + a \in Int /\ d + b \in Int
      OBVIOUS
    <2> QED
      BY <1>1, <2>1, SubSeqProperties
  <1>4. /\ x \in Seq(A) /\ Len(x) = IF a <= b THEN b - a + 1 ELSE 0
        /\ \A k \in 1..b - a + 1 : x[k] = y[a + k - 1]
    BY <1>2, SubSeqProperties
  <1> HIDE DEF v, x
  <1>5. Len(v) = Len(x)
    BY <1>3, <1>4
  <1>6. ASSUME NEW k \in 1..Len(v) PROVE v[k] = x[k]
    <2>1. /\ k \in 1..(d + b) - (d + a) + 1 /\ k \in 1..b - a + 1 /\ a + k - 1 \in 1..Len(y)
          /\ (d + a) + k - 1 = d + (a + k - 1)
      BY <1>0, <1>3
    <2> QED
      BY <1>0, <1>3, <1>4, <2>1
  <1>7. v = x
    BY <1>3, <1>4, <1>5, <1>6, SeqEqual
  <1> QED
    BY <1>7, Zenon DEF SamePart, v, x

\* What find_option finds: its loop, from the first position on.
OptionFrom(t, S, w) ==
    CHOOSE f : f = [i \in 1..Len(t) + 1 |-> OptionBody(f, t, S, w, Len(w) - 1, i)]
OptionFound(t, S, w) == OptionFrom(t, S, w)[1]

\* At the end of a text there is nothing; a turn stops at a hit, and goes on elsewhere.
LEMMA OptionTurns ==
    ASSUME NEW A, NEW t \in Seq(A), NEW S, NEW w \in Seq(A), w # <<>>
    PROVE  LET f == OptionFrom(t, S, w)
           IN  /\ f[Len(t) + 1] = Nothing
               /\ \A i \in 1..Len(t) :
                     f[i] = IF Hit(t, S, w, 0, i - 1) THEN Some(Value(t, S, w, i - 1))
                            ELSE f[IF Upto(t, i, S) <= Len(t) THEN Upto(t, i, S) + 1
                                   ELSE Len(t) + 1]
  <1> DEFINE f    == OptionFrom(t, S, w)
             next == [i \in 1..Len(t) + 1 |-> OptionNext(t, S, i)]
             k    == Len(w) - 1
  <1>0. Len(t) \in Nat /\ k \in Nat /\ Len(w) = k + 1
    BY LenProperties, EmptySeq
  <1>1. Searches(f, next, t, S, w, 0)
    <2>1. f = CHOOSE g : g = [i \in 1..Len(t) + 1 |-> OptionBody(g, t, S, w, k, i)]
      BY Zenon DEF OptionFrom
    <2> HIDE DEF f, k
    <2> QED
      BY <1>0, <2>1, OptionSearches
  <1> HIDE DEF f, k
  <1>2. ASSUME NEW i \in 1..Len(t)
        PROVE  next[i] = IF Upto(t, i, S) <= Len(t) THEN Upto(t, i, S) + 1 ELSE Len(t) + 1
    <2> DEFINE T == {Upto(t, i, S) + 1, Len(t) + 1}
    <2>1. Upto(t, i, S) \in i..Len(t) + 1
      BY <1>0, UptoIs
    <2>2. T \subseteq Nat /\ T # {}
      BY <1>0, <2>1
    <2>3. Min(T) \in T /\ \A y \in T : Min(T) <= y
      <3> HIDE DEF T
      <3> QED
        BY <2>2, MinIsLeast
    <2>4. next[i] = Min(T)
      BY <1>0 DEF OptionNext
    <2> QED
      BY <1>0, <2>1, <2>3, <2>4
  <1> HIDE DEF next
  <1>3. f[Len(t) + 1] = Nothing
    BY <1>1 DEF Searches
  <1>4. ASSUME NEW i \in 1..Len(t)
        PROVE  f[i] = IF Hit(t, S, w, 0, i - 1) THEN Some(Value(t, S, w, i - 1))
                      ELSE f[next[i]]
    BY <1>1 DEF Searches
  <1> QED
    BY <1>2, <1>3, <1>4 DEF f

\* What is found in the end of a text is found there.
LEMMA FoundAtEnd ==
    ASSUME NEW A, NEW u \in Seq(A), NEW y \in Seq(A), NEW d \in Nat, EndsWith(u, d, y),
           NEW S, NEW w \in Seq(A), w # <<>>
    PROVE  \A j \in 1..Len(y) + 1 : OptionFrom(u, S, w)[d + j] = OptionFrom(y, S, w)[j]
  <1> DEFINE f == OptionFrom(y, S, w)
             g == OptionFrom(u, S, w)
             n == Len(y) + 1
             G == {j \in 1..n : g[d + j] = f[j]}
  <1>0. Len(y) \in Nat /\ Len(u) = d + Len(y) /\ Len(w) \in Nat \ {0} /\ n \in Nat
        /\ \A j \in 1..Len(y) : u[d + j] = y[j]
    BY LenProperties, EmptySeq DEF EndsWith
  <1>1. /\ f[n] = Nothing
        /\ \A i \in 1..Len(y) :
              f[i] = IF Hit(y, S, w, 0, i - 1) THEN Some(Value(y, S, w, i - 1))
                     ELSE f[IF Upto(y, i, S) <= Len(y) THEN Upto(y, i, S) + 1 ELSE n]
    BY OptionTurns
  <1>2. /\ g[Len(u) + 1] = Nothing
        /\ \A i \in 1..Len(u) :
              g[i] = IF Hit(u, S, w, 0, i - 1) THEN Some(Value(u, S, w, i - 1))
                     ELSE g[IF Upto(u, i, S) <= Len(u) THEN Upto(u, i, S) + 1 ELSE Len(u) + 1]
    BY OptionTurns
  <1> HIDE DEF f, g
  <1>3. ASSUME NEW i \in 1..n, \A j \in i + 1..n : j \in G
        PROVE  i \in G
    <2>1. CASE i = n
      <3>1. d + n = Len(u) + 1
        BY <1>0
      <3> QED
        BY <1>1, <1>2, <2>1, <3>1
    <2>2. CASE i \in 1..Len(y)
      <3> DEFINE e == Upto(y, i, S)
      <3>1. /\ e \in i..n /\ (e <= Len(y) => y[e] \in S)
            /\ \A j \in i..e - 1 : y[j] \notin S
        BY <2>2, UptoIs
      <3> HIDE DEF e
      <3>2. d + i \in 1..Len(u) /\ (d + i) - 1 = d + (i - 1)
        BY <1>0, <2>2
      <3>3. Upto(u, d + i, S) = d + e
        <4>1. /\ Upto(u, d + i, S) \in d + i..Len(u) + 1
              /\ Upto(u, d + i, S) <= Len(u) => u[Upto(u, d + i, S)] \in S
              /\ \A j \in d + i..Upto(u, d + i, S) - 1 : u[j] \notin S
          <5>1. d + i \in 1..Len(u) + 1
            BY <1>0, <3>2
          <5> QED
            BY <5>1, UptoIs
        <4>2. ASSUME NEW j \in i..e - 1 PROVE u[d + j] \notin S
          <5>1. j \in 1..Len(y)
            BY <1>0, <2>2, <3>1
          <5>2. y[j] \notin S
            BY <3>1
          <5> QED
            BY <1>0, <5>1, <5>2
        <4>3. ~(Upto(u, d + i, S) < d + e)
          <5>1. SUFFICES ASSUME Upto(u, d + i, S) < d + e PROVE FALSE
            OBVIOUS
          <5>2. PICK j \in i..e - 1 : d + j = Upto(u, d + i, S)
            <6>1. Upto(u, d + i, S) - d \in i..e - 1
              BY <1>0, <3>1, <4>1, <5>1
            <6>2. d + (Upto(u, d + i, S) - d) = Upto(u, d + i, S)
              BY <1>0, <4>1
            <6> QED
              BY <6>1, <6>2
          <5>3. Upto(u, d + i, S) <= Len(u)
            BY <1>0, <3>1, <5>1, <5>2
          <5> QED
            BY <4>1, <4>2, <5>2, <5>3
        <4>4. ~(Upto(u, d + i, S) > d + e)
          <5>1. SUFFICES ASSUME Upto(u, d + i, S) > d + e PROVE FALSE
            OBVIOUS
          <5>2. d + e \in d + i..Upto(u, d + i, S) - 1 /\ e \in 1..Len(y)
            BY <1>0, <2>2, <3>1, <4>1, <5>1
          <5> QED
            BY <1>0, <3>1, <4>1, <5>2
        <4>5. Upto(u, d + i, S) \in Int /\ d + e \in Int
          BY <1>0, <2>2, <3>1, <4>1
        <4> QED
          BY <4>3, <4>4, <4>5
      <3>4. MatchAt(u, w, d + i) <=> MatchAt(y, w, i)
        <4>1. MatchAt(u, w, d + i) <=> /\ (d + i) + Len(w) - 1 <= Len(u)
                                       /\ \A k \in 1..Len(w) : u[(d + i) + k - 1] = w[k]
          <5>1. d + i \in Nat \ {0}
            BY <1>0, <3>2
          <5> QED
            BY <5>1, MatchIs DEF Matches
        <4>2. MatchAt(y, w, i) <=> /\ i + Len(w) - 1 <= Len(y)
                                   /\ \A k \in 1..Len(w) : y[i + k - 1] = w[k]
          <5>1. i \in Nat \ {0}
            BY <2>2
          <5> QED
            BY <5>1, MatchIs DEF Matches
        <4>3. (d + i) + Len(w) - 1 <= Len(u) <=> i + Len(w) - 1 <= Len(y)
          BY <1>0, <2>2
        <4>4. ASSUME NEW k \in 1..Len(w), i + Len(w) - 1 <= Len(y)
              PROVE  u[(d + i) + k - 1] = y[i + k - 1]
          <5>1. i + k - 1 \in 1..Len(y) /\ (d + i) + k - 1 = d + (i + k - 1)
            BY <1>0, <2>2, <4>4
          <5> QED
            BY <1>0, <5>1
        <4> QED
          BY <4>1, <4>2, <4>3, <4>4
      <3>5. Hit(u, S, w, 0, d + i - 1) <=> Hit(y, S, w, 0, i - 1)
        <4>1. Hit(u, S, w, 0, d + i - 1) <=>
                 MatchAt(u, w, d + i) /\ d + i + Len(w) <= d + e
          <5>1. (d + i - 1) + 1 = d + i /\ (d + i) + Len(w) + 0 = d + i + Len(w)
            BY <1>0, <2>2
          <5> QED
            BY <3>3, <5>1 DEF Hit
        <4>2. Hit(y, S, w, 0, i - 1) <=> MatchAt(y, w, i) /\ i + Len(w) <= e
          <5>1. (i - 1) + 1 = i /\ i + Len(w) + 0 = i + Len(w)
            BY <1>0, <2>2
          <5> QED
            BY <5>1 DEF Hit, e
        <4>3. d + i + Len(w) <= d + e <=> i + Len(w) <= e
          BY <1>0, <2>2, <3>1
        <4> QED
          BY <3>4, <4>1, <4>2, <4>3
      <3>6. Value(u, S, w, d + i - 1) = Value(y, S, w, i - 1)
        <4>1. Value(u, S, w, d + i - 1) = SubSeq(u, d + (i + Len(w)), d + (e - 1))
          <5>1. (d + i - 1) + 1 = d + i /\ (d + i) + Len(w) = d + (i + Len(w))
                /\ (d + e) - 1 = d + (e - 1)
            BY <1>0, <2>2, <3>1
          <5> QED
            BY <3>3, <5>1 DEF Value
        <4>2. Value(y, S, w, i - 1) = SubSeq(y, i + Len(w), e - 1)
          <5>1. (i - 1) + 1 = i
            BY <2>2
          <5> QED
            BY <5>1 DEF Value, e
        <4> QED
          <5>1. i + Len(w) \in Nat \ {0} /\ e - 1 \in Int /\ e - 1 <= Len(y)
            BY <1>0, <2>2, <3>1
          <5>2. SubSeq(u, d + (i + Len(w)), d + (e - 1)) = SubSeq(y, i + Len(w), e - 1)
            <6> DEFINE a == i + Len(w)
                       b == e - 1
            <6> HIDE DEF a, b
            <6>1. a \in Nat \ {0} /\ b \in Int /\ b <= Len(y)
              BY <5>1 DEF a, b
            <6>2. SamePart(u, d, y, a, b)
              BY <6>1, EndOfText
            <6> QED
              BY <6>2 DEF SamePart, a, b
          <5> QED
            BY <4>1, <4>2, <5>2
      <3>7. g[d + i] = IF Hit(y, S, w, 0, i - 1) THEN Some(Value(y, S, w, i - 1))
                       ELSE g[d + (IF e <= Len(y) THEN e + 1 ELSE n)]
        <4>1. (IF d + e <= Len(u) THEN d + e + 1 ELSE Len(u) + 1)
                 = d + (IF e <= Len(y) THEN e + 1 ELSE n)
          BY <1>0, <3>1
        <4> HIDE DEF n
        <4> QED
          BY <1>2, <3>2, <3>3, <3>5, <3>6, <4>1
      <3>8. (IF e <= Len(y) THEN e + 1 ELSE n) \in i + 1..n
        BY <1>0, <2>2, <3>1
      <3>9. g[d + (IF e <= Len(y) THEN e + 1 ELSE n)] = f[IF e <= Len(y) THEN e + 1 ELSE n]
        BY <1>3, <3>8
      <3> QED
        BY <1>1, <2>2, <3>7, <3>9 DEF e
    <2> QED
      BY <1>0, <2>1, <2>2
  <1>4. \A j \in 1..n : j \in G
    <2> HIDE DEF G
    <2> QED
      BY <1>0, <1>3, FromTheEnd
  <1> QED
    BY <1>4 DEF f, g

\* A word without separators matches in front of the first separator.
LEMMA MatchIsHit ==
    ASSUME NEW A, NEW t \in Seq(A), NEW c, NEW w \in Seq(A), w # <<>>,
           \A k \in 1..Len(w) : w[k] # c, NEW i \in 1..Len(t) + 1
    PROVE  Hit(t, {c}, w, 0, i - 1) <=> MatchAt(t, w, i)
  <1> DEFINE e == Upto(t, i, {c})
  <1>0. Len(t) \in Nat /\ Len(w) \in Nat \ {0} /\ i \in Nat \ {0} /\ (i - 1) + 1 = i
    BY LenProperties, EmptySeq
  <1>1. e \in i..Len(t) + 1 /\ (e <= Len(t) => t[e] = c)
    BY UptoIs
  <1> HIDE DEF e
  <1>2. ASSUME MatchAt(t, w, i) PROVE i + Len(w) + 0 <= e
    <2>1. /\ i + Len(w) - 1 <= Len(t)
          /\ \A k \in 1..Len(w) : t[i + k - 1] = w[k]
      BY <1>0, <1>2, MatchIs DEF Matches
    <2>2. SUFFICES ASSUME e < i + Len(w) PROVE FALSE
      BY <1>0, <1>1
    <2>3. PICK k \in 1..Len(w) : i + k - 1 = e
      <3>1. e - i + 1 \in 1..Len(w) /\ i + (e - i + 1) - 1 = e
        BY <1>0, <1>1, <2>2
      <3> QED
        BY <3>1
    <2>4. t[e] = c
      BY <1>0, <1>1, <2>1, <2>2
    <2> QED
      BY <2>1, <2>3, <2>4
  <1>3. Hit(t, {c}, w, 0, i - 1) <=> MatchAt(t, w, i) /\ i + Len(w) + 0 <= e
    BY <1>0 DEF Hit, e
  <1> QED
    BY <1>2, <1>3

\* The text of an item, and what is behind it: nothing, or a separator and other items.
Divided(u, A, c, s, r) ==
    /\ s \in Seq(A \ {c}) /\ r \in Seq(A) /\ u = s \o r
    /\ r # <<>> => r[1] = c

\* What is found in a text is found in its first item, or behind it.
FoundIn(u, A, c, s, r, w) ==
    /\ MatchAt(u, w, 1) =>
          OptionFound(u, {c}, w) = Some(SubSeq(s, Len(w) + 1, Len(s)))
    /\ ~MatchAt(u, w, 1) /\ r = <<>> => OptionFound(u, {c}, w) = Nothing
    /\ \A y \in Seq(A) : ~MatchAt(u, w, 1) /\ r = <<c>> \o y =>
          OptionFound(u, {c}, w) = OptionFound(y, {c}, w)

LEMMA FoundInFirst ==
    ASSUME NEW A, NEW c, NEW u, NEW s, NEW r, Divided(u, A, c, s, r),
           NEW w \in Seq(A), w # <<>>, \A k \in 1..Len(w) : w[k] # c
    PROVE  FoundIn(u, A, c, s, r, w)
  <1> DEFINE g == OptionFrom(u, {c}, w)
             e == Upto(u, 1, {c})
  <1>0. /\ s \in Seq(A) /\ r \in Seq(A) /\ u \in Seq(A) /\ u = s \o r
        /\ Len(s) \in Nat /\ Len(r) \in Nat /\ Len(u) = Len(s) + Len(r)
        /\ Len(w) \in Nat \ {0}
        /\ \A i \in 1..Len(s) : u[i] = s[i] /\ s[i] # c
        /\ \A i \in 1..Len(r) : u[Len(s) + i] = r[i]
    <2>1. s \in Seq(A \ {c}) /\ r \in Seq(A) /\ u = s \o r
      BY DEF Divided
    <2>2. s \in Seq(A)
      <3>1. A \ {c} \subseteq A
        OBVIOUS
      <3> QED
        BY <2>1, <3>1, SeqMonotonic
    <2>3. /\ s \o r \in Seq(A) /\ Len(s \o r) = Len(s) + Len(r)
          /\ \A i \in 1..Len(s) + Len(r) :
                (s \o r)[i] = IF i <= Len(s) THEN s[i] ELSE r[i - Len(s)]
      BY <2>1, <2>2, ConcatProperties
    <2>4. Len(s) \in Nat /\ Len(r) \in Nat /\ Len(w) \in Nat \ {0}
      BY <2>1, <2>2, LenProperties, EmptySeq
    <2>5. \A i \in 1..Len(s) : s[i] \in A \ {c}
      BY <2>1, ElementOfSeq
    <2>6. \A i \in 1..Len(s) : u[i] = s[i]
      BY <2>1, <2>3, <2>4
    <2>7. ASSUME NEW i \in 1..Len(r) PROVE u[Len(s) + i] = r[i]
      <3>1. Len(s) + i \in 1..Len(s) + Len(r) /\ ~(Len(s) + i <= Len(s))
            /\ (Len(s) + i) - Len(s) = i
        BY <2>4
      <3> QED
        BY <2>1, <2>3, <3>1
    <2> QED
      BY <2>1, <2>2, <2>3, <2>4, <2>5, <2>6, <2>7
  <1>1. e = Len(s) + 1
    <2>1. /\ e \in 1..Len(u) + 1 /\ (e <= Len(u) => u[e] = c)
          /\ \A j \in 1..e - 1 : u[j] # c
      <3>1. 1 \in 1..Len(u) + 1
        BY <1>0
      <3>2. /\ e \in 1..Len(u) + 1 /\ (e <= Len(u) => u[e] \in {c})
            /\ \A j \in 1..e - 1 : u[j] \notin {c}
        <4>1. u \in Seq(A)
          BY <1>0
        <4> QED
          BY <3>1, <4>1, UptoIs
      <3> HIDE DEF e
      <3> QED
        BY <3>2
    <2> HIDE DEF e
    <2>2. ~(e < Len(s) + 1)
      BY <1>0, <2>1
    <2>3. ~(e > Len(s) + 1)
      <3>1. SUFFICES ASSUME e > Len(s) + 1 PROVE FALSE
        OBVIOUS
      <3>2. Len(s) + 1 \in 1..e - 1 /\ 1 \in 1..Len(r)
        BY <1>0, <2>1, <3>1
      <3>3. r # <<>>
        BY <1>0, <3>2
      <3>4. r[1] = c
        BY <3>3 DEF Divided
      <3> QED
        BY <1>0, <2>1, <3>2, <3>4
    <2> QED
      BY <1>0, <2>1, <2>2, <2>3
  <1>2. Hit(u, {c}, w, 0, 1 - 1) <=> MatchAt(u, w, 1)
    <2>1. 1 \in 1..Len(u) + 1
      BY <1>0
    <2> QED
      BY <1>0, <2>1, MatchIsHit
  <1>3. /\ g[Len(u) + 1] = Nothing
        /\ \A i \in 1..Len(u) :
              g[i] = IF Hit(u, {c}, w, 0, i - 1) THEN Some(Value(u, {c}, w, i - 1))
                     ELSE g[IF Upto(u, i, {c}) <= Len(u) THEN Upto(u, i, {c}) + 1
                            ELSE Len(u) + 1]
    <2>1. u \in Seq(A)
      BY <1>0
    <2> QED
      BY <2>1, OptionTurns
  <1>4. OptionFound(u, {c}, w) = g[1]
    BY DEF OptionFound
  <1> HIDE DEF g
  <1>5. CASE MatchAt(u, w, 1)
    <2>1. 1 \in 1..Len(u)
      <3>1. 1 + Len(w) - 1 <= Len(u)
        BY <1>5 DEF MatchAt
      <3> QED
        BY <1>0, <3>1
    <2>2. g[1] = Some(Value(u, {c}, w, 1 - 1))
      BY <1>2, <1>3, <1>5, <2>1
    <2>3. Value(u, {c}, w, 1 - 1) = SubSeq(u, 1 + Len(w), Len(s))
      <3>1. (1 - 1) + 1 = 1 /\ (Len(s) + 1) - 1 = Len(s)
        BY <1>0
      <3> QED
        BY <1>1, <3>1 DEF Value
    <2>4. SubSeq(u, 1 + Len(w), Len(s)) = SubSeq(s, Len(w) + 1, Len(s))
      <3> DEFINE m == Len(s)
                 a == Len(w) + 1
      <3>1. 1 + Len(w) = a /\ a \in Nat \ {0} /\ m \in Nat
        BY <1>0
      <3> HIDE DEF m, a
      <3>2. CASE a <= m
        <4>1. a \in 1..Len(s) /\ m \in 1..Len(s)
          BY <3>1, <3>2 DEF m
        <4> QED
          BY <1>0, <3>1, <4>1, SubSeqOfConcat1 DEF m, a
      <3>3. CASE m < a
        <4>1. SubSeq(u, a, m) = <<>> /\ SubSeq(s, a, m) = <<>>
          BY <3>1, <3>3, SubSeqEmpty
        <4> QED
          BY <3>1, <4>1 DEF m, a
      <3> QED
        BY <3>1, <3>2, <3>3
    <2> QED
      BY <1>4, <1>5, <2>2, <2>3, <2>4 DEF FoundIn
  <1>6. CASE ~MatchAt(u, w, 1) /\ Len(u) = 0
    <2>1. g[1] = Nothing
      BY <1>3, <1>6
    <2>2. Len(r) = 0 /\ r = <<>>
      BY <1>0, <1>6
    <2>3. ASSUME NEW y \in Seq(A) PROVE r # <<c>> \o y
      <3>1. Len(<<c>> \o y) = 1 + Len(y) /\ Len(y) \in Nat
        OBVIOUS
      <3>2. Len(r) # Len(<<c>> \o y)
        BY <2>2, <3>1
      <3> QED
        BY <3>2, Zenon
    <2> QED
      BY <1>4, <1>6, <2>1, <2>3 DEF FoundIn
  <1>7. CASE ~MatchAt(u, w, 1) /\ Len(u) # 0
    <2>1. 1 \in 1..Len(u)
      BY <1>0, <1>7
    <2>2. g[1] = g[IF e <= Len(u) THEN e + 1 ELSE Len(u) + 1]
      BY <1>2, <1>3, <1>7, <2>1
    <2>3. ASSUME r = <<>> PROVE g[1] = Nothing
      <3>1. Len(r) = 0
        BY <2>3
      <3>2. ~(e <= Len(u))
        BY <1>0, <1>1, <3>1
      <3> QED
        BY <1>3, <2>2, <3>2
    <2>4. ASSUME NEW y \in Seq(A), r = <<c>> \o y
          PROVE  g[1] = OptionFound(y, {c}, w)
      <3>1. /\ Len(y) \in Nat /\ Len(r) = 1 + Len(y)
            /\ \A j \in 1..Len(y) : r[1 + j] = y[j]
        BY <2>4
      <3>2. EndsWith(u, Len(s) + 1, y)
        <4>1. Len(u) = (Len(s) + 1) + Len(y)
          BY <1>0, <3>1
        <4>2. ASSUME NEW j \in 1..Len(y) PROVE u[(Len(s) + 1) + j] = y[j]
          <5>1. 1 + j \in 1..Len(r) /\ (Len(s) + 1) + j = Len(s) + (1 + j)
            BY <1>0, <3>1
          <5> QED
            BY <1>0, <3>1, <5>1
        <4> QED
          BY <4>1, <4>2 DEF EndsWith
      <3>3. g[(Len(s) + 1) + 1] = OptionFrom(y, {c}, w)[1]
        <4>1. Len(s) + 1 \in Nat /\ 1 \in 1..Len(y) + 1
          BY <1>0, <3>1
        <4>2. \A j \in 1..Len(y) + 1 : g[(Len(s) + 1) + j] = OptionFrom(y, {c}, w)[j]
          <5> DEFINE d == Len(s) + 1
          <5>1. d \in Nat /\ EndsWith(u, d, y) /\ u \in Seq(A)
            BY <1>0, <3>2
          <5> HIDE DEF d
          <5>2. \A j \in 1..Len(y) + 1 :
                   OptionFrom(u, {c}, w)[d + j] = OptionFrom(y, {c}, w)[j]
            BY <5>1, FoundAtEnd
          <5> QED
            BY <5>2 DEF g, d
        <4> QED
          BY <4>1, <4>2
      <3>4. e <= Len(u) /\ e + 1 = (Len(s) + 1) + 1
        BY <1>0, <1>1, <3>1
      <3> QED
        BY <2>2, <3>3, <3>4 DEF OptionFound
    <2> QED
      BY <1>4, <1>7, <2>3, <2>4 DEF FoundIn
  <1> QED
    BY <1>0, <1>5, <1>6, <1>7

\* Three texts are put together in either order.
Regroups(A) == \A x, y, z \in Seq(A) : (x \o y) \o z = x \o (y \o z)

LEMMA Associative ==
    ASSUME NEW A
    PROVE  Regroups(A)
  BY ConcatAssociative DEF Regroups

\* What is put in front of a text.
LEMMA InFrontOf ==
    ASSUME NEW B, NEW h \in Seq(B), NEW r \in Seq(B)
    PROVE  /\ Len(h) \in Nat /\ Len(r) \in Nat /\ Len(h \o r) = Len(h) + Len(r)
           /\ \A k \in 1..Len(h) : (h \o r)[k] = h[k]
           /\ \A k \in 1..Len(r) : (h \o r)[Len(h) + k] = r[k]
  <1>0. Len(h) \in Nat /\ Len(r) \in Nat
    BY LenProperties
  <1>1. /\ h \o r \in Seq(B) /\ Len(h \o r) = Len(h) + Len(r)
        /\ \A i \in 1..Len(h) + Len(r) :
              (h \o r)[i] = IF i <= Len(h) THEN h[i] ELSE r[i - Len(h)]
    BY ConcatProperties
  <1>2. \A k \in 1..Len(h) : (h \o r)[k] = h[k]
    BY <1>0, <1>1
  <1>3. ASSUME NEW k \in 1..Len(r) PROVE (h \o r)[Len(h) + k] = r[k]
    <2>1. Len(h) + k \in 1..Len(h) + Len(r) /\ ~(Len(h) + k <= Len(h))
          /\ (Len(h) + k) - Len(h) = k
      BY <1>0
    <2> QED
      BY <1>1, <2>1
  <1> QED
    BY <1>0, <1>1, <1>2, <1>3

\* An option is replaced by another: neither has a separator.
Exchanges(f, t, A, c, old, new) ==
    /\ t \in Seq(A)
    /\ old \in Seq(A \ {c}) /\ old # <<>> /\ new \in Seq(A \ {c})
    /\ Replaces(f, t, A, old, new)

\* A separator is copied, and nothing goes on over it.
LEMMA SeparatorStays ==
    ASSUME NEW A, NEW c, NEW t, NEW f, NEW old, NEW new, Exchanges(f, t, A, c, old, new),
           NEW i \in 1..Len(t) + 1
    PROVE  LET e == Upto(t, i, {c})
           IN  /\ e \in i..Len(t) + 1
               /\ e <= Len(t) => t[e] = c /\ f[e] = <<c>> \o f[e + 1]
               /\ e = Len(t) + 1 => f[e] = <<>>
               /\ \A j \in i..e - 1 : t[j] # c /\ Behind(t, old, j) \in j + 1..e
  <1> DEFINE e == Upto(t, i, {c})
  <1>0. /\ t \in Seq(A) /\ old \in Seq(A) /\ Len(t) \in Nat /\ Len(old) \in Nat \ {0}
        /\ \A k \in 1..Len(old) : old[k] # c
    <2>1. A \ {c} \subseteq A
      OBVIOUS
    <2>2. t \in Seq(A) /\ old \in Seq(A \ {c}) /\ old # <<>>
      BY DEF Exchanges
    <2>3. old \in Seq(A)
      BY <2>1, <2>2, SeqMonotonic
    <2>4. \A k \in 1..Len(old) : old[k] \in A \ {c}
      BY <2>2, ElementOfSeq
    <2> QED
      BY <2>2, <2>3, <2>4, LenProperties, EmptySeq
  <1>1. /\ e \in i..Len(t) + 1 /\ (e <= Len(t) => t[e] = c)
        /\ \A j \in i..e - 1 : t[j] # c
    <2>1. /\ e \in i..Len(t) + 1 /\ (e <= Len(t) => t[e] \in {c})
          /\ \A j \in i..e - 1 : t[j] \notin {c}
      BY <1>0, UptoIs
    <2> HIDE DEF e
    <2> QED
      BY <2>1
  <1> HIDE DEF e
  <1>2. ASSUME NEW j \in 1..Len(t), MatchAt(t, old, j), NEW k \in j..j + Len(old) - 1
        PROVE  k <= Len(t) /\ t[k] # c
    <2>1. /\ j + Len(old) - 1 <= Len(t)
          /\ \A m \in 1..Len(old) : t[j + m - 1] = old[m]
      BY <1>0, <1>2, MatchIs DEF Matches
    <2>2. k - j + 1 \in 1..Len(old) /\ j + (k - j + 1) - 1 = k
      BY <1>0
    <2>3. t[k] = old[k - j + 1]
      BY <2>1, <2>2
    <2> QED
      BY <1>0, <2>1, <2>2, <2>3
  <1>3. ASSUME NEW j \in i..e - 1 PROVE Behind(t, old, j) \in j + 1..e
    <2>1. j \in 1..Len(t) /\ j + 1 \in j + 1..e
      BY <1>0, <1>1
    <2>2. CASE ~MatchAt(t, old, j)
      BY <2>1, <2>2 DEF Behind
    <2>3. CASE MatchAt(t, old, j)
      <3>1. ~(e < j + Len(old))
        <4>1. SUFFICES ASSUME e < j + Len(old) PROVE FALSE
          OBVIOUS
        <4>2. e \in j..j + Len(old) - 1
          BY <1>0, <1>1, <2>1, <4>1
        <4> QED
          BY <1>1, <1>2, <2>1, <2>3, <4>2
      <3>2. j + Len(old) \in j + 1..e
        BY <1>0, <1>1, <2>1, <3>1
      <3> QED
        BY <2>3, <3>2 DEF Behind
    <2> QED
      BY <2>2, <2>3
  <1>4. ASSUME e <= Len(t) PROVE f[e] = <<c>> \o f[e + 1]
    <2>1. e \in 1..Len(t) /\ e \in e..e + Len(old) - 1
      BY <1>0, <1>1, <1>4
    <2>2. ~MatchAt(t, old, e)
      BY <1>1, <1>2, <1>4, <2>1
    <2>3. f[e] = Written(t, old, new, e) \o f[Behind(t, old, e)]
      BY <2>1 DEF Exchanges, Replaces
    <2> QED
      BY <1>1, <1>4, <2>2, <2>3 DEF Written, Behind
  <1>5. ASSUME e = Len(t) + 1 PROVE f[e] = <<>>
    BY <1>5 DEF Exchanges, Replaces
  <1> QED
    BY <1>1, <1>3, <1>4, <1>5 DEF e

\* An item is replaced within itself.
LEMMA ItemByItem ==
    ASSUME NEW A, NEW c, NEW t, NEW f, NEW old, NEW new, Exchanges(f, t, A, c, old, new),
           NEW i \in 1..Len(t) + 1
    PROVE  \E s : Divided(f[i], A, c, s, f[Upto(t, i, {c})])
  <1> DEFINE n == Len(t) + 1
             e == Upto(t, i, {c})
             P == Seq(A \ {c})
             G == {j \in 1..n : j \in i..e => \E s \in P : f[j] = s \o f[e]}
  <1>a. \A x, y, z \in Seq(A) : (x \o y) \o z = x \o (y \o z)
    <2>1. Regroups(A)
      BY Associative, Zenon
    <2> QED
      BY <2>1, Zenon DEF Regroups
  <1>0. /\ t \in Seq(A) /\ Len(t) \in Nat /\ n \in Nat
        /\ \A j \in 1..n : f[j] \in Seq(A)
        /\ \A j \in 1..Len(t) : f[j] = Written(t, old, new, j) \o f[Behind(t, old, j)]
        /\ new \in P
    BY LenProperties DEF Exchanges, Replaces
  <1>1. /\ e \in i..n
        /\ e <= Len(t) => t[e] = c /\ f[e] = <<c>> \o f[e + 1]
        /\ e = n => f[e] = <<>>
        /\ \A j \in i..e - 1 : t[j] # c /\ Behind(t, old, j) \in j + 1..e
    BY SeparatorStays
  <1> HIDE DEF e
  <1>2. \A x \in P : x \in Seq(A)
    <2>1. A \ {c} \subseteq A
      OBVIOUS
    <2> QED
      BY <2>1, SeqMonotonic
  <1>3. ASSUME NEW j \in 1..n, \A k \in j + 1..n : k \in G
        PROVE  j \in G
    <2>1. SUFFICES ASSUME j \in i..e PROVE \E s \in P : f[j] = s \o f[e]
      OBVIOUS
    <2>2. f[e] \in Seq(A)
      BY <1>0, <1>1
    <2>3. CASE j = e
      <3>1. <<>> \in P /\ <<>> \o f[e] = f[e]
        BY <2>2, ConcatEmptySeq, EmptySeq
      <3> QED
        BY <2>3, <3>1
    <2>4. CASE j \in i..e - 1
      <3> DEFINE b == Behind(t, old, j)
                 w == Written(t, old, new, j)
      <3>1. b \in j + 1..e /\ t[j] # c /\ j \in 1..Len(t)
        BY <1>0, <1>1, <2>4
      <3>2. b \in j + 1..n /\ b \in i..e
        BY <1>1, <2>1, <3>1
      <3>3. PICK s \in P : f[b] = s \o f[e]
        BY <1>3, <3>2
      <3>4. w \in P
        <4>1. t[j] \in A \ {c}
          BY <1>0, <3>1, ElementOfSeq
        <4>2. <<t[j]>> \in P
          BY <4>1
        <4> QED
          BY <1>0, <4>2 DEF Written
      <3>5. f[j] = w \o f[b]
        BY <1>0, <3>1
      <3> HIDE DEF w, b
      <3>6. w \o s \in P
        BY <3>3, <3>4, ConcatProperties
      <3>7. w \in Seq(A) /\ s \in Seq(A)
        BY <1>2, <3>3, <3>4
      <3> HIDE DEF P
      <3>8. (w \o s) \o f[e] = w \o (s \o f[e])
        BY <1>a, <2>2, <3>7, Zenon
      <3>9. f[j] = (w \o s) \o f[e]
        BY <3>3, <3>5, <3>8, Zenon
      <3> QED
        BY <3>6, <3>9
    <2>5. j = e \/ j \in i..e - 1
      BY <1>0, <1>1, <2>1
    <2> QED
      BY <2>3, <2>4, <2>5, Zenon
  <1>4. i \in G
    <2>1. \A j \in 1..n : j \in G
      <3> HIDE DEF G
      <3> QED
        BY <1>0, <1>3, FromTheEnd
    <2> QED
      BY <2>1
  <1>5. PICK s \in P : f[i] = s \o f[e]
    <2>1. i \in i..e
      BY <1>0, <1>1
    <2> HIDE DEF P
    <2> QED
      BY <1>4, <2>1
  <1>6. f[e] # <<>> => f[e][1] = c
    <2>1. CASE e <= Len(t)
      <3>1. e + 1 \in 1..n
        BY <1>0, <1>1, <2>1
      <3>2. c \in A
        <4>1. e \in 1..Len(t) /\ t[e] = c
          BY <1>0, <1>1, <2>1
        <4> QED
          BY <1>0, <4>1, ElementOfSeq
      <3>3. f[e + 1] \in Seq(A) /\ <<c>> \in Seq(A) /\ Len(<<c>>) = 1 /\ <<c>>[1] = c
        BY <1>0, <3>1, <3>2
      <3>4. (<<c>> \o f[e + 1])[1] = c
        <4>1. 1 \in 1..Len(<<c>>)
          BY <3>3
        <4>2. \A k \in 1..Len(<<c>>) : (<<c>> \o f[e + 1])[k] = <<c>>[k]
          BY <3>3, InFrontOf
        <4> QED
          BY <3>3, <4>1, <4>2
      <3> QED
        BY <1>1, <2>1, <3>4
    <2>2. CASE e = n
      BY <1>1, <2>2
    <2> QED
      BY <1>0, <1>1, <2>1, <2>2
  <1>7. f[e] \in Seq(A)
    BY <1>0, <1>1
  <1>8. Divided(f[i], A, c, s, f[e])
    BY <1>5, <1>6, <1>7 DEF Divided
  <1> QED
    BY <1>8 DEF e

\* An item in which the option is nowhere stays.
LEMMA ItemStays ==
    ASSUME NEW A, NEW c, NEW t, NEW f, NEW old, NEW new, Exchanges(f, t, A, c, old, new),
           NEW i \in 1..Len(t) + 1,
           \A j \in i..Upto(t, i, {c}) - 1 : ~MatchAt(t, old, j)
    PROVE  Divided(f[i], A, c, ItemAt(t, {c}, i - 1), f[Upto(t, i, {c})])
  <1> DEFINE n == Len(t) + 1
             e == Upto(t, i, {c})
             G == {j \in 1..n : j \in i..e => f[j] = SubSeq(t, j, e - 1) \o f[e]}
  <1>a. \A x, y, z \in Seq(A) : (x \o y) \o z = x \o (y \o z)
    <2>1. Regroups(A)
      BY Associative, Zenon
    <2> QED
      BY <2>1, Zenon DEF Regroups
  <1>0. /\ t \in Seq(A) /\ Len(t) \in Nat /\ n \in Nat
        /\ \A j \in 1..n : f[j] \in Seq(A)
        /\ \A j \in 1..Len(t) : f[j] = Written(t, old, new, j) \o f[Behind(t, old, j)]
    BY LenProperties DEF Exchanges, Replaces
  <1>1. /\ e \in i..n
        /\ \A j \in i..e - 1 : t[j] # c /\ ~MatchAt(t, old, j)
    <2>1. e \in i..n /\ \A j \in i..e - 1 : t[j] # c /\ Behind(t, old, j) \in j + 1..e
      BY SeparatorStays
    <2>2. \A j \in i..e - 1 : ~MatchAt(t, old, j)
      OBVIOUS
    <2> QED
      BY <2>1, <2>2
  <1>e. PICK s : Divided(f[i], A, c, s, f[e])
    BY ItemByItem
  <1> HIDE DEF e
  <1>2. ASSUME NEW j \in i..e
        PROVE  SubSeq(t, j, e - 1) \in Seq(A \ {c}) /\ SubSeq(t, j, e - 1) \in Seq(A)
    <2>1. \A k \in j..e - 1 : t[k] \in A \ {c} /\ t[k] \in A
      <3>1. ASSUME NEW k \in j..e - 1 PROVE t[k] \in A \ {c} /\ t[k] \in A
        <4>1. k \in 1..Len(t) /\ k \in i..e - 1
          BY <1>0, <1>1
        <4> QED
          BY <1>0, <1>1, <4>1, ElementOfSeq
      <3> QED
        BY <3>1
    <2>2. j \in Int /\ e - 1 \in Int
      BY <1>0, <1>1
    <2>3. SubSeq(t, j, e - 1) \in Seq(A \ {c})
      BY <2>1, <2>2, SubSeqProperties
    <2>4. SubSeq(t, j, e - 1) \in Seq(A)
      BY <2>1, <2>2, SubSeqProperties
    <2> QED
      BY <2>3, <2>4
  <1>3. ASSUME NEW j \in 1..n, \A k \in j + 1..n : k \in G
        PROVE  j \in G
    <2>1. SUFFICES ASSUME j \in i..e PROVE f[j] = SubSeq(t, j, e - 1) \o f[e]
      OBVIOUS
    <2>2. f[e] \in Seq(A)
      BY <1>0, <1>1
    <2>3. CASE j = e
      <3>1. SubSeq(t, j, e - 1) = <<>>
        <4>1. j \in Int /\ e - 1 \in Int /\ e - 1 < j
          BY <1>0, <1>1, <2>3
        <4> QED
          BY <4>1, SubSeqEmpty
      <3>2. <<>> \o f[e] = f[e]
        BY <2>2, ConcatEmptySeq
      <3> QED
        BY <2>3, <3>1, <3>2
    <2>4. CASE j \in i..e - 1
      <3>1. j \in 1..Len(t) /\ ~MatchAt(t, old, j) /\ j + 1 \in j + 1..n /\ j + 1 \in i..e
        BY <1>0, <1>1, <2>4
      <3>2. f[j] = <<t[j]>> \o f[j + 1]
        BY <1>0, <3>1 DEF Written, Behind
      <3>3. f[j + 1] = SubSeq(t, j + 1, e - 1) \o f[e]
        BY <1>3, <3>1
      <3>4. SubSeq(t, j, e - 1) = <<t[j]>> \o SubSeq(t, j + 1, e - 1)
        <4>1. e - 1 \in j..Len(t)
          BY <1>0, <1>1, <2>4
        <4> QED
          BY <1>0, <3>1, <4>1, SubSeqRecursiveFirst
      <3>5. <<t[j]>> \in Seq(A) /\ SubSeq(t, j + 1, e - 1) \in Seq(A)
        <4>1. t[j] \in A
          BY <1>0, <3>1, ElementOfSeq
        <4>2. <<t[j]>> \in Seq(A)
          BY <4>1
        <4> QED
          BY <1>2, <3>1, <4>2
      <3>6. (<<t[j]>> \o SubSeq(t, j + 1, e - 1)) \o f[e]
               = <<t[j]>> \o (SubSeq(t, j + 1, e - 1) \o f[e])
        BY <1>a, <2>2, <3>5, Zenon
      <3>7. f[j] = <<t[j]>> \o (SubSeq(t, j + 1, e - 1) \o f[e])
        BY <3>2, <3>3, Zenon
      <3> QED
        BY <3>4, <3>6, <3>7
    <2>5. j = e \/ j \in i..e - 1
      BY <1>0, <1>1, <2>1
    <2> QED
      BY <2>3, <2>4, <2>5, Zenon
  <1>4. i \in G
    <2>1. \A j \in 1..n : j \in G
      <3> HIDE DEF G
      <3> QED
        BY <1>0, <1>3, FromTheEnd
    <2> QED
      BY <2>1
  <1>5. f[i] = SubSeq(t, i, e - 1) \o f[e] /\ SubSeq(t, i, e - 1) \in Seq(A \ {c})
    <2>1. i \in i..e
      BY <1>0, <1>1
    <2> QED
      BY <1>2, <1>4, <2>1
  <1>6. ItemAt(t, {c}, i - 1) = SubSeq(t, i, e - 1)
    <2>1. (i - 1) + 1 = i
      OBVIOUS
    <2> QED
      BY <2>1 DEF ItemAt, e
  <1>7. Divided(f[i], A, c, ItemAt(t, {c}, i - 1), f[e])
    BY <1>e, <1>5, <1>6 DEF Divided
  <1> QED
    BY <1>7 DEF e

\* An option with a value of its own, and the option it is replaced by.
Renames(old, new, sv, eq, vr, v) == old = <<sv, eq>> \o v /\ new = <<sv, eq, vr>>

\* The symbols of both.
LEMMA RenamesIs ==
    ASSUME NEW A, NEW sv \in A, NEW eq \in A, NEW vr \in A, NEW v \in Seq(A), NEW old, NEW new,
           Renames(old, new, sv, eq, vr, v)
    PROVE  /\ old \in Seq(A) /\ Len(old) = 2 + Len(v) /\ Len(v) \in Nat /\ old # <<>>
           /\ old[1] = sv /\ old[2] = eq /\ \A k \in 1..Len(v) : old[2 + k] = v[k]
           /\ new \in Seq(A) /\ Len(new) = 3
           /\ new[1] = sv /\ new[2] = eq /\ new[3] = vr
  <1> DEFINE p == <<sv, eq>>
  <1>1. p \in Seq(A) /\ Len(p) = 2 /\ p[1] = sv /\ p[2] = eq
    OBVIOUS
  <1>2. old = p \o v
    BY DEF Renames
  <1> HIDE DEF p
  <1>3. /\ p \o v \in Seq(A) /\ Len(p \o v) = Len(p) + Len(v) /\ Len(v) \in Nat
        /\ \A k \in 1..Len(p) : (p \o v)[k] = p[k]
        /\ \A k \in 1..Len(v) : (p \o v)[Len(p) + k] = v[k]
    BY <1>1, InFrontOf, ConcatProperties
  <1>4. /\ old \in Seq(A) /\ Len(old) = 2 + Len(v)
        /\ \A k \in 1..2 : old[k] = p[k]
        /\ \A k \in 1..Len(v) : old[2 + k] = v[k]
    BY <1>1, <1>2, <1>3
  <1>5. old # <<>> /\ old[1] = sv /\ old[2] = eq
    BY <1>1, <1>3, <1>4
  <1>6. /\ new \in Seq(A) /\ Len(new) = 3
        /\ new[1] = sv /\ new[2] = eq /\ new[3] = vr
    BY DEF Renames
  <1> QED
    BY <1>3, <1>4, <1>5, <1>6

\* The first symbols of what is made of a text: those of the new option, or the first
\* symbol of the text and what is made of the rest.
LEMMA FirstSymbols ==
    ASSUME NEW A, NEW t \in Seq(A), NEW f, NEW old, NEW new, NEW sv \in A, NEW eq \in A,
           NEW vr \in A, NEW v \in Seq(A), Renames(old, new, sv, eq, vr, v),
           Replaces(f, t, A, old, new), NEW i \in 1..Len(t)
    PROVE  /\ f[i] \in Seq(A) /\ Len(f[i]) \in Nat \ {0}
           /\ MatchAt(t, old, i) => /\ 2 <= Len(f[i]) /\ f[i][1] = sv /\ f[i][2] = eq
                                    /\ t[i] = sv /\ i + 1 <= Len(t) /\ t[i + 1] = eq
           /\ ~MatchAt(t, old, i) => /\ Len(f[i]) = 1 + Len(f[i + 1]) /\ f[i][1] = t[i]
                                     /\ Len(f[i + 1]) \in Nat
                                     /\ \A k \in 1..Len(f[i + 1]) : f[i][1 + k] = f[i + 1][k]
  <1>0. /\ Len(t) \in Nat /\ \A j \in 1..Len(t) + 1 : f[j] \in Seq(A)
        /\ f[i] = Written(t, old, new, i) \o f[Behind(t, old, i)]
    BY LenProperties DEF Replaces
  <1>1. /\ old \in Seq(A) /\ Len(old) = 2 + Len(v) /\ Len(v) \in Nat
        /\ old[1] = sv /\ old[2] = eq
        /\ new \in Seq(A) /\ Len(new) = 3 /\ new[1] = sv /\ new[2] = eq
    BY RenamesIs
  <1>2. CASE MatchAt(t, old, i)
    <2>1. f[i] = new \o f[i + Len(old)]
      BY <1>0, <1>2 DEF Written, Behind
    <2>2. /\ i + Len(old) - 1 <= Len(t)
          /\ \A k \in 1..Len(old) : t[i + k - 1] = old[k]
      <3>1. i \in Nat \ {0}
        BY <1>0
      <3> QED
        BY <1>1, <1>2, <3>1, MatchIs DEF Matches
    <2>3. f[i + Len(old)] \in Seq(A)
      BY <1>0, <1>1, <2>2
    <2> DEFINE r == f[i + Len(old)]
    <2> HIDE DEF r
    <2>4. /\ new \o r \in Seq(A) /\ Len(new \o r) = 3 + Len(r) /\ Len(r) \in Nat
          /\ \A k \in 1..3 : (new \o r)[k] = new[k]
      <3>1. r \in Seq(A)
        BY <2>3 DEF r
      <3>2. new \o r \in Seq(A)
        BY <1>1, <3>1, ConcatProperties
      <3>3. /\ Len(new \o r) = Len(new) + Len(r) /\ Len(r) \in Nat
            /\ \A k \in 1..Len(new) : (new \o r)[k] = new[k]
        <4>1. new \in Seq(A)
          BY <1>1
        <4> QED
          BY <3>1, <4>1, InFrontOf
      <3> QED
        BY <1>1, <3>2, <3>3
    <2>5. /\ f[i] \in Seq(A) /\ Len(f[i]) \in Nat \ {0} /\ 2 <= Len(f[i])
          /\ f[i][1] = sv /\ f[i][2] = eq
      BY <1>1, <2>1, <2>4 DEF r
    <2>6. t[i] = sv /\ i + 1 <= Len(t) /\ t[i + 1] = eq
      <3>1. 1 \in 1..Len(old) /\ 2 \in 1..Len(old) /\ i + 1 - 1 = i /\ i + 2 - 1 = i + 1
        BY <1>0, <1>1
      <3>2. t[i + 1 - 1] = old[1] /\ t[i + 2 - 1] = old[2]
        BY <2>2, <3>1
      <3>3. i + 1 <= Len(t)
        BY <1>0, <1>1, <2>2
      <3> QED
        BY <1>1, <3>1, <3>2, <3>3
    <2> QED
      BY <1>2, <2>5, <2>6
  <1>3. CASE ~MatchAt(t, old, i)
    <2> DEFINE h == <<t[i]>>
               r == f[i + 1]
    <2>1. f[i] = h \o r
      BY <1>0, <1>3 DEF Written, Behind
    <2>2. h \in Seq(A) /\ Len(h) = 1 /\ h[1] = t[i] /\ r \in Seq(A)
      <3>1. t[i] \in A
        BY ElementOfSeq
      <3> QED
        BY <1>0, <3>1
    <2> HIDE DEF h, r
    <2>3. /\ h \o r \in Seq(A) /\ Len(r) \in Nat /\ Len(h \o r) = Len(h) + Len(r)
          /\ \A k \in 1..Len(h) : (h \o r)[k] = h[k]
          /\ \A k \in 1..Len(r) : (h \o r)[Len(h) + k] = r[k]
      <3>1. h \o r \in Seq(A)
        BY <2>2, ConcatProperties
      <3>2. /\ Len(r) \in Nat /\ Len(h \o r) = Len(h) + Len(r)
            /\ \A k \in 1..Len(h) : (h \o r)[k] = h[k]
            /\ \A k \in 1..Len(r) : (h \o r)[Len(h) + k] = r[k]
        <4>1. h \in Seq(A) /\ r \in Seq(A)
          BY <2>2
        <4> QED
          BY <4>1, InFrontOf
      <3> QED
        BY <3>1, <3>2
    <2>4. /\ f[i] \in Seq(A) /\ Len(f[i]) = 1 + Len(r) /\ Len(f[i]) \in Nat \ {0}
          /\ f[i][1] = t[i] /\ \A k \in 1..Len(r) : f[i][1 + k] = r[k]
      BY <2>1, <2>2, <2>3
    <2> QED
      BY <1>3, <2>3, <2>4 DEF r
  <1> QED
    BY <1>2, <1>3

\* What has an option at its head has it where it was made from: replacing the option makes
\* no other, neither the same key with another value nor a longer one.
LEMMA HeadsStay ==
    ASSUME NEW A, NEW t \in Seq(A), NEW f, NEW old, NEW new, NEW sv \in A, NEW eq \in A,
           NEW vr \in A, NEW id \in A, NEW v \in Seq(A), Renames(old, new, sv, eq, vr, v),
           Replaces(f, t, A, old, new), sv # eq, id # eq, id # sv, NEW i \in 1..Len(t) + 1
    PROVE  /\ MatchAt(f[i], <<sv, eq>>, 1) => MatchAt(t, <<sv, eq>>, i)
           /\ MatchAt(f[i], <<sv, id, eq>>, 1) => MatchAt(t, <<sv, id, eq>>, i)
  <1>0. /\ Len(t) \in Nat /\ \A j \in 1..Len(t) + 1 : f[j] \in Seq(A) /\ Len(f[j]) \in Nat
        /\ Len(f[Len(t) + 1]) = 0
    BY LenProperties DEF Replaces
  <1>1. ASSUME NEW u \in Seq(A), NEW j \in Nat \ {0}
        PROVE  /\ MatchAt(u, <<sv, eq>>, j) <=>
                     j + 1 <= Len(u) /\ u[j] = sv /\ u[j + 1] = eq
               /\ MatchAt(u, <<sv, id, eq>>, j) <=>
                     j + 2 <= Len(u) /\ u[j] = sv /\ u[j + 1] = id /\ u[j + 2] = eq
    <2> DEFINE p == <<sv, eq>>
               q == <<sv, id, eq>>
    <2>1. p \in Seq(A) /\ Len(p) = 2 /\ p[1] = sv /\ p[2] = eq
      OBVIOUS
    <2>2. q \in Seq(A) /\ Len(q) = 3 /\ q[1] = sv /\ q[2] = id /\ q[3] = eq
      OBVIOUS
    <2> HIDE DEF p, q
    <2>3. MatchAt(u, p, j) <=> /\ j + Len(p) - 1 <= Len(u)
                               /\ \A k \in 1..Len(p) : u[j + k - 1] = p[k]
      <3>1. MatchAt(u, p, j) <=> Matches(u, p, j)
        BY <2>1, MatchIs
      <3> QED
        BY <3>1 DEF Matches
    <2>4. MatchAt(u, q, j) <=> /\ j + Len(q) - 1 <= Len(u)
                               /\ \A k \in 1..Len(q) : u[j + k - 1] = q[k]
      <3>1. MatchAt(u, q, j) <=> Matches(u, q, j)
        BY <2>2, MatchIs
      <3> QED
        BY <3>1 DEF Matches
    <2>5. Len(u) \in Nat
      BY LenProperties
    <2>6. MatchAt(u, p, j) <=> j + 1 <= Len(u) /\ u[j] = sv /\ u[j + 1] = eq
      <3>1. 1 \in 1..Len(p) /\ 2 \in 1..Len(p) /\ \A k \in 1..Len(p) : k = 1 \/ k = 2
        BY <2>1
      <3>2. j + 1 - 1 = j /\ j + 2 - 1 = j + 1 /\ j + Len(p) - 1 = j + 1
        BY <2>1
      <3> QED
        BY <2>1, <2>3, <3>1, <3>2
    <2>7. MatchAt(u, q, j) <=>
             j + 2 <= Len(u) /\ u[j] = sv /\ u[j + 1] = id /\ u[j + 2] = eq
      <3>1. /\ 1 \in 1..Len(q) /\ 2 \in 1..Len(q) /\ 3 \in 1..Len(q)
            /\ \A k \in 1..Len(q) : k = 1 \/ k = 2 \/ k = 3
        BY <2>2
      <3>2. /\ j + 1 - 1 = j /\ j + 2 - 1 = j + 1 /\ j + 3 - 1 = j + 2
            /\ j + Len(q) - 1 = j + 2
        BY <2>2
      <3> QED
        BY <2>2, <2>4, <3>1, <3>2
    <2> QED
      BY <2>6, <2>7 DEF p, q
  <1>2. ASSUME NEW j \in 1..Len(t)
        PROVE  /\ MatchAt(t, old, j) => /\ 2 <= Len(f[j]) /\ f[j][1] = sv /\ f[j][2] = eq
                                        /\ t[j] = sv /\ j + 1 <= Len(t) /\ t[j + 1] = eq
               /\ ~MatchAt(t, old, j) =>
                     /\ Len(f[j]) = 1 + Len(f[j + 1]) /\ f[j][1] = t[j]
                     /\ \A k \in 1..Len(f[j + 1]) : f[j][1 + k] = f[j + 1][k]
    BY FirstSymbols
  <1>3. CASE i = Len(t) + 1
    <2>1. f[i] \in Seq(A) /\ Len(f[i]) = 0
      BY <1>0, <1>3
    <2>2. ~MatchAt(f[i], <<sv, eq>>, 1) /\ ~MatchAt(f[i], <<sv, id, eq>>, 1)
      <3>1. /\ MatchAt(f[i], <<sv, eq>>, 1) => 1 + 1 <= Len(f[i])
            /\ MatchAt(f[i], <<sv, id, eq>>, 1) => 1 + 2 <= Len(f[i])
        <4>1. 1 \in Nat \ {0}
          OBVIOUS
        <4> QED
          BY <1>1, <2>1, <4>1
      <3> QED
        BY <2>1, <3>1
    <2> QED
      BY <2>2
  <1>4. CASE i \in 1..Len(t)
    <2>0. f[i] \in Seq(A) /\ i \in Nat \ {0} /\ i + 1 \in 1..Len(t) + 1
      BY <1>0, <1>4
    <2>1. ASSUME 2 <= Len(f[i]), f[i][1] = sv, f[i][2] = eq
          PROVE  i + 1 <= Len(t) /\ t[i] = sv /\ t[i + 1] = eq
      <3>1. CASE MatchAt(t, old, i)
        BY <1>2, <1>4, <3>1
      <3>2. CASE ~MatchAt(t, old, i)
        <4>1. t[i] = sv /\ 1 <= Len(f[i + 1]) /\ f[i + 1][1] = eq
          <5>1. /\ Len(f[i]) = 1 + Len(f[i + 1]) /\ f[i][1] = t[i]
                /\ \A k \in 1..Len(f[i + 1]) : f[i][1 + k] = f[i + 1][k]
            BY <1>2, <1>4, <3>2
          <5>2. 1 \in 1..Len(f[i + 1])
            BY <1>0, <2>0, <2>1, <5>1
          <5> QED
            BY <2>1, <5>1, <5>2
        <4>2. i + 1 \in 1..Len(t)
          BY <1>0, <2>0, <4>1
        <4>3. t[i + 1] = eq
          BY <1>2, <4>1, <4>2
        <4> QED
          BY <1>0, <4>1, <4>2, <4>3
      <3> QED
        BY <3>1, <3>2
    <2>2. ASSUME 3 <= Len(f[i]), f[i][1] = sv, f[i][2] = id, f[i][3] = eq
          PROVE  i + 2 <= Len(t) /\ t[i] = sv /\ t[i + 1] = id /\ t[i + 2] = eq
      <3>1. ~MatchAt(t, old, i)
        BY <1>2, <1>4, <2>2
      <3>2. t[i] = sv /\ 2 <= Len(f[i + 1]) /\ f[i + 1][1] = id /\ f[i + 1][2] = eq
        <4>1. /\ Len(f[i]) = 1 + Len(f[i + 1]) /\ f[i][1] = t[i]
              /\ \A k \in 1..Len(f[i + 1]) : f[i][1 + k] = f[i + 1][k]
          BY <1>2, <1>4, <3>1
        <4>2. Len(f[i + 1]) \in Nat
          BY <1>0, <2>0
        <4>3. 1 \in 1..Len(f[i + 1]) /\ 2 \in 1..Len(f[i + 1])
          BY <2>2, <4>1, <4>2
        <4>4. f[i][1 + 1] = f[i + 1][1] /\ f[i][1 + 2] = f[i + 1][2]
          BY <4>1, <4>3
        <4>5. f[i][2] = f[i + 1][1] /\ f[i][3] = f[i + 1][2] /\ 2 <= Len(f[i + 1])
          BY <4>3, <4>4
        <4> QED
          BY <2>2, <4>1, <4>5
      <3>3. i + 1 \in 1..Len(t) /\ i + 2 \in 1..Len(t) + 1 /\ (i + 1) + 1 = i + 2
        BY <1>0, <2>0, <3>2
      <3>4. ~MatchAt(t, old, i + 1)
        BY <1>2, <3>2, <3>3
      <3>5. t[i + 1] = id /\ 1 <= Len(f[i + 2]) /\ f[i + 2][1] = eq
        <4>1. /\ Len(f[i + 1]) = 1 + Len(f[i + 2]) /\ f[i + 1][1] = t[i + 1]
              /\ \A k \in 1..Len(f[i + 2]) : f[i + 1][1 + k] = f[i + 2][k]
          <5>1. (i + 1) + 1 = i + 2
            BY <2>0
          <5>2. /\ Len(f[i + 1]) = 1 + Len(f[(i + 1) + 1]) /\ f[i + 1][1] = t[i + 1]
                /\ \A k \in 1..Len(f[(i + 1) + 1]) : f[i + 1][1 + k] = f[(i + 1) + 1][k]
            BY <1>2, <3>3, <3>4
          <5> QED
            BY <5>1, <5>2
        <4>2. 1 \in 1..Len(f[i + 2])
          BY <1>0, <3>2, <3>3, <4>1
        <4>3. f[i + 1][1 + 1] = f[i + 2][1] /\ f[i + 1][1 + 1] = eq
          BY <3>2, <4>1, <4>2
        <4>4. 1 <= Len(f[i + 2])
          BY <4>2
        <4> QED
          BY <3>2, <4>1, <4>3, <4>4
      <3>6. i + 2 \in 1..Len(t)
        BY <1>0, <3>3, <3>5
      <3>7. t[i + 2] = eq
        BY <1>2, <3>5, <3>6
      <3> QED
        BY <1>0, <3>2, <3>5, <3>6, <3>7
    <2>3. MatchAt(f[i], <<sv, eq>>, 1) => MatchAt(t, <<sv, eq>>, i)
      <3>1. MatchAt(f[i], <<sv, eq>>, 1) =>
               1 + 1 <= Len(f[i]) /\ f[i][1] = sv /\ f[i][1 + 1] = eq
        BY <1>1, <2>0
      <3>2. MatchAt(t, <<sv, eq>>, i) <=> i + 1 <= Len(t) /\ t[i] = sv /\ t[i + 1] = eq
        BY <1>1, <2>0
      <3> QED
        BY <2>1, <3>1, <3>2
    <2>4. MatchAt(f[i], <<sv, id, eq>>, 1) => MatchAt(t, <<sv, id, eq>>, i)
      <3>1. MatchAt(f[i], <<sv, id, eq>>, 1) =>
               /\ 1 + 2 <= Len(f[i]) /\ f[i][1] = sv
               /\ f[i][1 + 1] = id /\ f[i][1 + 2] = eq
        BY <1>1, <2>0
      <3>2. MatchAt(t, <<sv, id, eq>>, i) <=>
               i + 2 <= Len(t) /\ t[i] = sv /\ t[i + 1] = id /\ t[i + 2] = eq
        BY <1>1, <2>0
      <3> QED
        BY <2>2, <3>1, <3>2
    <2> QED
      BY <2>3, <2>4
  <1> QED
    BY <1>0, <1>3, <1>4

\* Five symbols that are told apart as the mount options need it.
OptionSymbols(A, c, sv, id, eq, vr) ==
    /\ sv \in A /\ id \in A /\ eq \in A /\ vr \in A
    /\ sv # c /\ id # c /\ eq # c /\ vr # c /\ sv # eq /\ id # eq /\ id # sv

\* What is found in what is made of the text from position i on.
MadeOf(f, t, c, p, q, eq, vr, v, i) ==
    /\ OptionFrom(t, {c}, p)[i] = Some(v) => OptionFound(f[i], {c}, p) = Some(<<vr>>)
    /\ OptionFrom(t, {c}, q)[i] = Nothing \/ eq \notin ToSet(OptionFrom(t, {c}, q)[i][1]) =>
          OptionFound(f[i], {c}, q) = OptionFrom(t, {c}, q)[i]

\* A word of n symbols, none of them a separator.
Word(A, c, w, n) == w \in Seq(A) /\ w # <<>> /\ Len(w) = n /\ \A k \in 1..Len(w) : w[k] # c

\* The two options as words.
LEMMA OptionWords ==
    ASSUME NEW A, NEW c, NEW sv, NEW id, NEW eq, NEW vr, OptionSymbols(A, c, sv, id, eq, vr)
    PROVE  Word(A, c, <<sv, eq>>, 2) /\ Word(A, c, <<sv, id, eq>>, 3)
  <1>1. /\ sv \in A /\ id \in A /\ eq \in A /\ vr \in A
        /\ sv # c /\ id # c /\ eq # c /\ vr # c
    BY DEF OptionSymbols
  <1>2. Word(A, c, <<sv, eq>>, 2)
    <2> DEFINE p == <<sv, eq>>
    <2>1. p \in Seq(A) /\ Len(p) = 2 /\ p[1] = sv /\ p[2] = eq
      BY <1>1
    <2> HIDE DEF p
    <2>2. \A k \in 1..Len(p) : p[k] # c
      BY <1>1, <2>1
    <2>3. p # <<>>
      BY <2>1
    <2> QED
      BY <2>1, <2>2, <2>3 DEF Word, p
  <1>3. Word(A, c, <<sv, id, eq>>, 3)
    <2> DEFINE q == <<sv, id, eq>>
    <2>1. q \in Seq(A) /\ Len(q) = 3 /\ q[1] = sv /\ q[2] = id /\ q[3] = eq
      BY <1>1
    <2> HIDE DEF q
    <2>2. \A k \in 1..Len(q) : q[k] # c
      BY <1>1, <2>1
    <2>3. q # <<>>
      BY <2>1
    <2> QED
      BY <2>1, <2>2, <2>3 DEF Word, q
  <1> QED
    BY <1>2, <1>3

\* An item that is the option is replaced by the other.
LEMMA OptionIsReplaced ==
    ASSUME NEW A, NEW c, NEW sv, NEW id, NEW eq, NEW vr, OptionSymbols(A, c, sv, id, eq, vr),
           NEW t, NEW f, NEW old, NEW new, Exchanges(f, t, A, c, old, new),
           NEW v \in Seq(A), Renames(old, new, sv, eq, vr, v), NEW i \in 1..Len(t),
           MatchAt(t, <<sv, eq>>, i), Value(t, {c}, <<sv, eq>>, i - 1) = v
    PROVE  Divided(f[i], A, c, new, f[Upto(t, i, {c})])
  <1> DEFINE e == Upto(t, i, {c})
             p == <<sv, eq>>
  <1>0. /\ t \in Seq(A) /\ Len(t) \in Nat /\ i \in 1..Len(t) + 1 /\ i \in Nat \ {0}
        /\ f[i] = Written(t, old, new, i) \o f[Behind(t, old, i)]
        /\ new \in Seq(A \ {c})
    BY LenProperties DEF Exchanges, Replaces
  <1>1. e \in i..Len(t) + 1
    BY <1>0, SeparatorStays
  <1>2. p \in Seq(A) /\ p # <<>> /\ Len(p) = 2 /\ \A k \in 1..Len(p) : p[k] # c
    <2>1. Word(A, c, p, 2)
      BY OptionWords
    <2> HIDE DEF p
    <2> QED
      BY <2>1 DEF Word
  <1>3. p[1] = sv /\ p[2] = eq
    OBVIOUS
  <1> HIDE DEF p
  <1>4. Matches(t, p, i)
    <2>1. MatchAt(t, p, i) <=> Matches(t, p, i)
      BY <1>0, <1>2, MatchIs
    <2> QED
      BY <2>1 DEF p
  <1>5. i + 2 <= e
    <2>1. Hit(t, {c}, p, 0, i - 1)
      BY <1>0, <1>2, MatchIsHit DEF p
    <2>2. i - 1 + 1 + 2 + 0 <= e
      <3>1. (i - 1) + 1 + Len(p) + 0 <= Upto(t, (i - 1) + 1, {c}) /\ (i - 1) + 1 = i
        BY <1>0, <2>1 DEF Hit
      <3> QED
        BY <1>2, <3>1
    <2> QED
      BY <1>0, <2>2
  <1>6. v = SubSeq(t, i + 2, e - 1)
    <2>1. (i - 1) + 1 = i /\ i + Len(p) = i + 2
      BY <1>0, <1>2
    <2>2. Value(t, {c}, p, i - 1) = v
      BY DEF p
    <2> QED
      BY <2>1, <2>2 DEF Value
  <1> HIDE DEF e
  <1>7. Len(v) = e - i - 2 /\ \A k \in 1..Len(v) : v[k] = t[i + 2 + k - 1]
    <2>1. \A j \in i + 2..e - 1 : t[j] \in A
      <3>1. \A j \in i + 2..e - 1 : j \in 1..Len(t)
        BY <1>0, <1>1
      <3> QED
        BY <1>0, <3>1, ElementOfSeq
    <2>2. i + 2 \in Int /\ e - 1 \in Int
      BY <1>0, <1>1
    <2>3. /\ Len(v) = IF i + 2 <= e - 1 THEN (e - 1) - (i + 2) + 1 ELSE 0
          /\ \A k \in 1..(e - 1) - (i + 2) + 1 : v[k] = t[i + 2 + k - 1]
      BY <1>6, <2>1, <2>2, SubSeqProperties
    <2> QED
      <3>1. (e - 1) - (i + 2) + 1 = e - i - 2 /\ (i + 2 <= e - 1 \/ e - i - 2 = 0)
        BY <1>0, <1>1, <1>5
      <3>2. Len(v) = e - i - 2
        BY <2>3, <3>1
      <3> QED
        BY <2>3, <3>1, <3>2
  <1>8. /\ old \in Seq(A) /\ Len(old) = 2 + Len(v) /\ Len(v) \in Nat
        /\ old[1] = sv /\ old[2] = eq /\ \A k \in 1..Len(v) : old[2 + k] = v[k]
    BY RenamesIs DEF OptionSymbols
  <1>9. i + Len(old) = e
    BY <1>0, <1>1, <1>7, <1>8
  <1>10. MatchAt(t, old, i)
    <2>1. ASSUME NEW k \in 1..Len(old) PROVE t[i + k - 1] = old[k]
      <3>1. t[i + 1 - 1] = sv /\ t[i + 2 - 1] = eq
        BY <1>2, <1>3, <1>4 DEF Matches
      <3>2. CASE k \in 1..2
        <4>1. k = 1 \/ k = 2
          BY <3>2
        <4> QED
          BY <1>8, <3>1, <4>1
      <3>3. CASE k \in 3..Len(old)
        <4>1. /\ k - 2 \in 1..Len(v) /\ 2 + (k - 2) = k
              /\ i + 2 + (k - 2) - 1 = i + k - 1
          BY <1>0, <1>8, <3>3
        <4>2. old[2 + (k - 2)] = v[k - 2] /\ v[k - 2] = t[i + 2 + (k - 2) - 1]
          BY <1>7, <1>8, <4>1
        <4> QED
          BY <4>1, <4>2
      <3> QED
        BY <1>8, <3>2, <3>3
    <2>2. i + Len(old) - 1 <= Len(t)
      BY <1>0, <1>1, <1>9
    <2>3. Matches(t, old, i)
      BY <2>1, <2>2 DEF Matches
    <2>4. MatchAt(t, old, i) <=> Matches(t, old, i)
      BY <1>0, <1>8, MatchIs
    <2> QED
      BY <2>3, <2>4
  <1>11. f[i] = new \o f[e]
    BY <1>0, <1>9, <1>10 DEF Written, Behind
  <1>12. PICK s : Divided(f[i], A, c, s, f[e])
    BY <1>0, ItemByItem DEF e
  <1>13. Divided(f[i], A, c, new, f[e])
    BY <1>0, <1>11, <1>12 DEF Divided
  <1> QED
    BY <1>13 DEF e

\* An item that is the longer option stays, if its value has no eq.
LEMMA LongerOptionStays ==
    ASSUME NEW A, NEW c, NEW sv, NEW id, NEW eq, NEW vr, OptionSymbols(A, c, sv, id, eq, vr),
           NEW t, NEW f, NEW old, NEW new, Exchanges(f, t, A, c, old, new),
           NEW v \in Seq(A), Renames(old, new, sv, eq, vr, v), NEW i \in 1..Len(t),
           MatchAt(t, <<sv, id, eq>>, i),
           eq \notin ToSet(Value(t, {c}, <<sv, id, eq>>, i - 1))
    PROVE  Divided(f[i], A, c, ItemAt(t, {c}, i - 1), f[Upto(t, i, {c})])
  <1> DEFINE e == Upto(t, i, {c})
             q == <<sv, id, eq>>
             x == Value(t, {c}, q, i - 1)
  <1>0. t \in Seq(A) /\ Len(t) \in Nat /\ i \in 1..Len(t) + 1 /\ i \in Nat \ {0}
    BY LenProperties DEF Exchanges
  <1>1. /\ e \in i..Len(t) + 1
        /\ \A j \in i..e - 1 : t[j] # c
        /\ e <= Len(t) => t[e] = c
    <2>1. /\ e \in i..Len(t) + 1
          /\ e <= Len(t) => t[e] = c /\ f[e] = <<c>> \o f[e + 1]
          /\ e = Len(t) + 1 => f[e] = <<>>
          /\ \A j \in i..e - 1 : t[j] # c /\ Behind(t, old, j) \in j + 1..e
      BY <1>0, SeparatorStays
    <2> HIDE DEF e
    <2> QED
      BY <2>1
  <1>2. q \in Seq(A) /\ Len(q) = 3 /\ q[1] = sv /\ q[2] = id /\ q[3] = eq
    <2>1. q[1] = sv /\ q[2] = id /\ q[3] = eq
      OBVIOUS
    <2>2. Word(A, c, q, 3)
      BY OptionWords
    <2> HIDE DEF q
    <2> QED
      BY <2>1, <2>2 DEF Word
  <1> HIDE DEF q
  <1>3. t[i] = sv /\ t[i + 1] = id /\ t[i + 2] = eq
    <2>1. MatchAt(t, q, i) <=> Matches(t, q, i)
      BY <1>0, <1>2, MatchIs
    <2>2. \A k \in 1..Len(q) : t[i + k - 1] = q[k]
      BY <2>1 DEF Matches, q
    <2>3. 1 \in 1..Len(q) /\ 2 \in 1..Len(q) /\ 3 \in 1..Len(q)
          /\ i + 1 - 1 = i /\ i + 2 - 1 = i + 1 /\ i + 3 - 1 = i + 2
      BY <1>0, <1>2
    <2>4. t[i + 1 - 1] = q[1] /\ t[i + 2 - 1] = q[2] /\ t[i + 3 - 1] = q[3]
      BY <2>2, <2>3
    <2> QED
      BY <1>2, <2>3, <2>4
  <1>4. x = SubSeq(t, i + 3, e - 1)
    <2>1. (i - 1) + 1 = i /\ i + Len(q) = i + 3
      BY <1>0, <1>2
    <2> QED
      BY <2>1 DEF Value
  <1>5. eq \notin ToSet(x)
    BY DEF q
  <1> HIDE DEF e, x
  <1>6. \A j \in i + 3..e - 1 : t[j] # eq
    <2>1. \A j \in i + 3..e - 1 : t[j] \in A
      <3>1. \A j \in i + 3..e - 1 : j \in 1..Len(t)
        BY <1>0, <1>1
      <3> QED
        BY <1>0, <3>1, ElementOfSeq
    <2>2. i + 3 \in Int /\ e - 1 \in Int
      BY <1>0, <1>1
    <2>3. /\ x \in Seq(A) /\ Len(x) = IF i + 3 <= e - 1 THEN (e - 1) - (i + 3) + 1 ELSE 0
          /\ \A k \in 1..(e - 1) - (i + 3) + 1 : x[k] = t[i + 3 + k - 1]
      <3> DEFINE m == i + 3
                 n == e - 1
                 y == SubSeq(t, m, n)
      <3>1. m \in Int /\ n \in Int /\ \A j \in m..n : t[j] \in A
        BY <2>1, <2>2
      <3> HIDE DEF m, n
      <3>2. /\ y \in Seq(A) /\ Len(y) = IF m <= n THEN n - m + 1 ELSE 0
            /\ \A k \in 1..n - m + 1 : y[k] = t[m + k - 1]
        BY <3>1, SubSeqProperties
      <3> HIDE DEF y
      <3>3. x = y
        BY <1>4 DEF y, m, n
      <3> QED
        BY <3>2, <3>3 DEF m, n
    <2>4. ASSUME NEW j \in i + 3..e - 1 PROVE t[j] # eq
      <3>1. j - (i + 3) + 1 \in 1..Len(x) /\ i + 3 + (j - (i + 3) + 1) - 1 = j
            /\ j - (i + 3) + 1 \in 1..(e - 1) - (i + 3) + 1
        BY <1>0, <1>1, <2>3
      <3>2. x[j - (i + 3) + 1] = t[j]
        BY <2>3, <3>1
      <3>3. x[j - (i + 3) + 1] \in ToSet(x)
        <4>1. DOMAIN x = 1..Len(x)
          BY <2>3, LenProperties
        <4> QED
          BY <3>1, <4>1 DEF ToSet
      <3> QED
        BY <1>5, <3>2, <3>3
    <2> QED
      BY <2>4
  <1>7. /\ old \in Seq(A) /\ Len(old) = 2 + Len(v) /\ Len(v) \in Nat
        /\ old[1] = sv /\ old[2] = eq
    BY RenamesIs DEF OptionSymbols
  <1>8. ASSUME NEW j \in i..e - 1, MatchAt(t, old, j) PROVE FALSE
    <2>0. j \in Nat \ {0}
      BY <1>0, <1>8
    <2>1. MatchAt(t, old, j) <=> Matches(t, old, j)
      BY <1>0, <1>7, <2>0, MatchIs
    <2>2. /\ j + Len(old) - 1 <= Len(t)
          /\ \A k \in 1..Len(old) : t[j + k - 1] = old[k]
      BY <1>8, <2>1 DEF Matches
    <2>3. t[j] = sv /\ t[j + 1] = eq /\ j + 1 <= Len(t)
      <3>1. 1 \in 1..Len(old) /\ 2 \in 1..Len(old) /\ j + 1 - 1 = j /\ j + 2 - 1 = j + 1
        BY <1>7, <2>0
      <3>2. t[j + 1 - 1] = old[1] /\ t[j + 2 - 1] = old[2]
        BY <2>2, <3>1
      <3>3. j + 1 <= Len(t)
        BY <1>0, <1>7, <2>0, <2>2
      <3> QED
        BY <1>7, <3>1, <3>2, <3>3
    <2>4. sv # eq /\ id # eq /\ id # sv /\ eq # c
      BY DEF OptionSymbols
    <2>5. j + 1 # e
      BY <1>0, <1>1, <2>3, <2>4
    <2>6. j # i /\ j # i + 1
      BY <1>3, <2>3, <2>4
    <2>7. j + 1 \in i + 3..e - 1
      BY <1>0, <1>1, <2>0, <2>5, <2>6
    <2> QED
      BY <1>6, <2>3, <2>7
  <1>9. \A j \in i..e - 1 : ~MatchAt(t, old, j)
    BY <1>8
  <1> QED
    BY <1>0, <1>9, ItemStays DEF e

\* The value of an option is what its item has behind the key.
LEMMA ValueOfItem ==
    ASSUME NEW A, NEW t \in Seq(A), NEW S, NEW w \in Seq(A), w # <<>>, NEW e \in 0..Len(t),
           Hit(t, S, w, 0, e)
    PROVE  Value(t, S, w, e) = SubSeq(ItemAt(t, S, e), Len(w) + 1, Len(ItemAt(t, S, e)))
  <1>1. 0 \in Nat
    OBVIOUS
  <1> QED
    BY <1>1, HitsAre

\* The value of the new option.
LEMMA NewValue ==
    ASSUME NEW sv, NEW eq, NEW vr, NEW old, NEW new, NEW v, Renames(old, new, sv, eq, vr, v)
    PROVE  Len(new) = 3 /\ SubSeq(new, 3, 3) = <<vr>>
  <1> DEFINE B == {sv, eq, vr}
  <1>1. new \in Seq(B) /\ Len(new) = 3 /\ new[3] = vr
    BY DEF Renames
  <1>2. SubSeq(new, 3, 3) = <<new[3]>> \o SubSeq(new, 3 + 1, 3)
    <2>1. 3 \in 1..Len(new) /\ 3 \in 3..Len(new)
      BY <1>1
    <2> QED
      BY <1>1, <2>1, SubSeqRecursiveFirst
  <1>3. SubSeq(new, 3 + 1, 3) = <<>>
    BY SubSeqEmpty
  <1>4. <<vr>> \in Seq(B)
    OBVIOUS
  <1>5. <<vr>> \o <<>> = <<vr>>
    BY <1>4, ConcatEmptySeq
  <1> QED
    BY <1>1, <1>2, <1>3, <1>5

\* The new option is at the head of what it was put in front of.
LEMMA NewAtHead ==
    ASSUME NEW A, NEW c, NEW u, NEW r, NEW sv \in A, NEW eq \in A, NEW vr \in A, NEW v, NEW old,
           NEW new, Renames(old, new, sv, eq, vr, v), Divided(u, A, c, new, r)
    PROVE  MatchAt(u, <<sv, eq>>, 1)
  <1> DEFINE p == <<sv, eq>>
  <1>1. new \in Seq(A) /\ Len(new) = 3 /\ new[1] = sv /\ new[2] = eq
    BY DEF Renames
  <1>2. p \in Seq(A) /\ Len(p) = 2 /\ p[1] = sv /\ p[2] = eq
    OBVIOUS
  <1>3. r \in Seq(A) /\ u = new \o r
    BY DEF Divided
  <1> HIDE DEF p
  <1>4. /\ Len(new \o r) = Len(new) + Len(r) /\ Len(r) \in Nat
        /\ \A k \in 1..Len(new) : (new \o r)[k] = new[k]
    <2>1. new \in Seq(A) /\ r \in Seq(A)
      BY <1>1, <1>3
    <2> QED
      BY <2>1, InFrontOf
  <1>5. u \in Seq(A)
    BY <1>1, <1>3, ConcatProperties
  <1>6. Matches(u, p, 1)
    <2>1. 1 \in 1..Len(new) /\ 2 \in 1..Len(new) /\ Len(u) = 3 + Len(r)
      BY <1>1, <1>3, <1>4
    <2>2. u[1] = sv /\ u[2] = eq
      BY <1>1, <1>3, <1>4, <2>1
    <2>3. \A k \in 1..Len(p) : k = 1 \/ k = 2
      BY <1>2
    <2> QED
      BY <1>2, <1>4, <2>1, <2>2, <2>3 DEF Matches
  <1>7. MatchAt(u, p, 1) <=> Matches(u, p, 1)
    <2>1. 1 \in Nat \ {0}
      OBVIOUS
    <2> QED
      BY <1>2, <1>5, <2>1, MatchIs
  <1> QED
    BY <1>6, <1>7 DEF p

\* An item begins with what matches at its start.
LEMMA ItemAtHead ==
    ASSUME NEW A, NEW c, NEW t \in Seq(A), NEW i \in 1..Len(t), NEW w \in Seq(A), w # <<>>,
           \A k \in 1..Len(w) : w[k] # c, MatchAt(t, w, i), NEW u, NEW r,
           Divided(u, A, c, ItemAt(t, {c}, i - 1), r)
    PROVE  MatchAt(u, w, 1)
  <1> DEFINE s == ItemAt(t, {c}, i - 1)
  <1>0. Len(t) \in Nat /\ Len(w) \in Nat \ {0} /\ i \in 1..Len(t) + 1 /\ i - 1 \in 0..Len(t)
    BY LenProperties, EmptySeq
  <1>1. IsPrefix(w, s)
    <2>1. Hit(t, {c}, w, 0, i - 1)
      BY <1>0, MatchIsHit
    <2> QED
      BY <1>0, <2>1, HitsAre
  <1>2. s \in Seq(A) /\ r \in Seq(A) /\ u = s \o r
    <2>1. s \in Seq(A \ {c}) /\ r \in Seq(A) /\ u = s \o r
      BY DEF Divided
    <2>2. A \ {c} \subseteq A
      OBVIOUS
    <2> QED
      BY <2>1, <2>2, SeqMonotonic
  <1> HIDE DEF s
  <1>3. /\ Len(s) \in Nat /\ Len(r) \in Nat /\ Len(s \o r) = Len(s) + Len(r)
        /\ \A k \in 1..Len(s) : (s \o r)[k] = s[k]
        /\ \A k \in 1..Len(r) : (s \o r)[Len(s) + k] = r[k]
    BY <1>2, InFrontOf
  <1>4. u \in Seq(A)
    BY <1>2, ConcatProperties
  <1>5. 1 \in Nat \ {0}
    OBVIOUS
  <1>6. Matches(s, w, 1)
    <2>1. MatchAt(s, w, 1)
      <3>1. Len(w) <= Len(s) /\ SubSeq(w, 1, Len(w)) = SubSeq(s, 1, Len(w))
        BY <1>1 DEF IsPrefix
      <3>2. SubSeq(w, 1, Len(w)) = w
        BY SubSeqFull
      <3>3. 1 + Len(w) - 1 = Len(w)
        BY <1>0
      <3> QED
        BY <3>1, <3>2, <3>3 DEF MatchAt
    <2>2. MatchAt(s, w, 1) <=> Matches(s, w, 1)
      BY <1>2, <1>5, MatchIs
    <2> QED
      BY <2>1, <2>2
  <1>7. Matches(u, w, 1)
    <2>1. 1 + Len(w) - 1 <= Len(s) /\ \A k \in 1..Len(w) : s[1 + k - 1] = w[k]
      BY <1>6 DEF Matches
    <2>2. ASSUME NEW k \in 1..Len(w) PROVE u[1 + k - 1] = w[k]
      <3>1. 1 + k - 1 = k /\ k \in 1..Len(s)
        BY <1>0, <1>3, <2>1
      <3>2. s[k] = w[k]
        BY <2>1, <3>1
      <3>3. (s \o r)[k] = s[k]
        BY <1>3, <3>1
      <3> QED
        BY <1>2, <3>1, <3>2, <3>3
    <2>3. 1 + Len(w) - 1 <= Len(u)
      BY <1>0, <1>2, <1>3, <2>1
    <2> QED
      BY <2>2, <2>3 DEF Matches
  <1>8. MatchAt(u, w, 1) <=> Matches(u, w, 1)
    BY <1>4, <1>5, MatchIs
  <1> QED
    BY <1>7, <1>8

\* Both options are found where they were, the one with its new value.
LEMMA OptionsAreRenamed ==
    ASSUME NEW A, NEW c, NEW sv, NEW id, NEW eq, NEW vr, OptionSymbols(A, c, sv, id, eq, vr),
           NEW t, NEW f, NEW old, NEW new, Exchanges(f, t, A, c, old, new),
           NEW v \in Seq(A), Renames(old, new, sv, eq, vr, v)
    PROVE  MadeOf(f, t, c, <<sv, eq>>, <<sv, id, eq>>, eq, vr, v, 1)
  <1> DEFINE n  == Len(t) + 1
             p  == <<sv, eq>>
             q  == <<sv, id, eq>>
             P  == OptionFrom(t, {c}, p)
             Q  == OptionFrom(t, {c}, q)
             Clean(i) == Q[i] = Nothing \/ eq \notin ToSet(Q[i][1])
             G  == {i \in 1..n : /\ P[i] = Some(v) => OptionFound(f[i], {c}, p) = Some(<<vr>>)
                                 /\ Clean(i) => OptionFound(f[i], {c}, q) = Q[i]}
  <1>0. /\ t \in Seq(A) /\ Len(t) \in Nat /\ n \in Nat
        /\ \A i \in 1..n : f[i] \in Seq(A)
        /\ f[n] = <<>> /\ new \in Seq(A \ {c}) /\ Replaces(f, t, A, old, new)
    BY LenProperties DEF Exchanges, Replaces
  <1>1. Word(A, c, p, 2) /\ Word(A, c, q, 3) /\ SubSeq(new, 3, 3) = <<vr>> /\ Len(new) = 3
    <2>1. Word(A, c, p, 2) /\ Word(A, c, q, 3)
      BY OptionWords, Zenon
    <2>2. SubSeq(new, 3, 3) = <<vr>> /\ Len(new) = 3
      BY NewValue
    <2> QED
      BY <2>1, <2>2, Zenon
  <1>2. /\ p \in Seq(A) /\ p # <<>> /\ Len(p) = 2 /\ \A k \in 1..Len(p) : p[k] # c
        /\ q \in Seq(A) /\ q # <<>> /\ Len(q) = 3 /\ \A k \in 1..Len(q) : q[k] # c
    BY <1>1, Zenon DEF Word
  <1>3. ASSUME NEW i \in 1..n
        PROVE  /\ MatchAt(f[i], p, 1) => MatchAt(t, p, i)
               /\ MatchAt(f[i], q, 1) => MatchAt(t, q, i)
    <2>1. /\ sv \in A /\ eq \in A /\ vr \in A /\ id \in A
          /\ sv # eq /\ id # eq /\ id # sv
      BY DEF OptionSymbols
    <2> QED
      BY <1>0, <2>1, HeadsStay
  <1>4. ASSUME NEW i \in 1..Len(t), MatchAt(t, p, i), Value(t, {c}, p, i - 1) = v
        PROVE  Divided(f[i], A, c, new, f[Upto(t, i, {c})])
    BY <1>4, OptionIsReplaced
  <1>5. ASSUME NEW i \in 1..Len(t), MatchAt(t, q, i), eq \notin ToSet(Value(t, {c}, q, i - 1))
        PROVE  Divided(f[i], A, c, ItemAt(t, {c}, i - 1), f[Upto(t, i, {c})])
    BY <1>5, LongerOptionStays
  <1> HIDE DEF p, q
  <1>6. /\ P[n] = Nothing
        /\ \A i \in 1..Len(t) :
              P[i] = IF Hit(t, {c}, p, 0, i - 1) THEN Some(Value(t, {c}, p, i - 1))
                     ELSE P[IF Upto(t, i, {c}) <= Len(t) THEN Upto(t, i, {c}) + 1 ELSE n]
    BY <1>0, <1>2, OptionTurns
  <1>7. /\ Q[n] = Nothing
        /\ \A i \in 1..Len(t) :
              Q[i] = IF Hit(t, {c}, q, 0, i - 1) THEN Some(Value(t, {c}, q, i - 1))
                     ELSE Q[IF Upto(t, i, {c}) <= Len(t) THEN Upto(t, i, {c}) + 1 ELSE n]
    BY <1>0, <1>2, OptionTurns
  <1> HIDE DEF P, Q
  <1>8. ASSUME NEW w, Word(A, c, w, 2) \/ Word(A, c, w, 3), NEW i \in 1..n, NEW s, NEW e,
               Divided(f[i], A, c, s, f[e])
        PROVE  FoundIn(f[i], A, c, s, f[e], w)
    <2>1. w \in Seq(A) /\ w # <<>> /\ \A k \in 1..Len(w) : w[k] # c
      BY <1>8, Zenon DEF Word
    <2> QED
      BY <1>8, <2>1, FoundInFirst
  <1>9. ASSUME NEW i \in 1..n, \A j \in i + 1..n : j \in G
        PROVE  i \in G
    <2> DEFINE e == Upto(t, i, {c})
    <2>1. /\ e \in i..n
          /\ e <= Len(t) => f[e] = <<c>> \o f[e + 1]
          /\ e = n => f[e] = <<>>
      <3>1. /\ e \in i..Len(t) + 1
            /\ e <= Len(t) => t[e] = c /\ f[e] = <<c>> \o f[e + 1]
            /\ e = Len(t) + 1 => f[e] = <<>>
            /\ \A j \in i..e - 1 : t[j] # c /\ Behind(t, old, j) \in j + 1..e
        BY SeparatorStays
      <3> HIDE DEF e
      <3> QED
        BY <3>1
    <2>2. PICK s : Divided(f[i], A, c, s, f[e])
      BY ItemByItem
    <2>3. Hit(t, {c}, p, 0, i - 1) <=> MatchAt(t, p, i)
      BY <1>0, <1>2, MatchIsHit
    <2>4. Hit(t, {c}, q, 0, i - 1) <=> MatchAt(t, q, i)
      BY <1>0, <1>2, MatchIsHit
    <2>8. e <= Len(t) \/ e = n
      BY <1>0, <2>1
    <2>5. CASE i = n
      <3>1. e = n
        BY <1>0, <2>1, <2>5
      <3>2. f[e] = <<>> /\ f[i] = <<>> /\ P[i] = Nothing /\ Q[i] = Nothing
        BY <1>0, <1>6, <1>7, <2>5, <3>1
      <3>3. ~MatchAt(f[i], p, 1) /\ ~MatchAt(f[i], q, 1)
        BY <1>2, <3>2 DEF MatchAt
      <3>4. OptionFound(f[i], {c}, p) = Nothing /\ OptionFound(f[i], {c}, q) = Nothing
        <4> HIDE DEF e
        <4>1. FoundIn(f[i], A, c, s, f[e], p) /\ FoundIn(f[i], A, c, s, f[e], q)
          BY <1>1, <1>8, <2>2
        <4> QED
          BY <3>2, <3>3, <4>1 DEF FoundIn
      <3>5. Nothing # Some(v)
        BY DEF Nothing, Some
      <3> QED
        BY <3>2, <3>4, <3>5
    <2>6. CASE i \in 1..Len(t)
      <3>0. /\ P[i] = IF MatchAt(t, p, i) THEN Some(Value(t, {c}, p, i - 1))
                      ELSE P[IF e <= Len(t) THEN e + 1 ELSE n]
            /\ Q[i] = IF MatchAt(t, q, i) THEN Some(Value(t, {c}, q, i - 1))
                      ELSE Q[IF e <= Len(t) THEN e + 1 ELSE n]
        BY <1>6, <1>7, <2>3, <2>4, <2>6
      <3>1. ASSUME P[i] = Some(v), MatchAt(t, p, i)
            PROVE  OptionFound(f[i], {c}, p) = Some(<<vr>>)
        <4>1. Value(t, {c}, p, i - 1) = v
          <5>1. Some(Value(t, {c}, p, i - 1)) = Some(v)
            BY <3>0, <3>1
          <5> QED
            BY <5>1 DEF Some
        <4>2. Divided(f[i], A, c, new, f[e])
          BY <1>4, <2>6, <3>1, <4>1
        <4> HIDE DEF e
        <4>3. MatchAt(f[i], p, 1)
          <5>1. sv \in A /\ eq \in A /\ vr \in A
            BY DEF OptionSymbols
          <5> QED
            BY <4>2, <5>1, NewAtHead DEF p
        <4>4. FoundIn(f[i], A, c, new, f[e], p)
          BY <1>1, <1>8, <4>2
        <4>5. OptionFound(f[i], {c}, p) = Some(SubSeq(new, Len(p) + 1, Len(new)))
          BY <4>3, <4>4 DEF FoundIn
        <4>6. Len(p) + 1 = 3 /\ Len(new) = 3
          BY <1>1, <1>2
        <4> QED
          BY <1>1, <4>5, <4>6
      <3>2. ASSUME P[i] = Some(v), ~MatchAt(t, p, i)
            PROVE  OptionFound(f[i], {c}, p) = Some(<<vr>>)
        <4>1. ~MatchAt(f[i], p, 1)
          BY <1>3, <3>2
        <4> HIDE DEF e
        <4>2. CASE e <= Len(t)
          <5>1. P[e + 1] = Some(v) /\ e + 1 \in i + 1..n
            BY <1>0, <2>1, <3>0, <3>2, <4>2
          <5>2. OptionFound(f[e + 1], {c}, p) = Some(<<vr>>)
            BY <1>9, <5>1
          <5>3. f[e] = <<c>> \o f[e + 1] /\ f[e + 1] \in Seq(A)
            <6>1. f[e] = <<c>> \o f[e + 1]
              BY <2>1, <4>2
            <6>2. e + 1 \in 1..n
              BY <5>1
            <6>3. f[e + 1] \in Seq(A)
              BY <1>0, <6>2
            <6> QED
              BY <6>1, <6>3
          <5>4. OptionFound(f[i], {c}, p) = OptionFound(f[e + 1], {c}, p)
            <6>1. FoundIn(f[i], A, c, s, f[e], p)
              BY <1>1, <1>8, <2>2
            <6> QED
              BY <4>1, <5>3, <6>1 DEF FoundIn
          <5> QED
            BY <5>2, <5>4
        <4>3. CASE e = n
          <5>1. P[i] = Nothing
            <6>1. ~(e <= Len(t))
              BY <1>0, <4>3
            <6> QED
              BY <1>6, <3>0, <3>2, <6>1
          <5>2. Nothing # Some(v)
            BY DEF Nothing, Some
          <5> QED
            BY <3>2, <5>1, <5>2, Zenon
        <4> QED
          BY <2>8, <4>2, <4>3, Zenon
      <3>3. ASSUME Clean(i), MatchAt(t, q, i)
            PROVE  OptionFound(f[i], {c}, q) = Q[i]
        <4>1. Q[i] = Some(Value(t, {c}, q, i - 1))
          BY <3>0, <3>3
        <4>2. eq \notin ToSet(Value(t, {c}, q, i - 1))
          <5>1. Q[i] # Nothing /\ Q[i][1] = Value(t, {c}, q, i - 1)
            BY <4>1 DEF Nothing, Some
          <5> QED
            BY <3>3, <5>1
        <4>3. Divided(f[i], A, c, ItemAt(t, {c}, i - 1), f[e])
          BY <1>5, <2>6, <3>3, <4>2
        <4>4. MatchAt(f[i], q, 1)
          BY <2>6, <3>3, <4>3, ItemAtHead, <1>0, <1>2
        <4>5. OptionFound(f[i], {c}, q) =
                 Some(SubSeq(ItemAt(t, {c}, i - 1), Len(q) + 1, Len(ItemAt(t, {c}, i - 1))))
          <5> HIDE DEF e
          <5>1. FoundIn(f[i], A, c, ItemAt(t, {c}, i - 1), f[e], q)
            BY <1>1, <1>8, <4>3
          <5> QED
            BY <4>4, <5>1 DEF FoundIn
        <4>6. Value(t, {c}, q, i - 1) =
                 SubSeq(ItemAt(t, {c}, i - 1), Len(q) + 1, Len(ItemAt(t, {c}, i - 1)))
          <5>1. i - 1 \in 0..Len(t) /\ Hit(t, {c}, q, 0, i - 1)
            BY <1>0, <2>4, <2>6, <3>3
          <5>2. t \in Seq(A) /\ q \in Seq(A) /\ q # <<>>
            BY <1>0, <1>2
          <5> QED
            BY <5>1, <5>2, ValueOfItem, Zenon
        <4> QED
          BY <4>1, <4>5, <4>6
      <3>4. ASSUME Clean(i), ~MatchAt(t, q, i)
            PROVE  OptionFound(f[i], {c}, q) = Q[i]
        <4>1. ~MatchAt(f[i], q, 1)
          BY <1>3, <3>4
        <4> HIDE DEF e
        <4>2. CASE e <= Len(t)
          <5>1. Q[i] = Q[e + 1] /\ e + 1 \in i + 1..n
            BY <1>0, <2>1, <3>0, <3>4, <4>2
          <5>2. OptionFound(f[e + 1], {c}, q) = Q[e + 1]
            BY <1>9, <3>4, <5>1
          <5>3. f[e] = <<c>> \o f[e + 1] /\ f[e + 1] \in Seq(A)
            <6>1. f[e] = <<c>> \o f[e + 1]
              BY <2>1, <4>2
            <6>2. e + 1 \in 1..n
              BY <5>1
            <6>3. f[e + 1] \in Seq(A)
              BY <1>0, <6>2
            <6> QED
              BY <6>1, <6>3
          <5>4. OptionFound(f[i], {c}, q) = OptionFound(f[e + 1], {c}, q)
            <6>1. FoundIn(f[i], A, c, s, f[e], q)
              BY <1>1, <1>8, <2>2
            <6> QED
              BY <4>1, <5>3, <6>1 DEF FoundIn
          <5> QED
            BY <5>1, <5>2, <5>4
        <4>3. CASE e = n
          <5>1. Q[i] = Nothing /\ f[e] = <<>>
            BY <1>0, <1>7, <2>1, <3>0, <3>4, <4>3
          <5>2. OptionFound(f[i], {c}, q) = Nothing
            <6>1. FoundIn(f[i], A, c, s, f[e], q)
              BY <1>1, <1>8, <2>2
            <6> QED
              BY <4>1, <5>1, <6>1 DEF FoundIn
          <5> QED
            BY <5>1, <5>2
        <4> QED
          BY <2>8, <4>2, <4>3, Zenon
      <3> QED
        BY <3>1, <3>2, <3>3, <3>4
    <2>7. i = n \/ i \in 1..Len(t)
      BY <1>0
    <2> QED
      BY <2>5, <2>6, <2>7, Zenon
  <1>10. 1 \in G
    <2>1. \A i \in 1..n : i \in G
      <3> HIDE DEF G
      <3> QED
        BY <1>0, <1>9, FromTheEnd
    <2>2. 1 \in 1..n
      BY <1>0
    <2> QED
      BY <2>1, <2>2, Zenon
  <1> QED
    BY <1>10, Zenon DEF MadeOf, P, Q, p, q

\* The value of an option has no separator.
LEMMA ValueHasNoSeparator ==
    ASSUME NEW A, NEW c, NEW t \in Seq(A), NEW w \in Seq(A), w # <<>>, NEW v,
           OptionFound(t, {c}, w) = Some(v)
    PROVE  v \in Seq(A \ {c})
  <1> DEFINE f == OptionFrom(t, {c}, w)
             n == Len(t) + 1
             G == {i \in 1..n : f[i] = Some(v) => v \in Seq(A \ {c})}
  <1>0. Len(t) \in Nat /\ n \in Nat /\ Len(w) \in Nat \ {0}
    BY LenProperties, EmptySeq
  <1>1. /\ f[n] = Nothing
        /\ \A i \in 1..Len(t) :
              f[i] = IF Hit(t, {c}, w, 0, i - 1) THEN Some(Value(t, {c}, w, i - 1))
                     ELSE f[IF Upto(t, i, {c}) <= Len(t) THEN Upto(t, i, {c}) + 1 ELSE n]
    BY OptionTurns
  <1>2. f[1] = Some(v)
    BY DEF OptionFound
  <1> HIDE DEF f
  <1>3. ASSUME NEW i \in 1..Len(t) PROVE Value(t, {c}, w, i - 1) \in Seq(A \ {c})
    <2> DEFINE e == Upto(t, i, {c})
               a == i + Len(w)
    <2>1. e \in i..n /\ \A j \in i..e - 1 : t[j] \notin {c}
      <3>1. i \in 1..Len(t) + 1
        BY <1>0
      <3> QED
        BY <3>1, UptoIs
    <2>2. Value(t, {c}, w, i - 1) = SubSeq(t, a, e - 1)
      <3>1. (i - 1) + 1 = i
        OBVIOUS
      <3> QED
        BY <3>1 DEF Value
    <2> HIDE DEF e
    <2>3. \A j \in a..e - 1 : t[j] \in A \ {c}
      <3>1. ASSUME NEW j \in a..e - 1 PROVE t[j] \in A \ {c}
        <4>1. j \in 1..Len(t) /\ j \in i..e - 1
          BY <1>0, <2>1
        <4>2. t[j] \in A
          BY <4>1, ElementOfSeq
        <4> QED
          BY <2>1, <4>1, <4>2
      <3> QED
        BY <3>1
    <2>4. a \in Int /\ e - 1 \in Int
      BY <1>0, <2>1
    <2> HIDE DEF a
    <2>5. SubSeq(t, a, e - 1) \in Seq(A \ {c})
      BY <2>3, <2>4, SubSeqProperties
    <2> QED
      BY <2>2, <2>5
  <1>4. ASSUME NEW i \in 1..n, \A j \in i + 1..n : j \in G
        PROVE  i \in G
    <2>1. SUFFICES ASSUME f[i] = Some(v) PROVE v \in Seq(A \ {c})
      OBVIOUS
    <2>2. i \in 1..Len(t)
      <3>1. Nothing # Some(v)
        BY DEF Nothing, Some
      <3>2. i # n
        BY <1>1, <2>1, <3>1
      <3> QED
        BY <1>0, <3>2
    <2>3. CASE Hit(t, {c}, w, 0, i - 1)
      <3>1. Some(Value(t, {c}, w, i - 1)) = Some(v)
        BY <1>1, <2>1, <2>2, <2>3
      <3>2. Value(t, {c}, w, i - 1) = v
        BY <3>1 DEF Some
      <3> QED
        BY <1>3, <2>2, <3>2
    <2>4. CASE ~Hit(t, {c}, w, 0, i - 1)
      <3> DEFINE m == IF Upto(t, i, {c}) <= Len(t) THEN Upto(t, i, {c}) + 1 ELSE n
      <3>1. Upto(t, i, {c}) \in i..Len(t) + 1
        <4>1. i \in 1..Len(t) + 1
          BY <1>0
        <4> QED
          BY <4>1, UptoIs
      <3>2. m \in i + 1..n
        BY <1>0, <2>2, <3>1
      <3>3. f[m] = Some(v)
        BY <1>1, <2>1, <2>2, <2>4
      <3> HIDE DEF m
      <3> QED
        BY <1>4, <3>2, <3>3
    <2> QED
      BY <2>3, <2>4
  <1>5. 1 \in G
    <2>1. \A i \in 1..n : i \in G
      <3> HIDE DEF G
      <3> QED
        BY <1>0, <1>4, FromTheEnd
    <2>2. 1 \in 1..n
      BY <1>0
    <2> QED
      BY <2>1, <2>2, Zenon
  <1> QED
    BY <1>2, <1>5

\* The options are those of t, with vr for the value of the shorter one.
Renamed(u, t, c, p, q, eq, vr) ==
    /\ OptionFound(u, {c}, p) = Some(<<vr>>)
    /\ OptionFound(t, {c}, q) = Nothing \/ eq \notin ToSet(OptionFound(t, {c}, q)[1]) =>
          OptionFound(u, {c}, q) = OptionFound(t, {c}, q)

\* The function str::replace() is defined by.
ReplaceFrom(t, old, new) ==
    CHOOSE f : f = [i \in 1..Len(t) + 1 |-> ReplaceBody(f, t, old, new, i)]

\* What step 10 of migrate makes of options.
LEMMA RootIsRenamed ==
    ASSUME NEW A, NEW c, NEW sv, NEW id, NEW eq, NEW vr, OptionSymbols(A, c, sv, id, eq, vr),
           NEW t \in Seq(A), NEW root, OptionFound(t, {c}, <<sv, eq>>) = Some(root),
           NEW old, NEW new, Renames(old, new, sv, eq, vr, root)
    PROVE  Renamed(ReplaceFrom(t, old, new)[1], t, c, <<sv, eq>>, <<sv, id, eq>>, eq, vr)
  <1> DEFINE p == <<sv, eq>>
             q == <<sv, id, eq>>
             from == ReplaceFrom(t, old, new)
  <1>1. /\ sv \in A /\ id \in A /\ eq \in A /\ vr \in A
        /\ sv # c /\ id # c /\ eq # c /\ vr # c
    BY DEF OptionSymbols
  <1>2. p \in Seq(A) /\ p # <<>>
    BY <1>1
  <1>3. root \in Seq(A \ {c}) /\ root \in Seq(A)
    <2>1. root \in Seq(A \ {c})
      <3> HIDE DEF p
      <3> QED
        BY <1>2, ValueHasNoSeparator DEF p
    <2>2. A \ {c} \subseteq A
      OBVIOUS
    <2> QED
      BY <2>1, <2>2, SeqMonotonic
  <1>4. /\ old \in Seq(A \ {c}) /\ new \in Seq(A \ {c})
        /\ old \in Seq(A) /\ new \in Seq(A) /\ old # <<>>
    <2>1. sv \in A \ {c} /\ eq \in A \ {c} /\ vr \in A \ {c}
      BY <1>1
    <2>2. old \in Seq(A \ {c}) /\ new \in Seq(A \ {c}) /\ old # <<>>
      <3> DEFINE C == A \ {c}
      <3>1. sv \in C /\ eq \in C /\ vr \in C /\ root \in Seq(C)
        BY <1>3, <2>1
      <3> HIDE DEF C
      <3>2. old \in Seq(C) /\ new \in Seq(C) /\ old # <<>>
        BY <3>1, RenamesIs
      <3> QED
        BY <3>2 DEF C
    <2>3. A \ {c} \subseteq A
      OBVIOUS
    <2> QED
      BY <2>2, <2>3, SeqMonotonic
  <1>5. Exchanges(from, t, A, c, old, new)
    <2>1. Replaces(from, t, A, old, new)
      <3>1. from = CHOOSE f : f = [i \in 1..Len(t) + 1 |-> ReplaceBody(f, t, old, new, i)]
        BY Zenon DEF ReplaceFrom
      <3> HIDE DEF from
      <3> QED
        BY <1>4, <3>1, ReplaceLoop
    <2> QED
      BY <1>4, <2>1 DEF Exchanges
  <1> HIDE DEF p, q, from
  <1>6. MadeOf(from, t, c, p, q, eq, vr, root, 1)
    BY <1>3, <1>5, OptionsAreRenamed DEF p, q
  <1>7. Renamed(from[1], t, c, p, q, eq, vr)
    BY <1>6, Zenon DEF MadeOf, Renamed, OptionFound, p
  <1> QED
    BY <1>7 DEF p, q, from

\* find_option is the loop on the key and "=".
LEMMA FindOptionIs ==
    ASSUME NEW A, NEW t, NEW key \in Seq(A), "=" \in A
    PROVE  FindOption(t, key) = OptionFound(t, {","}, key \o <<"=">>)
  <1> DEFINE w == key \o <<"=">>
  <1>1. Len(w) - 1 = Len(key)
    <2>1. <<"=">> \in Seq(A) /\ Len(<<"=">>) = 1
      OBVIOUS
    <2> QED
      BY <2>1, ConcatProperties, LenProperties
  <1>2. FindOption(t, key) =
           (CHOOSE f : f = [i \in 1..Len(t) + 1 |->
                               OptionBody(f, t, {","}, w, Len(key), i)])[1]
    BY Zenon DEF FindOption, OptionBody
  <1> HIDE DEF w
  <1>3. FindOption(t, key) =
           (CHOOSE f : f = [i \in 1..Len(t) + 1 |->
                               OptionBody(f, t, {","}, w, Len(w) - 1, i)])[1]
    BY <1>1, <1>2, Zenon
  <1> QED
    BY <1>3, Zenon DEF OptionFound, OptionFrom, w

\* What find_option finds is nothing or something.
LEMMA FoundIsSome ==
    ASSUME NEW A, NEW t \in Seq(A), NEW S, NEW w \in Seq(A), w # <<>>,
           OptionFound(t, S, w) # Nothing
    PROVE  OptionFound(t, S, w) = Some(OptionFound(t, S, w)[1])
  <1> DEFINE f == OptionFrom(t, S, w)
             n == Len(t) + 1
             G == {i \in 1..n : f[i] = Nothing \/ f[i] = Some(f[i][1])}
  <1>0. Len(t) \in Nat /\ n \in Nat
    BY LenProperties
  <1>1. /\ f[n] = Nothing
        /\ \A i \in 1..Len(t) :
              f[i] = IF Hit(t, S, w, 0, i - 1) THEN Some(Value(t, S, w, i - 1))
                     ELSE f[IF Upto(t, i, S) <= Len(t) THEN Upto(t, i, S) + 1 ELSE n]
    BY OptionTurns
  <1> HIDE DEF f
  <1>2. ASSUME NEW i \in 1..n, \A j \in i + 1..n : j \in G
        PROVE  i \in G
    <2>1. CASE i = n
      BY <1>0, <1>1, <2>1
    <2>2. CASE i \in 1..Len(t) /\ Hit(t, S, w, 0, i - 1)
      <3>1. f[i] = Some(Value(t, S, w, i - 1))
        BY <1>1, <2>2
      <3>2. f[i] = Some(f[i][1])
        BY <3>1 DEF Some
      <3> QED
        BY <3>2
    <2>3. CASE i \in 1..Len(t) /\ ~Hit(t, S, w, 0, i - 1)
      <3> DEFINE m == IF Upto(t, i, S) <= Len(t) THEN Upto(t, i, S) + 1 ELSE n
      <3>1. Upto(t, i, S) \in i..Len(t) + 1
        <4>1. i \in 1..Len(t) + 1
          BY <1>0
        <4> QED
          BY <4>1, UptoIs
      <3>2. m \in i + 1..n
        BY <1>0, <2>3, <3>1
      <3>3. f[i] = f[m]
        BY <1>1, <2>3
      <3> HIDE DEF m
      <3>4. m \in G
        BY <1>2, <3>2
      <3> QED
        BY <3>3, <3>4
    <2>4. i = n \/ i \in 1..Len(t)
      BY <1>0
    <2> QED
      BY <2>1, <2>2, <2>3, <2>4, Zenon
  <1>3. 1 \in G
    <2>1. \A i \in 1..n : i \in G
      <3> HIDE DEF G
      <3> QED
        BY <1>0, <1>2, FromTheEnd
    <2>2. 1 \in 1..n
      BY <1>0
    <2> QED
      BY <2>1, <2>2, Zenon
  <1> QED
    BY <1>3 DEF f, OptionFound

\* Two symbols behind one another.
LEMMA TwoSymbols ==
    ASSUME NEW x, NEW y
    PROVE  /\ <<x>> \o <<y>> = <<x, y>>
           /\ <<x>> \in Seq({x, y}) /\ <<x, y>> \in Seq({x, y}) /\ Len(<<x, y>>) \in Nat \ {0}
  <1>1. <<x>> \in Seq({x, y}) /\ <<y>> \in Seq({x, y}) /\ <<x, y>> \in Seq({x, y})
        /\ Len(<<x>>) = 1 /\ Len(<<y>>) = 1 /\ Len(<<x, y>>) = 2
    OBVIOUS
  <1> DEFINE s == <<x>> \o <<y>>
  <1>2. /\ s \in Seq({x, y}) /\ Len(s) = 2
        /\ \A i \in 1..2 : s[i] = IF i <= 1 THEN <<x>>[i] ELSE <<y>>[i - 1]
    <2> DEFINE a == <<x>>
               b == <<y>>
    <2>1. a \in Seq({x, y}) /\ b \in Seq({x, y}) /\ Len(a) = 1 /\ Len(b) = 1
      BY <1>1
    <2> HIDE DEF a, b
    <2>2. /\ a \o b \in Seq({x, y}) /\ Len(a \o b) = 2
          /\ \A i \in 1..2 : (a \o b)[i] = IF i <= 1 THEN a[i] ELSE b[i - 1]
      BY <2>1, ConcatProperties
    <2> QED
      BY <2>2 DEF a, b
  <1> HIDE DEF s
  <1>3. s[1] = x /\ s[2] = y
    BY <1>2
  <1>4. \A i \in 1..Len(s) : s[i] = <<x, y>>[i]
    BY <1>2, <1>3
  <1>5. s = <<x, y>>
    BY <1>1, <1>2, <1>4, SeqEqual
  <1> QED
    BY <1>1, <1>5 DEF s

\* Three symbols in a row.
LEMMA ThreeSymbols ==
    ASSUME NEW x, NEW y, NEW z
    PROVE  <<x, y>> \o <<z>> = <<x, y, z>>
  <1> DEFINE s == <<x, y>> \o <<z>>
             B == {x, y, z}
  <1>1. <<x, y>> \in Seq(B) /\ <<z>> \in Seq(B) /\ <<x, y, z>> \in Seq(B)
    OBVIOUS
  <1> DEFINE h == <<x, y>>
             l == <<z>>
             m == <<x, y, z>>
  <1>2. /\ Len(h) = 2 /\ h[1] = x /\ h[2] = y /\ Len(l) = 1 /\ l[1] = z
        /\ Len(m) = 3 /\ m[1] = x /\ m[2] = y /\ m[3] = z
    OBVIOUS
  <1>3. s = h \o l
    OBVIOUS
  <1> HIDE DEF B, h, l, m, s
  <1>4. h \in Seq(B) /\ l \in Seq(B) /\ m \in Seq(B)
    BY <1>1 DEF h, l, m
  <1>5. /\ s \in Seq(B) /\ Len(s) = 3
        /\ \A i \in 1..2 : s[i] = h[i]
        /\ \A i \in 1..1 : s[2 + i] = l[i]
    <2>1. h \o l \in Seq(B)
      BY <1>4, ConcatProperties
    <2>2. /\ Len(h \o l) = Len(h) + Len(l)
          /\ \A i \in 1..Len(h) : (h \o l)[i] = h[i]
          /\ \A i \in 1..Len(l) : (h \o l)[Len(h) + i] = l[i]
      BY <1>4, InFrontOf
    <2> QED
      BY <1>2, <1>3, <2>1, <2>2
  <1>6. s[1] = x /\ s[2] = y /\ s[3] = z
    <2>1. 1 \in 1..2 /\ 2 \in 1..2 /\ 1 \in 1..1 /\ 2 + 1 = 3
      OBVIOUS
    <2>2. s[1] = h[1] /\ s[2] = h[2] /\ s[2 + 1] = l[1]
      BY <1>5, <2>1
    <2> QED
      BY <1>2, <2>1, <2>2
  <1>7. \A i \in 1..3 : i = 1 \/ i = 2 \/ i = 3
    OBVIOUS
  <1>8. s = m
    BY <1>2, <1>4, <1>5, <1>6, <1>7, SeqEqual
  <1> QED
    BY <1>3, <1>8 DEF h, l, m

\* What step 10 of migrate writes for /var, over any symbols.
LEMMA VarOptionsRename ==
    ASSUME NEW A, {",", "subvol", "id", "=", "var"} \subseteq A, NEW t \in Seq(A), NEW root,
           FindOption(t, <<"subvol">>) = Some(root)
    PROVE  /\ FindOption(VarOptions(t, root), <<"subvol">>) = Some(<<"var">>)
           /\ \/ FindOption(t, <<"subvol", "id">>) = Nothing
              \/ "=" \notin ToSet(FindOption(t, <<"subvol", "id">>)[1])
              => FindOption(VarOptions(t, root), <<"subvol", "id">>)
                    = FindOption(t, <<"subvol", "id">>)
  <1> DEFINE old == <<"subvol", "=">> \o root
             new == <<"subvol", "=", "var">>
             u   == VarOptions(t, root)
             k   == <<"subvol">>
             m   == <<"subvol", "id">>
             p   == <<"subvol", "=">>
             q   == <<"subvol", "id", "=">>
  <1>1. OptionSymbols(A, ",", "subvol", "id", "=", "var")
    BY Zenon DEF OptionSymbols
  <1>2. k \in Seq(A) /\ m \in Seq(A) /\ k \o <<"=">> = p /\ m \o <<"=">> = q /\ "=" \in A
    <2>1. k \in Seq({"subvol", "id"}) /\ m \in Seq({"subvol", "id"})
      BY TwoSymbols, Zenon
    <2>2. {"subvol", "id"} \subseteq A /\ "=" \in A
      BY Zenon
    <2>3. k \o <<"=">> = p
      BY TwoSymbols, Zenon
    <2>4. m \o <<"=">> = q
      BY ThreeSymbols, Zenon
    <2> HIDE DEF k, m, p, q
    <2> QED
      BY <2>1, <2>2, <2>3, <2>4, SeqMonotonic, Zenon
  <1>3. u = ReplaceFrom(t, old, new)[1]
    BY Zenon DEF VarOptions, Replace, ReplaceBody, ReplaceFrom
  <1>4. Renames(old, new, "subvol", "=", "var", root)
    BY Zenon DEF Renames
  <1> HIDE DEF k, m
  <1>5. ASSUME NEW x
        PROVE  /\ FindOption(x, k) = OptionFound(x, {","}, p)
               /\ FindOption(x, m) = OptionFound(x, {","}, q)
    BY <1>2, FindOptionIs, Zenon
  <1>6. OptionFound(t, {","}, p) = Some(root)
    BY <1>5, Zenon DEF k
  <1> HIDE DEF u, old, new
  <1>7. Renamed(u, t, ",", p, q, "=", "var")
    BY <1>1, <1>3, <1>4, <1>6, RootIsRenamed, Zenon
  <1> HIDE DEF p, q
  <1>8. /\ FindOption(u, k) = Some(<<"var">>)
        /\ FindOption(t, m) = Nothing \/ "=" \notin ToSet(FindOption(t, m)[1]) =>
              FindOption(u, m) = FindOption(t, m)
    BY <1>5, <1>7, Zenon DEF Renamed
  <1> QED
    BY <1>8, Zenon DEF u, k, m

-----------------------------------------------------------------------------
(* What the tool writes is a text of known symbols.                        *)

\* A part of a text is a text.
LEMMA PartIsText ==
    ASSUME NEW A, NEW t \in Seq(A), NEW i \in Int, NEW j \in Int, i >= 1, j <= Len(t)
    PROVE  SubSeq(t, i, j) \in Seq(A)
  <1>1. Len(t) \in Nat
    BY LenProperties
  <1>2. \A k \in i..j : t[k] \in A
    <2>1. \A k \in i..j : k \in 1..Len(t)
      BY <1>1
    <2> QED
      BY <2>1, ElementOfSeq
  <1> QED
    BY <1>2, SubSeqProperties

\* What is left of a text without blanks around it is a text.
LEMMA TrimmedIsText ==
    ASSUME NEW A, NEW t \in Seq(A), NEW S
    PROVE  Trim(t, S) \in Seq(A)
  <1> DEFINE i == Past(t, 1, S)
             T == {k \in i..Len(t) : t[k] \notin S} \cup {i - 1}
  <1>0. Len(t) \in Nat
    BY LenProperties
  <1>1. i \in 1..Len(t) + 1
    <2>1. 1 \in 1..Len(t) + 1
      BY <1>0
    <2> QED
      BY <2>1, PastIs
  <1> HIDE DEF i
  <1>2. T \subseteq 0..Len(t) /\ T # {}
    BY <1>0, <1>1
  <1>3. Max(T) \in T
    <2> HIDE DEF T
    <2> QED
      BY <1>0, <1>2, MaxIsGreatest
  <1>4. Max(T) \in 0..Len(t)
    BY <1>2, <1>3
  <1>5. Trim(t, S) = SubSeq(t, i, Max(T))
    BY DEF Trim, TrimEnd, i
  <1> HIDE DEF T
  <1>6. SubSeq(t, i, Max(T)) \in Seq(A)
    <2>1. i \in Int /\ Max(T) \in Int /\ i >= 1 /\ Max(T) <= Len(t)
      BY <1>0, <1>1, <1>4
    <2> QED
      BY <2>1, PartIsText
  <1> QED
    BY <1>5, <1>6

\* The prefix and the value of a line are texts.
LEMMA BlsLineIsText ==
    ASSUME NEW A, NEW line \in Seq(A)
    PROVE  BlsLine(line).prefix \in Seq(A) /\ BlsLine(line).value \in Seq(A)
  <1> DEFINE trimmed == Trim(line, White)
             sep     == Upto(trimmed, 1, Blank)
             value   == Past(trimmed, sep, White)
  <1>1. trimmed \in Seq(A)
    <2> DEFINE S == White
    <2> HIDE DEF S
    <2>1. Trim(line, S) \in Seq(A)
      BY TrimmedIsText
    <2> QED
      BY <2>1, Zenon DEF S
  <1>2. ASSUME NEW S, NEW W
        PROVE  LET v == Past(trimmed, Upto(trimmed, 1, S), W)
               IN  /\ SubSeq(trimmed, 1, v - 1) \in Seq(A)
                   /\ SubSeq(trimmed, v, Len(trimmed)) \in Seq(A)
    <2> DEFINE s == Upto(trimmed, 1, S)
               v == Past(trimmed, s, W)
    <2> HIDE DEF trimmed
    <2>0. Len(trimmed) \in Nat
      BY <1>1, LenProperties
    <2>1. s \in 1..Len(trimmed) + 1
      <3>1. 1 \in 1..Len(trimmed) + 1
        BY <2>0
      <3> QED
        BY <1>1, <3>1, UptoIs
    <2> HIDE DEF s
    <2>2. v \in s..Len(trimmed) + 1
      BY <1>1, <2>1, PastIs
    <2> HIDE DEF v
    <2>3. /\ 1 \in Int /\ v - 1 \in Int /\ v \in Int /\ Len(trimmed) \in Int
          /\ v >= 1 /\ v - 1 <= Len(trimmed)
      BY <2>0, <2>1, <2>2
    <2>4. SubSeq(trimmed, 1, v - 1) \in Seq(A)
      BY <1>1, <2>3, PartIsText
    <2>5. SubSeq(trimmed, v, Len(trimmed)) \in Seq(A)
      BY <1>1, <2>3, PartIsText
    <2> QED
      BY <2>4, <2>5 DEF v, s
  <1>3. SubSeq(trimmed, 1, value - 1) \in Seq(A) /\ SubSeq(trimmed, value, Len(trimmed)) \in Seq(A)
    <2> HIDE DEF trimmed
    <2> QED
      BY <1>2, Zenon
  <1>4. <<>> \in Seq(A)
    OBVIOUS
  <1>5. ASSUME NEW P \in BOOLEAN, NEW k, NEW k2, NEW p \in Seq(A), NEW v \in Seq(A),
               NEW v0 \in Seq(A),
               NEW l, l = IF P THEN [key |-> k, prefix |-> line, value |-> v0]
                          ELSE [key |-> k2, prefix |-> p, value |-> v]
        PROVE  l.prefix \in Seq(A) /\ l.value \in Seq(A)
    BY <1>5
  <1> DEFINE P == trimmed = <<>> \/ trimmed[1] = "#"
             l == BlsLine(line)
  <1>6. l = IF P THEN [key |-> <<>>, prefix |-> line, value |-> <<>>]
            ELSE [key |-> SubSeq(trimmed, 1, sep - 1), prefix |-> SubSeq(trimmed, 1, value - 1),
                  value |-> SubSeq(trimmed, value, Len(trimmed))]
    BY Zenon DEF BlsLine
  <1>7. P \in BOOLEAN
    OBVIOUS
  <1> HIDE DEF P, l, trimmed, sep, value
  <1>8. l.prefix \in Seq(A) /\ l.value \in Seq(A)
    BY <1>3, <1>4, <1>6, <1>7
  <1> QED
    BY <1>8 DEF l

\* A text with one or three symbols behind it is a text.
LEMMA LongerIsText ==
    ASSUME NEW A, NEW t \in Seq(A), NEW x \in A, NEW y \in A, NEW z \in A
    PROVE  t \o <<x>> \in Seq(A) /\ t \o <<x, y, z>> \in Seq(A)
  <1>1. <<x>> \in Seq(A) /\ <<x, y, z>> \in Seq(A)
    OBVIOUS
  <1> QED
    BY <1>1, ConcatProperties

\* A line that is rewritten is a text.
LEMMA FixedLineIsText ==
    ASSUME NEW A, NEW l, l.prefix \in Seq(A), l.value \in Seq(A),
           {"/vmlinuz", "/initramfs", " ", "$tuned_initrd"} \subseteq A
    PROVE  FixedLine(l) \in Seq(A)
  <1>1. l.prefix \o l.value \in Seq(A)
    BY ConcatProperties
  <1>2. /\ "/vmlinuz" \in A /\ "/initramfs" \in A /\ " " \in A /\ "$tuned_initrd" \in A
    BY Zenon
  <1>3. /\ l.prefix \o <<"/vmlinuz">> \in Seq(A) /\ l.prefix \o <<"/initramfs">> \in Seq(A)
        /\ l.prefix \o <<"/initramfs", " ", "$tuned_initrd">> \in Seq(A)
    BY <1>2, LongerIsText, Zenon
  <1>4. <<"linux">> # <<"initrd">>
    <2>1. <<"linux">>[1] = "linux" /\ <<"initrd">>[1] = "initrd" /\ "linux" # "initrd"
      BY Zenon
    <2> QED
      BY <2>1, Zenon
  <1>5. CASE l.key = <<"linux">>
    BY <1>3, <1>4, <1>5, Zenon DEF FixedLine
  <1>6. CASE l.key = <<"initrd">> /\ "$tuned_initrd" \in ToSet(l.value)
    BY <1>3, <1>4, <1>6, Zenon DEF FixedLine
  <1>7. CASE l.key = <<"initrd">> /\ "$tuned_initrd" \notin ToSet(l.value)
    BY <1>3, <1>4, <1>7, Zenon DEF FixedLine
  <1>8. CASE l.key # <<"linux">> /\ l.key # <<"initrd">>
    BY <1>1, <1>8, Zenon DEF FixedLine
  <1> QED
    BY <1>5, <1>6, <1>7, <1>8, Zenon

\* Where a line ends, a carriage return before its end left out.
LineEnd(t, S, cr, i) ==
    IF Upto(t, i, S) \in i + 1..Len(t) /\ t[Upto(t, i, S) - 1] = cr
    THEN Upto(t, i, S) - 2 ELSE Upto(t, i, S) - 1

\* One turn of the loop of Lines.
LinesBody(from, t, S, cr, i) ==
    IF i > Len(t) THEN <<>>
    ELSE <<SubSeq(t, i, LineEnd(t, S, cr, i))>> \o from[OptionNext(t, S, i)]

\* The function it is.
LinesFrom(t, S, cr) == CHOOSE f : f = [i \in 1..Len(t) + 1 |-> LinesBody(f, t, S, cr, i)]

\* The lines from a position on: that position's line, and those behind it.
LinesTurns(f, t, A, S, cr) ==
    /\ f[Len(t) + 1] = <<>>
    /\ \A i \in 1..Len(t) :
          /\ SubSeq(t, i, LineEnd(t, S, cr, i)) \in Seq(A)
          /\ OptionNext(t, S, i) \in i + 1..Len(t) + 1
          /\ f[i] = <<SubSeq(t, i, LineEnd(t, S, cr, i))>> \o f[OptionNext(t, S, i)]
    /\ \A i \in 1..Len(t) + 1 : f[i] \in Seq(Seq(A))

\* The lines of a text are texts.
LEMMA LinesLoop ==
    ASSUME NEW A, NEW t \in Seq(A), NEW S, NEW cr
    PROVE  LinesTurns(LinesFrom(t, S, cr), t, A, S, cr)
  <1> DEFINE from == LinesFrom(t, S, cr)
             n    == Len(t) + 1
             h    == [i \in 1..n |-> IF i = n THEN <<>> ELSE <<SubSeq(t, i, LineEnd(t, S, cr, i))>>]
             next == [i \in 1..n |-> OptionNext(t, S, i)]
  <1>0. Len(t) \in Nat /\ n \in Nat \ {0} /\ n - 1 = Len(t)
    BY LenProperties
  <1>1. \A i \in 1..Len(t) : /\ h[i] = <<SubSeq(t, i, LineEnd(t, S, cr, i))>>
                             /\ next[i] = OptionNext(t, S, i)
    BY <1>0
  <1>a. ASSUME NEW i \in 1..Len(t) PROVE SubSeq(t, i, LineEnd(t, S, cr, i)) \in Seq(A)
    <2>1. Upto(t, i, S) \in i..Len(t) + 1
      BY <1>0, UptoIs
    <2>2. LineEnd(t, S, cr, i) \in Int /\ LineEnd(t, S, cr, i) <= Len(t) /\ i \in Int /\ i >= 1
      BY <1>0, <2>1 DEF LineEnd
    <2> QED
      BY <2>2, PartIsText
  <1>2. h \in [1..n -> Seq(Seq(A))]
    <2>1. ASSUME NEW i \in 1..Len(t) PROVE <<SubSeq(t, i, LineEnd(t, S, cr, i))>> \in Seq(Seq(A))
      BY <1>a
    <2>2. <<>> \in Seq(Seq(A))
      OBVIOUS
    <2> QED
      BY <1>0, <2>1, <2>2
  <1>3. next \in [1..n -> 1..n] /\ \A i \in 1..n - 1 : next[i] > i
    <2>1. next = [i \in 1..Len(t) + 1 |-> Min({Upto(t, i, S) + 1, Len(t) + 1})]
      BY DEF OptionNext
    <2> HIDE DEF next
    <2>2. SkipsTo(next, t, S)
      BY <2>1, OptionGoesOn
    <2> QED
      BY <1>0, <2>2 DEF SkipsTo
  <1> HIDE DEF h, next
  <1>4. PICK f : Glues(f, n, Seq(A), h, next)
    <2> HIDE DEF n
    <2> QED
      BY <1>0, <1>2, <1>3, GluesExists
  <1>5. ASSUME NEW g
        PROVE  /\ LinesBody(g, t, S, cr, n) = <<>>
               /\ \A i \in 1..Len(t) : LinesBody(g, t, S, cr, i) = h[i] \o g[next[i]]
    <2>1. n > Len(t)
      BY <1>0
    <2>2. LinesBody(g, t, S, cr, n) = <<>>
      BY <2>1 DEF LinesBody
    <2>3. ASSUME NEW i \in 1..Len(t)
          PROVE  LinesBody(g, t, S, cr, i) = h[i] \o g[next[i]]
      <3>1. ~(i > Len(t))
        BY <1>0
      <3> QED
        BY <1>1, <3>1 DEF LinesBody
    <2> QED
      BY <2>2, <2>3
  <1> HIDE DEF n
  <1>6. ASSUME NEW i \in 1..n PROVE f[i] = LinesBody(f, t, S, cr, i)
    <2>1. CASE i = n
      BY <1>4, <1>5, <2>1 DEF Glues
    <2>2. CASE i \in 1..Len(t)
      <3>1. f[i] = h[i] \o f[next[i]]
        BY <1>0, <1>4, <2>2 DEF Glues
      <3> QED
        BY <1>5, <2>2, <3>1
    <2> QED
      BY <1>0, <2>1, <2>2
  <1>7. f = [i \in 1..n |-> LinesBody(f, t, S, cr, i)]
    BY <1>4, <1>6 DEF Glues
  <1>8. from = [i \in 1..n |-> LinesBody(from, t, S, cr, i)]
    BY <1>7 DEF n, LinesFrom
  <1> HIDE DEF from
  <1>9. \A i \in 1..n : from[i] = LinesBody(from, t, S, cr, i)
    BY <1>8
  <1>10. Glued(from, n, Seq(A), h, next)
    <2>1. from[n] = <<>>
      <3>1. n \in 1..n
        BY <1>0
      <3> QED
        BY <1>5, <1>9, <3>1
    <2>2. ASSUME NEW i \in 1..n - 1
          PROVE  /\ h[i] \in Seq(Seq(A)) /\ next[i] \in i + 1..n
                 /\ from[i] = h[i] \o from[next[i]]
      <3>1. i \in 1..n /\ i \in 1..Len(t)
        BY <1>0
      <3>2. next[i] \in i + 1..n
        <4>1. next[i] \in 1..n /\ next[i] > i
          BY <1>3, <3>1
        <4> QED
          BY <1>0, <4>1
      <3>3. h[i] \in Seq(Seq(A))
        BY <1>2, <3>1
      <3>4. from[i] = h[i] \o from[next[i]]
        BY <1>5, <1>9, <3>1
      <3> QED
        BY <3>2, <3>3, <3>4
    <2> QED
      BY <2>1, <2>2, Zenon DEF Glued
  <1>11. \A i \in 1..n : from[i] \in Seq(Seq(A))
    BY <1>0, <1>10, GluedAreTexts
  <1>12. from[n] = <<>>
    BY <1>10 DEF Glued
  <1>13. ASSUME NEW i \in 1..Len(t)
         PROVE  /\ OptionNext(t, S, i) \in i + 1..n
                /\ from[i] = <<SubSeq(t, i, LineEnd(t, S, cr, i))>> \o from[OptionNext(t, S, i)]
    <2>1. next[i] \in i + 1..n /\ from[i] = h[i] \o from[next[i]]
      BY <1>0, <1>10 DEF Glued
    <2> QED
      BY <1>1, <2>1
  <1> QED
    BY <1>a, <1>11, <1>12, <1>13 DEF from, n, LinesTurns

\* What the loop of Joined puts in front of the later lines.
Line(lines, nl, i) == IF i = 1 THEN lines[i] ELSE nl \o lines[i]

\* One turn of the loop of Joined.
JoinedBody(from, lines, nl, i) ==
    IF i > Len(lines) THEN <<>> ELSE Line(lines, nl, i) \o from[i + 1]

\* The function it is.
JoinedFrom(lines, nl) ==
    CHOOSE f : f = [i \in 1..Len(lines) + 1 |-> JoinedBody(f, lines, nl, i)]

JoinedTurns(f, lines, nl, A) ==
    /\ f[Len(lines) + 1] = <<>>
    /\ \A i \in 1..Len(lines) : f[i] = Line(lines, nl, i) \o f[i + 1]
    /\ \A i \in 1..Len(lines) + 1 : f[i] \in Seq(A)

\* Lines that are joined are a text.
LEMMA JoinedLoop ==
    ASSUME NEW A, NEW lines \in Seq(Seq(A)), NEW nl \in Seq(A)
    PROVE  JoinedTurns(JoinedFrom(lines, nl), lines, nl, A)
  <1> DEFINE from == JoinedFrom(lines, nl)
             n    == Len(lines) + 1
             h    == [i \in 1..n |-> IF i = n THEN <<>> ELSE Line(lines, nl, i)]
             next == [i \in 1..n |-> IF i = n THEN i ELSE i + 1]
  <1>0. Len(lines) \in Nat /\ n \in Nat \ {0} /\ n - 1 = Len(lines)
    BY LenProperties
  <1>1. \A i \in 1..Len(lines) : h[i] = Line(lines, nl, i) /\ next[i] = i + 1
    BY <1>0
  <1>2. h \in [1..n -> Seq(A)]
    <2>1. ASSUME NEW i \in 1..Len(lines) PROVE Line(lines, nl, i) \in Seq(A)
      <3>1. lines[i] \in Seq(A)
        BY ElementOfSeq
      <3>2. nl \o lines[i] \in Seq(A)
        BY <3>1, ConcatProperties
      <3> QED
        BY <3>1, <3>2 DEF Line
    <2>2. <<>> \in Seq(A)
      OBVIOUS
    <2> QED
      BY <1>0, <2>1, <2>2
  <1>3. next \in [1..n -> 1..n] /\ \A i \in 1..n - 1 : next[i] > i
    BY <1>0
  <1> HIDE DEF h, next
  <1>4. PICK f : Glues(f, n, A, h, next)
    <2> HIDE DEF n
    <2> QED
      BY <1>0, <1>2, <1>3, GluesExists
  <1>5. ASSUME NEW g
        PROVE  /\ JoinedBody(g, lines, nl, n) = <<>>
               /\ \A i \in 1..Len(lines) : JoinedBody(g, lines, nl, i) = h[i] \o g[next[i]]
    <2>1. n > Len(lines)
      BY <1>0
    <2>2. JoinedBody(g, lines, nl, n) = <<>>
      BY <2>1 DEF JoinedBody
    <2>3. ASSUME NEW i \in 1..Len(lines)
          PROVE  JoinedBody(g, lines, nl, i) = h[i] \o g[next[i]]
      <3>1. ~(i > Len(lines))
        BY <1>0
      <3> QED
        BY <1>1, <3>1 DEF JoinedBody
    <2> QED
      BY <2>2, <2>3
  <1> HIDE DEF n
  <1>6. ASSUME NEW i \in 1..n PROVE f[i] = JoinedBody(f, lines, nl, i)
    <2>1. CASE i = n
      BY <1>4, <1>5, <2>1 DEF Glues
    <2>2. CASE i \in 1..Len(lines)
      <3>1. f[i] = h[i] \o f[next[i]]
        BY <1>0, <1>4, <2>2 DEF Glues
      <3> QED
        BY <1>5, <2>2, <3>1
    <2> QED
      BY <1>0, <2>1, <2>2
  <1>7. f = [i \in 1..n |-> JoinedBody(f, lines, nl, i)]
    BY <1>4, <1>6 DEF Glues
  <1>8. from = [i \in 1..n |-> JoinedBody(from, lines, nl, i)]
    BY <1>7 DEF n, JoinedFrom
  <1> HIDE DEF from
  <1>9. \A i \in 1..n : from[i] = JoinedBody(from, lines, nl, i)
    BY <1>8
  <1>10. Glued(from, n, A, h, next)
    <2>1. from[n] = <<>>
      <3>1. n \in 1..n
        BY <1>0
      <3> QED
        BY <1>5, <1>9, <3>1
    <2>2. ASSUME NEW i \in 1..n - 1
          PROVE  /\ h[i] \in Seq(A) /\ next[i] \in i + 1..n
                 /\ from[i] = h[i] \o from[next[i]]
      <3>1. i \in 1..n /\ i \in 1..Len(lines)
        BY <1>0
      <3>2. next[i] \in i + 1..n
        <4>1. next[i] = i + 1
          BY <1>1, <3>1
        <4> QED
          BY <1>0, <4>1
      <3>3. h[i] \in Seq(A)
        BY <1>2, <3>1
      <3>4. from[i] = h[i] \o from[next[i]]
        BY <1>5, <1>9, <3>1
      <3> QED
        BY <3>2, <3>3, <3>4
    <2> QED
      BY <2>1, <2>2, Zenon DEF Glued
  <1>11. \A i \in 1..n : from[i] \in Seq(A)
    BY <1>0, <1>10, GluedAreTexts
  <1>12. ASSUME NEW i \in 1..Len(lines) PROVE from[i] = Line(lines, nl, i) \o from[i + 1]
    <2>1. i \in 1..n - 1
      BY <1>0
    <2>2. from[i] = h[i] \o from[next[i]]
      BY <1>10, <2>1, Zenon DEF Glued
    <2> QED
      BY <1>1, <2>2, Zenon
  <1>13. from[n] = <<>>
    BY <1>10, Zenon DEF Glued
  <1> QED
    BY <1>11, <1>12, <1>13, Zenon DEF from, n, JoinedTurns

\* What a sequence is made of, and sequences made of others.
LEMMA SequencesOf ==
    ASSUME NEW V, NEW s \in Seq(V)
    PROVE  /\ \A i \in DOMAIN s : s[i] \in V
           /\ \A v \in V : <<v>> \in Seq(V)
           /\ \A f : (f = [i \in DOMAIN s |-> f[i]] /\ \A i \in DOMAIN s : f[i] \in V)
                      => f \in Seq(V)
  <1>1. Len(s) \in Nat /\ DOMAIN s = 1..Len(s)
    BY LenProperties
  <1>2. ASSUME NEW f, f = [i \in DOMAIN s |-> f[i]], \A i \in DOMAIN s : f[i] \in V
        PROVE  f \in Seq(V)
    <2>1. f \in [1..Len(s) -> V]
      BY <1>1, <1>2
    <2> QED
      BY <1>1, <2>1
  <1>3. \A i \in DOMAIN s : s[i] \in V
    BY <1>1, ElementOfSeq
  <1>4. \A v \in V : <<v>> \in Seq(V)
    OBVIOUS
  <1> QED
    BY <1>2, <1>3, <1>4

\* The lines of a text are texts, whatever ends them.
LEMMA LinesAreTexts ==
    ASSUME NEW A, NEW t \in Seq(A)
    PROVE  Lines(t) \in Seq(Seq(A))
  <1>1. Lines(t) = LinesFrom(t, Newline, "\r")[1]
    BY Zenon DEF Lines, LinesFrom, LinesBody, LineEnd, OptionNext
  <1>2. LinesFrom(t, Newline, "\r")[1] \in Seq(Seq(A))
    <2> DEFINE S  == Newline
               cr == "\r"
    <2> HIDE DEF S, cr
    <2>1. LinesTurns(LinesFrom(t, S, cr), t, A, S, cr) /\ 1 \in 1..Len(t) + 1
      BY LinesLoop, LenProperties
    <2>2. LinesFrom(t, S, cr)[1] \in Seq(Seq(A))
      BY <2>1 DEF LinesTurns
    <2> QED
      BY <2>2, Zenon DEF S, cr
  <1> QED
    BY <1>1, <1>2, Zenon

\* A sequence of any length has a first position, or ends there.
LEMMA HasFirst ==
    ASSUME NEW V, NEW s \in Seq(V)
    PROVE  1 \in 1..Len(s) + 1
  BY LenProperties

\* An entry that is rewritten is a text.
LEMMA FixedEntryIsText ==
    ASSUME NEW A, NEW t \in Seq(A),
           {"/vmlinuz", "/initramfs", " ", "$tuned_initrd"} \subseteq A, "\n" \in A
    PROVE  FixedEntry(t) \in Seq(A)
  <1> DEFINE lines == Lines(t)
             bls   == ParseBls(t)
             fixed == [i \in DOMAIN bls |-> FixedLine(bls[i])]
             back  == JoinedFrom(fixed, <<"\n">>)
  <1>1. lines \in Seq(Seq(A))
    BY LinesAreTexts, Zenon
  <1>2. bls = [i \in DOMAIN lines |-> BlsLine(lines[i])]
    BY Zenon DEF ParseBls
  <1> HIDE DEF lines, bls
  <1>3. \A i \in DOMAIN lines : FixedLine(BlsLine(lines[i])) \in Seq(A)
    <2>1. ASSUME NEW i \in DOMAIN lines PROVE FixedLine(BlsLine(lines[i])) \in Seq(A)
      <3>1. lines[i] \in Seq(A)
        BY <1>1, SequencesOf, Zenon
      <3>2. BlsLine(lines[i]).prefix \in Seq(A) /\ BlsLine(lines[i]).value \in Seq(A)
        BY <3>1, BlsLineIsText, Zenon
      <3> QED
        BY <3>2, FixedLineIsText, Zenon
    <2> QED
      BY <2>1, Zenon
  <1>4. fixed = [i \in DOMAIN lines |-> FixedLine(BlsLine(lines[i]))]
    BY <1>2, Zenon
  <1>5. fixed \in Seq(Seq(A))
    <2>1. ASSUME NEW i \in DOMAIN lines PROVE fixed[i] \in Seq(A)
      <3>1. fixed[i] = FixedLine(BlsLine(lines[i]))
        BY <1>4, Zenon
      <3> QED
        BY <1>3, <3>1, Zenon
    <2>2. fixed = [i \in DOMAIN lines |-> fixed[i]]
      BY <1>4, Zenon
    <2> HIDE DEF fixed
    <2> QED
      BY <1>1, <2>1, <2>2, SequencesOf, Zenon
  <1> HIDE DEF fixed
  <1>6. <<"\n">> \in Seq(A)
    BY SequencesOf, Zenon
  <1>7. back[1] \in Seq(A)
    <2>1. JoinedTurns(back, fixed, <<"\n">>, A)
      BY <1>5, <1>6, JoinedLoop, Zenon
    <2>2. 1 \in 1..Len(fixed) + 1
      BY <1>5, HasFirst, Zenon
    <2> QED
      BY <2>1, <2>2, Zenon DEF JoinedTurns
  <1>8. Joined(fixed) = back[1]
    BY Zenon DEF Joined, JoinedFrom, JoinedBody, Line
  <1>9. FixedEntry(t) = Joined(fixed)
    BY Zenon DEF FixedEntry, fixed, bls
  <1> QED
    BY <1>7, <1>8, <1>9, Zenon

-----------------------------------------------------------------------------
(* Every text the specification reaches.                                   *)

\* The symbols of the alphabets and those the tool writes.
Symbols == (UNION Alphabets)
               \cup {"/vmlinuz", "/initramfs", " ", "$tuned_initrd"} \cup {"\n"}

TextInv == alphabet \in Alphabets /\ text \in Seq(Symbols)

\* A text that is written, begun or rewritten is a text of these symbols.
LEMMA TextInvHolds == ParseSpec => []TextInv
  <1> DEFINE W == {"/vmlinuz", "/initramfs", " ", "$tuned_initrd"}
  <1>0. W \subseteq Symbols /\ "\n" \in Symbols
    <2> DEFINE U  == UNION Alphabets
               nl == "\n"
    <2>1. Symbols = U \cup W \cup {nl}
      BY Zenon DEF Symbols
    <2> HIDE DEF W, U, nl
    <2>2. W \subseteq Symbols /\ nl \in Symbols
      BY <2>1
    <2> QED
      BY <2>2, Zenon DEF nl
  <1>1. Init => TextInv
    <2>1. <<>> \in Seq(Symbols)
      <3> HIDE DEF W
      <3> QED
        OBVIOUS
    <2> QED
      BY <2>1, Zenon DEF Init, TextInv
  <1>2. TextInv /\ [Next]_<<alphabet, text>> => TextInv'
    <2>1. SUFFICES ASSUME TextInv, [Next]_<<alphabet, text>>
                   PROVE  TextInv'
      OBVIOUS
    <2>2. CASE Begin
      <3> HIDE DEF W
      <3>1. <<>> \in Seq(Symbols)
        OBVIOUS
      <3> QED
        BY <2>1, <2>2, <3>1, Zenon DEF Begin, TextInv
    <2>3. CASE Write
      <3> HIDE DEF W
      <3>1. PICK c \in alphabet : text' = Append(text, c)
        BY <2>3, Zenon DEF Write
      <3>2. c \in Symbols
        BY <2>1, <3>1, Zenon DEF TextInv, Symbols
      <3>3. Append(text, c) \in Seq(Symbols)
        BY <2>1, <3>2, AppendProperties, Zenon DEF TextInv
      <3>4. alphabet' = alphabet
        BY <2>3, Zenon DEF Write
      <3> QED
        BY <2>1, <3>1, <3>3, <3>4, Zenon DEF TextInv
    <2>4. CASE FixBlsPaths
      <3>1. FixedEntry(text) \in Seq(Symbols)
        <4>1. text \in Seq(Symbols)
          BY <2>1, Zenon DEF TextInv
        <4> QED
          BY <1>0, <4>1, FixedEntryIsText, Zenon
      <3>2. text' = FixedEntry(text) /\ alphabet' = alphabet
        BY <2>4, Zenon DEF FixBlsPaths
      <3> QED
        BY <2>1, <3>1, <3>2, Zenon DEF TextInv
    <2>5. CASE UNCHANGED <<alphabet, text>>
      <3> HIDE DEF W
      <3>1. alphabet' = alphabet /\ text' = text
        BY <2>5
      <3> QED
        BY <2>1, <3>1, Zenon DEF TextInv
    <2> QED
      BY <2>1, <2>2, <2>3, <2>4, <2>5, Zenon DEF Next
  <1> QED
    BY <1>1, <1>2, PTL DEF ParseSpec

\* extract_mount_option reads the first option with the whole key, as mount(8) divides
\* options: subvolid is not taken for subvol, nor a value for a key, in options of any
\* length.
THEOREM OptionIsRead == ParseSpec => []OptionHasWholeKey
  <1>1. TextInv => OptionHasWholeKey
    <2> DEFINE B == Symbols \cup {"subvol", "="}
    <2>1. SUFFICES ASSUME TextInv PROVE OptionHasWholeKey
      OBVIOUS
    <2>2. Symbols \subseteq B /\ {"subvol", "="} \subseteq B /\ "=" \in B
      BY Zenon
    <2>3. <<"subvol">> \o <<"=">> = <<"subvol", "=">> /\ <<"subvol">> \in Seq({"subvol", "="})
      BY TwoSymbols, Zenon
    <2> HIDE DEF B
    <2>4. text \in Seq(B) /\ <<"subvol">> \in Seq(B)
      BY <2>1, <2>2, <2>3, SeqMonotonic, Zenon DEF TextInv
    <2>5. FindOption(text, <<"subvol">>) = FirstOf(text, {","}, <<"subvol">> \o <<"=">>, 0)
      BY <2>2, <2>4, FindOptionReads, Zenon
    <2> QED
      BY <2>3, <2>5, Zenon DEF OptionHasWholeKey
  <1> QED
    BY <1>1, TextInvHolds, PTL

\* extract_root_uuid_from_options reads the first token that names a UUID, in a command
\* line of any length.
THEOREM UuidIsRead == ParseSpec => []RootUuidIsToken
  <1>1. TextInv => RootUuidIsToken
    <2> DEFINE B == Symbols \cup {"root", "=UUID="}
               w == <<"root", "=UUID=">>
    <2>1. SUFFICES ASSUME TextInv PROVE RootUuidIsToken
      OBVIOUS
    <2>2. Symbols \subseteq B /\ {"root", "=UUID="} \subseteq B
      BY Zenon
    <2>3. w \in Seq({"root", "=UUID="}) /\ Len(w) \in Nat \ {0}
      BY TwoSymbols, Zenon
    <2> HIDE DEF B, w
    <2>4. text \in Seq(B) /\ w \in Seq(B)
      BY <2>1, <2>2, <2>3, SeqMonotonic, Zenon DEF TextInv
    <2>5. FindRootUuid(text, w) = FirstOf(text, Blank, w, 1)
      BY <2>3, <2>4, FindRootUuidReads, Zenon
    <2> QED
      BY <2>5, Zenon DEF RootUuidIsToken, w
  <1> QED
    BY <1>1, TextInvHolds, PTL

\* A subvolume's path is read back from its line, separators in the path included,
\* whatever the path.
THEOREM ListedPathIsRead == ParseSpec => []SubvolPathIsRead
  <1>1. TextInv => SubvolPathIsRead
    BY PathIsRead, Zenon DEF TextInv, SubvolPathIsRead
  <1> QED
    BY <1>1, TextInvHolds, PTL

\* A field of any length that is written as fstab(5) has it, blanks, line ends and backslashes
\* escaped, is read back as it was.
THEOREM EscapedIsReadBack == ParseSpec => []EscapedFieldIsRead
  <1>1. TextInv => EscapedFieldIsRead
    BY FieldIsRead, Zenon DEF TextInv
  <1> QED
    BY <1>1, TextInvHolds, PTL

\* The options step 10 writes for /var name the subvolume var, and their subvolid is the
\* root's, whatever the root is called and in options of any length.
THEOREM VarOptionsAreRenamed == ParseSpec => []VarOptionsNameVar
  <1>1. TextInv => VarOptionsNameVar
    <2> DEFINE B    == Symbols \cup {",", "subvol", "id", "=", "var"}
               root == FindOption(text, <<"subvol">>)
    <2>1. SUFFICES ASSUME TextInv, root # Nothing
                   PROVE  /\ FindOption(VarOptions(text, root[1]), <<"subvol">>) = Some(<<"var">>)
                          /\ \/ FindOption(text, <<"subvol", "id">>) = Nothing
                             \/ "=" \notin ToSet(FindOption(text, <<"subvol", "id">>)[1])
                             => FindOption(VarOptions(text, root[1]), <<"subvol", "id">>)
                                   = FindOption(text, <<"subvol", "id">>)
      BY Zenon DEF VarOptionsNameVar
    <2>2. {",", "subvol", "id", "=", "var"} \subseteq B /\ Symbols \subseteq B
      BY Zenon
    <2> HIDE DEF B
    <2>3. text \in Seq(B)
      BY <2>1, <2>2, SeqMonotonic, Zenon DEF TextInv
    <2>4. root = Some(root[1])
      <3> DEFINE k == <<"subvol">>
                 p == <<"subvol", "=">>
      <3>1. k \in Seq(B) /\ p \in Seq(B) /\ p # <<>> /\ k \o <<"=">> = p /\ "=" \in B
        <4>1. {"subvol", "="} \subseteq B /\ "=" \in B
          BY <2>2, Zenon
        <4>2. k \in Seq({"subvol", "="}) /\ p \in Seq({"subvol", "="}) /\ k \o <<"=">> = p
          BY TwoSymbols, Zenon
        <4>3. p # <<>>
          BY OptionWords, Zenon
        <4> HIDE DEF k, p
        <4> QED
          BY <4>1, <4>2, <4>3, SeqMonotonic, Zenon
      <3> HIDE DEF p, k
      <3>2. FindOption(text, k) = OptionFound(text, {","}, p)
        BY <3>1, FindOptionIs, Zenon
      <3>3. OptionFound(text, {","}, p) # Nothing
        BY <2>1, <3>2, Zenon DEF k
      <3>4. OptionFound(text, {","}, p) = Some(OptionFound(text, {","}, p)[1])
        <4>1. text \in Seq(B) /\ p \in Seq(B) /\ p # <<>>
          BY <2>3, <3>1, Zenon
        <4> QED
          BY <3>3, <4>1, FoundIsSome, Zenon
      <3> QED
        BY <3>2, <3>4, Zenon DEF k
    <2> HIDE DEF root
    <2>5. FindOption(text, <<"subvol">>) = Some(root[1])
      BY <2>4, Zenon DEF root
    <2> QED
      BY <2>2, <2>3, <2>5, VarOptionsRename, Zenon
  <1> QED
    BY <1>1, TextInvHolds, PTL

=============================================================================
