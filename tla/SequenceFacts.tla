---------------------------- MODULE SequenceFacts ----------------------------
(* What the proofs need to know of sequences.                              *)
EXTENDS Integers, Sequences, SequencesExt, TLAPS, WellFoundedInduction

\* The front of a sequence.
LEMMA FrontFacts ==
    ASSUME NEW S, NEW s \in Seq(S), NEW k \in 0 .. Len(s)
    PROVE  /\ SubSeq(s, 1, k) \in Seq(S) /\ Len(SubSeq(s, 1, k)) = k
           /\ \A i \in 1 .. k : SubSeq(s, 1, k)[i] = s[i]
OBVIOUS

\* What is behind its first n elements.
LEMMA RestFacts ==
    ASSUME NEW S, NEW s \in Seq(S), NEW n \in 0 .. Len(s)
    PROVE  /\ SubSeq(s, n + 1, Len(s)) \in Seq(S) /\ Len(SubSeq(s, n + 1, Len(s))) = Len(s) - n
           /\ \A i \in 1 .. Len(s) - n : SubSeq(s, n + 1, Len(s))[i] = s[n + i]
OBVIOUS

\* The concatenation of two sequences.
LEMMA ConcatFacts ==
    ASSUME NEW S, NEW s \in Seq(S), NEW t \in Seq(S)
    PROVE  /\ s \o t \in Seq(S) /\ Len(s \o t) = Len(s) + Len(t)
           /\ \A i \in 1 .. Len(s) : (s \o t)[i] = s[i]
           /\ \A i \in Len(s) + 1 .. Len(s) + Len(t) : (s \o t)[i] = t[i - Len(s)]
OBVIOUS

\* A sequence with one more element.
LEMMA AppendFacts ==
    ASSUME NEW S, NEW s \in Seq(S), NEW e \in S
    PROVE  /\ Append(s, e) \in Seq(S) /\ Len(Append(s, e)) = Len(s) + 1
           /\ \A i \in 1 .. Len(s) : Append(s, e)[i] = s[i]
           /\ Append(s, e)[Len(s) + 1] = e
OBVIOUS

(* Induction: the least number of a set, and functions defined step by     *)
(* step.                                                                   *)

\* A set of numbers has a least one.
LEMMA LeastNumber ==
    ASSUME NEW T, T \subseteq Nat, T # {}
    PROVE  \E x \in T : \A y \in T : x <= y
<1>. DEFINE R == OpToRel(<, Nat)
<1>1. IsWellFoundedOn(R, Nat)
  BY NatLessThanWellFounded, Zenon
<1>2. \A x, y \in Nat : y < x => <<y, x>> \in R
  BY DEF OpToRel
<1>. HIDE DEF R
<1>3. PICK x \in T : \A y \in T : <<y, x>> \notin R
  BY <1>1, WFMin
<1>4. x \in Nat /\ \A y \in T : y \in Nat /\ ~(y < x)
  BY <1>2, <1>3
<1>5. \A y \in T : x <= y
  BY <1>4
<1>. QED  BY <1>5

\* The first of a set of places.
LEMMA FirstPlace ==
    ASSUME NEW i \in Nat, NEW N \in Nat, NEW T, T \subseteq i .. N, T # {}
    PROVE  \E j \in T : /\ j \in i .. N
                       /\ \A k \in i .. j - 1 : k \in i .. N /\ k \notin T
<1>1. PICK j \in T : \A k \in T : j <= k
  <2>1. T \subseteq Nat
    OBVIOUS
  <2>. QED  BY <2>1, LeastNumber
<1>2. j \in i .. N
  OBVIOUS
<1>3. \A k \in i .. j - 1 : k \in i .. N /\ k \notin T
  BY <1>1, <1>2
<1>. QED  BY <1>2, <1>3

\* From each number to the next.
LEMMA Climb ==
    ASSUME NEW N \in Nat, NEW T, 0 \in T, \A n \in 1 .. N : n - 1 \in T => n \in T
    PROVE  \A n \in 0 .. N : n \in T
<1>. DEFINE Missed == {n \in 0 .. N : n \notin T}
<1>1. ASSUME Missed # {}
      PROVE  FALSE
  <2>1. PICK n \in Missed : \A k \in Missed : n <= k
    <3>1. Missed \subseteq Nat
      OBVIOUS
    <3>. HIDE DEF Missed
    <3>. QED  BY <1>1, <3>1, LeastNumber
  <2>2. n \in 1 .. N /\ n - 1 \in 0 .. N /\ ~(n <= n - 1)
    BY <2>1
  <2>3. n - 1 \in T
    BY <2>1, <2>2
  <2>. QED  BY <2>1, <2>2, <2>3
<1>. QED  BY <1>1

\* Steps through S, one after the other; they can always be taken.
IsRun(f, S, first, N, next) ==
    f \in [0 .. N -> S] /\ f[0] = first /\ \A n \in 1 .. N : f[n] = next[n][f[n - 1]]

\* There is a function that takes these steps.
LEMMA Iterates ==
    ASSUME NEW S, NEW first \in S, NEW N \in Nat, NEW next \in [1 .. N -> [S -> S]]
    PROVE  \E f : IsRun(f, S, first, N, next)
<1>. DEFINE Run(f, k) == /\ f \in [0 .. k -> S] /\ f[0] = first
                         /\ \A n \in 1 .. k : f[n] = next[n][f[n - 1]]
            T == {k \in Nat : \E f : Run(f, k)}
<1>1. 0 \in T
  <2>1. Run([n \in 0 .. 0 |-> first], 0)
    OBVIOUS
  <2>. QED  BY <2>1
<1>2. ASSUME NEW k \in 1 .. N, k - 1 \in T
      PROVE  k \in T
  <2>1. PICK f : Run(f, k - 1)
    BY <1>2
  <2>2. next[k][f[k - 1]] \in S
    <3>1. f[k - 1] \in S
      BY <2>1
    <3>. QED  BY <3>1
  <2>3. Run([n \in 0 .. k |-> IF n = k THEN next[k][f[k - 1]] ELSE f[n]], k)
    BY <2>1, <2>2
  <2>4. k \in Nat
    OBVIOUS
  <2>. HIDE DEF Run
  <2>. QED  BY <2>3, <2>4
<1>3. N \in T
  <2>1. N \in 0 .. N
    OBVIOUS
  <2>. HIDE DEF T
  <2>. QED  BY <1>1, <1>2, <2>1, Climb
<1>. QED  BY <1>3 DEF IsRun

\* A part of a sequence.
LEMMA SubSeqType ==
    ASSUME NEW S, NEW s \in Seq(S), NEW m \in 1 .. Len(s) + 1, NEW n \in m - 1 .. Len(s)
    PROVE  /\ SubSeq(s, m, n) \in Seq(S)
           /\ Len(SubSeq(s, m, n)) = n - m + 1
           /\ \A k \in 1 .. n - m + 1 : SubSeq(s, m, n)[k] = s[m + k - 1]
OBVIOUS

\* Sequences with the same elements.
LEMMA SameSequence ==
    ASSUME NEW S, NEW s \in Seq(S), NEW t \in Seq(S), Len(s) = Len(t),
           \A k \in 1 .. Len(s) : s[k] = t[k]
    PROVE  s = t
OBVIOUS

\* From the end to the beginning.
LEMMA Descend ==
    ASSUME NEW N \in Nat, NEW T, \A i \in 0 .. N : (\A k \in i + 1 .. N : k \in T) => i \in T
    PROVE  \A i \in 0 .. N : i \in T
<1>. DEFINE U == {n \in 0 .. N : \A i \in N - n .. N : i \in T}
<1>1. 0 \in U
  <2>1. /\ \A k \in N + 1 .. N : FALSE
        /\ N \in 0 .. N /\ 0 \in 0 .. N /\ \A i \in N - 0 .. N : i = N
    OBVIOUS
  <2>. QED  BY <2>1
<1>2. ASSUME NEW n \in 1 .. N, n - 1 \in U
      PROVE  n \in U
  <2>1. /\ n \in 0 .. N /\ N - n \in 0 .. N
        /\ \A i \in N - n .. N : i = N - n \/ i \in N - (n - 1) .. N
        /\ \A k \in (N - n) + 1 .. N : k \in N - (n - 1) .. N
    OBVIOUS
  <2>. QED  BY <1>2, <2>1
<1>3. \A n \in 0 .. N : n \in U
  <2>. HIDE DEF U
  <2>. QED  BY <1>1, <1>2, Climb
<1>4. N \in 0 .. N /\ \A i \in 0 .. N : i \in N - N .. N
  OBVIOUS
<1>. QED  BY <1>3, <1>4

\* The last of a set of places.
LEMMA LastPlace ==
    ASSUME NEW i \in Nat, NEW T, T \subseteq 0 .. i, T # {}
    PROVE  \E j \in T : j \in 0 .. i /\ \A k \in j + 1 .. i : k \notin T
<1>. DEFINE U == {n \in Nat : i - n \in T}
<1>1. U \subseteq Nat /\ U # {}
  <2>1. PICK j : j \in T
    OBVIOUS
  <2>2. i - j \in Nat /\ i - (i - j) = j
    BY <2>1
  <2>. QED  BY <2>1, <2>2
<1>. HIDE DEF U
<1>2. PICK n \in U : \A m \in U : n <= m
  BY <1>1, LeastNumber
<1>3. n \in Nat /\ i - n \in T /\ i - n \in 0 .. i
  BY <1>2 DEF U
<1>4. ASSUME NEW k \in (i - n) + 1 .. i PROVE k \notin T
  <2>1. i - k \in Nat /\ i - (i - k) = k /\ ~(n <= i - k)
    BY <1>3
  <2>. QED  BY <1>2, <2>1 DEF U
<1>. QED  BY <1>3, <1>4

\* Each number after the ones before it.
LEMMA Mount ==
    ASSUME NEW N \in Nat, NEW T, \A n \in 0 .. N : (\A k \in 0 .. n - 1 : k \in T) => n \in T
    PROVE  \A n \in 0 .. N : n \in T
<1>. DEFINE Missed == {n \in 0 .. N : n \notin T}
<1>1. ASSUME Missed # {}
      PROVE  FALSE
  <2>1. PICK n \in Missed : \A k \in Missed : n <= k
    <3>1. Missed \subseteq Nat
      OBVIOUS
    <3>. HIDE DEF Missed
    <3>. QED  BY <1>1, <3>1, LeastNumber
  <2>2. n \in 0 .. N /\ n \notin T
    OBVIOUS
  <2>3. ASSUME NEW k \in 0 .. n - 1 PROVE k \in T
    <3>1. k \in 0 .. N /\ ~(n <= k)
      BY <2>2
    <3>. QED  BY <2>1, <3>1
  <2>. QED  BY <2>2, <2>3
<1>. QED  BY <1>1

\* Back from place to place, until a place to stop at, where there is the result.
Backward(f, N, stops, result, back) ==
    f = [c \in 0 .. N |-> IF c \in stops THEN result[c] ELSE f[back[c]]]

\* There is a function defined in this way, each value by an earlier one.
LEMMA BackwardExists ==
    ASSUME NEW N \in Nat, NEW stops, NEW result, NEW back,
           \A c \in 0 .. N : c \notin stops => back[c] \in 0 .. c - 1
    PROVE  \E f : Backward(f, N, stops, result, back)
<1>. DEFINE Right(f, n) == f = [c \in 0 .. n |-> IF c \in stops THEN result[c] ELSE f[back[c]]]
            T == {n \in Nat : \E f : Right(f, n)}
<1>1. 0 \in T
  <2>. DEFINE f == [c \in 0 .. 0 |-> result[c]]
  <2>1. 0 \in stops
    <3>1. 0 \in 0 .. N /\ \A k \in 0 .. 0 - 1 : FALSE
      OBVIOUS
    <3>. QED  BY <3>1
  <2>2. \A c \in 0 .. 0 : c = 0
    OBVIOUS
  <2>3. Right(f, 0)
    BY <2>1, <2>2
  <2>. HIDE DEF Right
  <2>. QED  BY <2>3
<1>2. ASSUME NEW n \in 1 .. N, n - 1 \in T
      PROVE  n \in T
  <2>1. PICK f : Right(f, n - 1)
    BY <1>2
  <2>. DEFINE g == [c \in 0 .. n |-> IF c = n THEN IF c \in stops THEN result[c] ELSE f[back[c]]
                                     ELSE f[c]]
  <2>2. \A c \in 0 .. n : c # n => c \in 0 .. n - 1 /\ c \in 0 .. N
    OBVIOUS
  <2>3. n \in 0 .. n /\ n \in 0 .. N /\ n \in Nat
    OBVIOUS
  <2>4. \A c \in 0 .. n : c \notin stops => back[c] \in 0 .. n /\ back[c] # n
    <3>1. ASSUME NEW c \in 0 .. n, c \notin stops PROVE back[c] \in 0 .. n /\ back[c] # n
      <4>1. back[c] \in 0 .. c - 1
        BY <2>2, <2>3, <3>1
      <4>. QED  BY <4>1
    <3>. QED  BY <3>1
  <2>5. Right(g, n)
    <3>1. ASSUME NEW c \in 0 .. n
          PROVE  g[c] = IF c \in stops THEN result[c] ELSE g[back[c]]
      <4>1. CASE c = n
        BY <2>4, <3>1, <4>1
      <4>2. CASE c # n
        <5>1. f[c] = IF c \in stops THEN result[c] ELSE f[back[c]]
          BY <2>1, <2>2, <4>2
        <5>. QED  BY <2>4, <4>2, <5>1
      <4>. QED  BY <4>1, <4>2
    <3>2. g = [c \in 0 .. n |-> g[c]]
      OBVIOUS
    <3>. HIDE DEF g
    <3>. QED  BY <3>1, <3>2
  <2>. HIDE DEF Right
  <2>. QED  BY <2>3, <2>5
<1>3. \E f : Right(f, N)
  <2>1. N \in 0 .. N
    OBVIOUS
  <2>. HIDE DEF T
  <2>2. N \in T
    BY <1>1, <1>2, <2>1, Climb
  <2>. QED  BY <2>2 DEF T
<1>. QED  BY <1>3 DEF Backward

\* Its values are the results at places to stop.
LEMMA BackwardStops ==
    ASSUME NEW N \in Nat, NEW stops, NEW result, NEW back,
           \A c \in 0 .. N : c \notin stops => back[c] \in 0 .. c - 1,
           NEW f, Backward(f, N, stops, result, back), NEW n \in 0 .. N
    PROVE  \E d \in 0 .. N : d \in stops /\ f[n] = result[d]
<1>. DEFINE U == {c \in Nat : \E d \in 0 .. N : d \in stops /\ f[c] = result[d]}
<1>1. ASSUME NEW c \in 0 .. N, \A k \in 0 .. c - 1 : k \in U
      PROVE  c \in U
  <2>1. f[c] = IF c \in stops THEN result[c] ELSE f[back[c]]
    BY DEF Backward
  <2>2. c \notin stops => back[c] \in U
    BY <1>1
  <2>3. c \in Nat
    OBVIOUS
  <2>. QED  BY <2>1, <2>2, <2>3
<1>2. \A c \in 0 .. N : c \in U
  <2>. HIDE DEF U
  <2>. QED  BY <1>1, Mount
<1>. QED  BY <1>2

\* A sequence cut in two.
LEMMA CutSequence ==
    ASSUME NEW S, NEW s \in Seq(S), NEW k \in 0 .. Len(s)
    PROVE  s = SubSeq(s, 1, k) \o SubSeq(s, k + 1, Len(s))
<1>. DEFINE a == SubSeq(s, 1, k)
            b == SubSeq(s, k + 1, Len(s))
<1>1. a \in Seq(S) /\ Len(a) = k /\ \A i \in 1 .. k : a[i] = s[i]
  BY FrontFacts
<1>2. b \in Seq(S) /\ Len(b) = Len(s) - k /\ \A i \in 1 .. Len(s) - k : b[i] = s[k + i]
  BY RestFacts
<1>. HIDE DEF a, b
<1>3. /\ a \o b \in Seq(S) /\ Len(a \o b) = Len(a) + Len(b)
      /\ \A i \in 1 .. Len(a) : (a \o b)[i] = a[i]
      /\ \A i \in Len(a) + 1 .. Len(a) + Len(b) : (a \o b)[i] = b[i - Len(a)]
  BY <1>1, <1>2, ConcatFacts
<1>4. Len(a \o b) = Len(s)
  BY <1>1, <1>2, <1>3
<1>5. ASSUME NEW i \in 1 .. Len(s) PROVE s[i] = (a \o b)[i]
  <2>1. CASE i <= k
    BY <1>1, <1>3, <2>1
  <2>2. CASE i > k
    <3>1. i \in Len(a) + 1 .. Len(a) + Len(b) /\ i - k \in 1 .. Len(s) - k /\ k + (i - k) = i
      BY <1>1, <1>2, <2>2
    <3>2. b[i - k] = s[k + (i - k)]
      BY <1>2, <3>1
    <3>. QED  BY <1>1, <1>3, <3>1, <3>2
  <2>3. i <= k \/ i > k
    OBVIOUS
  <2>. QED  BY <2>1, <2>2, <2>3
<1>. QED  BY <1>3, <1>4, <1>5, SameSequence DEF a, b

\* What a sequence has.
LEMMA ElementFacts ==
    ASSUME NEW S, NEW s \in Seq(S)
    PROVE  Len(s) \in Nat /\ \A i \in 1 .. Len(s) : s[i] \in S
OBVIOUS

\* The elements of a sequence decide what it is a sequence of.
LEMMA Retyped ==
    ASSUME NEW P, NEW S, NEW s \in Seq(P), \A k \in 1 .. Len(s) : s[k] \in S
    PROVE  s \in Seq(S)
OBVIOUS

\* A sequence of one element.
LEMMA SingleFacts ==
    ASSUME NEW a
    PROVE  <<a>> \in Seq({a}) /\ Len(<<a>>) = 1 /\ <<a>>[1] = a
OBVIOUS

\* Short sequences.
LEMMA PairFacts ==
    ASSUME NEW a, NEW b
    PROVE  /\ <<a, b>> \in Seq({a, b}) /\ Len(<<a, b>>) = 2
           /\ <<a, b>>[1] = a /\ <<a, b>>[2] = b
OBVIOUS

\* And one of three.
LEMMA TripleFacts ==
    ASSUME NEW a, NEW b, NEW c
    PROVE  /\ <<a, b, c>> \in Seq({a, b, c}) /\ Len(<<a, b, c>>) = 3
           /\ <<a, b, c>>[1] = a /\ <<a, b, c>>[2] = b /\ <<a, b, c>>[3] = c
OBVIOUS

\* Something before a sequence.
LEMMA Prepend ==
    ASSUME NEW S, NEW x \in S, NEW s \in Seq(S)
    PROVE  /\ <<x>> \o s \in Seq(S) /\ Len(<<x>> \o s) = Len(s) + 1
           /\ (<<x>> \o s)[1] = x
           /\ \A k \in 1 .. Len(s) : (<<x>> \o s)[k + 1] = s[k]
<1>. DEFINE h == <<x>>
<1>1. h \in Seq(S) /\ Len(h) = 1 /\ h[1] = x
  OBVIOUS
<1>. HIDE DEF h
<1>2. /\ h \o s \in Seq(S) /\ Len(h \o s) = Len(h) + Len(s)
      /\ \A i \in 1 .. Len(h) : (h \o s)[i] = h[i]
      /\ \A i \in Len(h) + 1 .. Len(h) + Len(s) : (h \o s)[i] = s[i - Len(h)]
  BY <1>1, ConcatFacts
<1>3. \A k \in 1 .. Len(s) : k + 1 \in 2 .. 1 + Len(s) /\ (k + 1) - 1 = k
  OBVIOUS
<1>. QED  BY <1>1, <1>2, <1>3 DEF h

\* One element before another one makes a pair.
LEMMA PairConcat ==
    ASSUME NEW a, NEW b
    PROVE  <<a>> \o <<b>> = <<a, b>>
<1>. DEFINE s == <<a>> \o <<b>>
            t == <<a, b>>
            S == {a, b}
<1>1. /\ <<a>> \in Seq(S) /\ <<b>> \in Seq(S) /\ t \in Seq(S)
      /\ Len(<<a>>) = 1 /\ Len(<<b>>) = 1 /\ <<a>>[1] = a /\ <<b>>[1] = b
      /\ Len(t) = 2 /\ t[1] = a /\ t[2] = b
  OBVIOUS
<1>2. s \in Seq(S) /\ Len(s) = 2 /\ s[1] = a /\ s[2] = b
  BY <1>1
<1>3. \A k \in 1 .. Len(s) : k = 1 \/ k = 2
  BY <1>2
<1>. HIDE DEF s, t, S
<1>4. Len(s) = Len(t) /\ \A k \in 1 .. Len(s) : s[k] = t[k]
  BY <1>1, <1>2, <1>3
<1>5. s = t
  BY <1>1, <1>2, <1>4, SameSequence
<1>. QED  BY <1>5 DEF s, t

\* One element before a pair makes a triple.
LEMMA TripleConcat ==
    ASSUME NEW a, NEW b, NEW c
    PROVE  <<a>> \o <<b, c>> = <<a, b, c>>
<1>. DEFINE s == <<a>> \o <<b, c>>
            t == <<a, b, c>>
            S == {a, b, c}
<1>1. /\ <<a>> \in Seq(S) /\ <<b, c>> \in Seq(S) /\ t \in Seq(S)
      /\ Len(<<a>>) = 1 /\ Len(<<b, c>>) = 2
      /\ <<a>>[1] = a /\ <<b, c>>[1] = b /\ <<b, c>>[2] = c
      /\ Len(t) = 3 /\ t[1] = a /\ t[2] = b /\ t[3] = c
  OBVIOUS
<1>2. s \in Seq(S) /\ Len(s) = 3 /\ s[1] = a /\ s[2] = b /\ s[3] = c
  BY <1>1
<1>3. \A k \in 1 .. Len(s) : k = 1 \/ k = 2 \/ k = 3
  BY <1>2
<1>. HIDE DEF s, t, S
<1>4. Len(s) = Len(t) /\ \A k \in 1 .. Len(s) : s[k] = t[k]
  BY <1>1, <1>2, <1>3
<1>5. s = t
  BY <1>1, <1>2, <1>4, SameSequence
<1>. QED  BY <1>5 DEF s, t

\* A sequence, from one place on and from the one before.
LEMMA RestSteps ==
    ASSUME NEW S, NEW s \in Seq(S)
    PROVE  /\ SubSeq(s, Len(s) + 1, Len(s)) = <<>> /\ SubSeq(s, 0 + 1, Len(s)) = s
           /\ \A n \in 0 .. Len(s) - 1 :
                SubSeq(s, n + 1, Len(s)) = <<s[n + 1]>> \o SubSeq(s, (n + 1) + 1, Len(s))
<1>. DEFINE N == Len(s)
            Rest(n) == SubSeq(s, n + 1, N)
<1>1. N \in Nat /\ N \in 0 .. N /\ 0 \in 0 .. N
  OBVIOUS
<1>2. \A n \in 0 .. N : /\ Rest(n) \in Seq(S) /\ Len(Rest(n)) = N - n
                        /\ \A i \in 1 .. N - n : Rest(n)[i] = s[n + i]
  BY RestFacts
<1>. HIDE DEF Rest
<1>3. Rest(N) = <<>>
  BY <1>1, <1>2
<1>4. Rest(0) = s
  <2>1. /\ Rest(0) \in Seq(S) /\ Len(Rest(0)) = N - 0
        /\ \A i \in 1 .. N - 0 : Rest(0)[i] = s[0 + i]
    BY <1>1, <1>2
  <2>2. Len(Rest(0)) = N /\ \A i \in 1 .. Len(Rest(0)) : Rest(0)[i] = s[i]
    BY <2>1, <1>1
  <2>. QED  BY <2>1, <2>2, SameSequence
<1>5. ASSUME NEW n \in 0 .. N - 1
      PROVE  Rest(n) = <<s[n + 1]>> \o Rest(n + 1)
  <2>1. n \in 0 .. N /\ n + 1 \in 0 .. N /\ n + 1 \in 1 .. N /\ s[n + 1] \in S
    BY <1>1
  <2>2. /\ Rest(n) \in Seq(S) /\ Len(Rest(n)) = N - n
        /\ \A i \in 1 .. N - n : Rest(n)[i] = s[n + i]
        /\ Rest(n + 1) \in Seq(S) /\ Len(Rest(n + 1)) = N - (n + 1)
        /\ \A i \in 1 .. N - (n + 1) : Rest(n + 1)[i] = s[(n + 1) + i]
    BY <1>2, <2>1
  <2>. DEFINE t == <<s[n + 1]>> \o Rest(n + 1)
  <2>3. /\ t \in Seq(S) /\ Len(t) = Len(Rest(n + 1)) + 1 /\ t[1] = s[n + 1]
        /\ \A k \in 1 .. Len(Rest(n + 1)) : t[k + 1] = Rest(n + 1)[k]
    BY <2>1, <2>2, Prepend
  <2>. HIDE DEF t
  <2>4. Len(t) = Len(Rest(n))
    <3>1. (N - (n + 1)) + 1 = N - n
      BY <1>1
    <3>. HIDE DEF N
    <3>. QED  BY <2>2, <2>3, <3>1
  <2>5. ASSUME NEW k \in 1 .. Len(t) PROVE t[k] = Rest(n)[k]
    <3>1. CASE k = 1
      <4>1. 1 \in 1 .. N - n
        BY <1>1
      <4>. QED  BY <2>2, <2>3, <3>1, <4>1
    <3>2. CASE k # 1
      <4>1. /\ k - 1 \in 1 .. N - (n + 1) /\ (k - 1) + 1 = k /\ (n + 1) + (k - 1) = n + k
            /\ k \in 1 .. N - n
        BY <1>1, <2>2, <2>3, <3>2
      <4>2. t[k] = Rest(n + 1)[k - 1] /\ Rest(n + 1)[k - 1] = s[n + k]
        BY <2>2, <2>3, <4>1
      <4>. QED  BY <2>2, <4>1, <4>2
    <3>. QED  BY <3>1, <3>2
  <2>6. t = Rest(n)
    BY <2>2, <2>3, <2>4, <2>5, SameSequence
  <2>. QED  BY <2>6 DEF t
<1>. QED  BY <1>3, <1>4, <1>5 DEF Rest

\* Pairs are made of what they are.
LEMMA ProductFacts ==
    ASSUME NEW A, NEW B
    PROVE  /\ \A a \in A, b \in B : <<a, b>> \in A \X B
           /\ \A x \in A \X B : \E a \in A, b \in B : x = <<a, b>>
OBVIOUS

-----------------------------------------------------------------------------
(* Where a sequence is found in another one.                               *)

\* A sequence that is found at a place of another one.
Matches(p, s, i) == i + Len(p) <= Len(s) /\ \A k \in 1 .. Len(p) : p[k] = s[i + k]

\* It is a prefix of what is behind that place.
LEMMA PrefixAt ==
    ASSUME NEW P, NEW S, NEW p \in Seq(P), NEW s \in Seq(S), NEW i \in 0 .. Len(s)
    PROVE  IsPrefix(p, SubSeq(s, i + 1, Len(s))) <=> Matches(p, s, i)
<1>. DEFINE t == SubSeq(s, i + 1, Len(s))
            n == Len(p)
            Both == P \union S
<1>1. /\ t \in Seq(S) /\ Len(t) = Len(s) - i
      /\ \A k \in 1 .. Len(s) - i : t[k] = s[i + k]
  BY RestFacts
<1>2. n \in Nat /\ Len(s) \in Nat
  OBVIOUS
<1>. HIDE DEF t
<1>3. SubSeq(p, 1, n) \in Seq(P) /\ Len(SubSeq(p, 1, n)) = n /\ \A k \in 1 .. n : SubSeq(p, 1, n)[k] = p[k]
  BY FrontFacts
<1>4. ASSUME n <= Len(t)
      PROVE  /\ SubSeq(t, 1, n) \in Seq(S) /\ Len(SubSeq(t, 1, n)) = n
             /\ \A k \in 1 .. n : SubSeq(t, 1, n)[k] = t[k]
  <2>1. n \in 0 .. Len(t)
    BY <1>1, <1>2, <1>4
  <2>. QED  BY <1>1, <2>1, FrontFacts
<1>5. ASSUME n <= Len(t)
      PROVE  SubSeq(p, 1, n) = SubSeq(t, 1, n) <=> \A k \in 1 .. n : p[k] = t[k]
  <2>. DEFINE a == SubSeq(p, 1, n)
              b == SubSeq(t, 1, n)
  <2>1. a \in Seq(P) /\ b \in Seq(S) /\ Len(a) = n /\ Len(b) = n
        /\ \A k \in 1 .. n : a[k] = p[k] /\ b[k] = t[k]
    BY <1>3, <1>4, <1>5
  <2>. HIDE DEF a, b
  <2>2. a \in Seq(Both) /\ b \in Seq(Both)
    BY <2>1
  <2>3. (\A k \in 1 .. n : p[k] = t[k]) => a = b
    <3>1. ASSUME \A k \in 1 .. n : p[k] = t[k] PROVE a = b
      <4>1. \A k \in 1 .. Len(a) : a[k] = b[k]
        BY <2>1, <3>1
      <4>2. Len(a) = Len(b)
        BY <2>1
      <4>. HIDE DEF n, Both
      <4>. QED  BY <2>2, <4>1, <4>2, SameSequence
    <3>. QED  BY <3>1
  <2>. QED  BY <2>1, <2>3 DEF a, b
<1>6. n <= Len(t) => ((\A k \in 1 .. n : p[k] = t[k]) <=> (\A k \in 1 .. n : p[k] = s[i + k]))
  <2>1. n <= Len(t) => \A k \in 1 .. n : t[k] = s[i + k]
    BY <1>1, <1>2
  <2>. QED  BY <2>1
<1>7. n <= Len(t) <=> i + n <= Len(s)
  BY <1>1, <1>2
<1>. QED  BY <1>5, <1>6, <1>7 DEF IsPrefix, Matches, t

\* A pair is found where its first element is, and its second one behind it.
LEMMA PairPrefix ==
    ASSUME NEW a, NEW b, NEW S, NEW s \in Seq(S), NEW i \in 0 .. Len(s)
    PROVE  IsPrefix(<<a, b>>, SubSeq(s, i + 1, Len(s)))
            <=> i + 1 < Len(s) /\ a = s[i + 1] /\ b = s[i + 2]
<1>. DEFINE p == <<a, b>>
            P == {a, b}
<1>1. p \in Seq(P) /\ Len(p) = 2 /\ p[1] = a /\ p[2] = b
  BY PairFacts
<1>. HIDE DEF p, P
<1>2. IsPrefix(p, SubSeq(s, i + 1, Len(s))) <=> Matches(p, s, i)
  BY <1>1, PrefixAt
<1>3. \A k \in 1 .. 2 : k = 1 \/ k = 2
  OBVIOUS
<1>4. i + Len(p) <= Len(s) <=> i + 1 < Len(s)
  BY <1>1
<1>5. (\A k \in 1 .. Len(p) : p[k] = s[i + k]) <=> a = s[i + 1] /\ b = s[i + 2]
  BY <1>1, <1>3
<1>. QED  BY <1>2, <1>4, <1>5 DEF p, Matches

\* A triple likewise.
LEMMA TriplePrefix ==
    ASSUME NEW a, NEW b, NEW c, NEW S, NEW s \in Seq(S), NEW i \in 0 .. Len(s)
    PROVE  IsPrefix(<<a, b, c>>, SubSeq(s, i + 1, Len(s)))
            <=> i + 2 < Len(s) /\ a = s[i + 1] /\ b = s[i + 2] /\ c = s[i + 3]
<1>. DEFINE p == <<a, b, c>>
            P == {a, b, c}
<1>1. p \in Seq(P) /\ Len(p) = 3 /\ p[1] = a /\ p[2] = b /\ p[3] = c
  BY TripleFacts
<1>. HIDE DEF p, P
<1>2. IsPrefix(p, SubSeq(s, i + 1, Len(s))) <=> Matches(p, s, i)
  BY <1>1, PrefixAt
<1>3. \A k \in 1 .. 3 : k = 1 \/ k = 2 \/ k = 3
  OBVIOUS
<1>4. i + Len(p) <= Len(s) <=> i + 2 < Len(s)
  BY <1>1
<1>5. (\A k \in 1 .. Len(p) : p[k] = s[i + k]) <=> a = s[i + 1] /\ b = s[i + 2] /\ c = s[i + 3]
  BY <1>1, <1>3
<1>. QED  BY <1>2, <1>4, <1>5 DEF p, Matches

-----------------------------------------------------------------------------
(* Functions defined from the end to the beginning, and concatenations.    *)

\* From place to place towards the end, until a place to stop at; each value is made of
\* that of the place ahead.
Forward(f, N, stops, result, next, step) ==
    f = [i \in 0 .. N |-> IF i \in stops THEN result[i] ELSE step[i][f[next[i]]]]

\* There is a function defined in this way.
LEMMA ForwardExists ==
    ASSUME NEW N \in Nat, NEW S, NEW stops, NEW result, NEW next, NEW step,
           \A i \in 0 .. N : IF i \in stops THEN result[i] \in S
                             ELSE next[i] \in i + 1 .. N /\ step[i] \in [S -> S]
    PROVE  \E f \in [0 .. N -> S] : Forward(f, N, stops, result, next, step)
<1>. DEFINE At(f, i) == IF i \in stops THEN result[i] ELSE step[i][f[next[i]]]
            Right(f, k) == f \in [0 .. N -> S] /\ \A i \in N - k .. N : f[i] = At(f, i)
            T == {k \in Nat : \E f : Right(f, k)}
<1>1. N \in 0 .. N /\ N \in stops /\ result[N] \in S
  <2>1. N \in 0 .. N /\ \A k \in N + 1 .. N : FALSE
    OBVIOUS
  <2>. QED  BY <2>1
<1>2. 0 \in T
  <2>. DEFINE f == [i \in 0 .. N |-> result[N]]
  <2>1. Right(f, 0)
    <3>1. \A i \in N - 0 .. N : i = N
      OBVIOUS
    <3>. QED  BY <1>1, <3>1
  <2>. HIDE DEF Right
  <2>. QED  BY <2>1
<1>3. ASSUME NEW k \in 1 .. N, k - 1 \in T
      PROVE  k \in T
  <2>1. PICK f : Right(f, k - 1)
    BY <1>3
  <2>. DEFINE c == N - k
              g == [f EXCEPT ![c] = At(f, c)]
  <2>2. /\ c \in 0 .. N /\ N - (k - 1) = c + 1 /\ k \in Nat
        /\ \A i \in c .. N : i \in 0 .. N /\ (i = c \/ i \in c + 1 .. N)
        /\ \A i \in c + 1 .. N : i # c
    OBVIOUS
  <2>. HIDE DEF c
  <2>3. At(f, c) \in S
    <3>1. CASE c \in stops
      BY <2>2, <3>1
    <3>2. CASE c \notin stops
      <4>1. next[c] \in c + 1 .. N /\ step[c] \in [S -> S]
        BY <2>2, <3>2
      <4>2. f[next[c]] \in S
        BY <2>1, <2>2, <4>1
      <4>. QED  BY <3>2, <4>1, <4>2
    <3>. QED  BY <3>1, <3>2
  <2>4. /\ g \in [0 .. N -> S] /\ g[c] = At(f, c)
        /\ \A i \in c + 1 .. N : g[i] = f[i]
    <3>. HIDE DEF At
    <3>. QED  BY <2>1, <2>2, <2>3
  <2>. HIDE DEF g
  <2>5. ASSUME NEW i \in c .. N PROVE At(g, i) = At(f, i)
    <3>1. i \notin stops => next[i] \in i + 1 .. N
      BY <2>2
    <3>2. i \notin stops => next[i] \in c + 1 .. N
      BY <2>2, <3>1
    <3>. QED  BY <2>4, <3>2
  <2>6. \A i \in c .. N : g[i] = At(g, i)
    <3>. HIDE DEF At
    <3>. QED  BY <2>1, <2>2, <2>4, <2>5
  <2>7. Right(g, k)
    <3>. HIDE DEF At
    <3>. QED  BY <2>4, <2>6 DEF c
  <2>. HIDE DEF Right
  <2>. QED  BY <2>2, <2>7
<1>4. N \in T
  <2>. HIDE DEF T
  <2>. QED  BY <1>1, <1>2, <1>3, Climb
<1>5. PICK f : Right(f, N)
  BY <1>4
<1>6. \A i \in 0 .. N : f[i] = At(f, i)
  <2>1. N - N = 0
    OBVIOUS
  <2>. HIDE DEF At
  <2>. QED  BY <1>5, <2>1
<1>7. f = [i \in 0 .. N |-> At(f, i)]
  <2>. HIDE DEF At
  <2>. QED  BY <1>5, <1>6
<1>. QED  BY <1>5, <1>7 DEF Forward

\* The sequences that FlattenSeq makes, one after the other.
Flattening(f, S, seqs) ==
    /\ f \in [0 .. Len(seqs) -> Seq(S)] /\ f[0] = <<>>
    /\ \A n \in 1 .. Len(seqs) : f[n] = f[n - 1] \o seqs[n]

\* The last of them is what FlattenSeq returns.
LEMMA FlatteningExists ==
    ASSUME NEW S, NEW seqs \in Seq(Seq(S))
    PROVE  \E f : Flattening(f, S, seqs) /\ FlattenSeq(seqs) = f[Len(seqs)]
<1>. DEFINE N == Len(seqs)
            Texts == Seq(S)
            next == [n \in 1 .. N |-> [s \in Texts |-> s \o seqs[n]]]
            Body(f) == [i \in 1 .. N |-> IF i = 1 THEN seqs[i] ELSE f[i - 1] \o seqs[i]]
            flatten == CHOOSE f : f = Body(f)
<1>1. N \in Nat /\ \A n \in 1 .. N : seqs[n] \in Texts
  <2>1. \A T : seqs \in Seq(T) => Len(seqs) \in Nat /\ \A n \in 1 .. Len(seqs) : seqs[n] \in T
    BY ElementFacts
  <2>. QED  BY <2>1, Zenon
<1>2. /\ <<>> \in Texts /\ \A s, t \in Texts : s \o t \in Texts
      /\ \A s \in Texts : <<>> \o s = s
  OBVIOUS
<1>. HIDE DEF Texts, N
<1>3. next \in [1 .. N -> [Texts -> Texts]]
  BY <1>1, <1>2
<1>4. PICK f : IsRun(f, Texts, <<>>, N, next)
  <2>. HIDE DEF next
  <2>. QED  BY <1>1, <1>2, <1>3, Iterates
<1>5. /\ f \in [0 .. N -> Texts] /\ f[0] = <<>>
      /\ \A n \in 1 .. N : f[n] = f[n - 1] \o seqs[n] /\ f[n] \in Texts
  <2>1. \A n \in 1 .. N : n - 1 \in 0 .. N /\ n \in 0 .. N
    BY <1>1
  <2>. QED  BY <1>4, <2>1 DEF IsRun
<1>6. Flattening(f, S, seqs)
  BY <1>5 DEF Flattening, Texts, N
<1>7. CASE N = 0
  <2>1. seqs = <<>>
    BY <1>7 DEF N
  <2>2. FlattenSeq(seqs) = <<>>
    BY <1>7, <2>1 DEF FlattenSeq, N
  <2>. QED  BY <1>5, <1>6, <1>7, <2>2 DEF N
<1>8. CASE N # 0
  <2>. DEFINE g == [n \in 1 .. N |-> f[n]]
  <2>1. g = Body(g)
    <3>1. /\ 1 \in 1 .. N /\ 1 - 1 = 0
          /\ \A n \in 1 .. N : n # 1 => n - 1 \in 1 .. N
      BY <1>1, <1>8
    <3>2. f[1] = seqs[1]
      <4>1. f[1] = f[0] \o seqs[1] /\ seqs[1] \in Texts
        <5>1. f[1] = f[1 - 1] \o seqs[1] /\ seqs[1] \in Texts
          BY <1>1, <1>5, <3>1, Zenon
        <5>. QED  BY <3>1, <5>1
      <4>. QED  BY <1>2, <1>5, <4>1, Zenon
    <3>. QED  BY <1>5, <3>1, <3>2
  <2>. HIDE DEF g
  <2>2. flatten = Body(flatten)
    <3>. HIDE DEF Body
    <3>. QED  BY <2>1
  <2>3. FlattenSeq(seqs) = flatten[N]
    BY <1>8 DEF FlattenSeq, N
  <2>. HIDE DEF flatten
  <2>4. \A n \in 1 .. N : flatten[n] = IF n = 1 THEN seqs[n] ELSE flatten[n - 1] \o seqs[n]
    BY <2>2
  <2>. DEFINE T == {n \in Nat : n # 0 => flatten[n] = f[n]}
  <2>5. \A n \in 1 .. N : n - 1 \in T => n \in T
    <3>1. ASSUME NEW n \in 1 .. N, n - 1 \in T PROVE flatten[n] = f[n]
      <4>1. CASE n = 1
        <5>1. flatten[n] = seqs[n] /\ f[n] = f[n - 1] \o seqs[n] /\ seqs[n] \in Texts
          BY <1>1, <1>5, <2>4, <4>1, Zenon
        <5>2. n - 1 = 0
          BY <4>1
        <5>3. f[n - 1] = <<>>
          BY <1>5, <5>2
        <5>. QED  BY <1>2, <5>1, <5>3, Zenon
      <4>2. CASE n # 1
        <5>1. flatten[n] = flatten[n - 1] \o seqs[n]
          BY <2>4, <4>2, Zenon
        <5>2. n - 1 # 0
          BY <1>1, <4>2
        <5>3. flatten[n - 1] = f[n - 1]
          BY <3>1, <5>2
        <5>. QED  BY <1>5, <5>1, <5>3, Zenon
      <4>. QED  BY <4>1, <4>2
    <3>. QED  BY <3>1
  <2>6. N \in T
    <3>1. 0 \in T /\ N \in 0 .. N
      BY <1>1
    <3>. HIDE DEF T
    <3>. QED  BY <1>1, <2>5, <3>1, Climb
  <2>. QED  BY <1>6, <1>8, <2>3, <2>6 DEF N
<1>. QED  BY <1>7, <1>8

\* Where in what FlattenSeq returns each of the sequences ends.
EndsOf(off, S, seqs) ==
    LET flat == FlattenSeq(seqs) IN
    /\ flat \in Seq(S)
    /\ off \in [0 .. Len(seqs) -> Nat] /\ off[0] = 0 /\ off[Len(seqs)] = Len(flat)
    /\ \A n \in 1 .. Len(seqs) :
        /\ off[n] = off[n - 1] + Len(seqs[n]) /\ off[n] <= Len(flat)
        /\ \A k \in 1 .. Len(seqs[n]) : flat[off[n - 1] + k] = seqs[n][k]

\* They are there, one behind the other.
LEMMA FlattenPlaces ==
    ASSUME NEW S, NEW seqs \in Seq(Seq(S))
    PROVE  \E off : EndsOf(off, S, seqs)
<1>. DEFINE N == Len(seqs)
            Texts == Seq(S)
            flat == FlattenSeq(seqs)
<1>1. N \in Nat /\ \A n \in 1 .. N : seqs[n] \in Texts
  <2>1. \A T : seqs \in Seq(T) => Len(seqs) \in Nat /\ \A n \in 1 .. Len(seqs) : seqs[n] \in T
    BY ElementFacts
  <2>. QED  BY <2>1, Zenon
<1>2. PICK f : Flattening(f, S, seqs) /\ flat = f[N]
  BY FlatteningExists
<1>3. /\ f \in [0 .. N -> Texts] /\ f[0] = <<>>
      /\ \A n \in 1 .. N : f[n] = f[n - 1] \o seqs[n]
  BY <1>2 DEF Flattening
<1>. HIDE DEF N, flat
<1>. DEFINE off == [n \in 0 .. N |-> Len(f[n])]
<1>4. \A n \in 0 .. N : f[n] \in Texts /\ Len(f[n]) \in Nat /\ off[n] = Len(f[n])
  <2>1. ASSUME NEW n \in 0 .. N PROVE f[n] \in Texts
    <3>. HIDE DEF Texts
    <3>. QED  BY <1>3
  <2>. QED  BY <2>1
<1>5. \A n \in 1 .. N : n - 1 \in 0 .. N /\ n \in 0 .. N
  BY <1>1
<1>6. ASSUME NEW n \in 1 .. N
      PROVE  /\ off[n] = off[n - 1] + Len(seqs[n]) /\ Len(seqs[n]) \in Nat
             /\ \A k \in 1 .. off[n - 1] : f[n][k] = f[n - 1][k]
             /\ \A k \in 1 .. Len(seqs[n]) : f[n][off[n - 1] + k] = seqs[n][k]
  <2>. DEFINE s == f[n - 1]
              t == seqs[n]
  <2>1. /\ s \in Seq(S) /\ t \in Seq(S) /\ f[n] = s \o t
        /\ off[n] = Len(f[n]) /\ off[n - 1] = Len(s)
    BY <1>1, <1>3, <1>4, <1>5
  <2>. HIDE DEF s, t, off
  <2>2. /\ s \o t \in Seq(S) /\ Len(s \o t) = Len(s) + Len(t)
        /\ \A i \in 1 .. Len(s) : (s \o t)[i] = s[i]
        /\ \A i \in Len(s) + 1 .. Len(s) + Len(t) : (s \o t)[i] = t[i - Len(s)]
    BY <2>1, ConcatFacts
  <2>3. Len(s) \in Nat /\ Len(t) \in Nat
    BY <2>1
  <2>4. \A k \in 1 .. Len(t) : (s \o t)[Len(s) + k] = t[k]
    <3>1. \A k \in 1 .. Len(t) : /\ Len(s) + k \in Len(s) + 1 .. Len(s) + Len(t)
                                 /\ (Len(s) + k) - Len(s) = k
      BY <2>3
    <3>. QED  BY <2>2, <3>1
  <2>. QED  BY <2>1, <2>2, <2>3, <2>4 DEF s, t
<1>. DEFINE Kept(m, n) == /\ off[m] <= off[n]
                          /\ \A k \in 1 .. off[m] : f[n][k] = f[m][k]
            T(m) == {n \in Nat : n >= m => Kept(m, n)}
<1>7. ASSUME NEW m \in 0 .. N PROVE \A n \in 0 .. N : n >= m => Kept(m, n)
  <2>1. 0 \in T(m)
    <3>1. 0 >= m => m = 0
      BY <1>1
    <3>2. off[0] <= off[0]
      BY <1>1, <1>4
    <3>. HIDE DEF off
    <3>. QED  BY <3>1, <3>2
  <2>2. ASSUME NEW n \in 1 .. N, n - 1 \in T(m) PROVE n \in T(m)
    <3>1. CASE m = n
      <4>1. off[n] \in Nat /\ n \in Nat
        BY <1>1, <1>4, <1>5
      <4>. HIDE DEF off
      <4>. QED  BY <3>1, <4>1
    <3>2. CASE m < n
      <4>1. Kept(m, n - 1) /\ n \in Nat
        BY <1>1, <2>2, <3>2
      <4>2. off[n] = off[n - 1] + Len(seqs[n]) /\ Len(seqs[n]) \in Nat
            /\ \A k \in 1 .. off[n - 1] : f[n][k] = f[n - 1][k]
        BY <1>6
      <4>3. off[m] \in Nat /\ off[n - 1] \in Nat
        BY <1>4, <1>5
      <4>. HIDE DEF off
      <4>4. Kept(m, n)
        BY <4>1, <4>2, <4>3
      <4>. HIDE DEF Kept
      <4>. QED  BY <4>1, <4>4
    <3>3. CASE m > n
      <4>1. n \in Nat /\ ~(n >= m)
        BY <1>1, <3>3
      <4>. HIDE DEF Kept
      <4>. QED  BY <4>1
    <3>4. m = n \/ m < n \/ m > n
      BY <1>1
    <3>. QED  BY <3>1, <3>2, <3>3, <3>4
  <2>3. \A n \in 0 .. N : n \in T(m)
    <3>. HIDE DEF T
    <3>. QED  BY <1>1, <2>1, <2>2, Climb
  <2>. HIDE DEF Kept
  <2>. QED  BY <2>3
<1>8. ASSUME NEW n \in 1 .. N
      PROVE  /\ off[n] <= Len(flat)
             /\ \A k \in 1 .. Len(seqs[n]) : flat[off[n - 1] + k] = seqs[n][k]
  <2>1. Kept(n, N) /\ off[N] = Len(flat)
    <3>1. n \in 0 .. N /\ N \in 0 .. N /\ N >= n
      BY <1>1
    <3>. HIDE DEF Kept
    <3>2. Kept(n, N)
      BY <1>7, <3>1
    <3>. QED  BY <1>2, <1>4, <3>1, <3>2 DEF N
  <2>2. /\ off[n] = off[n - 1] + Len(seqs[n]) /\ Len(seqs[n]) \in Nat
        /\ \A k \in 1 .. Len(seqs[n]) : f[n][off[n - 1] + k] = seqs[n][k]
    BY <1>6
  <2>3. off[n - 1] \in Nat
    BY <1>4, <1>5
  <2>4. flat = f[N]
    BY <1>2 DEF N
  <2>. HIDE DEF off
  <2>5. \A k \in 1 .. Len(seqs[n]) : off[n - 1] + k \in 1 .. off[n]
    BY <2>2, <2>3
  <2>6. \A k \in 1 .. off[n] : f[N][k] = f[n][k]
    BY <2>1
  <2>7. \A k \in 1 .. Len(seqs[n]) : flat[off[n - 1] + k] = seqs[n][k]
    BY <2>2, <2>4, <2>5, <2>6, Zenon
  <2>. QED  BY <2>1, <2>7
<1>9. flat \in Seq(S) /\ off[N] = Len(flat) /\ off[0] = 0 /\ off \in [0 .. N -> Nat]
  <2>1. N \in 0 .. N /\ 0 \in 0 .. N
    BY <1>1
  <2>2. flat = f[N] /\ off[N] = Len(f[N]) /\ off[0] = Len(f[0]) /\ f[N] \in Seq(S)
    BY <1>2, <1>4, <2>1 DEF N
  <2>3. off \in [0 .. N -> Nat]
    BY <1>4
  <2>4. Len(<<>>) = 0
    OBVIOUS
  <2>. HIDE DEF off
  <2>. QED  BY <1>3, <2>2, <2>3, <2>4
<1>. HIDE DEF off
<1>10. EndsOf(off, S, seqs)
  BY <1>6, <1>8, <1>9 DEF EndsOf, N, flat
<1>. QED  BY <1>10
=============================================================================
