---------------------------- MODULE GxFifoProofs ----------------------------
(***************************************************************************)
(* The geometry fifo, for every set of commands, every length of the fifo, *)
(* of a chunk and of a burst.  It stays within its bound and no transfer   *)
(* is forgotten: GxInv is inductive, every action needs what it does to    *)
(* the length of the fifo.  Commands stay intact: the words of the fifo,   *)
(* with the ones to come, are the parameters of the header in hand and     *)
(* whole packets behind them.  The walk of test_queue_busy over packets    *)
(* finds a test exactly when there is one.                                 *)
(***************************************************************************)
EXTENDS GxFifo, SequenceTheorems, WellFoundedInduction, TLAPS

-----------------------------------------------------------------------------
(* Flattening.                                                             *)

\* A set of naturals has a least element.
LEMMA Least ==
    ASSUME NEW T \in SUBSET Nat, T # {}
    PROVE  \E x \in T : \A y \in T : x <= y
  <1> DEFINE R == OpToRel(<, Nat)
  <1>1. IsWellFoundedOn(R, Nat)
    BY NatLessThanWellFounded
  <1>2. \A x, y \in Nat : x < y => <<x, y>> \in R
    BY DEF OpToRel
  <1> HIDE DEF R
  <1>3. PICK x \in T : \A y \in T : ~(<<y, x>> \in R)
    BY <1>1, WFMin
  <1>4. ASSUME NEW y \in T PROVE x <= y
    <2>1. x \in Nat /\ y \in Nat /\ ~(y < x)
      BY <1>2, <1>3
    <2> QED
      BY <2>1
  <1> QED
    BY <1>4

\* Induction, as a statement about a set.
LEMMA Inductive ==
    ASSUME NEW T, 0 \in T, \A n \in Nat : n \in T => n + 1 \in T
    PROVE  \A n \in Nat : n \in T
  <1> DEFINE U == {n \in Nat : n \notin T}
  <1>1. SUFFICES ASSUME U # {} PROVE FALSE
    OBVIOUS
  <1>2. PICK x \in U : \A y \in U : x <= y
    BY <1>1, Least
  <1>3. x \in Nat /\ x # 0 /\ x \notin T
    BY <1>2
  <1>4. x - 1 \in Nat /\ x - 1 \in T
    BY <1>2, <1>3
  <1>5. (x - 1) + 1 \in T /\ (x - 1) + 1 = x
    BY <1>3, <1>4
  <1> QED
    BY <1>3, <1>5

\* The partial results of FlattenSeq.
Partial(f, s) == f = [i \in 1 .. Len(s) |-> IF i = 1 THEN s[i] ELSE f[i - 1] \o s[i]]

\* There is at most one function of partial results.
LEMMA PartialUnique ==
    ASSUME NEW S, NEW s \in Seq(Seq(S)), NEW f, NEW g, Partial(f, s), Partial(g, s)
    PROVE  f = g
  <1> DEFINE T == {n \in 1 .. Len(s) : f[n] # g[n]}
  <1>1. DOMAIN f = 1 .. Len(s) /\ DOMAIN g = 1 .. Len(s)
        /\ f = [i \in DOMAIN f |-> f[i]] /\ g = [i \in DOMAIN g |-> g[i]]
    BY DEF Partial
  <1>2. SUFFICES ASSUME T # {} PROVE FALSE
    BY <1>1
  <1>3. Len(s) \in Nat
    OBVIOUS
  <1>4. T \in SUBSET Nat
    BY <1>3
  <1>5. PICK x \in T : \A y \in T : x <= y
    BY <1>2, <1>4, Least
  <1>6. x \in 1 .. Len(s) /\ f[x] # g[x]
    OBVIOUS
  <1>7. \A i \in 1 .. Len(s) : /\ f[i] = IF i = 1 THEN s[i] ELSE f[i - 1] \o s[i]
                               /\ g[i] = IF i = 1 THEN s[i] ELSE g[i - 1] \o s[i]
    BY Zenon DEF Partial
  <1>8. x # 1
    BY <1>6, <1>7
  <1>9. x - 1 \in 1 .. Len(s) /\ ~(x <= x - 1)
    BY <1>3, <1>6, <1>8
  <1>10. f[x - 1] = g[x - 1]
    BY <1>5, <1>9
  <1> QED
    BY <1>6, <1>7, <1>8, <1>10

\* There is a function of partial results, of sequences.
LEMMA PartialExists ==
    ASSUME NEW S, NEW s \in Seq(Seq(S))
    PROVE  \E f \in [1 .. Len(s) -> Seq(S)] : Partial(f, s)
  <1> DEFINE eq(f, n) == \A i \in 1 .. n : f[i] = IF i = 1 THEN s[i] ELSE f[i - 1] \o s[i]
             has(n) == \E f \in [1 .. n -> Seq(S)] : eq(f, n)
             T == {n \in Nat : n <= Len(s) => has(n)}
  <1>0. Len(s) \in Nat /\ \A i \in 1 .. Len(s) : s[i] \in Seq(S)
    OBVIOUS
  <1>1. 0 \in T
    <2> DEFINE f0 == [i \in 1 .. 0 |-> <<>>]
    <2>1. 1 .. 0 = {}
      OBVIOUS
    <2>2. f0 \in [1 .. 0 -> Seq(S)]
      BY <2>1
    <2>3. eq(f0, 0)
      BY <2>1
    <2>4. has(0)
      <3> HIDE DEF eq, f0
      <3> QED
        BY <2>2, <2>3
    <2> HIDE DEF has
    <2> QED
      BY <2>4
  <1>2. ASSUME NEW n \in Nat, n \in T PROVE n + 1 \in T
    <2> SUFFICES ASSUME n + 1 <= Len(s) PROVE has(n + 1)
      <3> HIDE DEF has
      <3> QED
        OBVIOUS
    <2>0. has(n)
      <3> HIDE DEF has
      <3> QED
        BY <1>0, <1>2
    <2>1. PICK f \in [1 .. n -> Seq(S)] : eq(f, n)
      BY <2>0
    <2> DEFINE g == [i \in 1 .. n + 1 |-> IF i <= n THEN f[i]
                                          ELSE IF i = 1 THEN s[i] ELSE f[i - 1] \o s[i]]
    <2>2. g \in [1 .. n + 1 -> Seq(S)]
      <3>1. ASSUME NEW i \in 1 .. n + 1 PROVE g[i] \in Seq(S)
        <4>1. CASE i <= n
          BY <4>1
        <4>2. CASE i = n + 1 /\ i = 1
          BY <4>2, <1>0
        <4>3. CASE i = n + 1 /\ i # 1
          <5>1. i - 1 \in 1 .. n /\ i \in 1 .. Len(s)
            BY <4>3, <1>0
          <5>2. f[i - 1] \in Seq(S) /\ s[i] \in Seq(S)
            BY <1>0, <5>1
          <5>3. g[i] = f[i - 1] \o s[i]
            <6>1. ~(i <= n) /\ i # 1
              BY <4>3
            <6> QED
              BY <6>1
          <5> QED
            BY <5>2, <5>3, ConcatProperties
        <4> QED
          BY <4>1, <4>2, <4>3
      <3> QED
        BY <3>1
    <2>3. eq(g, n + 1)
      <3>1. ASSUME NEW i \in 1 .. n + 1
            PROVE  g[i] = IF i = 1 THEN s[i] ELSE g[i - 1] \o s[i]
        <4>1. i # 1 => i - 1 \in 1 .. n /\ g[i - 1] = f[i - 1]
          OBVIOUS
        <4>2. CASE i <= n
          <5>1. g[i] = f[i] /\ i \in 1 .. n
            BY <4>2
          <5> HIDE DEF g
          <5> QED
            BY <2>1, <4>1, <5>1
        <4>3. CASE ~(i <= n)
          <5>1. g[i] = IF i = 1 THEN s[i] ELSE f[i - 1] \o s[i]
            BY <4>3
          <5> HIDE DEF g
          <5> QED
            BY <4>1, <5>1
        <4> QED
          BY <4>2, <4>3
      <3> QED
        BY <3>1
    <2> QED
      <3> HIDE DEF g, eq
      <3> QED
        BY <2>2, <2>3
  <1>3. Len(s) \in T
    <2> HIDE DEF T
    <2> QED
      BY <1>0, <1>1, <1>2, Inductive
  <1>4. has(Len(s))
    <2> HIDE DEF has
    <2> QED
      BY <1>0, <1>3
  <1>5. PICK f \in [1 .. Len(s) -> Seq(S)] : eq(f, Len(s))
    BY <1>4
  <1>6. Partial(f, s)
    BY <1>5 DEF Partial
  <1> QED
    BY <1>6

\* What the library's definition computes.
LEMMA FlattenIs ==
    ASSUME NEW S, NEW s \in Seq(Seq(S)), s # <<>>, NEW f, Partial(f, s)
    PROVE  FlattenSeq(s) = f[Len(s)]
  <1> DEFINE E(g) == g = [i \in 1 .. Len(s) |-> IF i = 1 THEN s[i] ELSE g[i - 1] \o s[i]]
  <1>1. E(f)
    BY DEF Partial
  <1>2. \A g : E(g) => g = f
    <2> TAKE g
    <2> HAVE E(g)
    <2>1. Partial(g, s)
      BY DEF Partial
    <2> QED
      BY <2>1, PartialUnique
  <1>3. (CHOOSE g : E(g)) = f
    <2> HIDE DEF E
    <2>1. E(CHOOSE g : E(g))
      BY <1>1, Zenon
    <2> QED
      BY <1>2, <2>1, Zenon
  <1>4. Len(s) # 0
    OBVIOUS
  <1> QED
    BY <1>3, <1>4 DEF FlattenSeq

\* Nothing flattens to nothing.
LEMMA FlattenEmpty == FlattenSeq(<<>>) = <<>>
  BY DEF FlattenSeq

\* Flattening gives a sequence over the same set.
LEMMA FlattenTyped ==
    ASSUME NEW S, NEW s \in Seq(Seq(S))
    PROVE  FlattenSeq(s) \in Seq(S)
  <1>1. CASE s = <<>>
    <2>1. <<>> \in Seq(S)
      OBVIOUS
    <2> QED
      BY <1>1, <2>1, FlattenEmpty, Zenon
  <1>2. CASE s # <<>>
    <2>1. PICK f \in [1 .. Len(s) -> Seq(S)] : Partial(f, s)
      BY PartialExists
    <2>2. Len(s) \in 1 .. Len(s)
      BY <1>2
    <2>3. FlattenSeq(s) = f[Len(s)]
      BY <1>2, <2>1, FlattenIs
    <2> QED
      BY <2>2, <2>3
  <1> QED
    BY <1>1, <1>2

\* The last sequence comes last.
LEMMA FlattenAppend ==
    ASSUME NEW S, NEW s \in Seq(Seq(S)), NEW x \in Seq(S)
    PROVE  FlattenSeq(Append(s, x)) = FlattenSeq(s) \o x
  <1> DEFINE t == Append(s, x)
  <1>1. /\ t \in Seq(Seq(S)) /\ t # <<>> /\ Len(t) = Len(s) + 1 /\ Len(s) \in Nat
        /\ \A i \in 1 .. Len(s) : t[i] = s[i]
        /\ t[Len(s) + 1] = x
    BY AppendProperties
  <1> HIDE DEF t
  <1>2. PICK f \in [1 .. Len(t) -> Seq(S)] : Partial(f, t)
    BY <1>1, PartialExists
  <1>3. FlattenSeq(t) = f[Len(t)]
    BY <1>1, <1>2, FlattenIs
  <1>4. \A i \in 1 .. Len(t) : f[i] = IF i = 1 THEN t[i] ELSE f[i - 1] \o t[i]
    BY <1>2, Zenon DEF Partial
  <1>5. CASE s = <<>>
    <2>1. FlattenSeq(t) = x
      BY <1>1, <1>3, <1>4, <1>5
    <2>2. FlattenSeq(s) = <<>>
      BY <1>5, FlattenEmpty
    <2> QED
      BY <2>1, <2>2, ConcatEmptySeq DEF t
  <1>6. CASE s # <<>>
    <2> DEFINE g == [i \in 1 .. Len(s) |-> f[i]]
    <2>1. Partial(g, s)
      <3>1. ASSUME NEW i \in 1 .. Len(s) PROVE g[i] = IF i = 1 THEN s[i] ELSE g[i - 1] \o s[i]
        <4>1. i \in 1 .. Len(t) /\ t[i] = s[i] /\ g[i] = f[i]
          BY <1>1
        <4>2. i # 1 => i - 1 \in 1 .. Len(s)
          BY <1>1
        <4>3. i # 1 => g[i - 1] = f[i - 1]
          BY <4>2
        <4> HIDE DEF g
        <4> QED
          BY <1>4, <4>1, <4>3
      <3> QED
        BY <3>1 DEF Partial
    <2>2. FlattenSeq(s) = g[Len(s)]
      <3> HIDE DEF g
      <3> QED
        BY <1>6, <2>1, FlattenIs
    <2>3. Len(s) \in 1 .. Len(s) /\ Len(t) \in 1 .. Len(t) /\ Len(t) # 1 /\ Len(t) - 1 = Len(s)
      BY <1>1, <1>6
    <2>4. f[Len(t)] = f[Len(s)] \o t[Len(t)]
      BY <1>4, <2>3
    <2> QED
      BY <1>1, <1>3, <2>2, <2>3, <2>4 DEF t
  <1> QED
    BY <1>5, <1>6

\* Concatenation is associative: named, so that it applies without a search.
Associates(a, b, c) == (a \o b) \o c = a \o (b \o c)

\* Concatenation is associative.
LEMMA ConcatAssociates ==
    ASSUME NEW S, NEW a \in Seq(S), NEW b \in Seq(S), NEW c \in Seq(S)
    PROVE  Associates(a, b, c)
  BY ConcatAssociative DEF Associates

\* The first sequence comes first.
LEMMA FlattenPrepend ==
    ASSUME NEW S, NEW x \in Seq(S), NEW s \in Seq(Seq(S))
    PROVE  FlattenSeq(<<x>> \o s) = x \o FlattenSeq(s)
  <1> DEFINE holds(t) == FlattenSeq(<<x>> \o t) = x \o FlattenSeq(t)
             all(n) == \A t \in Seq(Seq(S)) : Len(t) = n => holds(t)
             T == {n \in Nat : all(n)}
  <1>1. <<x>> \in Seq(Seq(S)) /\ <<>> \in Seq(Seq(S))
    OBVIOUS
  <1>2. all(0)
    <2> SUFFICES holds(<<>>)
      <3> HIDE DEF holds
      <3> QED
        OBVIOUS
    <2>1. <<x>> \o <<>> = <<x>> /\ <<x>> = Append(<<>>, x)
      OBVIOUS
    <2>2. FlattenSeq(Append(<<>>, x)) = FlattenSeq(<<>>) \o x
      BY <1>1, FlattenAppend
    <2>3. FlattenSeq(<<>>) = <<>>
      BY FlattenEmpty
    <2>4. <<>> \o x = x /\ x \o <<>> = x
      OBVIOUS
    <2> QED
      BY <2>1, <2>2, <2>3, <2>4, Zenon
  <1>3. ASSUME NEW n \in Nat, all(n) PROVE all(n + 1)
    <2> SUFFICES ASSUME NEW t \in Seq(Seq(S)), Len(t) = n + 1 PROVE holds(t)
      OBVIOUS
    <2>1. PICK u \in Seq(Seq(S)), y \in Seq(S) : t = Append(u, y)
      <3>1. t # <<>>
        OBVIOUS
      <3> QED
        BY <3>1, SequenceEmptyOrAppend, Zenon
    <2>2. Len(u) = n
      BY <2>1, AppendProperties
    <2>3. FlattenSeq(<<x>> \o u) = x \o FlattenSeq(u)
      BY <1>3, <2>2
    <2>4. <<x>> \o u \in Seq(Seq(S))
      BY <1>1, ConcatProperties
    <2>5. <<x>> \o t = Append(<<x>> \o u, y)
      <3>1. Append(u, y) = u \o <<y>> /\ Append(<<x>> \o u, y) = (<<x>> \o u) \o <<y>>
        BY <2>4, AppendIsConcat
      <3>2. (<<x>> \o u) \o <<y>> = <<x>> \o (u \o <<y>>)
        <4>1. <<y>> \in Seq(Seq(S))
          OBVIOUS
        <4> QED
          BY <1>1, <4>1, ConcatAssociative
      <3> QED
        BY <2>1, <3>1, <3>2, Zenon
    <2>6. FlattenSeq(<<x>> \o t) = (x \o FlattenSeq(u)) \o y
      BY <2>3, <2>4, <2>5, FlattenAppend
    <2>7. FlattenSeq(t) = FlattenSeq(u) \o y
      BY <2>1, FlattenAppend
    <2>8. (x \o FlattenSeq(u)) \o y = x \o (FlattenSeq(u) \o y)
      <3>1. FlattenSeq(u) \in Seq(S)
        BY FlattenTyped
      <3>2. Associates(x, FlattenSeq(u), y)
        BY <3>1, ConcatAssociates, Zenon
      <3> QED
        BY <3>2, Zenon DEF Associates
    <2> QED
      BY <2>6, <2>7, <2>8, Zenon
  <1>4. \A n \in Nat : n \in T
    <2> HIDE DEF all
    <2>1. 0 \in T /\ \A n \in Nat : n \in T => n + 1 \in T
      BY <1>2, <1>3
    <2> HIDE DEF T
    <2> QED
      BY <2>1, Inductive
  <1>5. all(Len(s))
    <2> HIDE DEF all
    <2> QED
      BY <1>4
  <1> QED
    BY <1>5

\* The same with the first sequence taken off.
LEMMA FlattenHead ==
    ASSUME NEW S, NEW s \in Seq(Seq(S)), s # <<>>
    PROVE  FlattenSeq(s) = s[1] \o FlattenSeq(Tail(s))
  <1>1. s[1] \in Seq(S) /\ Tail(s) \in Seq(Seq(S)) /\ s = <<s[1]>> \o Tail(s)
    OBVIOUS
  <1>2. FlattenSeq(<<s[1]>> \o Tail(s)) = s[1] \o FlattenSeq(Tail(s))
    BY <1>1, FlattenPrepend
  <1> QED
    BY <1>1, <1>2, Zenon

\* Empty sequences in front do not count.
LEMMA FlattenDrop ==
    ASSUME NEW S, NEW s \in Seq(Seq(S)), NEW n \in 0 .. Len(s), \A i \in 1 .. n : s[i] = <<>>
    PROVE  FlattenSeq(SubSeq(s, n + 1, Len(s))) = FlattenSeq(s)
  <1> DEFINE from(k) == SubSeq(s, k + 1, Len(s))
             T == {k \in Nat : k <= n => FlattenSeq(from(k)) = FlattenSeq(s)}
  <1>1. Len(s) \in Nat /\ n \in Nat /\ n <= Len(s)
    OBVIOUS
  <1>2. 0 \in T
    <2>1. 0 + 1 = 1
      OBVIOUS
    <2>2. from(0) = s
      BY <2>1, SubSeqFull, Zenon
    <2> HIDE DEF from
    <2> QED
      BY <2>2
  <1>3. ASSUME NEW k \in Nat, k \in T PROVE k + 1 \in T
    <2> SUFFICES ASSUME k + 1 <= n PROVE FlattenSeq(from(k + 1)) = FlattenSeq(s)
      OBVIOUS
    <2>1. FlattenSeq(from(k)) = FlattenSeq(s)
      BY <1>1, <1>3
    <2>2. k + 1 \in 1 .. Len(s) /\ Len(s) \in k + 1 .. Len(s) /\ s[k + 1] = <<>>
      BY <1>1
    <2>3. from(k) = <<s[k + 1]>> \o from(k + 1)
      BY <2>2, SubSeqRecursiveFirst
    <2>4. from(k + 1) \in Seq(Seq(S))
      <3>1. \A i \in (k + 1) + 1 .. Len(s) : s[i] \in Seq(S)
        BY <1>1
      <3> QED
        BY <1>1, <3>1, (k + 1) + 1 \in Int, SubSeqProperties
    <2>5. <<>> \in Seq(S)
      OBVIOUS
    <2> HIDE DEF from
    <2>6. FlattenSeq(<<<<>>>> \o from(k + 1)) = <<>> \o FlattenSeq(from(k + 1))
      BY <2>4, <2>5, FlattenPrepend
    <2>7. <<>> \o FlattenSeq(from(k + 1)) = FlattenSeq(from(k + 1))
      <3>1. FlattenSeq(from(k + 1)) \in Seq(S)
        BY <2>4, FlattenTyped
      <3> QED
        BY <3>1, ConcatEmptySeq
    <2> QED
      BY <2>1, <2>2, <2>3, <2>6, <2>7, Zenon
  <1>4. n \in T
    <2> HIDE DEF T
    <2> QED
      BY <1>1, <1>2, <1>3, Inductive
  <1> QED
    BY <1>1, <1>4

\* Sequences of equal length and elements are equal.
Alike(s, t) == Len(s) = Len(t) /\ \A i \in 1 .. Len(s) : s[i] = t[i]

\* Such sequences are equal.
LEMMA Extensional ==
    ASSUME NEW S, NEW s \in Seq(S), NEW t \in Seq(S), Alike(s, t)
    PROVE  s = t
  BY SeqEqual DEF Alike

\* The sequences that f gives for the elements of s, one after the other.
Maps(f, A, B) == f \in [A -> Seq(B)]
Images(f, s) == [i \in 1 .. Len(s) |-> f[s[i]]]
FlatMap(f, s) == FlattenSeq(Images(f, s))

\* What Images returns, and how FlatMap takes off the first element: named, so
\* that they apply without a search.
AreImages(l, f, s, B) ==
    /\ l \in Seq(Seq(B)) /\ Len(l) = Len(s)
    /\ \A i \in 1 .. Len(s) : l[i] = f[s[i]]
HeadFirst(f, s) == FlatMap(f, s) = f[s[1]] \o FlatMap(f, Tail(s))
LastAdded(f, s, x) == FlatMap(f, Append(s, x)) = FlatMap(f, s) \o f[x]
FirstAdded(f, s, x) == FlatMap(f, <<x>> \o s) = f[x] \o FlatMap(f, s)

\* What Images returns.
LEMMA ImagesTyped ==
    ASSUME NEW A, NEW B, NEW f, Maps(f, A, B), NEW s \in Seq(A)
    PROVE  AreImages(Images(f, s), f, s, B)
  <1>1. Len(s) \in Nat /\ \A i \in 1 .. Len(s) : s[i] \in A
    OBVIOUS
  <1>2. \A i \in 1 .. Len(s) : f[s[i]] \in Seq(B)
    BY <1>1 DEF Maps
  <1> QED
    BY <1>1, <1>2 DEF Images, AreImages

\* FlatMap gives a sequence over the range of f.
LEMMA FlatMapTyped ==
    ASSUME NEW A, NEW B, NEW f, Maps(f, A, B), NEW s \in Seq(A)
    PROVE  FlatMap(f, s) \in Seq(B)
  <1>1. AreImages(Images(f, s), f, s, B)
    BY ImagesTyped, Zenon
  <1>2. Images(f, s) \in Seq(Seq(B))
    BY <1>1, Zenon DEF AreImages
  <1> QED
    BY <1>2, FlattenTyped, Zenon DEF FlatMap

\* Nothing maps to nothing.
LEMMA FlatMapEmpty == \A f : FlatMap(f, <<>>) = <<>>
  <1>1. \A f : Images(f, <<>>) = <<>>
    BY DEF Images
  <1> QED
    BY <1>1, FlattenEmpty DEF FlatMap

\* The image of the last element comes last.
LEMMA FlatMapAppend ==
    ASSUME NEW A, NEW B, NEW f, Maps(f, A, B), NEW s \in Seq(A), NEW x \in A
    PROVE  LastAdded(f, s, x)
  <1> DEFINE t == Append(s, x)
             l == Images(f, s)
             k == Images(f, t)
             m == Append(l, f[x])
  <1>1. /\ t \in Seq(A) /\ Len(t) = Len(s) + 1 /\ Len(s) \in Nat
        /\ \A i \in 1 .. Len(s) : t[i] = s[i]
        /\ t[Len(s) + 1] = x
    BY AppendProperties
  <1> HIDE DEF t
  <1>2. l \in Seq(Seq(B)) /\ Len(l) = Len(s) /\ \A i \in 1 .. Len(s) : l[i] = f[s[i]]
    <2>1. AreImages(l, f, s, B)
      BY ImagesTyped, Zenon
    <2> QED
      BY <2>1, Zenon DEF AreImages
  <1>3. k \in Seq(Seq(B)) /\ Len(k) = Len(t) /\ \A i \in 1 .. Len(t) : k[i] = f[t[i]]
    <2>1. AreImages(k, f, t, B)
      BY <1>1, ImagesTyped, Zenon
    <2> QED
      BY <2>1, Zenon DEF AreImages
  <1>4. f[x] \in Seq(B)
    BY DEF Maps
  <1> HIDE DEF l, k
  <1>5. /\ m \in Seq(Seq(B)) /\ Len(m) = Len(l) + 1
        /\ \A i \in 1 .. Len(l) : m[i] = l[i]
        /\ m[Len(l) + 1] = f[x]
    BY <1>2, <1>4, AppendProperties
  <1>6. FlattenSeq(m) = FlattenSeq(l) \o f[x]
    <2>1. l \in Seq(Seq(B))
      BY <1>2
    <2> QED
      BY <2>1, <1>4, FlattenAppend
  <1> HIDE DEF m
  <1>7. Alike(k, m)
    <2>1. ASSUME NEW i \in 1 .. Len(k) PROVE k[i] = m[i]
      <3>1. CASE i = Len(s) + 1
        <4>1. i \in 1 .. Len(t) /\ t[i] = x /\ m[i] = f[x]
          BY <3>1, <1>1, <1>2, <1>5
        <4> QED
          BY <4>1, <1>3
      <3>2. CASE i # Len(s) + 1
        <4>1. i \in 1 .. Len(s) /\ i \in 1 .. Len(l) /\ i \in 1 .. Len(t)
          BY <3>2, <1>1, <1>2, <1>3
        <4>2. k[i] = f[t[i]] /\ t[i] = s[i] /\ l[i] = f[s[i]] /\ m[i] = l[i]
          BY <4>1, <1>1, <1>2, <1>3, <1>5, Zenon
        <4> QED
          BY <4>2, Zenon
      <3> QED
        BY <3>1, <3>2
    <2>2. Len(k) = Len(m)
      BY <1>1, <1>2, <1>3, <1>5
    <2> QED
      BY <2>1, <2>2, Zenon DEF Alike
  <1>8. k = m
    BY <1>3, <1>5, <1>7, Extensional, Zenon
  <1> QED
    BY <1>6, <1>8, Zenon DEF LastAdded, FlatMap, k, l, t

\* The image of the first element comes first.
LEMMA FlatMapHead ==
    ASSUME NEW A, NEW B, NEW f, Maps(f, A, B), NEW s \in Seq(A), s # <<>>
    PROVE  HeadFirst(f, s)
  <1> DEFINE t == Tail(s)
             l == Images(f, s)
             k == Images(f, t)
             m == Tail(l)
  <1>1. /\ t \in Seq(A) /\ Len(t) = Len(s) - 1 /\ Len(s) \in Nat /\ Len(s) > 0
        /\ \A i \in 1 .. Len(t) : t[i] = s[i + 1]
    BY HeadTailProperties
  <1> HIDE DEF t
  <1>2. l \in Seq(Seq(B)) /\ Len(l) = Len(s) /\ \A i \in 1 .. Len(s) : l[i] = f[s[i]]
    <2>1. AreImages(l, f, s, B)
      BY ImagesTyped, Zenon
    <2> QED
      BY <2>1, Zenon DEF AreImages
  <1>3. k \in Seq(Seq(B)) /\ Len(k) = Len(t) /\ \A i \in 1 .. Len(t) : k[i] = f[t[i]]
    <2>1. AreImages(k, f, t, B)
      BY <1>1, ImagesTyped, Zenon
    <2> QED
      BY <2>1, Zenon DEF AreImages
  <1> HIDE DEF l, k
  <1>4. l # <<>>
    BY <1>1, <1>2
  <1>5. m \in Seq(Seq(B)) /\ Len(m) = Len(l) - 1 /\ \A i \in 1 .. Len(m) : m[i] = l[i + 1]
    BY <1>2, <1>4, HeadTailProperties
  <1>6. FlattenSeq(l) = l[1] \o FlattenSeq(m)
    BY <1>2, <1>4, FlattenHead, Zenon
  <1> HIDE DEF m
  <1>7. Alike(k, m)
    <2>1. ASSUME NEW i \in 1 .. Len(k) PROVE k[i] = m[i]
      <3>1. i \in 1 .. Len(t) /\ i \in 1 .. Len(m) /\ i + 1 \in 1 .. Len(s)
        BY <1>1, <1>2, <1>3, <1>5
      <3>2. k[i] = f[t[i]] /\ t[i] = s[i + 1] /\ l[i + 1] = f[s[i + 1]] /\ m[i] = l[i + 1]
        BY <3>1, <1>1, <1>2, <1>3, <1>5, Zenon
      <3> QED
        BY <3>2, Zenon
    <2>2. Len(k) = Len(m)
      BY <1>1, <1>2, <1>3, <1>5
    <2> QED
      BY <2>1, <2>2, Zenon DEF Alike
  <1>8. k = m
    BY <1>3, <1>5, <1>7, Extensional, Zenon
  <1>9. l[1] = f[s[1]]
    BY <1>1, <1>2
  <1> QED
    BY <1>6, <1>8, <1>9, Zenon DEF HeadFirst, FlatMap, k, l, t

\* The image of an element put in front comes first.
LEMMA FlatMapPrepend ==
    ASSUME NEW A, NEW B, NEW f, Maps(f, A, B), NEW s \in Seq(A), NEW x \in A
    PROVE  FirstAdded(f, s, x)
  <1> DEFINE t == <<x>> \o s
  <1>1. t \in Seq(A) /\ t # <<>> /\ t[1] = x /\ Tail(t) = s
    OBVIOUS
  <1> HIDE DEF t
  <1>2. HeadFirst(f, t)
    BY <1>1, FlatMapHead, Zenon
  <1> QED
    BY <1>1, <1>2, Zenon DEF HeadFirst, FirstAdded, t

\* Elements in front with an empty image do not count.
LEMMA FlatMapDrop ==
    ASSUME NEW A, NEW B, NEW f, Maps(f, A, B), NEW s \in Seq(A), NEW n \in 0 .. Len(s),
           \A i \in 1 .. n : f[s[i]] = <<>>
    PROVE  FlatMap(f, SubSeq(s, n + 1, Len(s))) = FlatMap(f, s)
  <1> DEFINE t == SubSeq(s, n + 1, Len(s))
             l == Images(f, s)
             k == Images(f, t)
             m == SubSeq(l, n + 1, Len(l))
  <1>1. Len(s) \in Nat /\ n \in Nat /\ n <= Len(s)
    OBVIOUS
  <1>2. /\ t \in Seq(A) /\ Len(t) = Len(s) - n
        /\ \A i \in 1 .. Len(t) : t[i] = s[n + i]
    <2>1. \A i \in n + 1 .. Len(s) : s[i] \in A
      BY <1>1
    <2>2. /\ t \in Seq(A) /\ Len(t) = IF n + 1 <= Len(s) THEN Len(s) - (n + 1) + 1 ELSE 0
          /\ \A i \in 1 .. Len(s) - (n + 1) + 1 : t[i] = s[n + 1 + i - 1]
      BY <1>1, <2>1, n + 1 \in Int, Len(s) \in Int, SubSeqProperties
    <2> HIDE DEF t
    <2>3. Len(t) = Len(s) - n
      BY <1>1, <2>2
    <2>4. ASSUME NEW i \in 1 .. Len(t) PROVE t[i] = s[n + i]
      <3>1. i \in 1 .. Len(s) - (n + 1) + 1 /\ n + 1 + i - 1 = n + i
        BY <1>1, <2>3
      <3> QED
        BY <2>2, <3>1
    <2> QED
      BY <2>2, <2>3, <2>4
  <1> HIDE DEF t
  <1>3. l \in Seq(Seq(B)) /\ Len(l) = Len(s) /\ \A i \in 1 .. Len(s) : l[i] = f[s[i]]
    <2>1. AreImages(l, f, s, B)
      BY ImagesTyped, Zenon
    <2> QED
      BY <2>1, Zenon DEF AreImages
  <1>4. k \in Seq(Seq(B)) /\ Len(k) = Len(t) /\ \A i \in 1 .. Len(t) : k[i] = f[t[i]]
    <2>1. AreImages(k, f, t, B)
      BY <1>2, ImagesTyped, Zenon
    <2> QED
      BY <2>1, Zenon DEF AreImages
  <1> HIDE DEF l, k
  <1>5. /\ m \in Seq(Seq(B)) /\ Len(m) = Len(s) - n
        /\ \A i \in 1 .. Len(m) : m[i] = l[n + i]
    <2> DEFINE C == Seq(B)
    <2>0. l \in Seq(C)
      BY <1>3
    <2> HIDE DEF C
    <2>1. \A i \in n + 1 .. Len(l) : l[i] \in C
      BY <1>1, <1>3, <2>0
    <2>2. /\ m \in Seq(C) /\ Len(m) = IF n + 1 <= Len(l) THEN Len(l) - (n + 1) + 1 ELSE 0
          /\ \A i \in 1 .. Len(l) - (n + 1) + 1 : m[i] = l[n + 1 + i - 1]
      BY <1>1, <1>3, <2>1, n + 1 \in Int, Len(l) \in Int, SubSeqProperties
    <2> HIDE DEF m
    <2>3. Len(m) = Len(s) - n
      BY <1>1, <1>3, <2>2
    <2>4. ASSUME NEW i \in 1 .. Len(m) PROVE m[i] = l[n + i]
      <3>1. i \in 1 .. Len(l) - (n + 1) + 1 /\ n + 1 + i - 1 = n + i
        BY <1>1, <1>3, <2>3
      <3> QED
        BY <2>2, <3>1
    <2> QED
      BY <2>2, <2>3, <2>4 DEF C
  <1>6. FlattenSeq(m) = FlattenSeq(l)
    <2>1. n \in 0 .. Len(l) /\ \A i \in 1 .. n : i \in 1 .. Len(s)
      BY <1>1, <1>3
    <2>2. \A i \in 1 .. n : l[i] = <<>>
      BY <1>3, <2>1, Zenon
    <2> QED
      BY <1>3, <2>1, <2>2, FlattenDrop, Zenon
  <1> HIDE DEF m
  <1>7. Alike(k, m)
    <2>1. ASSUME NEW i \in 1 .. Len(k) PROVE k[i] = m[i]
      <3>1. i \in 1 .. Len(t) /\ i \in 1 .. Len(m) /\ n + i \in 1 .. Len(s)
        BY <1>1, <1>2, <1>4, <1>5
      <3>2. k[i] = f[t[i]] /\ t[i] = s[n + i] /\ l[n + i] = f[s[n + i]] /\ m[i] = l[n + i]
        BY <3>1, <1>2, <1>3, <1>4, <1>5, Zenon
      <3> QED
        BY <3>2, Zenon
    <2>2. Len(k) = Len(m)
      BY <1>2, <1>4, <1>5
    <2> QED
      BY <2>1, <2>2, Zenon DEF Alike
  <1>8. k = m
    BY <1>4, <1>5, <1>7, Extensional, Zenon
  <1> QED
    BY <1>6, <1>8, Zenon DEF FlatMap, k, l, t

-----------------------------------------------------------------------------
(* Words, commands and packets.                                            *)

USE GxFifoAssumption

\* The words of the model are words.
LEMMA WordsTyped ==
    /\ \A h \in Seq(Cmd) : Header(h) \in Word
    /\ \A c \in Cmd : ParamsOf(c) \in Seq(Word) /\ Len(ParamsOf(c)) = Params[c]
  <1>1. \A h \in Seq(Cmd) : Header(h) \in Word
    BY DEF Header, Word
  <1>2. ASSUME NEW c \in Cmd
        PROVE  ParamsOf(c) \in Seq(Word) /\ Len(ParamsOf(c)) = Params[c]
    <2>1. Params[c] \in Nat
      BY DEF Cmd
    <2>2. \A i \in 1 .. Params[c] : Param(c, i) \in Word
      BY <2>1 DEF Param, Word
    <2> QED
      BY <2>1, <2>2 DEF ParamsOf
  <1> QED
    BY <1>1, <1>2

\* Parameter words carry no commands.
ParamWord == {w \in Word : w.cmds = <<>>}

\* The parameters of a command are parameter words, numbered from one.
LEMMA ParamsOfTyped ==
    ASSUME NEW c \in Cmd
    PROVE  /\ ParamsOf(c) \in Seq(ParamWord) /\ Len(ParamsOf(c)) = Params[c]
           /\ \A i \in 1 .. Params[c] : ParamsOf(c)[i] = Param(c, i)
  <1>1. Params[c] \in Nat
    BY DEF Cmd
  <1>2. \A i \in 1 .. Params[c] : Param(c, i) \in ParamWord
    BY <1>1 DEF Param, Word, ParamWord
  <1> QED
    BY <1>1, <1>2 DEF ParamsOf

\* What each command, word and header contributes.
ParamsFor == [c \in Cmd |-> ParamsOf(c)]
CmdsIn == [w \in Word |-> w.cmds]

\* Commands give words, words give commands.
LEMMA MapsTyped ==
    Maps(ParamsFor, Cmd, Word) /\ Maps(ParamsFor, Cmd, ParamWord) /\ Maps(CmdsIn, Word, Cmd)
  <1>1. \A c \in Cmd : ParamsOf(c) \in Seq(Word) /\ ParamsOf(c) \in Seq(ParamWord)
    BY WordsTyped, ParamsOfTyped
  <1>2. \A w \in Word : w.cmds \in Seq(Cmd)
    BY DEF Word
  <1> QED
    BY <1>1, <1>2 DEF Maps, ParamsFor, CmdsIn

\* The parameters behind a header, command by command.
LEMMA BehindIs ==
    ASSUME NEW h \in Seq(Cmd)
    PROVE  ParamsBehind(h) = FlatMap(ParamsFor, h)
  <1>1. \A i \in 1 .. Len(h) : h[i] \in Cmd
    OBVIOUS
  <1>2. \A i \in 1 .. Len(h) : ParamsFor[h[i]] = ParamsOf(h[i])
    BY <1>1 DEF ParamsFor
  <1>3. [i \in 1 .. Len(h) |-> ParamsOf(h[i])] = [i \in 1 .. Len(h) |-> ParamsFor[h[i]]]
    BY <1>2, Zenon
  <1> QED
    BY <1>3, Zenon DEF ParamsBehind, FlatMap, Images

\* The commands in a sequence of words.
Cmds(f) == FlattenSeq([i \in 1 .. Len(f) |-> f[i].cmds])

\* The commands in a sequence, word by word.
LEMMA CmdsIs ==
    ASSUME NEW f \in Seq(Word)
    PROVE  Cmds(f) = FlatMap(CmdsIn, f)
  <1>1. \A i \in 1 .. Len(f) : f[i] \in Word
    OBVIOUS
  <1>2. \A i \in 1 .. Len(f) : CmdsIn[f[i]] = f[i].cmds
    BY <1>1 DEF CmdsIn
  <1>3. [i \in 1 .. Len(f) |-> f[i].cmds] = [i \in 1 .. Len(f) |-> CmdsIn[f[i]]]
    BY <1>2, Zenon
  <1> QED
    BY <1>3, Zenon DEF Cmds, FlatMap, Images

\* The words behind a header are parameter words.
LEMMA BehindTyped ==
    ASSUME NEW h \in Seq(Cmd)
    PROVE  ParamsBehind(h) \in Seq(Word) /\ ParamsBehind(h) \in Seq(ParamWord)
  <1>1. FlatMap(ParamsFor, h) \in Seq(Word) /\ FlatMap(ParamsFor, h) \in Seq(ParamWord)
    BY MapsTyped, FlatMapTyped, Zenon
  <1> QED
    BY <1>1, BehindIs, Zenon

\* A header without commands has no parameters.
LEMMA BehindEmpty == ParamsBehind(<<>>) = <<>>
  <1>1. <<>> \in Seq(Cmd)
    OBVIOUS
  <1> QED
    BY <1>1, BehindIs, FlatMapEmpty, Zenon

\* The parameters of the first command come first.
LEMMA BehindHead ==
    ASSUME NEW h \in Seq(Cmd), h # <<>>
    PROVE  ParamsBehind(h) = ParamsOf(Head(h)) \o ParamsBehind(Tail(h))
  <1>1. Tail(h) \in Seq(Cmd) /\ h[1] = Head(h) /\ Head(h) \in Cmd
    OBVIOUS
  <1>2. HeadFirst(ParamsFor, h)
    BY MapsTyped, FlatMapHead, Zenon
  <1>3. ParamsFor[h[1]] = ParamsOf(Head(h))
    BY <1>1 DEF ParamsFor
  <1>4. /\ ParamsBehind(h) = FlatMap(ParamsFor, h)
        /\ ParamsBehind(Tail(h)) = FlatMap(ParamsFor, Tail(h))
    BY <1>1, BehindIs, Zenon
  <1> QED
    BY <1>2, <1>3, <1>4, Zenon DEF HeadFirst

\* A header of one command has the parameters of that command.
LEMMA BehindOne ==
    ASSUME NEW c \in Cmd
    PROVE  ParamsBehind(<<c>>) = ParamsOf(c)
  <1>1. <<c>> \in Seq(Cmd) /\ <<c>> # <<>> /\ Head(<<c>>) = c /\ Tail(<<c>>) = <<>>
    OBVIOUS
  <1>2. ParamsBehind(<<c>>) = ParamsOf(c) \o <<>>
    BY <1>1, BehindHead, BehindEmpty
  <1>3. ParamsOf(c) \in Seq(Word)
    BY WordsTyped
  <1> QED
    BY <1>2, <1>3, ConcatEmptySeq

\* A header with its parameters, and those of several headers.
Packet(h) == <<Header(h)>> \o ParamsBehind(h)
PacketOf == [h \in Seq(Cmd) |-> Packet(h)]
Packets(hs) == FlatMap(PacketOf, hs)

\* A packet is a word longer than its parameters.
LEMMA PacketTyped ==
    ASSUME NEW h \in Seq(Cmd)
    PROVE  /\ Packet(h) \in Seq(Word) /\ Len(Packet(h)) = 1 + Len(ParamsBehind(h))
           /\ <<Header(h)>> \in Seq(Word) /\ ParamsBehind(h) \in Seq(Word)
  <1>1. Header(h) \in Word
    BY WordsTyped
  <1>2. <<Header(h)>> \in Seq(Word) /\ Len(<<Header(h)>>) = 1
    BY <1>1
  <1>3. ParamsBehind(h) \in Seq(Word)
    BY BehindTyped
  <1> QED
    BY <1>2, <1>3, ConcatProperties DEF Packet

\* What packets are made of.
LEMMA PacketsTyped == /\ Maps(PacketOf, Seq(Cmd), Word)
                      /\ \A hs \in Seq(Seq(Cmd)) : Packets(hs) \in Seq(Word)
                      /\ \A h \in Seq(Cmd) : PacketOf[h] = Packet(h)
                      /\ Packets(<<>>) = <<>>
  <1>1. Maps(PacketOf, Seq(Cmd), Word)
    <2>1. \A h \in Seq(Cmd) : Packet(h) \in Seq(Word)
      BY PacketTyped
    <2> QED
      BY <2>1 DEF Maps, PacketOf
  <1>2. \A hs \in Seq(Seq(Cmd)) : Packets(hs) \in Seq(Word)
    BY <1>1, FlatMapTyped, Zenon DEF Packets
  <1>3. \A h \in Seq(Cmd) : PacketOf[h] = Packet(h)
    BY DEF PacketOf
  <1> QED
    BY <1>1, <1>2, <1>3, FlatMapEmpty DEF Packets

\* A further header adds its packet at the end.
LEMMA PacketsAppend ==
    ASSUME NEW hs \in Seq(Seq(Cmd)), NEW h \in Seq(Cmd)
    PROVE  Packets(Append(hs, h)) = Packets(hs) \o Packet(h)
  <1>1. Maps(PacketOf, Seq(Cmd), Word) /\ PacketOf[h] = Packet(h)
    BY PacketsTyped, Zenon
  <1>2. LastAdded(PacketOf, hs, h)
    BY <1>1, FlatMapAppend, Zenon
  <1> QED
    BY <1>1, <1>2, Zenon DEF Packets, LastAdded

\* A header in front adds its packet in front.
LEMMA PacketsPrepend ==
    ASSUME NEW hs \in Seq(Seq(Cmd)), NEW h \in Seq(Cmd)
    PROVE  Packets(<<h>> \o hs) = Packet(h) \o Packets(hs)
  <1>1. Maps(PacketOf, Seq(Cmd), Word) /\ PacketOf[h] = Packet(h)
    BY PacketsTyped, Zenon
  <1>2. FirstAdded(PacketOf, hs, h)
    BY <1>1, FlatMapPrepend, Zenon
  <1> QED
    BY <1>1, <1>2, Zenon DEF Packets, FirstAdded

\* The packet of the first header comes first.
LEMMA PacketsHead ==
    ASSUME NEW hs \in Seq(Seq(Cmd)), hs # <<>>
    PROVE  /\ hs[1] \in Seq(Cmd) /\ Tail(hs) \in Seq(Seq(Cmd))
           /\ Packets(hs) = Packet(hs[1]) \o Packets(Tail(hs))
  <1>1. hs[1] \in Seq(Cmd) /\ Tail(hs) \in Seq(Seq(Cmd))
    OBVIOUS
  <1>2. Maps(PacketOf, Seq(Cmd), Word) /\ PacketOf[hs[1]] = Packet(hs[1])
    BY <1>1, PacketsTyped, Zenon
  <1>3. HeadFirst(PacketOf, hs)
    BY <1>2, FlatMapHead, Zenon
  <1> QED
    BY <1>1, <1>2, <1>3, Zenon DEF Packets, HeadFirst

\* The commands in words are commands.
LEMMA CmdsTyped ==
    ASSUME NEW f \in Seq(Word)
    PROVE  Cmds(f) \in Seq(Cmd)
  BY CmdsIs, MapsTyped, FlatMapTyped

\* No words hold no commands.
LEMMA CmdsEmpty == Cmds(<<>>) = <<>>
  <1>1. <<>> \in Seq(Word)
    OBVIOUS
  <1> QED
    BY <1>1, CmdsIs, FlatMapEmpty, Zenon

\* A word pushed adds its commands at the end.
LEMMA CmdsAppend ==
    ASSUME NEW f \in Seq(Word), NEW w \in Word
    PROVE  Cmds(Append(f, w)) = Cmds(f) \o w.cmds
  <1>1. Append(f, w) \in Seq(Word) /\ CmdsIn[w] = w.cmds
    BY DEF CmdsIn
  <1>2. LastAdded(CmdsIn, f, w)
    BY MapsTyped, FlatMapAppend, Zenon
  <1> QED
    BY <1>1, <1>2, CmdsIs, Zenon DEF LastAdded

\* A word put back adds its commands in front.
LEMMA CmdsPrepend ==
    ASSUME NEW f \in Seq(Word), NEW w \in Word
    PROVE  Cmds(<<w>> \o f) = w.cmds \o Cmds(f)
  <1>1. <<w>> \o f \in Seq(Word) /\ CmdsIn[w] = w.cmds
    BY DEF CmdsIn
  <1>2. FirstAdded(CmdsIn, f, w)
    BY MapsTyped, FlatMapPrepend, Zenon
  <1> QED
    BY <1>1, <1>2, CmdsIs, Zenon DEF FirstAdded

\* The commands of the first word come first.
LEMMA CmdsHead ==
    ASSUME NEW f \in Seq(Word), f # <<>>
    PROVE  Cmds(f) = Head(f).cmds \o Cmds(Tail(f))
  <1>1. Tail(f) \in Seq(Word) /\ Head(f) \in Word /\ f[1] = Head(f)
    OBVIOUS
  <1>2. HeadFirst(CmdsIn, f)
    BY MapsTyped, FlatMapHead, Zenon
  <1>3. CmdsIn[f[1]] = Head(f).cmds
    BY <1>1 DEF CmdsIn
  <1>4. Cmds(f) = FlatMap(CmdsIn, f) /\ Cmds(Tail(f)) = FlatMap(CmdsIn, Tail(f))
    BY <1>1, CmdsIs, Zenon
  <1> QED
    BY <1>2, <1>3, <1>4, Zenon DEF HeadFirst

\* Words without commands can be taken off the front.
LEMMA CmdsDrop ==
    ASSUME NEW f \in Seq(Word), NEW n \in 0 .. Len(f), \A i \in 1 .. n : f[i].cmds = <<>>
    PROVE  Cmds(SubSeq(f, n + 1, Len(f))) = Cmds(f)
  <1>1. \A i \in 1 .. n : CmdsIn[f[i]] = <<>>
    <2>1. \A i \in 1 .. n : f[i] \in Word
      OBVIOUS
    <2> QED
      BY <2>1 DEF CmdsIn
  <1>2. FlatMap(CmdsIn, SubSeq(f, n + 1, Len(f))) = FlatMap(CmdsIn, f)
    BY <1>1, MapsTyped, FlatMapDrop
  <1>3. SubSeq(f, n + 1, Len(f)) \in Seq(Word)
    <2>1. \A i \in n + 1 .. Len(f) : f[i] \in Word
      OBVIOUS
    <2> QED
      BY <2>1, n + 1 \in Int, Len(f) \in Int, SubSeqProperties
  <1> QED
    BY <1>2, <1>3, CmdsIs

-----------------------------------------------------------------------------
(* The bound of the fifo.                                                  *)

\* What GxInv says beside the types, of lengths and places.
USE DEF channel, status, locals, FifoBounded, Occupied, Limit, InHand, GuestRuns, IsFull, IsHalfFull

\* A fresh Gpu3DRegisters satisfies the invariant.
LEMMA InitInv == Init => GxInv
  <1> SUFFICES ASSUME Init PROVE GxInv
    OBVIOUS
  <1>1. DataOK
    BY DEF Init, DataOK
  <1>2. FlagsOK
    BY Zenon DEF Init, FlagsOK
  <1> QED
    BY <1>1, <1>2 DEF Init, GxInv, TypeOK

\* The start of a store or of an HLE call keeps the invariant.
LEMMA SetGxFifoInv ==
    ASSUME GxInv, NEW n \in 1 .. Burst, SetGxFifo(n)
    PROVE  GxInv'
  <1>1. DataOK'
    BY DEF GxInv, TypeOK, DataOK, SetGxFifo
  <1>2. FlagsOK'
    BY DEF GxInv, TypeOK, FlagsOK, SetGxFifo
  <1> QED
    BY <1>1, <1>2 DEF GxInv, TypeOK, DataOK, FlagsOK, SetGxFifo

\* One word of a store or of a chunk keeps the invariant.
LEMMA PushBackInv == GxInv /\ PushBack => GxInv'
  <1> SUFFICES ASSUME GxInv, PushBack PROVE GxInv'
    OBVIOUS
  <1>1. fifo' \in Seq(Word) /\ list' \in Seq(Word) /\ Len(fifo') = Len(fifo) + 1
    <2>1. fifo \in Seq(Word) /\ list \in Seq(Word)
      BY DEF GxInv, TypeOK, DataOK
    <2>2. CASE list = <<>>
      <3>1. PICK h \in Headers : fifo' = Append(fifo, Header(h)) /\ list' = ParamsBehind(h)
        BY <2>2 DEF PushBack
      <3>2. h \in Seq(Cmd)
        OBVIOUS
      <3>3. Header(h) \in Word /\ ParamsBehind(h) \in Seq(Word)
        BY <3>2, WordsTyped, BehindTyped, Zenon
      <3> QED
        BY <2>1, <3>1, <3>3, AppendProperties
    <2>3. CASE list # <<>>
      <3>1. fifo' = Append(fifo, Head(list)) /\ list' = Tail(list)
        BY <2>3 DEF PushBack
      <3>2. Head(list) \in Word /\ Tail(list) \in Seq(Word)
        BY <2>1, <2>3, HeadTailProperties
      <3> QED
        BY <2>1, <3>1, <3>2, AppendProperties
    <2> QED
      BY <2>2, <2>3
  <1>2. DataOK'
    BY <1>1 DEF GxInv, TypeOK, DataOK, PushBack
  <1>3. FlagsOK'
    BY DEF GxInv, TypeOK, FlagsOK, PushBack
  <1> QED
    BY <1>1, <1>2, <1>3 DEF GxInv, TypeOK, DataOK, FlagsOK, PushBack

\* The end of a store keeps the invariant: a full fifo halts the ARM9.
LEMMA SetGxFifoDoneInv == GxInv /\ SetGxFifoDone => GxInv'
  <1> SUFFICES ASSUME GxInv, SetGxFifoDone PROVE GxInv'
    OBVIOUS
  <1>1. halted' \in BOOLEAN /\ (halted' <=> halted \/ IsFull)
    BY Zenon DEF SetGxFifoDone, PostQueueEntry
  <1>2. DataOK'
    BY DEF GxInv, TypeOK, DataOK, SetGxFifoDone
  <1>3. FlagsOK'
    BY <1>1 DEF GxInv, TypeOK, FlagsOK, SetGxFifoDone
  <1> QED
    BY <1>1, <1>2, <1>3 DEF GxInv, TypeOK, DataOK, FlagsOK, SetGxFifoDone

\* The first write to the port of a command keeps the invariant.
LEMMA QueueUnpackedCommandInv ==
    ASSUME GxInv, NEW c \in Ports, QueueUnpackedCommand(c)
    PROVE  GxInv'
  <1> DEFINE first == IF Params[c] > 0 THEN 1 ELSE 0
             words == SubSeq(ParamsOf(c), 1, first)
             rest == SubSeq(ParamsOf(c), first + 1, Params[c])
             begun == Append(fifo, Header(<<c>>))
  <1>1. c \in Cmd /\ Params[c] \in Nat
    BY DEF Cmd
  <1>2. ParamsOf(c) \in Seq(Word) /\ Len(ParamsOf(c)) = Params[c] /\ Header(<<c>>) \in Word
    <2>1. <<c>> \in Seq(Cmd)
      BY <1>1
    <2> QED
      BY <1>1, <2>1, WordsTyped, Zenon
  <1>3. \A i \in 1 .. Params[c] : ParamsOf(c)[i] \in Word
    BY <1>1, <1>2
  <1>4. words \in Seq(Word) /\ Len(words) = first
    <2>1. \A i \in 1 .. first : ParamsOf(c)[i] \in Word
      BY <1>1, <1>3
    <2> QED
      BY <2>1, SubSeqProperties
  <1>5. rest \in Seq(Word) /\ Len(rest) = Params[c] - first
    <2>1. \A i \in first + 1 .. Params[c] : ParamsOf(c)[i] \in Word
      BY <1>1, <1>3
    <2> QED
      BY <1>1, <2>1, SubSeqProperties
  <1>6. begun \in Seq(Word) /\ Len(begun) = Len(fifo) + 1
    BY <1>2, AppendProperties DEF GxInv, TypeOK, DataOK
  <1>7. /\ fifo' \in Seq(Word) /\ Len(fifo') = Len(fifo) + 1 + first
        /\ list' \in Seq(Word) /\ Len(list') = Params[c] - first
        /\ remaining' = Params[c] - first
    <2>1. fifo' = begun \o words /\ list' = rest /\ remaining' = Params[c] - first
      BY DEF QueueUnpackedCommand
    <2>2. fifo' \in Seq(Word) /\ Len(fifo') = Len(begun) + Len(words)
      BY <1>4, <1>6, <2>1, ConcatProperties
    <2> QED
      BY <1>4, <1>5, <1>6, <2>1, <2>2
  <1>8. first \in {0, 1} /\ first <= Params[c]
    BY <1>1
  <1> HIDE DEF first, words, rest, begun
  <1>9. halted' \in BOOLEAN /\ (halted' <=> halted \/ IsFull')
    BY Zenon DEF QueueUnpackedCommand
  <1>10. GuestRuns /\ ~on /\ ~imm /\ UNCHANGED <<channel, imm, pc, left, locals>>
    BY Zenon DEF QueueUnpackedCommand
  <1>11. DataOK'
    BY <1>1, <1>7, <1>8, <1>10 DEF GxInv, TypeOK, DataOK
  <1>12. FlagsOK'
    BY <1>9, <1>10 DEF GxInv, TypeOK, FlagsOK
  <1> QED
    BY <1>1, <1>7, <1>8, <1>9, <1>10, <1>11, <1>12, SMTT(30) DEF GxInv, TypeOK, DataOK, FlagsOK

\* A further write to the port keeps the invariant.
LEMMA QueueUnpackedParamInv == GxInv /\ QueueUnpackedParam => GxInv'
  <1> SUFFICES ASSUME GxInv, QueueUnpackedParam PROVE GxInv'
    OBVIOUS
  <1>1. fifo \in Seq(Word) /\ list \in Seq(Word) /\ remaining \in Nat
    BY DEF GxInv, TypeOK, DataOK
  <1>2. Len(list) = remaining /\ list # <<>>
    BY <1>1 DEF GxInv, QueueUnpackedParam
  <1>3. Head(list) \in Word /\ Tail(list) \in Seq(Word) /\ Len(Tail(list)) = Len(list) - 1
    BY <1>1, <1>2, HeadTailProperties
  <1>4. /\ fifo' \in Seq(Word) /\ Len(fifo') = Len(fifo) + 1
        /\ list' \in Seq(Word) /\ Len(list') = Len(list) - 1
    BY <1>1, <1>3, AppendProperties DEF QueueUnpackedParam
  <1>5. DataOK'
    BY <1>4 DEF GxInv, TypeOK, DataOK, QueueUnpackedParam
  <1>6. halted' \in BOOLEAN /\ (halted' <=> halted \/ IsFull')
    BY Zenon DEF QueueUnpackedParam
  <1>7. /\ GuestRuns /\ remaining > 0 /\ remaining' = remaining - 1
        /\ UNCHANGED <<channel, imm, pc, left, locals>>
    BY Zenon DEF QueueUnpackedParam
  <1>8. FlagsOK'
    BY <1>6, <1>7 DEF GxInv, TypeOK, FlagsOK
  <1> QED
    BY <1>1, <1>2, <1>4, <1>5, <1>6, <1>7, <1>8 DEF GxInv, TypeOK, DataOK, FlagsOK

\* Enabling the channel keeps the invariant.
LEMMA EnableDmaInv ==
    ASSUME GxInv, NEW n \in Counts, NEW r \in BOOLEAN, EnableDma(n, r)
    PROVE  GxInv'
  <1>1. imm' \in BOOLEAN /\ (imm' <=> imm \/ ~IsHalfFull)
    BY Zenon DEF EnableDma
  <1>2. /\ GuestRuns /\ remaining = 0 /\ on' = TRUE
        /\ UNCHANGED <<fifo, list, remaining, halted, pc, left, locals>>
    BY Zenon DEF EnableDma
  <1>3. DataOK'
    BY DEF GxInv, TypeOK, DataOK, EnableDma
  <1>4. FlagsOK'
    BY <1>1, <1>2 DEF GxInv, TypeOK, FlagsOK, EnableDma
  <1> QED
    BY <1>1, <1>2, <1>3, <1>4 DEF GxInv, TypeOK, DataOK, FlagsOK

\* Rewriting or disabling the channel keeps the invariant.
LEMMA RewriteDmaInv ==
    ASSUME GxInv, NEW enable \in BOOLEAN, RewriteDma(enable)
    PROVE  GxInv'
  <1>1. imm' \in BOOLEAN /\ (imm' <=> imm \/ (enable /\ ~IsHalfFull))
    BY Zenon DEF RewriteDma
  <1>2. /\ GuestRuns /\ on /\ on' = enable
        /\ UNCHANGED <<fifo, list, remaining, halted, repeat, wordCount, count, pc, left, locals>>
    BY Zenon DEF RewriteDma
  <1>3. DataOK'
    BY DEF GxInv, TypeOK, DataOK, RewriteDma
  <1>4. FlagsOK'
    BY <1>1, <1>2 DEF GxInv, TypeOK, FlagsOK, RewriteDma
  <1> QED
    BY <1>1, <1>2, <1>3, <1>4 DEF GxInv, TypeOK, DataOK, FlagsOK

\* A visit to the scheduler keeps the invariant: an event is dispatched within the limit.
LEMMA VisitInv == GxInv /\ Visit => GxInv'
  <1> SUFFICES ASSUME GxInv, Visit PROVE GxInv'
    OBVIOUS
  <1>1. DataOK'
    BY DEF GxInv, TypeOK, DataOK, Visit
  <1>2. FlagsOK'
    BY DEF GxInv, TypeOK, FlagsOK, Visit
  <1> QED
    BY <1>1, <1>2 DEF GxInv, TypeOK, DataOK, FlagsOK, Visit

\* The end of a chunk keeps the invariant.
LEMMA DmaDoneInv == GxInv /\ DmaDone => GxInv'
  <1> SUFFICES ASSUME GxInv, DmaDone PROVE GxInv'
    OBVIOUS
  <1>1. halted' \in BOOLEAN /\ (halted' <=> halted \/ IsFull)
    BY Zenon DEF DmaDone, PostQueueEntry
  <1>2. /\ pc = "dma" /\ left = 0 /\ pc' = "check"
        /\ UNCHANGED <<fifo, list, remaining, repeat, left, locals>>
    BY Zenon DEF DmaDone
  <1>3. \/ imm' \in BOOLEAN /\ (imm' <=> ~IsHalfFull) /\ on' = on
        \/ imm' = imm /\ on' = FALSE
    BY Zenon DEF DmaDone, GoesOn
  <1>4. DataOK'
    BY DEF GxInv, TypeOK, DataOK, DmaDone
  <1>5. FlagsOK'
    BY <1>1, <1>2, <1>3 DEF GxInv, TypeOK, FlagsOK
  <1> QED
    BY <1>1, <1>2, <1>3, <1>4, <1>5 DEF GxInv, TypeOK, DataOK, FlagsOK

\* The start of a run keeps the invariant.
LEMMA RunCmdsInv ==
    ASSUME GxInv, NEW b \in Budgets, RunCmds(b)
    PROVE  GxInv'
  <1>1. wasHalf' \in BOOLEAN /\ (wasHalf' <=> IsHalfFull)
    <2>1. IsHalfFull \in BOOLEAN
      BY DEF GxInv, TypeOK, DataOK
    <2> QED
      BY <2>1, Zenon DEF RunCmds
  <1>2. /\ pc = "check" /\ pc' = "fetch"
        /\ UNCHANGED <<fifo, list, remaining, halted, channel, imm, left>>
    BY Zenon DEF RunCmds
  <1>3. DataOK'
    BY DEF GxInv, TypeOK, DataOK, RunCmds
  <1>4. FlagsOK'
    BY <1>1, <1>2 DEF GxInv, TypeOK, FlagsOK
  <1> QED
    BY <1>1, <1>2, <1>3, <1>4 DEF GxInv, TypeOK, DataOK, FlagsOK

\* Taking out a header keeps the invariant.
LEMMA FetchInv == GxInv /\ Fetch => GxInv'
  <1> SUFFICES ASSUME GxInv, Fetch PROVE GxInv'
    OBVIOUS
  <1>1. fifo \in Seq(Word) /\ fifo # <<>>
    BY DEF GxInv, TypeOK, DataOK, Fetch
  <1>2. /\ Head(fifo) \in Word
        /\ fifo' \in Seq(Word) /\ Len(fifo') = Len(fifo) - 1
    BY <1>1, HeadTailProperties DEF Fetch
  <1>3. value' \in Seq(Cmd)
    BY <1>2 DEF Fetch, Word
  <1>4. DataOK'
    BY <1>2, <1>3 DEF GxInv, TypeOK, DataOK, Fetch
  <1>5. FlagsOK'
    BY DEF GxInv, TypeOK, FlagsOK, Fetch
  <1> QED
    BY <1>1, <1>2, <1>4, <1>5 DEF GxInv, TypeOK, DataOK, FlagsOK, Fetch

\* The command in hand is a command.
LEMMA CurrentTyped == GxInv => CurrentCmd \in Cmd /\ Params[CurrentCmd] \in Nat
  <1> SUFFICES ASSUME GxInv PROVE CurrentCmd \in Cmd
    BY DEF Cmd
  <1>1. value \in Seq(Cmd)
    BY DEF GxInv, TypeOK, DataOK
  <1>2. value # <<>> => Head(value) \in Cmd
    BY <1>1, HeadTailProperties
  <1> QED
    BY <1>2 DEF CurrentCmd

\* Putting back a header without its parameters keeps the invariant: the words
\* behind it are fewer than the parameters of one command.
LEMMA IncompleteInv == GxInv /\ Incomplete => GxInv'
  <1> SUFFICES ASSUME GxInv, Incomplete PROVE GxInv'
    OBVIOUS
  <1>1. fifo \in Seq(Word) /\ <<Header(value)>> \in Seq(Word) /\ Len(<<Header(value)>>) = 1
    BY WordsTyped DEF GxInv, TypeOK, DataOK
  <1>2. fifo' \in Seq(Word) /\ Len(fifo') = Len(fifo) + 1
    <2>1. fifo' = <<Header(value)>> \o fifo
      BY DEF Incomplete
    <2> QED
      BY <1>1, <2>1, ConcatProperties
  <1>3. DataOK'
    BY <1>2 DEF GxInv, TypeOK, DataOK, Incomplete
  <1>4. FlagsOK'
    BY DEF GxInv, TypeOK, FlagsOK, Incomplete
  <1> QED
    BY <1>1, <1>2, <1>3, <1>4 DEF GxInv, TypeOK, DataOK, FlagsOK, Incomplete

\* Executing a command keeps the invariant, also when it ends the run inside a
\* header.
LEMMA ExecuteInv == GxInv /\ Execute => GxInv'
  <1> SUFFICES ASSUME GxInv, Execute PROVE GxInv'
    OBVIOUS
  <1> DEFINE c == CurrentCmd
             rest == IF value = <<>> THEN <<>> ELSE Tail(value)
             words == SubSeq(fifo, Params[c] + 1, Len(fifo))
             stops == c = Swap \/ Charged(c) = 0
  <1>1. c \in Cmd /\ Params[c] \in Nat /\ fifo \in Seq(Word) /\ Params[c] <= Len(fifo)
    BY CurrentTyped DEF GxInv, TypeOK, DataOK, Execute
  <1>2. words \in Seq(Word) /\ Len(words) = Len(fifo) - Params[c]
    <2>1. \A i \in Params[c] + 1 .. Len(fifo) : fifo[i] \in Word
      BY <1>1
    <2> QED
      BY <1>1, <2>1, Params[c] + 1 \in Int, Len(fifo) \in Int, SubSeqProperties
  <1>3. rest \in Seq(Cmd)
    BY HeadTailProperties DEF GxInv, TypeOK, DataOK
  <1>4. /\ PutBack(rest, words) \in Seq(Word)
        /\ Len(PutBack(rest, words)) \in {Len(words), Len(words) + 1}
    <2>1. <<Header(rest)>> \in Seq(Word) /\ Len(<<Header(rest)>>) = 1
      <3>1. Header(rest) \in Word
        BY <1>3, WordsTyped, Zenon
      <3> QED
        BY <3>1
    <2>2. <<Header(rest)>> \o words \in Seq(Word) /\ Len(<<Header(rest)>> \o words) = 1 + Len(words)
      BY <1>2, <2>1, ConcatProperties
    <2> QED
      BY <1>2, <2>2 DEF PutBack
  <1>5. Charged(c) \in Int
    BY DEF Charged, GxInv, TypeOK, DataOK
  <1>6. /\ pc = "exec" /\ budget' = Charged(c) /\ value' = rest
        /\ fifo' = IF stops THEN PutBack(rest, words) ELSE words
        /\ pc' = IF stops THEN "end" ELSE IF rest = <<>> THEN "fetch" ELSE "exec"
        /\ UNCHANGED <<list, remaining, halted, channel, imm, status, left, wasHalf>>
    BY DEF Execute
  <1> HIDE DEF c, rest, words, stops
  <1>7. /\ fifo' \in Seq(Word) /\ Len(fifo') <= Len(fifo) + 1
        /\ pc' = "exec" => Len(fifo') <= Len(fifo)
        /\ pc' \in {"end", "fetch", "exec"}
    BY <1>1, <1>2, <1>4, <1>6
  <1>8. DataOK'
    BY <1>3, <1>5, <1>6, <1>7 DEF GxInv, TypeOK, DataOK
  <1>9. FlagsOK'
    BY <1>6 DEF GxInv, TypeOK, FlagsOK
  <1> QED
    <2>1. /\ Len(fifo) \in Nat /\ Len(fifo') \in Nat /\ left \in Nat
          /\ Len(fifo') <= Len(fifo) + 1 /\ (pc' = "exec" => Len(fifo') <= Len(fifo))
      BY <1>1, <1>7 DEF GxInv, TypeOK, DataOK
    <2>2. /\ pc = "exec" /\ pc' \in {"end", "fetch", "exec"}
          /\ UNCHANGED <<list, remaining, halted, on, imm, left, wasHalf>>
      BY <1>6, <1>7
    <2>3. Occupied \in Nat /\ Occupied' \in Nat /\ Occupied' <= Occupied
      BY <2>1, <2>2
    <2> HIDE DEF Occupied
    <2> QED
      BY <2>2, <2>3, <1>8, <1>9 DEF GxInv, TypeOK

\* The end of a run keeps the invariant: a channel that waits below half gets its event.
LEMMA RunDoneInv == GxInv /\ RunDone => GxInv'
  <1> SUFFICES ASSUME GxInv, RunDone PROVE GxInv'
    OBVIOUS
  <1>1. imm' \in BOOLEAN /\ (imm' <=> imm \/ (wasHalf /\ ~IsHalfFull /\ on))
    BY Zenon DEF RunDone, Triggers
  <1>2. halted' \in BOOLEAN /\ (halted' <=> halted /\ IsFull)
    BY Zenon DEF RunDone, Unhalts
  <1>3. /\ pc \in {"fetch", "end"} /\ pc' = "guest"
        /\ UNCHANGED <<fifo, list, remaining, channel, left>>
    BY Zenon DEF RunDone
  <1>4. DataOK'
    BY DEF GxInv, TypeOK, DataOK, RunDone
  <1>5. FlagsOK'
    <2>1. wasHalf' \in BOOLEAN
      BY Zenon DEF RunDone
    <2> QED
      BY <1>1, <1>2, <1>3, <2>1 DEF GxInv, TypeOK, FlagsOK
  <1> QED
    BY <1>1, <1>2, <1>3, <1>4, <1>5 DEF GxInv, TypeOK, DataOK, FlagsOK

\* Steps that change neither the words nor the channel keep the invariant.
LEMMA OtherInv == GxInv /\ (RunNothing \/ SwapBuffers \/ GetGxStat \/ UNCHANGED vars) => GxInv'
  <1> SUFFICES ASSUME GxInv, RunNothing \/ SwapBuffers \/ GetGxStat \/ UNCHANGED vars
               PROVE  GxInv'
    OBVIOUS
  <1>1. /\ UNCHANGED <<fifo, list, remaining, halted, channel, imm, left, locals>>
        /\ pc' = pc \/ (pc = "check" /\ pc' = "guest")
    BY DEF RunNothing, SwapBuffers, GetGxStat, vars
  <1>2. DataOK'
    BY <1>1 DEF GxInv, TypeOK, DataOK
  <1>3. FlagsOK'
    BY <1>1 DEF GxInv, TypeOK, FlagsOK
  <1> QED
    BY <1>1, <1>2, <1>3 DEF GxInv, TypeOK, DataOK, FlagsOK

\* However the ARM9, the channel and the runs of commands interleave, the fifo
\* holds at most a burst and a chunk beyond the full mark, a guest that runs
\* sees a fifo that is not full, and an enabled channel below half has its
\* event: regs_3d_post_queue_entry, dma_set_cnt, dma_on_event and the end of
\* regs_3d_run_cmds cover each other's cases.
THEOREM GxFifoSafe == Spec => []GxInv
  <1>1. Init => GxInv
    BY InitInv
  <1>2. GxInv /\ [Next]_vars => GxInv'
    <2> SUFFICES ASSUME GxInv, [Next]_vars PROVE GxInv'
      OBVIOUS
    <2>1. CASE Guest
      BY <2>1, SetGxFifoInv, QueueUnpackedCommandInv, QueueUnpackedParamInv, EnableDmaInv,
         RewriteDmaInv, OtherInv, Zenon DEF Guest
    <2>2. CASE Scheduler
      BY <2>2, PushBackInv, SetGxFifoDoneInv, VisitInv, DmaDoneInv, OtherInv, FetchInv,
         IncompleteInv, ExecuteInv, RunDoneInv, RunCmdsInv, Zenon DEF Scheduler
    <2> QED
      BY <2>1, <2>2, OtherInv, Zenon DEF Next
  <1> QED
    BY <1>1, <1>2, PTL DEF Spec

\* The unchecked pushes of cmd_fifo (push_back_multiple) stay inside a buffer
\* of Full - 1 + Burst + Chunk words.
THEOREM FifoFitsBuffer == Spec => [](Len(fifo) <= Full - 1 + Burst + Chunk)
  <1>1. GxInv => Len(fifo) <= Full - 1 + Burst + Chunk
    BY DEF GxInv, TypeOK, DataOK
  <1> QED
    BY <1>1, GxFifoSafe, PTL

-----------------------------------------------------------------------------
(* Commands stay intact.                                                   *)

\* The words w are the parameters of the commands h followed by whole packets.
Framed(w, h) == \E hs \in Seq(Seq(Cmd)) : w = ParamsBehind(h) \o Packets(hs)

\* A packet behind framed words.
LEMMA FramedAppend ==
    ASSUME NEW w, NEW h \in Seq(Cmd), Framed(w, h), NEW k \in Seq(Cmd)
    PROVE  Framed(w \o Packet(k), h)
  <1>1. PICK hs \in Seq(Seq(Cmd)) : w = ParamsBehind(h) \o Packets(hs)
    BY DEF Framed
  <1>2. /\ ParamsBehind(h) \in Seq(Word) /\ Packets(hs) \in Seq(Word) /\ Packet(k) \in Seq(Word)
        /\ Append(hs, k) \in Seq(Seq(Cmd))
    BY BehindTyped, PacketsTyped, PacketTyped
  <1>3. Associates(ParamsBehind(h), Packets(hs), Packet(k))
    BY <1>2, ConcatAssociates, Zenon
  <1>4. w \o Packet(k) = ParamsBehind(h) \o Packets(Append(hs, k))
    BY <1>1, <1>3, PacketsAppend, Zenon DEF Associates
  <1> QED
    BY <1>2, <1>4, Zenon DEF Framed

\* A header put in front of its parameters.
LEMMA FramedGive ==
    ASSUME NEW w, NEW h \in Seq(Cmd), Framed(w, h)
    PROVE  Framed(<<Header(h)>> \o w, <<>>)
  <1>1. PICK hs \in Seq(Seq(Cmd)) : w = ParamsBehind(h) \o Packets(hs)
    BY DEF Framed
  <1> DEFINE ks == <<h>> \o hs
  <1>2. /\ ParamsBehind(h) \in Seq(Word) /\ Packets(hs) \in Seq(Word) /\ <<Header(h)>> \in Seq(Word)
    BY PacketTyped, PacketsTyped
  <1>3. ks \in Seq(Seq(Cmd))
    <2>1. <<h>> \in Seq(Seq(Cmd))
      OBVIOUS
    <2> QED
      BY <2>1, ConcatProperties
  <1>4. Associates(<<Header(h)>>, ParamsBehind(h), Packets(hs))
    BY <1>2, ConcatAssociates, Zenon
  <1>5. Packets(ks) = Packet(h) \o Packets(hs)
    BY PacketsPrepend, Zenon
  <1> HIDE DEF ks
  <1>6. <<Header(h)>> \o w = Packets(ks)
    BY <1>1, <1>4, <1>5, Zenon DEF Associates, Packet
  <1>7. Packets(ks) \in Seq(Word)
    BY <1>3, PacketsTyped, Zenon
  <1>8. Packets(ks) = <<>> \o Packets(ks)
    BY <1>7, ConcatEmptySeq
  <1>9. <<Header(h)>> \o w = ParamsBehind(<<>>) \o Packets(ks)
    BY <1>6, <1>8, BehindEmpty, Zenon
  <1> QED
    BY <1>3, <1>9, Zenon DEF Framed

\* The first word of whole packets is a header, its parameters follow.
LEMMA FramedTake ==
    ASSUME NEW w \in Seq(Word), w # <<>>, Framed(w, <<>>)
    PROVE  /\ Head(w) = Header(Head(w).cmds) /\ Head(w).cmds \in Seq(Cmd)
           /\ Framed(Tail(w), Head(w).cmds)
  <1>1. PICK hs \in Seq(Seq(Cmd)) : w = ParamsBehind(<<>>) \o Packets(hs)
    BY DEF Framed
  <1>2. Packets(hs) \in Seq(Word)
    BY PacketsTyped, Zenon
  <1>3. <<>> \o Packets(hs) = Packets(hs)
    BY <1>2, ConcatEmptySeq
  <1>4. w = Packets(hs)
    BY <1>1, <1>3, BehindEmpty, Zenon
  <1>5. hs # <<>>
    BY <1>4, PacketsTyped, Zenon
  <1> DEFINE h == hs[1]
             rest == Packets(Tail(hs))
             p == ParamsBehind(h)
             x == Header(h)
  <1>6. /\ h \in Seq(Cmd) /\ Tail(hs) \in Seq(Seq(Cmd))
        /\ Packets(hs) = Packet(h) \o rest
    BY <1>5, PacketsHead, Zenon
  <1>7. p \in Seq(Word) /\ <<x>> \in Seq(Word) /\ rest \in Seq(Word) /\ x \in Word
    BY <1>6, PacketTyped, PacketsTyped, WordsTyped, Zenon
  <1>8. Associates(<<x>>, p, rest)
    BY <1>7, ConcatAssociates, Zenon
  <1>9. w = <<x>> \o (p \o rest)
    BY <1>4, <1>6, <1>8, Zenon DEF Associates, Packet
  <1>10. x.cmds = h
    BY DEF Header
  <1> HIDE DEF x, p, rest, h
  <1>11. p \o rest \in Seq(Word)
    BY <1>7, ConcatProperties, Zenon
  <1>12. Head(w) = x /\ Tail(w) = p \o rest
    <2> DEFINE r == p \o rest
    <2>1. r \in Seq(Word) /\ w = <<x>> \o r
      BY <1>9, <1>11
    <2> HIDE DEF r
    <2>2. Head(<<x>> \o r) = x /\ Tail(<<x>> \o r) = r
      BY <1>7, <2>1
    <2> QED
      BY <2>1, <2>2, Zenon DEF r
  <1>13. Framed(Tail(w), h)
    BY <1>6, <1>12, Zenon DEF Framed, p, rest
  <1> QED
    BY <1>6, <1>10, <1>12, <1>13, Zenon DEF x

\* The parameters of the first command are there, and those of the others follow.
LEMMA FramedExec ==
    ASSUME NEW w \in Seq(Word), NEW h \in Seq(Cmd), h # <<>>, Framed(w, h)
    PROVE  /\ Params[Head(h)] <= Len(w)
           /\ \A i \in 1 .. Params[Head(h)] : w[i] = Param(Head(h), i)
           /\ Framed(SubSeq(w, Params[Head(h)] + 1, Len(w)), Tail(h))
  <1>1. PICK hs \in Seq(Seq(Cmd)) : w = ParamsBehind(h) \o Packets(hs)
    BY DEF Framed
  <1>2. Head(h) \in Cmd /\ Tail(h) \in Seq(Cmd)
    BY HeadTailProperties
  <1> DEFINE n == Params[Head(h)]
             a == ParamsOf(Head(h))
             b == ParamsBehind(Tail(h))
             c == Packets(hs)
  <1>3. n \in Nat /\ a \in Seq(Word) /\ Len(a) = n /\ \A i \in 1 .. n : a[i] = Param(Head(h), i)
    <2>1. n \in Nat
      BY <1>2 DEF Cmd
    <2>2. a \in Seq(Word) /\ Len(a) = n
      BY <1>2, WordsTyped
    <2>3. \A i \in 1 .. n : a[i] = Param(Head(h), i)
      BY <1>2, ParamsOfTyped
    <2> QED
      BY <2>1, <2>2, <2>3
  <1>4. b \in Seq(Word) /\ c \in Seq(Word)
    BY <1>2, BehindTyped, PacketsTyped, Zenon
  <1>5. w = (a \o b) \o c
    BY <1>1, BehindHead, Zenon
  <1>6. Associates(a, b, c)
    BY <1>3, <1>4, ConcatAssociates, Zenon
  <1>7. w = a \o (b \o c)
    BY <1>5, <1>6, Zenon DEF Associates
  <1>8. b \o c \in Seq(Word)
    BY <1>4, ConcatProperties, Zenon
  <1> DEFINE r == b \o c
  <1>9. Framed(r, Tail(h))
    BY <1>2, Zenon DEF Framed
  <1> HIDE DEF n, a, b, c, r
  <1>10. r \in Seq(Word) /\ w = a \o r
    BY <1>7, <1>8, Zenon DEF r
  <1>11. Len(w) = n + Len(r) /\ Len(r) \in Nat
    BY <1>3, <1>10, ConcatProperties
  <1>12. ASSUME NEW i \in 1 .. n PROVE w[i] = Param(Head(h), i)
    <2>1. w[i] = a[i]
      BY <1>3, <1>10, <1>11, ConcatProperties
    <2> QED
      BY <1>3, <2>1
  <1>13. SubSeq(w, n + 1, Len(w)) = r
    <2> DEFINE q == SubSeq(w, n + 1, Len(w))
    <2>1. \A i \in n + 1 .. Len(w) : w[i] \in Word
      BY <1>3
    <2>2. /\ q \in Seq(Word) /\ Len(q) = IF n + 1 <= Len(w) THEN Len(w) - (n + 1) + 1 ELSE 0
          /\ \A i \in 1 .. Len(w) - (n + 1) + 1 : q[i] = w[n + 1 + i - 1]
      BY <1>3, <2>1, n + 1 \in Int, Len(w) \in Int, SubSeqProperties
    <2> HIDE DEF q
    <2>3. Len(q) = Len(r)
      BY <1>3, <1>11, <2>2
    <2>4. ASSUME NEW i \in 1 .. Len(q) PROVE q[i] = r[i]
      <3>1. i \in 1 .. Len(w) - (n + 1) + 1 /\ n + 1 + i - 1 = n + i
        BY <1>3, <1>11, <2>3
      <3>2. q[i] = w[n + i]
        BY <2>2, <3>1
      <3>3. n + i \in 1 .. Len(a) + Len(r) /\ ~(n + i <= Len(a)) /\ (n + i) - Len(a) = i
        BY <1>3, <1>11, <3>1
      <3>4. w[n + i] = r[(n + i) - Len(a)]
        BY <1>3, <1>10, <3>3, ConcatProperties
      <3> QED
        BY <3>2, <3>3, <3>4
    <2>5. Alike(q, r)
      BY <2>3, <2>4, Zenon DEF Alike
    <2> QED
      BY <1>10, <2>2, <2>5, Extensional, Zenon DEF q
  <1>14. n <= Len(w)
    BY <1>3, <1>11
  <1> QED
    BY <1>9, <1>12, <1>13, <1>14, Zenon DEF n

\* The words f of the fifo and l to come, the commands h in hand and the commands
\* p not yet executed belong together.
Stream(f, l, h, p) ==
    /\ f \in Seq(Word) /\ l \in Seq(ParamWord) /\ h \in Seq(Cmd)
    /\ Framed(f \o l, h)
    /\ p = h \o Cmds(f)

\* The types that belong to a stream.
LEMMA StreamTypes ==
    ASSUME NEW f, NEW l, NEW h, NEW p, Stream(f, l, h, p)
    PROVE  /\ f \in Seq(Word) /\ l \in Seq(ParamWord) /\ l \in Seq(Word) /\ h \in Seq(Cmd)
           /\ f \o l \in Seq(Word) /\ Cmds(f) \in Seq(Cmd)
           /\ <<>> \in Seq(Cmd) /\ <<>> \in Seq(Word)
  <1>1. f \in Seq(Word) /\ l \in Seq(ParamWord) /\ h \in Seq(Cmd)
    BY Zenon DEF Stream
  <1>2. <<>> \in Seq(Cmd) /\ <<>> \in Seq(Word)
    OBVIOUS
  <1>3. l \in Seq(Word)
    <2>1. ParamWord \subseteq Word
      BY DEF ParamWord
    <2> QED
      BY <1>1, <2>1, SeqMonotonic, Zenon
  <1>4. f \o l \in Seq(Word)
    BY <1>1, <1>3, ConcatProperties, Zenon
  <1>5. Cmds(f) \in Seq(Cmd)
    BY <1>1, CmdsTyped, Zenon
  <1> QED
    BY <1>1, <1>2, <1>3, <1>4, <1>5, Zenon

\* A fresh fifo is a stream.
LEMMA StreamEmpty == Stream(<<>>, <<>>, <<>>, <<>>)
  <1>1. /\ <<>> \o <<>> = <<>> /\ <<>> \in Seq(ParamWord) /\ <<>> \in Seq(Seq(Cmd))
        /\ <<>> \in Seq(Cmd) /\ <<>> \in Seq(Word)
    OBVIOUS
  <1>2. <<>> = ParamsBehind(<<>>) \o Packets(<<>>)
    BY <1>1, BehindEmpty, PacketsTyped, Zenon
  <1>3. Framed(<<>>, <<>>)
    BY <1>1, <1>2, Zenon DEF Framed
  <1> QED
    BY <1>1, <1>3, CmdsEmpty, Zenon DEF Stream

\* The next parameter word moves to the fifo.
LEMMA StreamMoves ==
    ASSUME NEW f, NEW l, NEW h, NEW p, Stream(f, l, h, p), l # <<>>
    PROVE  Stream(Append(f, Head(l)), Tail(l), h, p)
  <1>1. f \in Seq(Word) /\ l \in Seq(Word) /\ l \in Seq(ParamWord) /\ h \in Seq(Cmd)
    BY StreamTypes
  <1>2. Head(l) \in Word /\ Tail(l) \in Seq(Word)
    BY <1>1, HeadTailProperties
  <1>3. Append(f, Head(l)) \o Tail(l) = f \o l /\ Append(f, Head(l)) \in Seq(Word)
    BY <1>1, <1>2
  <1>4. Head(l) \in ParamWord /\ Tail(l) \in Seq(ParamWord)
    BY <1>1, HeadTailProperties
  <1>5. Head(l).cmds = <<>>
    BY <1>4 DEF ParamWord
  <1>6. Cmds(Append(f, Head(l))) = Cmds(f) \o <<>>
    BY <1>1, <1>2, <1>5, CmdsAppend, Zenon
  <1>7. Cmds(f) \o <<>> = Cmds(f)
    <2>1. Cmds(f) \in Seq(Cmd)
      BY <1>1, CmdsTyped, Zenon
    <2> QED
      BY <2>1, ConcatEmptySeq
  <1> QED
    BY <1>1, <1>3, <1>4, <1>6, <1>7, Zenon DEF Stream

\* A header joins the fifo.
LEMMA StreamGrows ==
    ASSUME NEW f, NEW p, Stream(f, <<>>, <<>>, p), NEW h \in Seq(Cmd)
    PROVE  Stream(Append(f, Header(h)), ParamsBehind(h), <<>>, p \o h)
  <1> DEFINE x == Header(h)
             q == ParamsBehind(h)
             g == Append(f, x)
  <1>1. f \in Seq(Word) /\ <<>> \in Seq(Cmd)
    BY StreamTypes
  <1>2. x \in Word /\ <<x>> \in Seq(Word) /\ q \in Seq(Word) /\ q \in Seq(ParamWord)
    BY PacketTyped, BehindTyped, WordsTyped, Zenon
  <1>3. g \in Seq(Word) /\ g = f \o <<x>>
    BY <1>1, <1>2, AppendProperties, AppendIsConcat
  <1>4. Associates(f, <<x>>, q)
    BY <1>1, <1>2, ConcatAssociates, Zenon
  <1>5. g \o q = f \o Packet(h)
    BY <1>3, <1>4, Zenon DEF Associates, Packet
  <1>6. f \o <<>> = f
    BY <1>1
  <1>7. Framed(f, <<>>)
    BY <1>6, Zenon DEF Stream
  <1>8. Framed(f \o Packet(h), <<>>)
    BY <1>1, <1>7, FramedAppend, Zenon
  <1>9. p \o h = <<>> \o Cmds(g)
    <2>1. Cmds(f) \in Seq(Cmd) /\ Cmds(g) \in Seq(Cmd)
      BY <1>1, <1>3, CmdsTyped, Zenon
    <2>2. <<>> \o Cmds(f) = Cmds(f) /\ <<>> \o Cmds(g) = Cmds(g)
      BY <2>1, ConcatEmptySeq
    <2>3. p = Cmds(f)
      BY <2>2, Zenon DEF Stream
    <2>4. x.cmds = h
      BY DEF Header
    <2>5. Cmds(g) = Cmds(f) \o h
      BY <1>1, <1>2, <2>4, CmdsAppend, Zenon
    <2> QED
      BY <2>2, <2>3, <2>5, Zenon
  <1> HIDE DEF x, q, g
  <1>10. Stream(g, q, <<>>, p \o h)
    BY <1>1, <1>2, <1>3, <1>5, <1>8, <1>9, Zenon DEF Stream
  <1> QED
    BY <1>10, Zenon DEF x, q, g

\* A run takes out the first word: it is a header.
LEMMA StreamTake ==
    ASSUME NEW f, NEW l, NEW p, Stream(f, l, <<>>, p), f # <<>>
    PROVE  /\ Head(f) = Header(Head(f).cmds)
           /\ Stream(Tail(f), l, Head(f).cmds, p)
  <1>1. f \in Seq(Word) /\ l \in Seq(Word) /\ l \in Seq(ParamWord) /\ f \o l \in Seq(Word)
    BY StreamTypes
  <1>2. Head(f) \in Word /\ Tail(f) \in Seq(Word)
    BY <1>1, HeadTailProperties
  <1>3. f \o l # <<>> /\ Head(f \o l) = Head(f) /\ Tail(f \o l) = Tail(f) \o l
    BY <1>1, <1>2
  <1>4. Framed(f \o l, <<>>)
    BY Zenon DEF Stream
  <1>5. /\ Head(f \o l) = Header(Head(f \o l).cmds) /\ Head(f \o l).cmds \in Seq(Cmd)
        /\ Framed(Tail(f \o l), Head(f \o l).cmds)
    BY <1>1, <1>3, <1>4, FramedTake, Zenon
  <1>6. p = Head(f).cmds \o Cmds(Tail(f))
    <2>1. Cmds(f) \in Seq(Cmd)
      BY <1>1, CmdsTyped, Zenon
    <2>2. <<>> \o Cmds(f) = Cmds(f)
      BY <2>1, ConcatEmptySeq
    <2>3. p = Cmds(f)
      BY <2>2, Zenon DEF Stream
    <2> QED
      BY <1>1, <2>3, CmdsHead, Zenon
  <1>7. /\ Head(f) = Header(Head(f).cmds) /\ Head(f).cmds \in Seq(Cmd)
        /\ Framed(Tail(f) \o l, Head(f).cmds)
    BY <1>3, <1>5, Zenon
  <1> QED
    BY <1>1, <1>2, <1>6, <1>7, Zenon DEF Stream

\* The header in hand goes back.
LEMMA StreamGive ==
    ASSUME NEW f, NEW l, NEW h, NEW p, Stream(f, l, h, p)
    PROVE  Stream(<<Header(h)>> \o f, l, <<>>, p)
  <1> DEFINE x == Header(h)
             g == <<x>> \o f
  <1>1. /\ f \in Seq(Word) /\ l \in Seq(Word) /\ l \in Seq(ParamWord) /\ h \in Seq(Cmd)
        /\ <<>> \in Seq(Cmd)
    BY StreamTypes
  <1>2. x \in Word /\ <<x>> \in Seq(Word)
    BY <1>1, PacketTyped, WordsTyped, Zenon
  <1>3. g \in Seq(Word)
    BY <1>1, <1>2, ConcatProperties, Zenon
  <1>4. Associates(<<x>>, f, l)
    BY <1>1, <1>2, ConcatAssociates, Zenon
  <1>5. Framed(<<x>> \o (f \o l), <<>>)
    <2>1. Framed(f \o l, h)
      BY Zenon DEF Stream
    <2> QED
      BY <1>1, <2>1, FramedGive, Zenon
  <1>6. Framed(g \o l, <<>>)
    BY <1>4, <1>5, Zenon DEF Associates
  <1>7. p = <<>> \o Cmds(g)
    <2>1. x.cmds = h
      BY DEF Header
    <2>2. Cmds(g) = h \o Cmds(f)
      BY <1>1, <1>2, <2>1, CmdsPrepend, Zenon
    <2>3. Cmds(g) \in Seq(Cmd)
      BY <1>3, CmdsTyped, Zenon
    <2>4. <<>> \o Cmds(g) = Cmds(g)
      BY <2>3, ConcatEmptySeq
    <2> QED
      BY <2>2, <2>4, Zenon DEF Stream
  <1> HIDE DEF x, g
  <1>8. Stream(g, l, <<>>, p)
    BY <1>1, <1>3, <1>6, <1>7, Zenon DEF Stream
  <1> QED
    BY <1>8, Zenon DEF x, g

\* The words in front of a sequence are taken off before another follows.
Drops(f, l, n) == SubSeq(f, n + 1, Len(f)) \o l = SubSeq(f \o l, n + 1, Len(f \o l))

\* Taking words off the front and adding others at the end commute.
LEMMA DropConcat ==
    ASSUME NEW S, NEW f \in Seq(S), NEW l \in Seq(S), NEW n \in 0 .. Len(f)
    PROVE  /\ SubSeq(f, n + 1, Len(f)) \in Seq(S)
           /\ Drops(f, l, n)
  <1> DEFINE w == f \o l
             a == SubSeq(f, n + 1, Len(f))
             b == SubSeq(w, n + 1, Len(w))
  <1>0. n \in Nat /\ n <= Len(f) /\ Len(f) \in Nat /\ Len(l) \in Nat
    OBVIOUS
  <1>1. /\ w \in Seq(S) /\ Len(w) = Len(f) + Len(l)
        /\ \A i \in 1 .. Len(f) + Len(l) : w[i] = IF i <= Len(f) THEN f[i] ELSE l[i - Len(f)]
    BY ConcatProperties
  <1> HIDE DEF w
  <1>2. a \in Seq(S) /\ Len(a) = Len(f) - n /\ \A i \in 1 .. Len(f) - n : a[i] = f[n + i]
    <2>1. \A i \in n + 1 .. Len(f) : f[i] \in S
      BY <1>0
    <2>2. /\ a \in Seq(S) /\ Len(a) = IF n + 1 <= Len(f) THEN Len(f) - (n + 1) + 1 ELSE 0
          /\ \A i \in 1 .. Len(f) - (n + 1) + 1 : a[i] = f[n + 1 + i - 1]
      BY <1>0, <2>1, n + 1 \in Int, Len(f) \in Int, SubSeqProperties
    <2> HIDE DEF a
    <2>3. ASSUME NEW i \in 1 .. Len(f) - n PROVE a[i] = f[n + i]
      <3>1. i \in 1 .. Len(f) - (n + 1) + 1 /\ n + 1 + i - 1 = n + i
        BY <1>0
      <3> QED
        BY <2>2, <3>1
    <2> QED
      BY <1>0, <2>2, <2>3
  <1>3. b \in Seq(S) /\ Len(b) = Len(w) - n /\ \A i \in 1 .. Len(w) - n : b[i] = w[n + i]
    <2>1. \A i \in n + 1 .. Len(w) : w[i] \in S
      BY <1>0, <1>1
    <2>2. /\ b \in Seq(S) /\ Len(b) = IF n + 1 <= Len(w) THEN Len(w) - (n + 1) + 1 ELSE 0
          /\ \A i \in 1 .. Len(w) - (n + 1) + 1 : b[i] = w[n + 1 + i - 1]
      BY <1>0, <1>1, <2>1, n + 1 \in Int, Len(w) \in Int, SubSeqProperties
    <2> HIDE DEF b
    <2>3. ASSUME NEW i \in 1 .. Len(w) - n PROVE b[i] = w[n + i]
      <3>1. i \in 1 .. Len(w) - (n + 1) + 1 /\ n + 1 + i - 1 = n + i
        BY <1>0, <1>1
      <3> QED
        BY <2>2, <3>1
    <2> QED
      BY <1>0, <1>1, <2>2, <2>3
  <1> HIDE DEF a, b
  <1>4. /\ a \o l \in Seq(S) /\ Len(a \o l) = Len(a) + Len(l)
        /\ \A i \in 1 .. Len(a) + Len(l) : (a \o l)[i] = IF i <= Len(a) THEN a[i] ELSE l[i - Len(a)]
    <2>1. a \in Seq(S) /\ l \in Seq(S)
      BY <1>2
    <2> QED
      BY <2>1, ConcatProperties
  <1> DEFINE c == a \o l
  <1> HIDE DEF c
  <1>5. Alike(c, b)
    <2>1. Len(c) = Len(b)
      BY <1>0, <1>1, <1>2, <1>3, <1>4 DEF c
    <2>2. ASSUME NEW i \in 1 .. Len(c) PROVE c[i] = b[i]
      <3>1. i \in 1 .. Len(a) + Len(l) /\ i \in 1 .. Len(w) - n /\ n + i \in 1 .. Len(f) + Len(l)
        BY <1>0, <1>1, <1>2, <1>3, <1>4 DEF c
      <3>2. b[i] = w[n + i] /\ w[n + i] = IF n + i <= Len(f) THEN f[n + i] ELSE l[(n + i) - Len(f)]
        BY <1>1, <1>3, <3>1
      <3>3. c[i] = IF i <= Len(a) THEN a[i] ELSE l[i - Len(a)]
        BY <1>4, <3>1 DEF c
      <3>4. CASE i <= Len(a)
        <4>1. i \in 1 .. Len(f) - n /\ n + i <= Len(f)
          BY <1>0, <1>2, <3>1, <3>4
        <4> QED
          BY <1>2, <3>2, <3>3, <3>4, <4>1
      <3>5. CASE ~(i <= Len(a))
        <4>1. ~(n + i <= Len(f)) /\ (n + i) - Len(f) = i - Len(a)
          BY <1>0, <1>2, <3>1, <3>5
        <4> QED
          BY <3>2, <3>3, <3>5, <4>1
      <3> QED
        BY <3>4, <3>5
    <2> QED
      BY <2>1, <2>2, Zenon DEF Alike
  <1>6. c = b
    <2>1. c \in Seq(S)
      BY <1>4 DEF c
    <2> QED
      BY <1>3, <1>5, <2>1, Extensional, Zenon
  <1> QED
    BY <1>2, <1>6, Zenon DEF Drops, a, b, c, w

\* As far as the words f reach, they begin with the parameters of the first of h.
ParamsNext(f, h) == \A i \in 1 .. Params[Head(h)] : i <= Len(f) => f[i] = Param(Head(h), i)

\* A command is executed with its own parameters.
LEMMA StreamExec ==
    ASSUME NEW f, NEW l, NEW h, NEW p, Stream(f, l, h, p), h # <<>>
    PROVE  /\ ParamsNext(f, h)
           /\ Params[Head(h)] <= Len(f)
                => Stream(SubSeq(f, Params[Head(h)] + 1, Len(f)), l, Tail(h), Tail(p))
  <1> DEFINE n == Params[Head(h)]
             w == f \o l
             t == SubSeq(f, n + 1, Len(f))
  <1>1. /\ f \in Seq(Word) /\ l \in Seq(Word) /\ l \in Seq(ParamWord) /\ h \in Seq(Cmd)
        /\ w \in Seq(Word)
    BY StreamTypes
  <1>2. Head(h) \in Cmd /\ Tail(h) \in Seq(Cmd)
    BY <1>1, HeadTailProperties
  <1>3. n \in Nat /\ Len(f) \in Nat
    BY <1>1, <1>2 DEF Cmd
  <1>4. /\ \A i \in 1 .. n : w[i] = Param(Head(h), i)
        /\ Framed(SubSeq(w, n + 1, Len(w)), Tail(h))
    <2>1. Framed(w, h)
      BY Zenon DEF Stream
    <2> QED
      BY <1>1, <2>1, FramedExec, Zenon
  <1>5. \A i \in 1 .. n : i <= Len(f) => f[i] = Param(Head(h), i)
    <2> SUFFICES ASSUME NEW i \in 1 .. n, i <= Len(f) PROVE f[i] = Param(Head(h), i)
      OBVIOUS
    <2>1. w[i] = f[i]
      BY <1>1, <1>3, ConcatProperties
    <2> HIDE DEF w
    <2> QED
      BY <1>4, <2>1
  <1>6. ASSUME n <= Len(f) PROVE Stream(t, l, Tail(h), Tail(p))
    <2>1. n \in 0 .. Len(f)
      BY <1>3, <1>6
    <2>2. t \in Seq(Word) /\ t \o l = SubSeq(w, n + 1, Len(w))
      <3>1. f \in Seq(Word) /\ l \in Seq(Word)
        BY <1>1
      <3>2. t \in Seq(Word) /\ Drops(f, l, n)
        BY <2>1, <3>1, DropConcat, Zenon
      <3> QED
        BY <3>2, Zenon DEF Drops
    <2>3. Framed(t \o l, Tail(h))
      BY <1>4, <2>2, Zenon
    <2>4. Cmds(t) = Cmds(f)
      <3>1. \A i \in 1 .. n : f[i].cmds = <<>>
        <4>1. \A i \in 1 .. n : i <= Len(f)
          BY <1>3, <1>6
        <4>2. \A i \in 1 .. n : Param(Head(h), i).cmds = <<>>
          BY DEF Param
        <4> QED
          BY <1>5, <4>1, <4>2, Zenon
      <3> QED
        BY <1>1, <2>1, <3>1, CmdsDrop, Zenon
    <2>5. Tail(p) = Tail(h) \o Cmds(f)
      <3>1. Cmds(f) \in Seq(Cmd)
        BY <1>1, CmdsTyped, Zenon
      <3>2. p = h \o Cmds(f)
        BY Zenon DEF Stream
      <3>3. \A k \in Seq(Cmd) : Tail(h \o k) = Tail(h) \o k
        BY <1>1, <1>2
      <3> QED
        BY <3>1, <3>2, <3>3, Zenon
    <2> HIDE DEF t
    <2> QED
      BY <1>1, <1>2, <2>2, <2>3, <2>4, <2>5, Zenon DEF Stream
  <1>7. ParamsNext(f, h)
    BY <1>5, Zenon DEF ParamsNext
  <1> QED
    BY <1>6, <1>7, Zenon

\* The commands of the header a run has taken out.
Held == IF pc = "exec" THEN value ELSE <<>>

\* The inductive invariant behind CommandsIntact: the model's state is a stream.
StreamInv == Stream(fifo, list, Held, pending)

\* A fresh Gpu3DRegisters satisfies the invariant.
LEMMA StreamInit == Init => StreamInv
  <1> SUFFICES ASSUME Init PROVE StreamInv
    OBVIOUS
  <1>1. fifo = <<>> /\ list = <<>> /\ pending = <<>> /\ pc = "guest"
    BY DEF Init
  <1>2. Held = <<>>
    BY <1>1 DEF Held
  <1> QED
    BY <1>1, <1>2, StreamEmpty, Zenon DEF StreamInv

\* Steps that leave the words and the commands alone.
LEMMA StreamStays ==
    ASSUME StreamInv, UNCHANGED <<fifo, list, pending>>,
           UNCHANGED <<pc, value>> \/ (pc # "exec" /\ pc' # "exec")
    PROVE  StreamInv'
  <1>1. Held' = Held
    BY DEF Held
  <1> QED
    BY <1>1, Zenon DEF StreamInv

\* One word of a store or of a chunk.
LEMMA StreamPushBack == StreamInv /\ PushBack => StreamInv'
  <1> SUFFICES ASSUME StreamInv, PushBack PROVE StreamInv'
    OBVIOUS
  <1>1. Held = <<>> /\ Held' = <<>>
    BY DEF PushBack, Held
  <1>2. Stream(fifo, list, <<>>, pending)
    BY <1>1, Zenon DEF StreamInv
  <1>3. CASE list = <<>>
    <2>1. PICK h \in Headers : /\ fifo' = Append(fifo, Header(h)) /\ list' = ParamsBehind(h)
                               /\ pending' = pending \o h
      BY <1>3 DEF PushBack
    <2>2. h \in Seq(Cmd)
      OBVIOUS
    <2>3. Stream(Append(fifo, Header(h)), ParamsBehind(h), <<>>, pending \o h)
      BY <1>2, <1>3, <2>2, StreamGrows, Zenon
    <2> QED
      BY <1>1, <2>1, <2>3, Zenon DEF StreamInv
  <1>4. CASE list # <<>>
    <2>1. fifo' = Append(fifo, Head(list)) /\ list' = Tail(list) /\ pending' = pending
      BY <1>4 DEF PushBack
    <2>2. Stream(Append(fifo, Head(list)), Tail(list), <<>>, pending)
      BY <1>2, <1>4, StreamMoves, Zenon
    <2> QED
      BY <1>1, <2>1, <2>2, Zenon DEF StreamInv
  <1> QED
    BY <1>3, <1>4, Zenon

\* The first write to the port of a command.
LEMMA StreamUnpackedCommand ==
    ASSUME StreamInv, NEW c \in Ports, QueueUnpackedCommand(c)
    PROVE  StreamInv'
  <1> DEFINE first == IF Params[c] > 0 THEN 1 ELSE 0
             l == ParamsOf(c)
             f == Append(fifo, Header(<<c>>))
  <1>1. c \in Cmd /\ Params[c] \in Nat /\ <<c>> \in Seq(Cmd)
    BY DEF Cmd
  <1>2. Held = <<>> /\ Held' = <<>>
    BY DEF QueueUnpackedCommand, Held
  <1>3. /\ list = <<>> /\ pending' = Append(pending, c)
        /\ fifo' = f \o SubSeq(l, 1, first) /\ list' = SubSeq(l, first + 1, Params[c])
    BY DEF QueueUnpackedCommand
  <1>4. Stream(fifo, <<>>, <<>>, pending)
    BY <1>2, <1>3, Zenon DEF StreamInv
  <1>5. pending \o <<c>> = Append(pending, c)
    <2>1. pending \in Seq(Cmd)
      <3>1. <<>> \in Seq(Cmd) /\ Cmds(fifo) \in Seq(Cmd)
        BY <1>4, StreamTypes
      <3>2. pending = <<>> \o Cmds(fifo)
        BY <1>4, Zenon DEF Stream
      <3> QED
        BY <3>1, <3>2, ConcatProperties, Zenon
    <2> QED
      BY <1>1, <2>1, AppendIsConcat
  <1>6. Stream(f, ParamsBehind(<<c>>), <<>>, pending \o <<c>>)
    BY <1>1, <1>4, StreamGrows, Zenon
  <1>7. Stream(f, l, <<>>, pending')
    BY <1>1, <1>3, <1>5, <1>6, BehindOne, Zenon
  <1>8. f \in Seq(Word) /\ l \in Seq(Word) /\ Len(l) = Params[c]
    BY <1>1, <1>7, StreamTypes, WordsTyped
  <1> HIDE DEF f, l
  <1>9. CASE Params[c] = 0
    <2>1. l = <<>> /\ first = 0
      BY <1>8, <1>9
    <2>2. SubSeq(l, 1, first) = <<>> /\ SubSeq(l, first + 1, Params[c]) = l /\ f \o <<>> = f
      BY <1>8, <1>9, <2>1
    <2>3. fifo' = f /\ list' = l
      BY <1>3, <2>2, Zenon
    <2> QED
      BY <1>2, <1>7, <2>3, Zenon DEF StreamInv
  <1>10. CASE Params[c] > 0
    <2>1. l # <<>> /\ first = 1
      BY <1>8, <1>10
    <2>2. SubSeq(l, 1, 1) = <<Head(l)>> /\ SubSeq(l, 2, Params[c]) = Tail(l) /\ Head(l) \in Word
      <3>1. Head(l) \in Word /\ SubSeq(l, 2, Params[c]) = Tail(l)
        BY <1>8, <2>1, HeadTailProperties, TailIsSubSeq
      <3>2. SubSeq(l, 1, 1) = <<Head(l)>>
        <4>1. 1 \in 1 .. Len(l) /\ 1 \in 1 .. Len(l)
          BY <1>8, <2>1
        <4>2. SubSeq(l, 1, 1) = <<l[1]>> \o SubSeq(l, 1 + 1, 1)
          BY <1>8, <4>1, SubSeqRecursiveFirst
        <4>3. SubSeq(l, 1 + 1, 1) = <<>>
          BY SubSeqEmpty
        <4>4. <<l[1]>> \o <<>> = <<l[1]>> /\ l[1] = Head(l)
          BY <1>8, <2>1
        <4> QED
          BY <4>2, <4>3, <4>4, Zenon
      <3> QED
        BY <3>1, <3>2
    <2>3. f \o <<Head(l)>> = Append(f, Head(l))
      BY <1>8, <2>2, AppendIsConcat
    <2>4. fifo' = Append(f, Head(l)) /\ list' = Tail(l)
      <3>1. first + 1 = 2
        BY <2>1
      <3> HIDE DEF first
      <3> QED
        BY <1>3, <2>1, <2>2, <2>3, <3>1, Zenon
    <2>5. Stream(Append(f, Head(l)), Tail(l), <<>>, pending')
      BY <1>7, <2>1, StreamMoves, Zenon
    <2> QED
      BY <1>2, <2>4, <2>5, Zenon DEF StreamInv
  <1> QED
    BY <1>1, <1>9, <1>10

\* A further write to the port: the word it brings is due.
LEMMA StreamUnpackedParam == GxInv /\ StreamInv /\ QueueUnpackedParam => StreamInv'
  <1> SUFFICES ASSUME GxInv, StreamInv, QueueUnpackedParam PROVE StreamInv'
    OBVIOUS
  <1>1. list # <<>>
    BY DEF GxInv, TypeOK, DataOK, QueueUnpackedParam
  <1>2. Held' = Held
    BY DEF QueueUnpackedParam, Held
  <1>3. fifo' = Append(fifo, Head(list)) /\ list' = Tail(list) /\ pending' = pending
    BY DEF QueueUnpackedParam
  <1>4. Stream(Append(fifo, Head(list)), Tail(list), Held, pending)
    BY <1>1, StreamMoves, Zenon DEF StreamInv
  <1> QED
    BY <1>2, <1>3, <1>4, Zenon DEF StreamInv

\* The word regs_3d_run_cmds takes out is a header.
LEMMA StreamFetch == StreamInv /\ Fetch => StreamInv'
  <1> SUFFICES ASSUME StreamInv, Fetch PROVE StreamInv'
    OBVIOUS
  <1>1. Held = <<>> /\ Held' = value'
    BY DEF Fetch, Held
  <1>2. fifo # <<>> /\ fifo' = Tail(fifo) /\ value' = Head(fifo).cmds /\ UNCHANGED <<list, pending>>
    BY DEF Fetch
  <1>3. Stream(Tail(fifo), list, Head(fifo).cmds, pending)
    BY <1>1, <1>2, StreamTake, Zenon DEF StreamInv
  <1> QED
    BY <1>1, <1>2, <1>3, Zenon DEF StreamInv

\* A header put back without its parameters stands before them again.
LEMMA StreamIncomplete == StreamInv /\ Incomplete => StreamInv'
  <1> SUFFICES ASSUME StreamInv, Incomplete PROVE StreamInv'
    OBVIOUS
  <1>1. Held = value /\ Held' = <<>>
    BY DEF Incomplete, Held
  <1>2. fifo' = <<Header(value)>> \o fifo /\ UNCHANGED <<list, pending>>
    BY DEF Incomplete
  <1>3. Stream(<<Header(value)>> \o fifo, list, <<>>, pending)
    BY <1>1, StreamGive, Zenon DEF StreamInv
  <1> QED
    BY <1>1, <1>2, <1>3, Zenon DEF StreamInv

\* An executed command takes its own parameters, the rest of its header those
\* that follow; a run that stops puts the rest back.
LEMMA StreamExecute == GxInv /\ StreamInv /\ Execute => StreamInv'
  <1> SUFFICES ASSUME GxInv, StreamInv, Execute PROVE StreamInv'
    OBVIOUS
  <1> DEFINE c == CurrentCmd
             rest == IF value = <<>> THEN <<>> ELSE Tail(value)
             words == SubSeq(fifo, Params[c] + 1, Len(fifo))
             stops == c = Swap \/ Charged(c) = 0
             p == IF value = <<>> THEN pending ELSE Tail(pending)
  <1>1. /\ pc = "exec" /\ Params[c] <= Len(fifo)
        /\ value' = rest /\ list' = list /\ pending' = p
        /\ fifo' = IF stops THEN PutBack(rest, words) ELSE words
        /\ pc' = IF stops THEN "end" ELSE IF rest = <<>> THEN "fetch" ELSE "exec"
    BY DEF Execute
  <1>2. Held = value
    BY <1>1 DEF Held
  <1>3. Stream(fifo, list, value, pending)
    BY <1>2, Zenon DEF StreamInv
  <1>4. fifo \in Seq(Word)
    BY <1>3, StreamTypes
  <1>5. Stream(words, list, rest, p)
    <2>1. CASE value = <<>>
      <3>1. Params[c] + 1 = 1
        BY <2>1 DEF CurrentCmd
      <3>2. words = fifo
        BY <1>4, <3>1, SubSeqFull, Zenon
      <3> QED
        BY <1>3, <2>1, <3>2, Zenon
    <2>2. CASE value # <<>>
      <3>1. c = Head(value) /\ rest = Tail(value) /\ p = Tail(pending)
        BY <2>2, Zenon DEF CurrentCmd
      <3>2. Params[Head(value)] <= Len(fifo)
        BY <1>1, <3>1
      <3>3. Stream(SubSeq(fifo, Params[Head(value)] + 1, Len(fifo)), list, Tail(value),
                   Tail(pending))
        BY <1>3, <2>2, <3>2, StreamExec, Zenon
      <3> QED
        BY <3>1, <3>3, Zenon
    <2> QED
      BY <2>1, <2>2, Zenon
  <1> HIDE DEF c, rest, words, stops, p
  <1>6. CASE stops /\ rest # <<>>
    <2>1. fifo' = <<Header(rest)>> \o words /\ pc' = "end"
      BY <1>1, <1>6, Zenon DEF PutBack
    <2>2. Held' = <<>>
      BY <2>1 DEF Held
    <2>3. Stream(<<Header(rest)>> \o words, list, <<>>, p)
      BY <1>5, StreamGive, Zenon
    <2> QED
      BY <1>1, <2>1, <2>2, <2>3, Zenon DEF StreamInv
  <1>7. CASE ~(stops /\ rest # <<>>)
    <2>1. fifo' = words
      BY <1>1, <1>7, Zenon DEF PutBack
    <2>2. Held' = rest
      <3>1. CASE rest = <<>>
        <4>1. pc' # "exec"
          BY <1>1, <3>1
        <4> QED
          BY <3>1, <4>1, Zenon DEF Held
      <3>2. CASE rest # <<>>
        <4>1. pc' = "exec"
          BY <1>1, <1>7, <3>2, Zenon
        <4> QED
          BY <1>1, <4>1, Zenon DEF Held
      <3> QED
        BY <3>1, <3>2, Zenon
    <2> QED
      BY <1>1, <1>5, <2>1, <2>2, Zenon DEF StreamInv
  <1> QED
    BY <1>6, <1>7, Zenon

\* The other steps touch neither words nor commands.
LEMMA StreamOther ==
    ASSUME StreamInv,
           \/ \E n \in 1 .. Burst : SetGxFifo(n)
           \/ \E n \in Counts, r \in BOOLEAN : EnableDma(n, r)
           \/ \E enable \in BOOLEAN : RewriteDma(enable)
           \/ GetGxStat \/ SetGxFifoDone \/ Visit \/ DmaDone \/ RunNothing \/ RunDone
           \/ \E b \in Budgets : RunCmds(b)
           \/ SwapBuffers \/ UNCHANGED vars
    PROVE  StreamInv'
  <1>1. UNCHANGED <<fifo, list, pending>>
    BY DEF SetGxFifo, EnableDma, RewriteDma, GetGxStat, SetGxFifoDone, Visit, DmaDone, RunNothing,
           RunDone, RunCmds, SwapBuffers, vars
  <1>2. UNCHANGED <<pc, value>> \/ (pc # "exec" /\ pc' # "exec")
    BY DEF SetGxFifo, EnableDma, RewriteDma, GetGxStat, SetGxFifoDone, Visit, DmaDone, RunNothing,
           RunDone, RunCmds, SwapBuffers, vars
  <1> QED
    BY <1>1, <1>2, StreamStays

\* The stream is what CommandsIntact says of the fifo.
LEMMA StreamIntact == GxInv /\ StreamInv => CommandsIntact
  <1> SUFFICES ASSUME GxInv, StreamInv PROVE CommandsIntact
    OBVIOUS
  <1>1. pending = Held \o Cmds(fifo)
    BY Zenon DEF StreamInv, Stream
  <1>2. ASSUME pc # "exec", fifo # <<>> PROVE fifo[1].index = 0
    <2>1. Stream(fifo, list, <<>>, pending)
      BY <1>2, Zenon DEF StreamInv, Held
    <2>2. Head(fifo) = Header(Head(fifo).cmds)
      BY <1>2, <2>1, StreamTake, Zenon
    <2>3. Head(fifo) = fifo[1]
      BY <1>2 DEF GxInv, TypeOK, DataOK
    <2> QED
      BY <2>2, <2>3 DEF Header
  <1>3. ASSUME pc = "exec", NEW i \in 1 .. Params[CurrentCmd], i <= Len(fifo)
        PROVE  fifo[i] = Param(CurrentCmd, i)
    <2>1. value # <<>>
      <3> SUFFICES ASSUME value = <<>> PROVE FALSE
        OBVIOUS
      <3>1. Params[CurrentCmd] = 0
        BY DEF CurrentCmd
      <3> QED
        BY <1>3, <3>1
    <2>2. Stream(fifo, list, value, pending)
      BY <1>3, Zenon DEF StreamInv, Held
    <2>3. CurrentCmd = Head(value)
      BY <2>1, Zenon DEF CurrentCmd
    <2>4. ParamsNext(fifo, value)
      BY <2>1, <2>2, StreamExec, Zenon
    <2> QED
      BY <1>3, <2>3, <2>4, Zenon DEF ParamsNext
  <1> QED
    BY <1>1, <1>2, <1>3, Zenon DEF CommandsIntact, Held, Cmds

\* The stream holds together in every reachable state.
LEMMA StreamHolds == Spec => []StreamInv
  <1>1. Init => StreamInv
    BY StreamInit
  <1>2. GxInv /\ StreamInv /\ [Next]_vars => StreamInv'
    <2> SUFFICES ASSUME GxInv, StreamInv, [Next]_vars PROVE StreamInv'
      OBVIOUS
    <2>1. CASE Guest
      BY <2>1, StreamOther, StreamUnpackedCommand, StreamUnpackedParam, Zenon DEF Guest
    <2>2. CASE Scheduler
      BY <2>2, StreamOther, StreamPushBack, StreamFetch, StreamIncomplete, StreamExecute, Zenon
         DEF Scheduler
    <2> QED
      BY <2>1, <2>2, StreamOther, Zenon DEF Next
  <1> QED
    BY <1>1, <1>2, GxFifoSafe, PTL DEF Spec

\* However headers are packed, written to ports, pushed by the ARM9 or by a
\* channel in chunks, taken apart by regs_3d_run_cmds, put back without their
\* parameters or cut by a budget or a swap: the commands left are the ones sent,
\* in order, a run begins at a header and a command finds its own parameters.
THEOREM CommandsKept == Spec => []CommandsIntact
  BY StreamHolds, GxFifoSafe, StreamIntact, PTL

-----------------------------------------------------------------------------
(* The test-busy bit.                                                      *)

\* The walk of test_queue_busy over the words f, from offset o.
Offset == Nat \ {0}
TestAt(f, o) == ToSet(f[o].cmds) \cap Tests # {}
After(f, o) == o + 1 + Len(ParamsBehind(f[o].cmds))
Walks(g, f) == g = [o \in Offset |-> o <= Len(f) /\ (TestAt(f, o) \/ g[After(f, o)])]

\* The walk moves forward.
LEMMA AfterTyped ==
    ASSUME NEW f \in Seq(Word), NEW o \in 1 .. Len(f)
    PROVE  After(f, o) \in Offset /\ After(f, o) > o
  <1>1. f[o] \in Word
    OBVIOUS
  <1>2. f[o].cmds \in Seq(Cmd)
    BY <1>1 DEF Word
  <1>3. ParamsBehind(f[o].cmds) \in Seq(Word)
    BY <1>2, BehindTyped, Zenon
  <1>4. Len(ParamsBehind(f[o].cmds)) \in Nat
    BY <1>3, LenProperties, Zenon
  <1> QED
    BY <1>4 DEF After, Offset

\* There is such a walk: the least set of offsets closed under the equation.
LEMMA WalkExists ==
    ASSUME NEW f \in Seq(Word)
    PROVE  \E g : Walks(g, f)
  <1> DEFINE holds(o, S) == o <= Len(f) /\ (TestAt(f, o) \/ After(f, o) \in S)
             closed(S) == \A x \in Offset : holds(x, S) => x \in S
             L == {o \in Offset : \A S \in SUBSET Offset : closed(S) => o \in S}
             K == {o \in Offset : holds(o, L)}
  <1>1. closed(L)
    <2> SUFFICES ASSUME NEW x \in Offset, holds(x, L), NEW S \in SUBSET Offset, closed(S)
                 PROVE  x \in S
      BY Zenon
    <2>1. After(f, x) \in L => After(f, x) \in S
      BY Zenon
    <2>2. holds(x, S)
      BY <2>1, Zenon
    <2> QED
      BY <2>2, Zenon
  <1>2. closed(K)
    <2> SUFFICES ASSUME NEW x \in Offset, holds(x, K) PROVE holds(x, L)
      BY Zenon
    <2>1. After(f, x) \in K => After(f, x) \in L
      BY <1>1, Zenon
    <2> QED
      BY <2>1, Zenon
  <1>3. \A o \in Offset : o \in L <=> holds(o, L)
    BY <1>1, <1>2, Zenon
  <1> HIDE DEF L, K
  <1> DEFINE g == [o \in Offset |-> o \in L]
  <1>4. ASSUME NEW o \in Offset
        PROVE  (o \in L) = (o <= Len(f) /\ (TestAt(f, o) \/ g[After(f, o)]))
    <2>1. CASE o <= Len(f)
      <3>1. After(f, o) \in Offset
        BY <2>1, AfterTyped DEF Offset
      <3>2. g[After(f, o)] = (After(f, o) \in L)
        BY <3>1, Zenon
      <3> HIDE DEF g
      <3>3. (o \in L) <=> TestAt(f, o) \/ After(f, o) \in L
        BY <1>3, <2>1, Zenon
      <3>4. g[After(f, o)] <=> After(f, o) \in L
        BY <3>2, Zenon
      <3>5. (o \in L) <=> (o <= Len(f) /\ (TestAt(f, o) \/ g[After(f, o)]))
        BY <2>1, <3>3, <3>4, Zenon
      <3> QED
        BY <3>5
    <2>2. CASE ~(o <= Len(f))
      <3>1. o \notin L
        BY <1>3, <2>2, Zenon
      <3> HIDE DEF g
      <3> QED
        BY <2>2, <3>1
    <2> QED
      BY <2>1, <2>2, Zenon
  <1>5. Walks(g, f)
    BY <1>4, Zenon DEF Walks
  <1> QED
    BY <1>5, Zenon

\* Offset o of the words w is where a packet begins or the words end.
Begins(w, o) ==
    \E a \in Seq(Word), hs \in Seq(Seq(Cmd)) : Len(a) = o - 1 /\ w = a \o Packets(hs)

\* From one header the walk goes to the next, over parameter words.
LEMMA BeginsNext ==
    ASSUME NEW w \in Seq(Word), NEW o \in 1 .. Len(w), Begins(w, o)
    PROVE  /\ After(w, o) \in Offset /\ After(w, o) > o /\ Begins(w, After(w, o))
           /\ \A i \in 1 .. Len(w) : o < i /\ i < After(w, o) => w[i] \in ParamWord
  <1>1. PICK a \in Seq(Word), hs \in Seq(Seq(Cmd)) : Len(a) = o - 1 /\ w = a \o Packets(hs)
    BY DEF Begins
  <1>2. hs # <<>>
    <2> SUFFICES ASSUME hs = <<>> PROVE FALSE
      OBVIOUS
    <2>1. w = a \o <<>>
      BY <1>1, PacketsTyped, Zenon
    <2>2. a \o <<>> = a
      BY ConcatEmptySeq
    <2> QED
      BY <1>1, <2>1, <2>2
  <1> DEFINE h == hs[1]
             r == Packets(Tail(hs))
             p == ParamsBehind(h)
             x == Header(h)
             k == Packet(h)
             b == a \o k
  <1>3. h \in Seq(Cmd) /\ Tail(hs) \in Seq(Seq(Cmd)) /\ Packets(hs) = k \o r
    BY <1>2, PacketsHead, Zenon
  <1>4. /\ k \in Seq(Word) /\ <<x>> \in Seq(Word) /\ x \in Word /\ r \in Seq(Word)
        /\ p \in Seq(Word) /\ p \in Seq(ParamWord)
    BY <1>3, PacketTyped, PacketsTyped, BehindTyped, WordsTyped, Zenon
  <1>5. x.cmds = h /\ k = <<x>> \o p
    BY DEF Header, Packet
  <1>6. w = b \o r
    <2>1. Associates(a, k, r)
      BY <1>4, ConcatAssociates, Zenon
    <2> QED
      BY <1>1, <1>3, <2>1, Zenon DEF Associates
  <1>7. \E ks \in Seq(Seq(Cmd)) : r = Packets(ks)
    BY <1>3, Zenon
  <1> HIDE DEF h, r, p, x, k
  <1>8. Len(p) \in Nat /\ Len(k) = 1 + Len(p) /\ k[1] = x /\ \A j \in 1 .. Len(p) : k[1 + j] = p[j]
    <2>1. k = <<x>> \o p
      BY <1>5
    <2>2. Len(<<x>>) = 1 /\ <<x>>[1] = x
      OBVIOUS
    <2>3. /\ Len(p) \in Nat /\ Len(k) = 1 + Len(p)
          /\ \A i \in 1 .. 1 + Len(p) : k[i] = IF i <= 1 THEN <<x>>[i] ELSE p[i - 1]
      BY <1>4, <2>1, <2>2, ConcatProperties
    <2> QED
      BY <2>2, <2>3
  <1>9. /\ b \in Seq(Word) /\ Len(b) = o + Len(p)
        /\ b[o] = x /\ \A j \in 1 .. Len(p) : b[o + j] = p[j]
    <2>1. /\ b \in Seq(Word) /\ Len(b) = Len(a) + Len(k)
          /\ \A i \in 1 .. Len(a) + Len(k) : b[i] = IF i <= Len(a) THEN a[i] ELSE k[i - Len(a)]
      BY <1>4, ConcatProperties
    <2> HIDE DEF b
    <2>2. Len(b) = o + Len(p)
      BY <1>1, <1>8, <2>1
    <2>3. b[o] = x
      <3>1. o \in 1 .. Len(a) + Len(k) /\ ~(o <= Len(a)) /\ o - Len(a) = 1
        BY <1>1, <1>8
      <3>2. b[o] = k[1]
        BY <2>1, <3>1
      <3> QED
        BY <1>8, <3>2
    <2>4. ASSUME NEW j \in 1 .. Len(p) PROVE b[o + j] = p[j]
      <3>1. o + j \in 1 .. Len(a) + Len(k) /\ ~(o + j <= Len(a)) /\ (o + j) - Len(a) = 1 + j
        BY <1>1, <1>8
      <3>2. b[o + j] = k[1 + j]
        BY <2>1, <3>1
      <3> QED
        BY <1>8, <3>2
    <2> QED
      BY <2>1, <2>2, <2>3, <2>4
  <1> HIDE DEF b
  <1>10. Len(w) = Len(b) + Len(r) /\ \A i \in 1 .. Len(b) : w[i] = b[i]
    <2>1. b \in Seq(Word) /\ r \in Seq(Word)
      BY <1>4, <1>9
    <2>2. /\ Len(b) \in Nat /\ Len(r) \in Nat /\ Len(b \o r) = Len(b) + Len(r)
          /\ \A i \in 1 .. Len(b) + Len(r) :
                 (b \o r)[i] = IF i <= Len(b) THEN b[i] ELSE r[i - Len(b)]
      BY <2>1, ConcatProperties
    <2> QED
      BY <1>6, <2>2
  <1>11. w[o] = x
    <2>1. o \in 1 .. Len(b)
      BY <1>8, <1>9
    <2>2. w[o] = b[o]
      BY <1>10, <2>1
    <2> QED
      BY <1>9, <2>2
  <1>12. After(w, o) = o + 1 + Len(p)
    BY <1>5, <1>11, Zenon DEF After, p
  <1>13. Begins(w, After(w, o))
    <2>1. Len(b) = After(w, o) - 1
      BY <1>8, <1>9, <1>12
    <2> QED
      BY <1>6, <1>7, <1>9, <2>1, Zenon DEF Begins
  <1>14. ASSUME NEW i \in 1 .. Len(w), o < i, i < After(w, o) PROVE w[i] \in ParamWord
    <2>1. i - o \in 1 .. Len(p) /\ o + (i - o) = i /\ i \in 1 .. Len(b)
      BY <1>8, <1>9, <1>12, <1>14
    <2>2. w[i] = p[i - o]
      BY <1>9, <1>10, <2>1
    <2>3. p[i - o] \in ParamWord
      BY <1>4, <2>1
    <2> QED
      BY <2>2, <2>3
  <1>15. After(w, o) \in Offset /\ After(w, o) > o
    BY <1>8, <1>12 DEF Offset
  <1> QED
    BY <1>13, <1>14, <1>15

\* Parameter words hold no test.
LEMMA NoTestInParams ==
    ASSUME NEW f, NEW i, f[i] \in ParamWord
    PROVE  ~TestAt(f, i)
  <1>1. f[i].cmds = <<>>
    BY DEF ParamWord
  <1>2. ToSet(<<>>) = {}
    BY DEF ToSet
  <1> QED
    BY <1>1, <1>2 DEF TestAt

\* From where a packet begins, the walk finds a test exactly when one is left.
LEMMA WalkRight ==
    ASSUME NEW f \in Seq(Word), NEW l \in Seq(Word), Framed(f \o l, <<>>), NEW g, Walks(g, f)
    PROVE  g[1] <=> \E i \in 1 .. Len(f) : TestAt(f, i)
  <1> DEFINE w == f \o l
             ahead(o) == \E i \in 1 .. Len(f) : i >= o /\ TestAt(f, i)
             claim(o) == g[o] <=> ahead(o)
             all(n) == \A o \in Offset : Begins(w, o) /\ o + n > Len(f) => claim(o)
             T == {n \in Nat : all(n)}
  <1>1. /\ w \in Seq(Word) /\ Len(f) \in Nat /\ Len(w) \in Nat /\ Len(f) <= Len(w)
        /\ \A i \in 1 .. Len(f) : w[i] = f[i]
    <2>1. /\ w \in Seq(Word) /\ Len(f) \in Nat /\ Len(l) \in Nat /\ Len(w) = Len(f) + Len(l)
          /\ \A i \in 1 .. Len(f) + Len(l) : w[i] = IF i <= Len(f) THEN f[i] ELSE l[i - Len(f)]
      BY ConcatProperties
    <2> HIDE DEF w
    <2> QED
      BY <2>1
  <1>2. Begins(w, 1)
    <2>1. PICK hs \in Seq(Seq(Cmd)) : w = ParamsBehind(<<>>) \o Packets(hs)
      BY Zenon DEF Framed
    <2>2. <<>> \in Seq(Word) /\ Len(<<>>) = 1 - 1
      OBVIOUS
    <2>3. w = <<>> \o Packets(hs)
      BY <2>1, BehindEmpty, Zenon
    <2> HIDE DEF w
    <2> QED
      BY <2>2, <2>3, Zenon DEF Begins
  <1>3. \A o \in Offset : g[o] <=> (o <= Len(f) /\ (TestAt(f, o) \/ g[After(f, o)]))
    BY Zenon DEF Walks
  <1> HIDE DEF w
  <1>4. ASSUME NEW o \in Offset, o > Len(f) PROVE claim(o)
    <2>1. ~(o <= Len(f)) /\ \A i \in 1 .. Len(f) : ~(i >= o)
      BY <1>1, <1>4 DEF Offset
    <2> QED
      BY <1>3, <2>1, Zenon
  <1>5. all(0)
    <2> HIDE DEF claim
    <2> QED
      BY <1>1, <1>4 DEF Offset
  <1>6. ASSUME NEW n \in Nat, all(n) PROVE all(n + 1)
    <2> SUFFICES ASSUME NEW o \in Offset, Begins(w, o), o + (n + 1) > Len(f) PROVE claim(o)
      <3> HIDE DEF claim
      <3> QED
        OBVIOUS
    <2>1. CASE o > Len(f)
      BY <1>4, <2>1, Zenon
    <2>2. CASE ~(o > Len(f))
      <3>1. o \in 1 .. Len(f) /\ o \in 1 .. Len(w) /\ o <= Len(f)
        BY <1>1, <2>2 DEF Offset
      <3>2. After(f, o) = After(w, o)
        BY <1>1, <3>1, Zenon DEF After
      <3>3. /\ After(f, o) \in Offset /\ After(f, o) > o /\ Begins(w, After(f, o))
            /\ \A i \in 1 .. Len(w) : o < i /\ i < After(f, o) => w[i] \in ParamWord
        BY <1>1, <3>1, <3>2, BeginsNext
      <3>4. After(f, o) + n > Len(f)
        BY <1>1, <3>1, <3>3 DEF Offset
      <3>5. claim(After(f, o))
        <4> HIDE DEF claim
        <4> QED
          BY <1>6, <3>3, <3>4, Zenon
      <3>6. ahead(o) <=> TestAt(f, o) \/ ahead(After(f, o))
        <4>1. ASSUME NEW i \in 1 .. Len(f), o < i, i < After(f, o) PROVE ~TestAt(f, i)
          <5>1. i \in 1 .. Len(w)
            BY <1>1
          <5>2. f[i] \in ParamWord
            BY <1>1, <3>3, <4>1, <5>1, Zenon
          <5> QED
            BY <5>2, NoTestInParams, Zenon
        <4>2. ASSUME NEW i \in 1 .. Len(f), i >= o, TestAt(f, i)
              PROVE  TestAt(f, o) \/ ahead(After(f, o))
          <5>1. i = o \/ (o < i /\ i < After(f, o)) \/ i >= After(f, o)
            BY <1>1, <3>1, <3>3, <4>2 DEF Offset
          <5> QED
            BY <4>1, <4>2, <5>1, Zenon
        <4>3. ASSUME NEW i \in 1 .. Len(f), i >= After(f, o) PROVE i >= o
          BY <1>1, <3>1, <3>3, <4>3 DEF Offset
        <4>4. o >= o
          BY <3>1
        <4> QED
          BY <3>1, <4>2, <4>3, <4>4, Zenon
      <3> QED
        <4>1. g[o] <=> TestAt(f, o) \/ g[After(f, o)]
          BY <1>3, <3>1, Zenon
        <4> HIDE DEF ahead
        <4> QED
          BY <3>5, <3>6, <4>1, Zenon
    <2> QED
      BY <2>1, <2>2, Zenon
  <1>7. all(Len(f))
    <2> HIDE DEF all
    <2>1. 0 \in T /\ \A n \in Nat : n \in T => n + 1 \in T
      BY <1>5, <1>6
    <2>2. \A n \in Nat : n \in T
      <3> HIDE DEF T
      <3> QED
        BY <2>1, Inductive, Zenon
    <2> QED
      BY <1>1, <2>2
  <1>8. claim(1)
    <2>1. 1 \in Offset /\ 1 + Len(f) > Len(f)
      BY <1>1 DEF Offset
    <2> HIDE DEF claim
    <2> QED
      BY <1>2, <1>7, <2>1, Zenon
  <1>9. \A i \in 1 .. Len(f) : i >= 1
    BY <1>1
  <1> QED
    BY <1>8, <1>9, Zenon

\* What regs_3d_get_gx_stat answers.
LEMMA QueueHoldsTestRight ==
    ASSUME GxInv, StreamInv, pc # "exec"
    PROVE  QueueHoldsTest <=> \E i \in DOMAIN fifo : ToSet(fifo[i].cmds) \cap Tests # {}
  <1>1. Stream(fifo, list, <<>>, pending)
    BY Zenon DEF StreamInv, Held
  <1>2. fifo \in Seq(Word) /\ list \in Seq(Word)
    BY <1>1, StreamTypes
  <1>3. Framed(fifo \o list, <<>>)
    BY <1>1, Zenon DEF Stream
  <1> DEFINE walk == CHOOSE g : Walks(g, fifo)
  <1>4. Walks(walk, fifo)
    BY <1>2, WalkExists, Zenon
  <1>5. walk[1] <=> \E i \in 1 .. Len(fifo) : TestAt(fifo, i)
    <2> HIDE DEF walk
    <2> QED
      BY <1>2, <1>3, <1>4, WalkRight, Zenon
  <1>6. QueueHoldsTest = walk[1]
    BY DEF QueueHoldsTest, Walks, TestAt, After, Offset
  <1>7. DOMAIN fifo = 1 .. Len(fifo)
    BY <1>2
  <1> HIDE DEF walk
  <1> QED
    BY <1>5, <1>6, <1>7, Zenon DEF TestAt

\* The inductive invariant behind TestStatusFresh: from the end of a run to the
\* next push the answer that is not dirty is right.
StatusInv ==
    pc \in {"guest", "check"} /\ ~dirty =>
        (busy <=> \E i \in DOMAIN fifo : ToSet(fifo[i].cmds) \cap Tests # {})

\* A fresh fifo holds no test.
LEMMA StatusInit == Init => StatusInv
  <1> SUFFICES ASSUME Init PROVE StatusInv
    OBVIOUS
  <1>1. fifo = <<>> /\ busy = FALSE
    BY DEF Init
  <1>2. DOMAIN <<>> = {}
    OBVIOUS
  <1> QED
    BY <1>1, <1>2, Zenon DEF StatusInv

\* Every step that changes the fifo marks the answer dirty.
LEMMA StatusStep ==
    ASSUME GxInv, StreamInv, StatusInv, [Next]_vars
    PROVE  StatusInv'
  <1>1. CASE GetGxStat
    <2>1. pc = "guest" /\ UNCHANGED <<fifo, pc>> /\ busy' = IF dirty THEN QueueHoldsTest ELSE busy
      BY <1>1, Zenon DEF GetGxStat, GuestRuns
    <2>2. pc # "exec"
      BY <2>1
    <2>3. CASE dirty
      BY <2>1, <2>2, <2>3, QueueHoldsTestRight, Zenon DEF StatusInv
    <2>4. CASE ~dirty
      BY <2>1, <2>4, Zenon DEF StatusInv
    <2> QED
      BY <2>3, <2>4, Zenon
  <1>2. CASE UNCHANGED <<fifo, dirty, busy>> /\ (pc' = pc \/ pc \in {"guest", "check"})
    BY <1>2, Zenon DEF StatusInv
  <1>3. CASE dirty' = TRUE
    BY <1>3, Zenon DEF StatusInv
  <1>4. CASE pc' \notin {"guest", "check"}
    BY <1>4, Zenon DEF StatusInv
  <1>5. \/ GetGxStat
        \/ UNCHANGED <<fifo, dirty, busy>> /\ (pc' = pc \/ pc \in {"guest", "check"})
        \/ dirty' = TRUE
        \/ pc' \notin {"guest", "check"}
    <2>1. CASE Guest
      BY <2>1 DEF Guest, SetGxFifo, QueueUnpackedCommand, QueueUnpackedParam, EnableDma, RewriteDma,
                  status, GuestRuns
    <2>2. CASE Scheduler
      BY <2>2 DEF Scheduler, PushBack, SetGxFifoDone, Visit, DmaDone, RunNothing, Fetch, Incomplete,
                  Execute, RunDone, RunCmds, PostQueueEntry, status
    <2>3. CASE SwapBuffers \/ UNCHANGED vars
      BY <2>3 DEF SwapBuffers, vars, status
    <2> QED
      BY <2>1, <2>2, <2>3 DEF Next
  <1> QED
    BY <1>1, <1>2, <1>3, <1>4, <1>5, Zenon

\* The answer of regs_3d_get_gx_stat about queued tests is never a stale one:
\* whatever was pushed or executed since it was computed, the guest reads that a
\* test is queued exactly when one is.
THEOREM TestStatusRight == Spec => []TestStatusFresh
  <1>1. GxInv /\ StreamInv /\ StatusInv /\ [Next]_vars => StatusInv'
    BY StatusStep
  <1>2. StatusInv => TestStatusFresh
    BY DEF StatusInv, TestStatusFresh
  <1> QED
    BY <1>1, <1>2, StatusInit, StreamHolds, GxFifoSafe, PTL DEF Spec
=============================================================================
