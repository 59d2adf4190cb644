----------------------------- MODULE FoldProofs -----------------------------
(***************************************************************************)
(* Lemmas about sequences that are computed by going over others: folds by *)
(* any operator, and the concatenation of a sequence of sequences. They    *)
(* are instantiated for the folds of Messages and of BasicToken, and for   *)
(* the queues and batches of Connection and Session.                       *)
(*                                                                         *)
(* They are proved by induction, which WFMin gives of sets: a set of       *)
(* numbers with 0, and with the next of each, lacks none, or it would lack *)
(* a smallest one.                                                         *)
(***************************************************************************)
EXTENDS Integers, SequencesExt, WellFoundedInduction, TLAPS

CONSTANT Op(_, _)

Less == {p \in Nat \X Nat : p[1] < p[2]}

\* Induction, over a set.
LEMMA Induction ==
    ASSUME NEW S \in SUBSET Nat, 0 \in S, \A n \in S : n + 1 \in S
    PROVE  S = Nat
<1> SUFFICES ASSUME Nat \ S # {} PROVE FALSE
  OBVIOUS
<1>1. IsWellFoundedOn(Less, Nat)
  BY NatLessThanWellFounded DEF OpToRel, Less
<1>2. PICK n \in Nat \ S : \A m \in Nat \ S : <<m, n>> \notin Less
  BY <1>1, WFMin
<1>3. n - 1 \in Nat /\ n - 1 \notin S /\ n - 1 < n
  OBVIOUS
<1> QED BY <1>2, <1>3 DEF Less

\* Some numbers have a smallest.
LEMMA Smallest ==
    ASSUME NEW S \in SUBSET Nat, S # {}
    PROVE  \E n \in S : \A m \in S : n <= m
<1>1. IsWellFoundedOn(Less, Nat)
  BY NatLessThanWellFounded DEF OpToRel, Less
<1>2. PICK n \in S : \A m \in S : <<m, n>> \notin Less
  BY <1>1, WFMin
<1>3. ASSUME NEW m \in S PROVE n <= m
  <2>1. ~(m < n)
    <3>1. <<m, n>> \in Nat \X Nat /\ <<m, n>>[1] = m /\ <<m, n>>[2] = n
      OBVIOUS
    <3> QED BY <3>1, <1>2 DEF Less
  <2> QED BY <2>1
<1> QED BY <1>3

-----------------------------------------------------------------------------

\* Folds.

Fold(base, s) == FoldLeft(Op, base, s)

\* g is the function FoldLeft goes by: what the elements of s at the places of a set fold to.
Folds(base, s, n, g) ==
    g = [S \in SUBSET (1..n) |->
            IF S = {} THEN base ELSE Op(g[S \ {Max(S)}], s[Max(S)])]

\* The last place of a set is the one it is folded by.
LEMMA LastPlace ==
    ASSUME NEW n \in Nat, NEW S \in SUBSET (1..(n + 1)), n + 1 \in S
    PROVE  Max(S) = n + 1 /\ S \ {Max(S)} \in SUBSET (1..n)
<1>1. \A m \in S : (\A k \in S : m >= k) => m = n + 1
  OBVIOUS
<1>2. n + 1 \in S /\ \A k \in S : n + 1 >= k
  OBVIOUS
<1>3. Max(S) = n + 1
  BY <1>1, <1>2 DEF Max
<1> QED BY <1>3

\* There is such a function.
LEMMA FoldsExist ==
    ASSUME NEW base, NEW s
    PROVE  \A n \in Nat : \E g : Folds(base, s, n, g)
<1> DEFINE N == {n \in Nat : \E g : Folds(base, s, n, g)}
<1>1. 0 \in N
  <2>1. Folds(base, s, 0, [S \in SUBSET (1..0) |-> base])
    BY DEF Folds
  <2> QED BY <2>1
<1>2. ASSUME NEW n \in N PROVE n + 1 \in N
  <2>1. PICK g : Folds(base, s, n, g)
    OBVIOUS
  <2> DEFINE h == [S \in SUBSET (1..(n + 1)) |->
                      IF n + 1 \in S THEN Op(g[S \ {n + 1}], s[n + 1]) ELSE g[S]]
  <2>2. ASSUME NEW S \in SUBSET (1..(n + 1))
        PROVE  h[S] = IF S = {} THEN base ELSE Op(h[S \ {Max(S)}], s[Max(S)])
    <3>1. CASE n + 1 \in S
      <4>1. Max(S) = n + 1 /\ S \ {n + 1} \in SUBSET (1..n)
        BY <3>1, LastPlace
      <4>2. h[S \ {n + 1}] = g[S \ {n + 1}]
        BY <4>1
      <4> QED BY <3>1, <4>1, <4>2
    <3>2. CASE n + 1 \notin S
      <4>1. S \in SUBSET (1..n) /\ S \ {Max(S)} \in SUBSET (1..n)
        <5>1. \A k \in S : k \in 1..n
          BY <3>2
        <5> QED BY <5>1
      <4>2. h[S] = g[S] /\ h[S \ {Max(S)}] = g[S \ {Max(S)}]
        BY <3>2, <4>1
      <4>3. g[S] = IF S = {} THEN base ELSE Op(g[S \ {Max(S)}], s[Max(S)])
        BY <2>1, <4>1 DEF Folds
      <4> QED BY <4>2, <4>3
    <3> QED BY <3>1, <3>2
  <2>3. h = [S \in SUBSET (1..(n + 1)) |-> h[S]]
    OBVIOUS
  <2> HIDE DEF h
  <2>4. Folds(base, s, n + 1, h)
    BY <2>2, <2>3 DEF Folds
  <2> QED BY <2>4
<1> HIDE DEF N
<1>3. N = Nat
  BY <1>1, <1>2, Induction DEF N
<1> QED BY <1>3 DEF N

\* FoldLeft takes its value at the set of all places.
LEMMA FoldIs ==
    ASSUME NEW base, NEW T, NEW s \in Seq(T)
    PROVE  \E g : Folds(base, s, Len(s), g) /\ Fold(base, s) = g[1..Len(s)]
<1> DEFINE f == CHOOSE g : Folds(base, s, Len(s), g)
<1>1. Len(s) \in Nat /\ DOMAIN s = 1..Len(s)
  OBVIOUS
<1>2. Folds(base, s, Len(s), f)
  BY <1>1, FoldsExist
<1>3. Fold(base, s) = f[DOMAIN s]
  BY <1>1 DEF Folds, Fold, FoldLeft, MapThenFoldSet
<1> QED BY <1>1, <1>2, <1>3

\* What the first n places fold to, one place after the other.
LEMMA FoldSteps ==
    ASSUME NEW base, NEW s, NEW n \in Nat, NEW g, Folds(base, s, n, g)
    PROVE  /\ g[1..0] = base
           /\ \A k \in 1..n : g[1..k] = Op(g[1..(k - 1)], s[k])
<1>1. g[1..0] = base
  BY DEF Folds
<1>2. ASSUME NEW k \in 1..n PROVE g[1..k] = Op(g[1..(k - 1)], s[k])
  <2>1. k - 1 \in Nat /\ 1..k \in SUBSET (1..((k - 1) + 1)) /\ (k - 1) + 1 \in 1..k
    OBVIOUS
  <2>2. Max(1..k) = k
    <3>1. Max(1..k) = (k - 1) + 1
      BY <2>1, LastPlace
    <3> QED BY <3>1
  <2>3. (1..k) \ {k} = 1..(k - 1) /\ 1..k \in SUBSET (1..n) /\ 1..k # {}
    <3>1. \A i : i \in (1..k) \ {k} <=> i \in 1..(k - 1)
      OBVIOUS
    <3>2. \A i \in 1..k : i \in 1..n
      OBVIOUS
    <3>3. k \in 1..k
      OBVIOUS
    <3> QED BY <3>1, <3>2, <3>3
  <2> QED BY <2>2, <2>3 DEF Folds
<1> QED BY <1>1, <1>2

\* Two functions that fold sequences with a common beginning agree on it.
LEMMA FoldsAgree ==
    ASSUME NEW base, NEW s, NEW t, NEW n \in Nat, \A k \in 1..n : s[k] = t[k],
           NEW l \in Nat, n <= l, NEW g, Folds(base, s, l, g),
           NEW m \in Nat, n <= m, NEW h, Folds(base, t, m, h)
    PROVE  g[1..n] = h[1..n]
<1> DEFINE N == {k \in Nat : k <= n => g[1..k] = h[1..k]}
<1>1. 0 \in N
  BY FoldSteps
<1>2. ASSUME NEW k \in N PROVE k + 1 \in N
  <2> SUFFICES ASSUME k + 1 <= n PROVE g[1..(k + 1)] = h[1..(k + 1)]
    OBVIOUS
  <2>1. k \in Nat /\ k + 1 \in 1..n /\ k + 1 \in 1..l /\ k + 1 \in 1..m /\ (k + 1) - 1 = k
    OBVIOUS
  <2> DEFINE j == k + 1
  <2>2. j \in 1..l /\ j \in 1..m /\ j \in 1..n /\ j - 1 = k
    BY <2>1
  <2> HIDE DEF j
  <2>3. \A i \in 1..l : g[1..i] = Op(g[1..(i - 1)], s[i])
    BY FoldSteps
  <2>4. \A i \in 1..m : h[1..i] = Op(h[1..(i - 1)], t[i])
    BY FoldSteps
  <2>5. s[j] = t[j] /\ g[1..k] = h[1..k]
    BY <2>1, <2>2
  <2>6. g[1..j] = h[1..j]
    BY <2>2, <2>3, <2>4, <2>5
  <2> QED BY <2>6 DEF j
<1> HIDE DEF N
<1>3. N = Nat
  BY <1>1, <1>2, Induction DEF N
<1> QED BY <1>3 DEF N

\* The fold of nothing, and of one element more.
LEMMA FoldNothing == \A base : Fold(base, <<>>) = base
<1> TAKE base
<1>1. <<>> \in Seq({}) /\ Len(<<>>) = 0
  OBVIOUS
<1>2. PICK g : Folds(base, <<>>, 0, g) /\ Fold(base, <<>>) = g[1..0]
  BY <1>1, FoldIs
<1> QED BY <1>2, FoldSteps

LEMMA FoldMore ==
    ASSUME NEW base, NEW T, NEW s \in Seq(T), NEW e \in T
    PROVE  Fold(base, Append(s, e)) = Op(Fold(base, s), e)
<1> DEFINE t == Append(s, e)
           n == Len(s)
<1>1. t \in Seq(T) /\ Len(t) = n + 1 /\ t[n + 1] = e /\ n \in Nat /\ \A k \in 1..n : s[k] = t[k]
  OBVIOUS
<1> HIDE DEF t, n
<1>2. PICK g : Folds(base, s, n, g) /\ Fold(base, s) = g[1..n]
  BY FoldIs DEF n
<1>3. PICK h : Folds(base, t, n + 1, h) /\ Fold(base, t) = h[1..(n + 1)]
  BY <1>1, FoldIs
<1>4. h[1..(n + 1)] = Op(h[1..n], e)
  BY <1>1, <1>3, FoldSteps
<1>5. g[1..n] = h[1..n]
  BY <1>1, <1>2, <1>3, FoldsAgree
<1> QED BY <1>2, <1>3, <1>4, <1>5 DEF t

\* The fold of a sequence, up to each of its places.
LEMMA FoldUpTo ==
    ASSUME NEW base, NEW T, NEW s \in Seq(T), NEW n \in 1..Len(s)
    PROVE  Fold(base, SubSeq(s, 1, n)) = Op(Fold(base, SubSeq(s, 1, n - 1)), s[n])
<1>1. SubSeq(s, 1, n - 1) \in Seq(T) /\ s[n] \in T
  OBVIOUS
<1>2. SubSeq(s, 1, n) = Append(SubSeq(s, 1, n - 1), s[n])
  OBVIOUS
<1>3. Fold(base, Append(SubSeq(s, 1, n - 1), s[n])) = Op(Fold(base, SubSeq(s, 1, n - 1)), s[n])
  BY <1>1, FoldMore
<1> QED BY <1>2, <1>3

-----------------------------------------------------------------------------

\* Concatenation.

\* g is the function FlattenSeq goes by: the concatenation of the first sequences.
Flattens(seqs, n, g) == g = [i \in 1..n |-> IF i = 1 THEN seqs[i] ELSE g[i - 1] \o seqs[i]]

\* There is such a function.
LEMMA FlattensExist ==
    ASSUME NEW seqs
    PROVE  \A n \in Nat : \E g : Flattens(seqs, n, g)
<1> DEFINE N == {n \in Nat : \E g : Flattens(seqs, n, g)}
<1>1. 0 \in N
  <2>1. Flattens(seqs, 0, [i \in 1..0 |-> seqs[i]])
    BY DEF Flattens
  <2> QED BY <2>1
<1>2. ASSUME NEW n \in N PROVE n + 1 \in N
  <2>1. PICK g : Flattens(seqs, n, g)
    OBVIOUS
  <2> DEFINE h == [i \in 1..(n + 1) |->
                      IF i = n + 1 THEN (IF i = 1 THEN seqs[i] ELSE g[n] \o seqs[i]) ELSE g[i]]
  <2>2. ASSUME NEW i \in 1..(n + 1)
        PROVE  h[i] = IF i = 1 THEN seqs[i] ELSE h[i - 1] \o seqs[i]
    <3>1. CASE i = n + 1
      <4>1. i # 1 => h[i - 1] = g[n]
        BY <3>1
      <4> QED BY <3>1, <4>1
    <3>2. CASE i # n + 1
      <4>1. i \in 1..n /\ h[i] = g[i] /\ (i # 1 => h[i - 1] = g[i - 1])
        BY <3>2
      <4>2. g[i] = IF i = 1 THEN seqs[i] ELSE g[i - 1] \o seqs[i]
        BY <2>1, <4>1 DEF Flattens
      <4> HIDE DEF h
      <4> QED BY <4>1, <4>2
    <3> QED BY <3>1, <3>2
  <2>3. h = [i \in 1..(n + 1) |-> h[i]]
    OBVIOUS
  <2> HIDE DEF h
  <2>4. Flattens(seqs, n + 1, h)
    BY <2>2, <2>3 DEF Flattens
  <2> QED BY <2>4
<1> HIDE DEF N
<1>3. N = Nat
  BY <1>1, <1>2, Induction DEF N
<1> QED BY <1>3 DEF N

\* FlattenSeq takes its last value.
LEMMA FlattenIs ==
    ASSUME NEW T, NEW seqs \in Seq(T)
    PROVE  \E g : /\ Flattens(seqs, Len(seqs), g)
                  /\ FlattenSeq(seqs) = IF Len(seqs) = 0 THEN <<>> ELSE g[Len(seqs)]
<1> DEFINE f == CHOOSE g : Flattens(seqs, Len(seqs), g)
<1>1. Len(seqs) \in Nat /\ (Len(seqs) = 0 => seqs = <<>>)
  OBVIOUS
<1>2. Flattens(seqs, Len(seqs), f)
  BY <1>1, FlattensExist
<1>3. FlattenSeq(seqs) = IF Len(seqs) = 0 THEN <<>> ELSE f[Len(seqs)]
  BY <1>1 DEF Flattens, FlattenSeq
<1> QED BY <1>2, <1>3

\* Two such functions agree where their sequences do, and their values are sequences.
LEMMA FlattensAgree ==
    ASSUME NEW s, NEW t, NEW n \in Nat, NEW m \in Nat, n <= m, NEW g, NEW h,
           Flattens(s, n, g), Flattens(t, m, h), \A k \in 1..n : s[k] = t[k]
    PROVE  \A k \in 1..n : g[k] = h[k]
<1> DEFINE N == {k \in Nat : k \in 1..n => g[k] = h[k]}
<1>1. 0 \in N
  OBVIOUS
<1>2. ASSUME NEW k \in N PROVE k + 1 \in N
  <2> SUFFICES ASSUME k + 1 <= n PROVE g[k + 1] = h[k + 1]
    OBVIOUS
  <2> DEFINE j == k + 1
  <2>1. j \in 1..m /\ j \in 1..n /\ j - 1 = k /\ k \in Nat
    OBVIOUS
  <2>2. k # 0 => g[k] = h[k]
    OBVIOUS
  <2> HIDE DEF j
  <2>3. g[j] = IF j = 1 THEN s[j] ELSE g[j - 1] \o s[j]
    BY <2>1 DEF Flattens
  <2>4. h[j] = IF j = 1 THEN t[j] ELSE h[j - 1] \o t[j]
    BY <2>1 DEF Flattens
  <2>5. s[j] = t[j]
    BY <2>1
  <2>6. g[j] = h[j]
    BY <2>1, <2>2, <2>3, <2>4, <2>5
  <2> QED BY <2>6 DEF j
<1> HIDE DEF N
<1>3. N = Nat
  BY <1>1, <1>2, Induction DEF N
<1> QED BY <1>3 DEF N

\* The concatenation of no sequences, and of one more.
LEMMA FlattenNothing == FlattenSeq(<<>>) = <<>>
<1>1. <<>> \in Seq({}) /\ Len(<<>>) = 0
  OBVIOUS
<1> QED BY <1>1, FlattenIs

LEMMA FlattenMore ==
    ASSUME NEW T, NEW seqs \in Seq(T), NEW s \in T
    PROVE  FlattenSeq(Append(seqs, s)) = IF seqs = <<>> THEN s ELSE FlattenSeq(seqs) \o s
<1> DEFINE t == Append(seqs, s)
           n == Len(seqs)
           m == n + 1
<1>1. /\ t \in Seq(T) /\ Len(t) = m /\ t[m] = s /\ n \in Nat /\ m \in Nat
      /\ m # 0 /\ m - 1 = n /\ m \in 1..m /\ n <= m /\ (m = 1 <=> n = 0)
      /\ (n # 0 => n \in 1..n) /\ (n = 0 <=> seqs = <<>>)
      /\ \A k \in 1..n : seqs[k] = t[k]
  OBVIOUS
<1> HIDE DEF t, n, m
<1>2. PICK g : Flattens(seqs, n, g) /\ FlattenSeq(seqs) = IF n = 0 THEN <<>> ELSE g[n]
  BY FlattenIs DEF n
<1>3. \E h : Flattens(t, m, h) /\ FlattenSeq(t) = h[m]
  <2>1. \E h : Flattens(t, Len(t), h) /\ FlattenSeq(t) = IF Len(t) = 0 THEN <<>> ELSE h[Len(t)]
    BY <1>1, FlattenIs
  <2> QED BY ONLY <1>1, <2>1
<1>4. PICK h : Flattens(t, m, h) /\ FlattenSeq(t) = h[m]
  BY <1>3
<1>5. h[m] = IF m = 1 THEN t[m] ELSE h[m - 1] \o t[m]
  BY <1>1, <1>4 DEF Flattens
<1>6. \A k \in 1..n : g[k] = h[k]
  <2>1. n \in Nat /\ m \in Nat /\ n <= m /\ \A k \in 1..n : seqs[k] = t[k]
    BY ONLY <1>1
  <2>2. Flattens(seqs, n, g) /\ Flattens(t, m, h)
    BY <1>2, <1>4
  <2> QED BY ONLY <2>1, <2>2, FlattensAgree
<1> QED BY ONLY <1>1, <1>2, <1>4, <1>5, <1>6 DEF t

\* An induction over the sequences that begin one.
LEMMA GrowingPrefixes ==
    ASSUME NEW T, NEW seqs \in Seq(T), NEW S, <<>> \in S,
           \A n \in 1..Len(seqs) :
                SubSeq(seqs, 1, n - 1) \in S => Append(SubSeq(seqs, 1, n - 1), seqs[n]) \in S
    PROVE  seqs \in S
<1> DEFINE N == {n \in Nat : n <= Len(seqs) => SubSeq(seqs, 1, n) \in S}
<1>1. 0 \in N
  <2>1. SubSeq(seqs, 1, 0) = <<>>
    OBVIOUS
  <2> QED BY <2>1
<1>2. ASSUME NEW n \in N PROVE n + 1 \in N
  <2> SUFFICES ASSUME n + 1 <= Len(seqs) PROVE SubSeq(seqs, 1, n + 1) \in S
    OBVIOUS
  <2>1. SubSeq(seqs, 1, n) \in S /\ n + 1 \in 1..Len(seqs) /\ (n + 1) - 1 = n
    OBVIOUS
  <2>2. SubSeq(seqs, 1, n + 1) = Append(SubSeq(seqs, 1, n), seqs[n + 1])
    OBVIOUS
  <2> QED BY <2>1, <2>2
<1> HIDE DEF N
<1>3. N = Nat
  BY <1>1, <1>2, Induction DEF N
<1>4. SubSeq(seqs, 1, Len(seqs)) = seqs /\ Len(seqs) \in Nat
  OBVIOUS
<1>5. Len(seqs) \in N
  BY <1>3, <1>4
<1>6. SubSeq(seqs, 1, Len(seqs)) \in S
  BY <1>5 DEF N
<1> QED BY <1>4, <1>6

LEMMA FlattenTyped ==
    ASSUME NEW T, NEW seqs \in Seq(Seq(T))
    PROVE  FlattenSeq(seqs) \in Seq(T)
<1> DEFINE S == {p \in Seq(Seq(T)) : FlattenSeq(p) \in Seq(T)}
<1>1. <<>> \in S
  <2>1. <<>> \in Seq(Seq(T)) /\ <<>> \in Seq(T)
    OBVIOUS
  <2> QED BY <2>1, FlattenNothing
<1>2. ASSUME NEW p \in S, NEW e \in Seq(T) PROVE Append(p, e) \in S
  <2>1. FlattenSeq(Append(p, e)) \in Seq(T)
    <3>1. FlattenSeq(Append(p, e)) = IF p = <<>> THEN e ELSE FlattenSeq(p) \o e
      BY FlattenMore
    <3> QED BY <3>1
  <2> QED BY <2>1
<1>3. \A n \in 1..Len(seqs) : seqs[n] \in Seq(T)
  OBVIOUS
<1> HIDE DEF S
<1>4. seqs \in S
  <2>1. ASSUME NEW n \in 1..Len(seqs), SubSeq(seqs, 1, n - 1) \in S
        PROVE  Append(SubSeq(seqs, 1, n - 1), seqs[n]) \in S
    BY <1>2, <1>3, <2>1
  <2> QED BY <1>1, <2>1, GrowingPrefixes
<1> QED BY <1>4 DEF S

Concat(s, t) == s \o t

LEMMA Regrouped ==
    ASSUME NEW T, NEW a \in Seq(T), NEW b \in Seq(T), NEW c \in Seq(T)
    PROVE  Concat(Concat(a, b), c) = Concat(a, Concat(b, c))
BY DEF Concat

\* One more sequence, whatever the others.
LEMMA FlattenAppend ==
    ASSUME NEW T, NEW seqs \in Seq(Seq(T)), NEW s \in Seq(T)
    PROVE  FlattenSeq(Append(seqs, s)) = FlattenSeq(seqs) \o s
<1>1. FlattenSeq(Append(seqs, s)) = IF seqs = <<>> THEN s ELSE FlattenSeq(seqs) \o s
  BY FlattenMore
<1>2. <<>> \o s = s
  OBVIOUS
<1> QED BY <1>1, <1>2, FlattenNothing

LEMMA FlattenConcat ==
    ASSUME NEW T, NEW a \in Seq(Seq(T)), NEW b \in Seq(Seq(T))
    PROVE  FlattenSeq(a \o b) = FlattenSeq(a) \o FlattenSeq(b)
<1> DEFINE S == {p \in Seq(Seq(T)) : FlattenSeq(a \o p) = FlattenSeq(a) \o FlattenSeq(p)}
<1>1. <<>> \in S
  <2>1. FlattenSeq(a) \in Seq(T)
    BY FlattenTyped
  <2>2. a \o <<>> = a /\ FlattenSeq(a) \o <<>> = FlattenSeq(a)
    BY <2>1
  <2>3. <<>> \in Seq(Seq(T))
    OBVIOUS
  <2> QED BY <2>2, <2>3, FlattenNothing
<1>2. ASSUME NEW p \in S, NEW e \in Seq(T) PROVE Append(p, e) \in S
  <2>1. a \o Append(p, e) = Append(a \o p, e) /\ a \o p \in Seq(Seq(T)) /\ p \in Seq(Seq(T))
    OBVIOUS
  <2>2. /\ FlattenSeq(Append(a \o p, e)) = FlattenSeq(a \o p) \o e
        /\ FlattenSeq(Append(p, e)) = FlattenSeq(p) \o e
    BY <2>1, FlattenAppend
  <2>3. FlattenSeq(a) \in Seq(T) /\ FlattenSeq(p) \in Seq(T)
    BY <2>1, FlattenTyped
  <2>4. Concat(Concat(FlattenSeq(a), FlattenSeq(p)), e) = Concat(FlattenSeq(a),
            Concat(FlattenSeq(p), e))
    BY ONLY <2>3, e \in Seq(T), Regrouped
  <2>5. FlattenSeq(a \o p) = FlattenSeq(a) \o FlattenSeq(p)
    OBVIOUS
  <2>6. Append(p, e) \in Seq(Seq(T))
    BY <2>1
  <2>7. FlattenSeq(a \o Append(p, e)) = FlattenSeq(a) \o FlattenSeq(Append(p, e))
    BY ONLY <2>1, <2>2, <2>4, <2>5 DEF Concat
  <2> QED BY ONLY <2>6, <2>7
<1>3. \A n \in 1..Len(b) : b[n] \in Seq(T)
  OBVIOUS
<1> HIDE DEF S
<1>4. b \in S
  <2>1. ASSUME NEW n \in 1..Len(b), SubSeq(b, 1, n - 1) \in S
        PROVE  Append(SubSeq(b, 1, n - 1), b[n]) \in S
    BY <1>2, <1>3, <2>1
  <2> QED BY <1>1, <2>1, GrowingPrefixes
<1> QED BY <1>4 DEF S

LEMMA FlattenOne ==
    ASSUME NEW T, NEW s \in Seq(T)
    PROVE  FlattenSeq(<<s>>) = s
<1>1. Append(<<>>, s) = <<s>> /\ <<>> \in Seq(Seq(T)) /\ <<>> \o s = s
  OBVIOUS
<1> QED BY <1>1, FlattenAppend, FlattenNothing

\* The first sequence, and the others.
LEMMA FlattenFirst ==
    ASSUME NEW T, NEW seqs \in Seq(Seq(T)), seqs # <<>>
    PROVE  FlattenSeq(seqs) = Head(seqs) \o FlattenSeq(Tail(seqs))
<1>1. /\ seqs = <<Head(seqs)>> \o Tail(seqs) /\ Head(seqs) \in Seq(T)
      /\ <<Head(seqs)>> \in Seq(Seq(T)) /\ Tail(seqs) \in Seq(Seq(T))
  OBVIOUS
<1>2. FlattenSeq(<<Head(seqs)>> \o Tail(seqs)) = FlattenSeq(<<Head(seqs)>>) \o FlattenSeq(Tail(seqs))
  BY <1>1, FlattenConcat
<1> QED BY <1>1, <1>2, FlattenOne

\* What is left of a sequence from a place on.
LEMMA FirstOfRest ==
    ASSUME NEW T, NEW s \in Seq(T), NEW m \in 1..Len(s)
    PROVE  LET rest == SubSeq(s, m, Len(s))
           IN  /\ rest \in Seq(T) /\ rest # <<>> /\ Head(rest) = s[m]
               /\ Tail(rest) = SubSeq(s, m + 1, Len(s))
<1> DEFINE rest == SubSeq(s, m, Len(s))
<1>1. /\ rest \in Seq(T) /\ Len(rest) = Len(s) - m + 1 /\ Len(rest) # 0
      /\ \A i \in 1..Len(rest) : rest[i] = s[m + i - 1]
  OBVIOUS
<1> HIDE DEF rest
<1>2. rest # <<>> /\ Head(rest) = s[m]
  BY <1>1
<1>3. Tail(rest) = SubSeq(s, m + 1, Len(s))
  <2> DEFINE t == Tail(rest)
             u == SubSeq(s, m + 1, Len(s))
  <2>1. t \in Seq(T) /\ Len(t) = Len(s) - m /\ \A i \in 1..Len(t) : t[i] = rest[i + 1]
    BY <1>1, <1>2
  <2>2. u \in Seq(T) /\ Len(u) = Len(s) - m /\ \A i \in 1..Len(u) : u[i] = s[m + i]
    OBVIOUS
  <2> HIDE DEF t, u
  <2>3. ASSUME NEW i \in 1..Len(t) PROVE t[i] = u[i]
    <3>1. i + 1 \in 1..Len(rest) /\ m + (i + 1) - 1 = m + i
      BY <1>1, <2>1
    <3> QED BY <1>1, <2>1, <2>2, <3>1
  <2>4. t = u
    BY <2>1, <2>2, <2>3
  <2> QED BY <2>4 DEF t, u
<1> QED BY <1>1, <1>2, <1>3 DEF rest

\* The k-th step of a reader takes puts[k] off the front of a body, and goes from
\* value[k - 1] to value[k].
Reads(T, puts, I, s, value) ==
    /\ puts \in Seq(Seq(T)) /\ s \in Seq(I) /\ Len(s) = Len(puts)
    /\ \A k \in 1..Len(s) : \A after \in Seq(T) :
            Op([value |-> value[k - 1], rest |-> puts[k] \o after], s[k])
                = [value |-> value[k], rest |-> after]

\* A reader that takes off the front of a body what a writer put there reads the whole of it:
\* the steps together take the concatenation, and go from value[0] to the last.
IsReadBack(puts, s, value, rest) ==
    Fold([value |-> value[0], rest |-> FlattenSeq(puts) \o rest], s)
        = [value |-> value[Len(s)], rest |-> rest]

LEMMA ReadBack ==
    ASSUME NEW T, NEW puts, NEW I, NEW s, NEW value, NEW rest \in Seq(T),
           Reads(T, puts, I, s, value)
    PROVE  IsReadBack(puts, s, value, rest)
<1>8. puts \in Seq(Seq(T)) /\ s \in Seq(I) /\ Len(s) = Len(puts)
  BY DEF Reads
<1> USE <1>8
<1> DEFINE base    == [value |-> value[0], rest |-> FlattenSeq(puts) \o rest]
           Left(n) == SubSeq(puts, n + 1, Len(puts))
           After(n) == FlattenSeq(Left(n)) \o rest
           N == {n \in Nat : n <= Len(s) => Fold(base, SubSeq(s, 1, n)) = [value |-> value[n],
               rest |-> After(n)]}
<1>1. 0 \in N
  <2>1. SubSeq(s, 1, 0) = <<>> /\ Left(0) = puts
    OBVIOUS
  <2> QED BY <2>1, FoldNothing
<1>2. ASSUME NEW n \in N PROVE n + 1 \in N
  <2> HIDE DEF base, After
  <2> SUFFICES ASSUME n + 1 <= Len(s)
               PROVE  Fold(base, SubSeq(s, 1, n + 1)) = [value |-> value[n + 1], rest |-> After(n + 1)]
    OBVIOUS
  <2>1. n \in Nat /\ n + 1 \in 1..Len(s) /\ (n + 1) - 1 = n
    OBVIOUS
  <2>9. Fold(base, SubSeq(s, 1, n)) = [value |-> value[n], rest |-> After(n)]
    BY <2>1
  <2>2. /\ Left(n) \in Seq(Seq(T)) /\ Left(n) # <<>> /\ Head(Left(n)) = puts[n + 1]
        /\ Tail(Left(n)) = Left(n + 1)
    BY <2>1, FirstOfRest
  <2>8. Left(n + 1) \in Seq(Seq(T)) /\ puts[n + 1] \in Seq(T)
    BY <2>1
  <2> HIDE DEF Left, N
  <2>3. FlattenSeq(Left(n)) = puts[n + 1] \o FlattenSeq(Left(n + 1))
    BY <2>2, FlattenFirst
  <2>4. FlattenSeq(Left(n + 1)) \in Seq(T)
    BY <2>8, FlattenTyped
  <2>5. After(n) = puts[n + 1] \o After(n + 1) /\ After(n + 1) \in Seq(T)
    <3> DEFINE flat == FlattenSeq(Left(n + 1))
               put  == puts[n + 1]
    <3>1. flat \in Seq(T) /\ put \in Seq(T) /\ FlattenSeq(Left(n)) = put \o flat
      BY <2>3, <2>4, <2>8
    <3> HIDE DEF flat, put
    <3>2. (put \o flat) \o rest = put \o (flat \o rest)
      BY ONLY <3>1, rest \in Seq(T), Regrouped DEF Concat
    <3>3. flat \o rest \in Seq(T)
      BY <3>1
    <3>4. FlattenSeq(Left(n)) \o rest = put \o (flat \o rest)
      BY ONLY <3>1, <3>2
    <3> QED BY ONLY <3>3, <3>4 DEF flat, put, After
  <2>6. Fold(base, SubSeq(s, 1, n)) = [value |-> value[n], rest |-> puts[n + 1] \o After(n + 1)]
    BY <2>5, <2>9
  <2>7. Fold(base, SubSeq(s, 1, n + 1)) = Op(Fold(base, SubSeq(s, 1, n)), s[n + 1])
    <3> DEFINE m == n + 1
    <3>1. m \in 1..Len(s) /\ m - 1 = n
      BY <2>1
    <3> HIDE DEF m
    <3>2. Fold(base, SubSeq(s, 1, m)) = Op(Fold(base, SubSeq(s, 1, m - 1)), s[m])
      BY <3>1, FoldUpTo
    <3> QED BY <3>1, <3>2 DEF m
  <2>10. \A after \in Seq(T) :
            Op([value |-> value[n], rest |-> puts[n + 1] \o after], s[n + 1])
                = [value |-> value[n + 1], rest |-> after]
    BY <2>1 DEF Reads
  <2> QED BY <2>5, <2>6, <2>7, <2>10
<1> HIDE DEF base, After, Left
<1>6. N \in SUBSET Nat
  OBVIOUS
<1> HIDE DEF N
<1>3. N = Nat
  BY <1>1, <1>2, <1>6, Induction
<1>4. SubSeq(s, 1, Len(s)) = s /\ Left(Len(s)) = <<>> /\ <<>> \o rest = rest /\ Len(s) \in Nat
  BY DEF Left
<1>5. After(Len(s)) = rest
  BY <1>4, FlattenNothing DEF After
<1>7. Fold(base, SubSeq(s, 1, Len(s))) = [value |-> value[Len(s)], rest |-> After(Len(s))]
  BY <1>3, <1>4 DEF N
<1> QED BY <1>4, <1>5, <1>7 DEF base, IsReadBack

=============================================================================
