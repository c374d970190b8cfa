---------------------------- MODULE DeviceProofs ----------------------------
(***************************************************************************)
(* Proofs about the devices.  Names are unique and none is lost, and a     *)
(* successor gets the bare name, for any boards, tickers and plugging.     *)
(* The facts of a device survive a replay of its log, for any facts and    *)
(* logs.  No byte of a line is lost or moved, for any reads.               *)
(*                                                                         *)
(* The library defines the fold of a sequence by choosing a function on    *)
(* the sets of its places.  What a fold comes to is found by induction     *)
(* over the places, with the set of those up to which it is shown.         *)
(***************************************************************************)
EXTENDS BoardNames, FactStore, LineFeed, FiniteSetTheorems, SequenceTheorems,
        WellFoundedInduction, TLAPS

USE BoardAssumption

-----------------------------------------------------------------------------
(* Induction, and the folds of sequences. *)

\* A set of naturals that is not empty has a least member.
LEMMA LeastMember ==
  ASSUME NEW S \in SUBSET Nat, S # {}
  PROVE  \E n \in S : \A m \in S : n <= m
<1>1. PICK n \in S : \A m \in S : ~(<<m, n>> \in OpToRel(<, Nat))
  <2> HIDE DEF OpToRel
  <2>1. QED
    BY NatLessThanWellFounded, WFMin
<1>2. \A m \in S : ~(m < n)
  BY <1>1 DEF OpToRel
<1>3. QED
  BY <1>2

\* Induction up to n, with the set of what has been shown.
LEMMA UpToInduction ==
  ASSUME NEW n \in Nat, NEW S \in SUBSET Nat, 0 \in S, \A i \in Nat : i < n /\ i \in S => i + 1 \in S
  PROVE  \A i \in 0 .. n : i \in S
<1> DEFINE Bad == {i \in 0 .. n : i \notin S}
<1>1. SUFFICES ASSUME Bad # {}
               PROVE  FALSE
  OBVIOUS
<1>2. PICK m \in Bad : \A k \in Bad : m <= k
  <2>1. Bad \in SUBSET Nat
    OBVIOUS
  <2> HIDE DEF Bad
  <2>2. QED
    BY <1>1, <2>1, LeastMember
<1>3. m \in 0 .. n /\ m \notin S /\ m # 0
  OBVIOUS
<1>4. m - 1 \in Nat /\ m - 1 \in 0 .. n /\ m - 1 < n /\ m - 1 + 1 = m /\ ~ (m <= m - 1)
  BY <1>3
<1>5. m - 1 \in S
  BY <1>2, <1>4
<1>6. QED
  BY <1>3, <1>4, <1>5

\* The greatest member of a set of naturals that is bounded by a member.
LEMMA MaxIsGreatest ==
  ASSUME NEW S \in SUBSET Nat, NEW m \in S, \A k \in S : k <= m
  PROVE  Max(S) = m
<1>1. \A k \in S : m >= k
  OBVIOUS
<1>2. \A x \in S : (\A y \in S : x >= y) => x = m
  OBVIOUS
<1>3. QED
  BY <1>1, <1>2 DEF Max

\* F takes what has been made of the elements so far, and the next element.
Combines(F, Acc, Elem) == \A a \in Acc, e \in Elem : F[a][e] \in Acc

\* g is the fold of F over the elements of seq, from base: what it has become with
\* the elements at any set of places.
FoldsTo(g, F, base, seq, D) ==
    g = [s \in SUBSET D |-> IF s = {} THEN base ELSE F[g[s \ {Max(s)}]][seq[Max(s)]]]

\* There is one for every sequence.
LEMMA FoldGoesOn ==
  ASSUME NEW Acc, NEW Elem, NEW F, Combines(F, Acc, Elem), NEW base \in Acc,
         NEW n \in Nat, NEW seq \in [1 .. n -> Elem],
         NEW m \in Nat, m + 1 <= n,
         NEW g \in [SUBSET (1 .. m) -> Acc], FoldsTo(g, F, base, seq, 1 .. m)
  PROVE  \E h \in [SUBSET (1 .. m + 1) -> Acc] : FoldsTo(h, F, base, seq, 1 .. m + 1)
<1> DEFINE h == [s \in SUBSET (1 .. m + 1) |->
                    IF m + 1 \in s THEN F[g[s \ {m + 1}]][seq[m + 1]] ELSE g[s]]
<1>1. \A s \in SUBSET (1 .. m + 1) : /\ m + 1 \in s => s \ {m + 1} \in SUBSET (1 .. m)
                                     /\ m + 1 \notin s => s \in SUBSET (1 .. m)
  OBVIOUS
<1>2. h \in [SUBSET (1 .. m + 1) -> Acc]
  <2>1. m + 1 \in 1 .. n
    OBVIOUS
  <2>2. ASSUME NEW s \in SUBSET (1 .. m + 1)
        PROVE  (IF m + 1 \in s THEN F[g[s \ {m + 1}]][seq[m + 1]] ELSE g[s]) \in Acc
    <3>1. CASE m + 1 \in s
      <4>1. g[s \ {m + 1}] \in Acc /\ seq[m + 1] \in Elem
        BY <1>1, <2>1, <3>1
      <4>2. QED
        BY <3>1, <4>1 DEF Combines
    <3>2. CASE m + 1 \notin s
      BY <1>1, <3>2
    <3>3. QED
      BY <3>1, <3>2
  <2>3. QED
    BY <2>2
<1>3. ASSUME NEW s \in SUBSET (1 .. m + 1)
      PROVE  h[s] = IF s = {} THEN base ELSE F[h[s \ {Max(s)}]][seq[Max(s)]]
  <2>1. CASE m + 1 \in s
    <3>1. Max(s) = m + 1
      BY <2>1, MaxIsGreatest
    <3>2. h[s] = F[g[s \ {m + 1}]][seq[m + 1]]
      BY <2>1
    <3>3. s \ {m + 1} \in SUBSET (1 .. m + 1) /\ h[s \ {m + 1}] = g[s \ {m + 1}]
      BY <1>1, <2>1
    <3> HIDE DEF h
    <3>4. QED
      BY <2>1, <3>1, <3>2, <3>3
  <2>2. CASE m + 1 \notin s
    <3>1. s \in SUBSET (1 .. m) /\ h[s] = g[s]
      BY <1>1, <2>2
    <3>2. g[s] = IF s = {} THEN base ELSE F[g[s \ {Max(s)}]][seq[Max(s)]]
      BY <3>1 DEF FoldsTo
    <3>3. h[s \ {Max(s)}] = g[s \ {Max(s)}]
      BY <2>2, <3>1
    <3> HIDE DEF h
    <3>4. QED
      BY <3>1, <3>2, <3>3
  <2>3. QED
    BY <2>1, <2>2
<1>4. FoldsTo(h, F, base, seq, 1 .. m + 1)
  <2>1. DOMAIN h = SUBSET (1 .. m + 1)
    OBVIOUS
  <2> DEFINE e == [s \in SUBSET (1 .. m + 1) |->
                      IF s = {} THEN base ELSE F[h[s \ {Max(s)}]][seq[Max(s)]]]
  <2>2. h = e
    <3> HIDE DEF h
    <3>1. \A s \in SUBSET (1 .. m + 1) : h[s] = e[s]
      BY <1>3
    <3>2. DOMAIN e = SUBSET (1 .. m + 1) /\ h = [s \in DOMAIN h |-> h[s]]
      BY <1>2
    <3> HIDE DEF e
    <3>3. e = [s \in DOMAIN e |-> e[s]]
      BY DEF e
    <3>4. QED
      BY <2>1, <3>1, <3>2, <3>3
  <2>3. QED
    BY <2>2 DEF FoldsTo
<1>5. QED
  BY <1>2, <1>4

\* There is a fold over every sequence, which is made of what it is to be made of.
LEMMA FoldExists ==
  ASSUME NEW Acc, NEW Elem, NEW F, Combines(F, Acc, Elem), NEW base \in Acc,
         NEW n \in Nat, NEW seq \in [1 .. n -> Elem]
  PROVE  \E g \in [SUBSET (1 .. n) -> Acc] : FoldsTo(g, F, base, seq, 1 .. n)
<1> DEFINE Folded(m) == \E g \in [SUBSET (1 .. m) -> Acc] : FoldsTo(g, F, base, seq, 1 .. m)
<1>1. Folded(0)
  <2> DEFINE g == [s \in SUBSET (1 .. 0) |-> base]
  <2>1. \A s \in SUBSET (1 .. 0) : s = {}
    OBVIOUS
  <2>2. g \in [SUBSET (1 .. 0) -> Acc]
    OBVIOUS
  <2>3. g = [s \in SUBSET (1 .. 0) |-> IF s = {} THEN base ELSE F[g[s \ {Max(s)}]][seq[Max(s)]]]
    BY <2>1
  <2>4. FoldsTo(g, F, base, seq, 1 .. 0)
    BY <2>3 DEF FoldsTo
  <2>5. QED
    BY <2>2, <2>4
<1>2. ASSUME NEW m \in Nat, m + 1 <= n, Folded(m)
      PROVE  Folded(m + 1)
  BY <1>2, FoldGoesOn
<1> DEFINE S == {m \in 0 .. n : Folded(m)}
<1>3. S \in SUBSET Nat /\ 0 \in S /\ \A m \in Nat : m < n /\ m \in S => m + 1 \in S
  <2> HIDE DEF Folded
  <2>1. QED
    BY <1>1, <1>2
<1>4. n \in S
  <2> HIDE DEF S
  <2>1. \A i \in 0 .. n : i \in S
    BY <1>3, UpToInduction
  <2>2. QED
    BY <2>1
<1>5. QED
  BY <1>4

\* The greatest member of a set of places is one of them.
LEMMA MaxIsMember ==
  ASSUME NEW n \in Nat, NEW s \in SUBSET (1 .. n), s # {}
  PROVE  Max(s) \in s
<1> DEFINE T == {n - k : k \in s}
<1>1. T \in SUBSET Nat /\ T # {}
  <2>1. \A k \in s : n - k \in Nat
    OBVIOUS
  <2>2. PICK k \in s : TRUE
    OBVIOUS
  <2>3. n - k \in T
    OBVIOUS
  <2>4. QED
    BY <2>1, <2>3
<1>2. PICK t \in T : \A u \in T : t <= u
  <2> HIDE DEF T
  <2>1. QED
    BY <1>1, LeastMember
<1>3. PICK m \in s : t = n - m
  BY <1>2
<1>4. \A k \in s : k <= m
  <2> SUFFICES ASSUME NEW k \in s
               PROVE  k <= m
    OBVIOUS
  <2>1. n - m <= n - k
    BY <1>2, <1>3
  <2>2. QED
    BY <2>1
<1>5. Max(s) = m
  BY <1>4, MaxIsGreatest
<1>6. QED
  BY <1>5

\* The first i places: the greatest is i, and without it they are the first i - 1.
LEMMA FirstPlaces ==
  ASSUME NEW n \in Nat
  PROVE  /\ 1 .. 0 = {} /\ {} \in SUBSET (1 .. n)
         /\ \A i \in 1 .. n : /\ (1 .. i) \in SUBSET (1 .. n) /\ 1 .. i # {}
                              /\ Max(1 .. i) = i
                              /\ (1 .. i) \ {Max(1 .. i)} = 1 .. i - 1
<1>1. ASSUME NEW i \in 1 .. n
      PROVE  /\ (1 .. i) \in SUBSET (1 .. n) /\ 1 .. i # {}
             /\ Max(1 .. i) = i
             /\ (1 .. i) \ {Max(1 .. i)} = 1 .. i - 1
  <2>1. Max(1 .. i) = i
    BY MaxIsGreatest
  <2>2. (1 .. i) \in SUBSET (1 .. n) /\ 1 .. i # {} /\ (1 .. i) \ {i} = 1 .. i - 1
    OBVIOUS
  <2>3. QED
    BY <2>1, <2>2
<1>2. QED
  BY <1>1

\* The fold itself, and how to tell that something is it: it goes on from place to
\* place as the fold does.
FoldOf(F, base, seq) == (CHOOSE g : FoldsTo(g, F, base, seq, DOMAIN seq))[DOMAIN seq]
GoesOn(g, F, Acc, base, seq, n) ==
    /\ g[1 .. 0] = base
    /\ \A i \in 1 .. n : g[1 .. i - 1] \in Acc => g[1 .. i] = F[g[1 .. i - 1]][seq[i]]

\* A fold goes on from place to place.
LEMMA FoldGoesOnTo ==
  ASSUME NEW Acc, NEW F, NEW base, NEW n \in Nat, NEW seq, NEW g,
         FoldsTo(g, F, base, seq, 1 .. n)
  PROVE  GoesOn(g, F, Acc, base, seq, n)
<1>1. g[1 .. 0] = base
  BY FirstPlaces DEF FoldsTo
<1>2. ASSUME NEW i \in 1 .. n
      PROVE  g[1 .. i] = F[g[1 .. i - 1]][seq[i]]
  <2>1. /\ (1 .. i) \in SUBSET (1 .. n) /\ 1 .. i # {} /\ Max(1 .. i) = i
        /\ (1 .. i) \ {Max(1 .. i)} = 1 .. i - 1
    BY FirstPlaces
  <2>2. g[1 .. i] = F[g[(1 .. i) \ {Max(1 .. i)}]][seq[Max(1 .. i)]]
    BY <2>1 DEF FoldsTo
  <2>3. QED
    BY <2>1, <2>2
<1>3. QED
  BY <1>1, <1>2 DEF GoesOn

\* What goes on from place to place in the same way comes to the same.
LEMMA ChainsAgree ==
  ASSUME NEW Acc, NEW Elem, NEW F, Combines(F, Acc, Elem), NEW base \in Acc,
         NEW n \in Nat, NEW seq \in [1 .. n -> Elem], NEW f, NEW g,
         GoesOn(f, F, Acc, base, seq, n), GoesOn(g, F, Acc, base, seq, n)
  PROVE  f[1 .. n] = g[1 .. n] /\ g[1 .. n] \in Acc
<1> DEFINE S == {i \in 0 .. n : f[1 .. i] = g[1 .. i] /\ g[1 .. i] \in Acc}
<1>1. 0 \in S
  BY DEF GoesOn
<1>2. ASSUME NEW i \in Nat, i < n, i \in S
      PROVE  i + 1 \in S
  <2>1. i + 1 \in 1 .. n /\ i + 1 - 1 = i /\ i + 1 \in 0 .. n
    BY <1>2
  <2>2. f[1 .. i] = g[1 .. i] /\ g[1 .. i] \in Acc /\ seq[i + 1] \in Elem
    BY <1>2, <2>1
  <2>3. \A k \in 1 .. n : /\ f[1 .. k - 1] \in Acc => f[1 .. k] = F[f[1 .. k - 1]][seq[k]]
                          /\ g[1 .. k - 1] \in Acc => g[1 .. k] = F[g[1 .. k - 1]][seq[k]]
    BY DEF GoesOn
  <2>4. /\ f[1 .. i + 1] = F[f[1 .. i]][seq[i + 1]]
        /\ g[1 .. i + 1] = F[g[1 .. i]][seq[i + 1]]
    BY <2>1, <2>2, <2>3
  <2>5. F[g[1 .. i]][seq[i + 1]] \in Acc
    BY <2>2 DEF Combines
  <2>6. QED
    BY <2>1, <2>2, <2>4, <2>5
<1>3. n \in S
  <2>1. S \in SUBSET Nat
    OBVIOUS
  <2> HIDE DEF S
  <2>2. \A i \in 0 .. n : i \in S
    BY <1>1, <1>2, <2>1, UpToInduction
  <2>3. QED
    BY <2>2
<1>4. QED
  BY <1>3

\* So it comes to what the fold does.
LEMMA FoldIs ==
  ASSUME NEW Acc, NEW Elem, NEW F, Combines(F, Acc, Elem), NEW base \in Acc,
         NEW seq \in Seq(Elem), NEW f, GoesOn(f, F, Acc, base, seq, Len(seq))
  PROVE  f[1 .. Len(seq)] = FoldOf(F, base, seq) /\ FoldOf(F, base, seq) \in Acc
<1> DEFINE n == Len(seq)
           g == CHOOSE h : FoldsTo(h, F, base, seq, 1 .. n)
<1>1. n \in Nat /\ DOMAIN seq = 1 .. n /\ seq \in [1 .. n -> Elem]
  BY LenProperties
<1>2. FoldOf(F, base, seq) = g[1 .. n]
  BY <1>1 DEF FoldOf
<1>3. FoldsTo(g, F, base, seq, 1 .. n)
  <2>1. \E h : FoldsTo(h, F, base, seq, 1 .. n)
    <3> HIDE DEF n
    <3>1. \E h \in [SUBSET (1 .. n) -> Acc] : FoldsTo(h, F, base, seq, 1 .. n)
      BY <1>1, FoldExists
    <3>2. QED
      BY <3>1
  <2>2. QED
    BY <2>1
<1>4. GoesOn(f, F, Acc, base, seq, n)
  OBVIOUS
<1> HIDE DEF g, n
<1>5. GoesOn(g, F, Acc, base, seq, n)
  BY <1>1, <1>3, FoldGoesOnTo
<1>6. f[1 .. n] = g[1 .. n] /\ g[1 .. n] \in Acc
  BY <1>1, <1>4, <1>5, ChainsAgree
<1>7. QED
  BY <1>2, <1>6 DEF n

\* One element more.
LEMMA FoldAppend ==
  ASSUME NEW Acc, NEW Elem, NEW F, Combines(F, Acc, Elem), NEW base \in Acc,
         NEW seq \in Seq(Elem), NEW e \in Elem
  PROVE  /\ FoldOf(F, base, seq) \in Acc
         /\ FoldOf(F, base, seq \o <<e>>) = F[FoldOf(F, base, seq)][e]
<1> DEFINE longer == seq \o <<e>>
           n == Len(seq)
           g == CHOOSE f : FoldsTo(f, F, base, longer, 1 .. n + 1)
<1>1. /\ n \in Nat /\ longer \in Seq(Elem) /\ DOMAIN longer = 1 .. n + 1
      /\ longer \in [1 .. n + 1 -> Elem] /\ longer[n + 1] = e
      /\ \A i \in 1 .. n : longer[i] = seq[i]
  <2>1. <<e>> \in Seq(Elem) /\ Len(<<e>>) = 1 /\ <<e>>[1] = e
    OBVIOUS
  <2>2. /\ longer \in Seq(Elem) /\ Len(longer) = n + 1
        /\ \A i \in 1 .. n + 1 : longer[i] = IF i <= n THEN seq[i] ELSE <<e>>[i - n]
    BY <2>1, ConcatProperties
  <2>3. n \in Nat
    BY LenProperties
  <2> HIDE DEF longer, n
  <2>4. DOMAIN longer = 1 .. n + 1 /\ longer \in [1 .. n + 1 -> Elem]
    BY <2>2, LenProperties
  <2>5. longer[n + 1] = e /\ \A i \in 1 .. n : longer[i] = seq[i]
    BY <2>1, <2>2, <2>3
  <2>6. QED
    BY <2>2, <2>3, <2>4, <2>5
<1>2. FoldOf(F, base, longer) = g[1 .. n + 1]
  BY <1>1 DEF FoldOf
<1> HIDE DEF longer
<1>3. FoldsTo(g, F, base, longer, 1 .. n + 1)
  <2>1. \E f : FoldsTo(f, F, base, longer, 1 .. n + 1)
    <3> HIDE DEF n
    <3>1. n + 1 \in Nat /\ longer \in [1 .. n + 1 -> Elem]
      BY <1>1
    <3>2. \E f \in [SUBSET (1 .. n + 1) -> Acc] : FoldsTo(f, F, base, longer, 1 .. n + 1)
      BY <3>1, FoldExists
    <3>3. QED
      BY <3>2
  <2>2. QED
    BY <2>1
<1> HIDE DEF g, n
<1>4. GoesOn(g, F, Acc, base, longer, n + 1)
  BY <1>1, <1>3, FoldGoesOnTo
<1>5. GoesOn(g, F, Acc, base, seq, n)
  <2>1. \A i \in 1 .. n : i \in 1 .. n + 1 /\ longer[i] = seq[i]
    BY <1>1
  <2>2. QED
    BY <1>4, <2>1 DEF GoesOn
<1>6. g[1 .. n] = FoldOf(F, base, seq) /\ FoldOf(F, base, seq) \in Acc
  BY <1>5, FoldIs DEF n
<1>7. g[1 .. n + 1] = F[g[1 .. n]][e]
  <2>1. PICK i \in 1 .. n + 1 : i = n + 1
    BY <1>1
  <2>2. i - 1 = n /\ longer[i] = e
    BY <1>1, <2>1
  <2>3. \A k \in 1 .. n + 1 : g[1 .. k - 1] \in Acc => g[1 .. k] = F[g[1 .. k - 1]][longer[k]]
    BY <1>4 DEF GoesOn
  <2>4. g[1 .. i - 1] \in Acc
    BY <1>6, <2>2
  <2>5. g[1 .. i] = F[g[1 .. i - 1]][longer[i]]
    BY <2>3, <2>4
  <2>6. g[1 .. i] = F[g[1 .. n]][e]
    BY <2>2, <2>5
  <2>7. QED
    BY <2>1, <2>6
<1>8. QED
  BY <1>2, <1>6, <1>7 DEF longer

\* No element at all.
LEMMA FoldEmpty ==
  ASSUME NEW Acc, NEW Elem, NEW F, Combines(F, Acc, Elem), NEW base \in Acc
  PROVE  FoldOf(F, base, <<>>) = base
<1> DEFINE z == CHOOSE f : FoldsTo(f, F, base, <<>>, 1 .. 0)
<1>1. DOMAIN <<>> = 1 .. 0 /\ <<>> \in [1 .. 0 -> Elem]
  OBVIOUS
<1>2. FoldsTo(z, F, base, <<>>, 1 .. 0)
  <2>1. ASSUME NEW q \in [1 .. 0 -> Elem]
        PROVE  \E f : FoldsTo(f, F, base, q, 1 .. 0)
    <3>1. 0 \in Nat
      OBVIOUS
    <3>2. \E f \in [SUBSET (1 .. 0) -> Acc] : FoldsTo(f, F, base, q, 1 .. 0)
      BY <3>1, FoldExists
    <3>3. QED
      BY <3>2
  <2>2. \E f : FoldsTo(f, F, base, <<>>, 1 .. 0)
    BY <1>1, <2>1
  <2>3. QED
    BY <2>2
<1>3. FoldOf(F, base, <<>>) = z[1 .. 0]
  BY <1>1 DEF FoldOf
<1> HIDE DEF z
<1>4. z[1 .. 0] = base
  BY <1>2, FirstPlaces DEF FoldsTo
<1>5. QED
  BY <1>3, <1>4

\* Sequences put together are one, in whatever order they are.
LEMMA Concats ==
  ASSUME NEW X
  PROVE  /\ \A p, q \in Seq(X) : p \o q \in Seq(X)
         /\ \A p, q, r \in Seq(X) : (p \o q) \o r = p \o (q \o r)
<1>1. \A p, q \in Seq(X) : p \o q \in Seq(X)
  BY ConcatProperties
<1>2. \A p, q, r \in Seq(X) : (p \o q) \o r = p \o (q \o r)
  BY ConcatAssociative
<1>3. QED
  BY <1>1, <1>2

\* A fold is what it is made of.
LEMMA FoldType ==
  ASSUME NEW Acc, NEW Elem, NEW F, Combines(F, Acc, Elem), NEW base \in Acc,
         NEW seq \in Seq(Elem)
  PROVE  FoldOf(F, base, seq) \in Acc
<1> DEFINE n == Len(seq)
           g == CHOOSE h : FoldsTo(h, F, base, seq, 1 .. n)
<1>1. n \in Nat /\ DOMAIN seq = 1 .. n /\ seq \in [1 .. n -> Elem]
  BY LenProperties
<1>2. FoldsTo(g, F, base, seq, 1 .. n)
  <2>1. \E h \in [SUBSET (1 .. n) -> Acc] : FoldsTo(h, F, base, seq, 1 .. n)
    <3> HIDE DEF n
    <3>1. QED
      BY <1>1, FoldExists
  <2>2. QED
    BY <2>1
<1> HIDE DEF g
<1>3. GoesOn(g, F, Acc, base, seq, n)
  <2> HIDE DEF n
  <2>1. QED
    BY <1>1, <1>2, FoldGoesOnTo
<1>4. QED
  BY <1>3, FoldIs

\* A fold that appends what each element becomes.
Appends(F, h, X, Elem) == \A a \in Seq(X), e \in Elem : h[e] \in Seq(X) /\ F[a][e] = a \o h[e]

\* It makes sequences.
LEMMA AppendsCombines ==
  ASSUME NEW F, NEW h, NEW X, NEW Elem, Appends(F, h, X, Elem)
  PROVE  Combines(F, Seq(X), Elem)
<1> SUFFICES ASSUME NEW a \in Seq(X), NEW e \in Elem
             PROVE  F[a][e] \in Seq(X)
  BY DEF Combines
<1>1. h[e] \in Seq(X) /\ F[a][e] = a \o h[e]
  BY DEF Appends
<1>2. a \o h[e] \in Seq(X)
  BY <1>1, ConcatProperties
<1>3. QED
  BY <1>1, <1>2

\* Induction over sequences, with the set of those of which it has been shown.
LEMMA AppendInduction ==
  ASSUME NEW Elem, NEW S, <<>> \in S,
         \A u \in Seq(Elem), e \in Elem : u \in S => u \o <<e>> \in S,
         NEW t \in Seq(Elem)
  PROVE  t \in S
<1> DEFINE n == Len(t)
           I == {i \in 0 .. n : SubSeq(t, 1, i) \in S}
<1>1. n \in Nat /\ I \in SUBSET Nat
  BY LenProperties
<1>2. 0 \in I
  <2>1. SubSeq(t, 1, 0) = <<>>
    BY SubSeqEmpty
  <2>2. 0 \in 0 .. n
    BY <1>1
  <2>3. QED
    BY <2>1, <2>2
<1>3. ASSUME NEW i \in Nat, i < n, i \in I
      PROVE  i + 1 \in I
  <2>1. i + 1 \in 1 .. n /\ i + 1 - 1 = i /\ i + 1 \in 0 .. n /\ 1 \in 1 .. n
    BY <1>1, <1>3
  <2>2. SubSeq(t, 1, i + 1) = SubSeq(t, 1, i) \o <<t[i + 1]>>
    <3>1. SubSeq(t, 1, i + 1) = SubSeq(t, 1, i + 1 - 1) \o <<t[i + 1]>>
      BY <2>1, SubSeqRecursiveSecond
    <3>2. QED
      BY <2>1, <3>1
  <2>3. SubSeq(t, 1, i) \in Seq(Elem) /\ t[i + 1] \in Elem
    <3>1. \A k \in 1 .. i : t[k] \in Elem
      BY <1>1, <1>3, ElementOfSeq
    <3>2. SubSeq(t, 1, i) \in Seq(Elem)
      BY <3>1, SubSeqProperties
    <3>3. QED
      BY <2>1, <3>2, ElementOfSeq
  <2>4. SubSeq(t, 1, i) \o <<t[i + 1]>> \in S
    BY <1>3, <2>3
  <2>5. QED
    BY <2>1, <2>2, <2>4
<1>4. n \in I
  <2> HIDE DEF I
  <2>1. \A i \in 0 .. n : i \in I
    BY <1>1, <1>2, <1>3, UpToInduction
  <2>2. QED
    BY <1>1, <2>1
<1>5. SubSeq(t, 1, n) = t
  BY SubSeqFull
<1>6. QED
  BY <1>4, <1>5

\* It takes a sequence part by part.
LEMMA FoldConcat ==
  ASSUME NEW F, NEW h, NEW X, NEW Elem, Appends(F, h, X, Elem)
  PROVE  /\ FoldOf(F, <<>>, <<>>) = <<>>
         /\ \A t \in Seq(Elem) : FoldOf(F, <<>>, t) \in Seq(X)
         /\ \A e \in Elem : FoldOf(F, <<>>, <<e>>) = h[e]
         /\ \A s, t \in Seq(Elem) :
               FoldOf(F, <<>>, s \o t) = FoldOf(F, <<>>, s) \o FoldOf(F, <<>>, t)
<1> DEFINE fold(u) == FoldOf(F, <<>>, u)
           Acc == Seq(X)
           nil == <<>>
<1>0. /\ \A p, q, r \in Seq(Elem) : (p \o q) \o r = p \o (q \o r)
      /\ \A p, q, r \in Seq(X) : (p \o q) \o r = p \o (q \o r)
  <2>1. \A p, q, r \in Seq(Elem) : (p \o q) \o r = p \o (q \o r)
    BY Concats
  <2>2. \A p, q, r \in Seq(X) : (p \o q) \o r = p \o (q \o r)
    BY Concats
  <2>3. QED
    BY <2>1, <2>2
<1>1. /\ fold(<<>>) = <<>>
      /\ \A u \in Seq(Elem) : fold(u) \in Seq(X)
      /\ \A u \in Seq(Elem), e \in Elem : h[e] \in Seq(X) /\ fold(u \o <<e>>) = fold(u) \o h[e]
  <2>1. Combines(F, Acc, Elem) /\ nil \in Acc
    BY AppendsCombines
  <2> HIDE DEF Acc, nil
  <2>2. FoldOf(F, nil, <<>>) = nil
    BY <2>1, FoldEmpty
  <2>3. ASSUME NEW u \in Seq(Elem)
        PROVE  FoldOf(F, nil, u) \in Acc
    BY <2>1, FoldType
  <2>4. ASSUME NEW u \in Seq(Elem), NEW e \in Elem
        PROVE  FoldOf(F, nil, u \o <<e>>) = F[FoldOf(F, nil, u)][e]
    BY <2>1, FoldAppend
  <2>5. /\ fold(<<>>) = <<>>
        /\ \A u \in Seq(Elem) : fold(u) \in Seq(X)
        /\ \A u \in Seq(Elem), e \in Elem : fold(u \o <<e>>) = F[fold(u)][e]
    BY <2>2, <2>3, <2>4 DEF Acc, nil
  <2> HIDE DEF fold
  <2>6. ASSUME NEW u \in Seq(Elem), NEW e \in Elem
        PROVE  h[e] \in Seq(X) /\ F[fold(u)][e] = fold(u) \o h[e]
    BY <2>5 DEF Appends
  <2>7. QED
    BY <2>5, <2>6
<1> HIDE DEF fold
<1>2. ASSUME NEW e \in Elem
      PROVE  fold(<<e>>) = h[e]
  <2>1. <<>> \in Seq(Elem) /\ <<e>> \in Seq(Elem) /\ h[e] \in Seq(X)
    <3>1. <<>> \in Seq(Elem) /\ <<e>> \in Seq(Elem)
      OBVIOUS
    <3>2. h[e] \in Seq(X)
      BY <1>1, <3>1, Zenon
    <3>3. QED
      BY <3>1, <3>2
  <2>2. fold(<<>> \o <<e>>) = <<>> \o h[e]
    BY <1>1, <2>1, Zenon
  <2>3. <<>> \o <<e>> = <<e>> /\ <<>> \o h[e] = h[e]
    BY <2>1, ConcatEmptySeq
  <2>4. QED
    BY <2>2, <2>3
<1>3. ASSUME NEW s \in Seq(Elem), NEW t \in Seq(Elem)
      PROVE  fold(s \o t) = fold(s) \o fold(t)
  <2> DEFINE S == {u \in Seq(Elem) : fold(s \o u) = fold(s) \o fold(u)}
  <2>1. <<>> \in S
    <3>1. s \o <<>> = s /\ fold(s) \in Seq(X)
      BY <1>1, ConcatEmptySeq
    <3>2. fold(s) \o <<>> = fold(s) /\ <<>> \in Seq(Elem)
      BY <3>1, ConcatEmptySeq
    <3>3. fold(s \o <<>>) = fold(s) \o fold(<<>>)
      BY <1>1, <3>1, <3>2, Zenon
    <3>4. QED
      BY <3>2, <3>3
  <2>2. ASSUME NEW u \in Seq(Elem), NEW e \in Elem, u \in S
        PROVE  u \o <<e>> \in S
    <3>1. s \o (u \o <<e>>) = (s \o u) \o <<e>>
      <4>1. <<e>> \in Seq(Elem)
        OBVIOUS
      <4>2. QED
        BY <1>0, <4>1, Zenon
    <3>2. s \o u \in Seq(Elem) /\ u \o <<e>> \in Seq(Elem)
      BY ConcatProperties
    <3>3. fold((s \o u) \o <<e>>) = fold(s \o u) \o h[e] /\ fold(u \o <<e>>) = fold(u) \o h[e]
      BY <1>1, <3>2
    <3>4. (fold(s) \o fold(u)) \o h[e] = fold(s) \o (fold(u) \o h[e])
      <4>1. fold(s) \in Seq(X) /\ fold(u) \in Seq(X) /\ h[e] \in Seq(X)
        BY <1>1
      <4>2. QED
        BY <1>0, <4>1, Zenon
    <3>5. fold(s \o u) = fold(s) \o fold(u)
      BY <2>2
    <3>6. fold(s \o (u \o <<e>>)) = fold(s) \o fold(u \o <<e>>)
      BY <3>1, <3>3, <3>4, <3>5, Zenon
    <3>7. QED
      BY <3>2, <3>6
  <2>3. t \in S
    <3> HIDE DEF S
    <3>1. QED
      BY <2>1, <2>2, AppendInduction
  <2>4. QED
    BY <2>3
<1>4. QED
  BY <1>1, <1>2, <1>3 DEF fold

-----------------------------------------------------------------------------
(* Names. *)

\* Among one more suffixes than names are taken, one is free.
LEMMA SuffixFree ==
  ASSUME NEW k \in Key, NEW used, IsFiniteSet(used)
  PROVE  \E i \in 1 .. Cardinality(used) + 1 : Suffixed(k, i) \notin used
<1> DEFINE c == Cardinality(used)
           T == 1 .. c + 1
           f == [i \in T |-> Suffixed(k, i)]
<1>1. c \in Nat /\ IsFiniteSet(T) /\ Cardinality(T) = c + 1
  <2>1. c \in Nat
    BY FS_CardinalityType
  <2>2. IsFiniteSet(T) /\ Cardinality(T) = (c + 1) - 1 + 1
    BY <2>1, FS_Interval
  <2>3. QED
    BY <2>1, <2>2
<1>2. SUFFICES ASSUME \A i \in T : Suffixed(k, i) \in used
               PROVE  FALSE
  OBVIOUS
<1>3. f \in [T -> used]
  BY <1>2
<1>4. c < Cardinality(T)
  BY <1>1
<1>5. PICK i, j \in T : i # j /\ f[i] = f[j]
  <2> HIDE DEF T, f
  <2>1. QED
    BY <1>1, <1>3, <1>4, FS_PigeonHole
<1>6. QED
  BY <1>5 DEF Suffixed

\* dedupeName gives a name that is free, and the bare one whenever it is.
LEMMA DedupedIsFree ==
  ASSUME NEW k \in Key, NEW used, IsFiniteSet(used)
  PROVE  /\ dedupeName(k, used) \notin used
         /\ Bare(k) \notin used => dedupeName(k, used) = Bare(k)
<1>1. CASE Bare(k) \notin used
  BY <1>1 DEF dedupeName
<1>2. CASE Bare(k) \in used
  <2> DEFINE T == 1 .. Cardinality(used) + 1
             S == {i \in T : Suffixed(k, i) \notin used}
             N == {Suffixed(k, i) : i \in T} \ used
  <2>1. Cardinality(used) \in Nat
    BY FS_CardinalityType
  <2>2. S \in SUBSET Nat /\ S # {}
    BY <2>1, SuffixFree
  <2>3. PICK i \in S : \A j \in S : i <= j
    <3> HIDE DEF S
    <3>1. QED
      BY <2>2, LeastMember
  <2>4. /\ Suffixed(k, i) \in N
        /\ \A j \in 1 .. Suffixed(k, i)[3] - 1 : Suffixed(k, j) \in used
    <3>1. Suffixed(k, i)[3] = i /\ i \in T
      BY DEF Suffixed
    <3>2. ASSUME NEW j \in 1 .. i - 1, Suffixed(k, j) \notin used
          PROVE  FALSE
      <4>1. j \in S /\ j < i
        BY <2>1, <3>1, <3>2
      <4>2. QED
        BY <2>1, <2>3, <4>1
    <3>3. QED
      BY <3>1, <3>2
  <2>5. dedupeName(k, used) = CHOOSE n \in N :
           \A j \in 1 .. n[3] - 1 : Suffixed(k, j) \in used
    BY <1>2 DEF dedupeName
  <2> HIDE DEF N
  <2>6. dedupeName(k, used) \in N
    BY <2>4, <2>5
  <2>7. QED
    BY <1>2, <2>6 DEF N
<1>3. QED
  BY <1>1, <1>2

-----------------------------------------------------------------------------
(* The invariant: NamesTrue, and what it needs of the types. *)

NamesInv == /\ NamesTrue
            /\ DOMAIN coll \subseteq Key /\ coll = [k \in DOMAIN coll |-> coll[k]]
            /\ IsFiniteSet(namesUsed)

\* Collectors that are removed take their own names with them.
LEMMA WithoutNames ==
  ASSUME NamesInv, NEW out \in SUBSET DOMAIN coll
  PROVE  /\ DOMAIN Without(coll, out) = DOMAIN coll \ out
         /\ \A k \in DOMAIN coll \ out : Without(coll, out)[k] = coll[k]
         /\ namesUsed \ NamesOf(out) = {coll[k] : k \in DOMAIN coll \ out}
         /\ IsFiniteSet(namesUsed \ NamesOf(out))
<1>1. /\ DOMAIN Without(coll, out) = DOMAIN coll \ out
      /\ \A k \in DOMAIN coll \ out : Without(coll, out)[k] = coll[k]
  BY DEF Without, Restrict
<1>2. namesUsed \ NamesOf(out) = {coll[k] : k \in DOMAIN coll \ out}
  BY DEF NamesInv, NamesTrue, NamesOf
<1>3. IsFiniteSet(namesUsed \ NamesOf(out))
  BY FS_Difference DEF NamesInv
<1>4. QED
  BY <1>1, <1>2, <1>3

\* A step that only removes collectors.
LEMMA RemovedNames ==
  ASSUME NamesInv, NEW out \in SUBSET DOMAIN coll,
         coll' = Without(coll, out), namesUsed' = namesUsed \ NamesOf(out)
  PROVE  NamesInv'
<1>1. /\ DOMAIN coll' = DOMAIN coll \ out
      /\ \A k \in DOMAIN coll \ out : coll'[k] = coll[k]
      /\ namesUsed' = {coll[k] : k \in DOMAIN coll \ out}
      /\ IsFiniteSet(namesUsed')
  BY WithoutNames
<1>2. coll' = [k \in DOMAIN coll' |-> coll'[k]]
  BY <1>1 DEF Without, Restrict
<1>3. NamesTrue'
  BY <1>1 DEF NamesInv, NamesTrue, NamesOf
<1>4. QED
  BY <1>1, <1>2, <1>3 DEF NamesInv

\* A collector is started under a name that nobody has.
LEMMA StartedNames ==
  ASSUME NamesInv, NEW t \in Ticker, NEW k \in Key, StartCollector(t, k)
  PROVE  NamesInv'
<1> DEFINE out  == Replaced(k, tick[t].seen)
           used == namesUsed \ NamesOf(out)
           name == dedupeName(k, used)
<1>1. out \in SUBSET DOMAIN coll /\ k \notin DOMAIN coll
  BY DEF Replaced, StartCollector, MeetNew
<1>2. coll' = [q \in (DOMAIN coll \ out) \cup {k} |-> IF q = k THEN name ELSE coll[q]]
      /\ namesUsed' = used \cup {name}
  BY DEF StartCollector
<1> HIDE DEF out
<1>3. used = {coll[q] : q \in DOMAIN coll \ out} /\ IsFiniteSet(used)
  BY <1>1, WithoutNames
<1> HIDE DEF used
<1>4. name \notin used
  BY <1>3, DedupedIsFree
<1> HIDE DEF name
<1>5. IsFiniteSet(namesUsed')
  BY <1>2, <1>3, FS_AddElement
<1>6. /\ DOMAIN coll' = (DOMAIN coll \ out) \cup {k} /\ coll'[k] = name
      /\ \A q \in DOMAIN coll \ out : coll'[q] = coll[q] /\ q # k
      /\ coll' = [q \in DOMAIN coll' |-> coll'[q]]
  BY <1>1, <1>2
<1>7. namesUsed' = {coll'[q] : q \in DOMAIN coll'}
  BY <1>2, <1>3, <1>6
<1>8. \A p, q \in DOMAIN coll' : coll'[p] = coll'[q] => p = q
  BY <1>3, <1>4, <1>6 DEF NamesInv, NamesTrue
<1>9. QED
  BY <1>5, <1>6, <1>7, <1>8 DEF NamesInv, NamesTrue, NamesOf

\* Every step keeps the invariant.
LEMMA NamesKept == NamesInv /\ [BoardNext]_boardVars => NamesInv'
<1> SUFFICES ASSUME NamesInv, [BoardNext]_boardVars PROVE NamesInv'
  OBVIOUS
<1>1. CASE UNCHANGED <<coll, namesUsed>>
  BY <1>1 DEF NamesInv, NamesTrue, NamesOf
<1>2. ASSUME NEW k \in Key, Plug(k) PROVE NamesInv'
  BY <1>1, <1>2 DEF Plug
<1>3. ASSUME NEW t \in Ticker, NEW found \in SUBSET Key, Enumerate(t, found)
      PROVE  NamesInv'
  BY <1>1, <1>3 DEF Enumerate
<1>4. ASSUME NEW t \in Ticker, LockDiff(t) PROVE NamesInv'
  BY <1>1, <1>4 DEF LockDiff
<1>5. ASSUME NEW t \in Ticker, NEW k \in Key, MeetAgain(t, k) PROVE NamesInv'
  BY <1>1, <1>5 DEF MeetAgain
<1>6. ASSUME NEW t \in Ticker, NEW k \in Key, StartFails(t, k) PROVE NamesInv'
  BY <1>6, RemovedNames DEF StartFails, Replaced
<1>7. ASSUME NEW t \in Ticker, Sweep(t) PROVE NamesInv'
  BY <1>7, RemovedNames DEF Sweep
<1>8. QED
  BY <1>1, <1>2, <1>3, <1>4, <1>5, <1>6, <1>7, StartedNames DEF BoardNext, boardVars

\* The invariant holds from the start.
LEMMA NamesAlways == BoardSpec => []NamesInv
<1>1. BoardInit => NamesInv
  BY FS_EmptySet DEF BoardInit, NamesInv, NamesTrue, NamesOf
<1>2. QED
  BY <1>1, NamesKept, PTL DEF BoardSpec

\* NamesTrue (BoardNames), for any boards and any number of ticks at once: no
\* two devices share a directory, and the names taken are those of the
\* collectors, after removals, replacements and failed starts (#72).
THEOREM NamesAreTrue == BoardSpec => []NamesTrue
<1>1. NamesInv => NamesTrue
  BY DEF NamesInv
<1>2. QED
  BY <1>1, NamesAlways, PTL

\* SuccessorInherits (BoardNames), for any boards: a board gets a suffixed name
\* only when the same tick has seen the board that holds the bare one
\* (daemon.go, the replacement within the debounce).
THEOREM SuccessorsInherit == BoardSpec => SuccessorInherits
<1> DEFINE Inherits ==
      \A k \in DOMAIN coll' \ DOMAIN coll :
           coll'[k] # Bare(k) =>
               \E q \in DOMAIN coll, t \in Ticker :
                   /\ coll[q] = Bare(k)
                   /\ Diffing(t) /\ q \in tick[t].seen
<1>1. NamesInv /\ [BoardNext]_boardVars => [Inherits]_boardVars
  <2> SUFFICES ASSUME NamesInv, BoardNext,
                      NEW k \in DOMAIN coll' \ DOMAIN coll, coll'[k] # Bare(k)
               PROVE  \E q \in DOMAIN coll, t \in Ticker :
                          /\ coll[q] = Bare(k)
                          /\ Diffing(t) /\ q \in tick[t].seen
    OBVIOUS
  <2>1. PICK t \in Ticker, b \in Key : StartCollector(t, b)
    <3>1. CASE \/ \E p \in Key : Plug(p)
               \/ \E t \in Ticker : \/ \E found \in SUBSET Key : Enumerate(t, found)
                                    \/ LockDiff(t)
                                    \/ \E p \in Key : MeetAgain(t, p)
      BY <3>1 DEF Plug, Enumerate, LockDiff, MeetAgain
    <3>2. ASSUME NEW t \in Ticker,
                 Sweep(t) \/ \E p \in Key : StartFails(t, p)
          PROVE  DOMAIN coll' \subseteq DOMAIN coll
      BY <3>2 DEF Sweep, StartFails, Without, Restrict
    <3>3. QED
      BY <3>1, <3>2 DEF BoardNext
  <2> DEFINE out  == Replaced(b, tick[t].seen)
             used == namesUsed \ NamesOf(out)
  <2>2. b = k /\ coll'[k] = dedupeName(k, used) /\ k \in Key /\ Diffing(t)
    BY <2>1 DEF StartCollector, MeetNew, Meeting
  <2>3. IsFiniteSet(used)
    BY FS_Difference DEF NamesInv
  <2>4. Bare(k) \in used
    BY <2>2, <2>3, DedupedIsFree
  <2>5. PICK q \in DOMAIN coll : coll[q] = Bare(k) /\ q \notin out
    BY <2>4 DEF NamesInv, NamesTrue, NamesOf
  <2>6. q \in tick[t].seen
    BY <2>2, <2>5 DEF Replaced
  <2>7. QED
    BY <2>2, <2>5, <2>6
<1>2. QED
  BY <1>1, NamesAlways, PTL DEF BoardSpec, SuccessorInherits

-----------------------------------------------------------------------------
(* Facts. *)

Origin == {"log", "probe", "dev"}
Entry  == [value : Value, origin : Origin]
Stores == UNION {[D -> Entry] : D \in SUBSET Name}

\* A store is a function from some of the names to entries.
LEMMA StoreFacts ==
  ASSUME NEW known
  PROVE  known \in Stores <=> DOMAIN known \subseteq Name /\ known \in [DOMAIN known -> Entry]
BY DEF Stores

\* What set does: it forgets nothing, concerns the one fact only, and keeps what
\* a better source has said.
LEMMA SetFacts ==
  ASSUME NEW known \in Stores, NEW n \in Name, NEW v \in Value, NEW o \in Origin
  PROVE  /\ set(known, n, v, o) \in Stores
         /\ DOMAIN known \subseteq DOMAIN set(known, n, v, o)
         /\ \A m \in DOMAIN set(known, n, v, o) :
               m # n => m \in DOMAIN known /\ set(known, n, v, o)[m] = known[m]
         /\ \/ /\ set(known, n, v, o) = known /\ n \in DOMAIN known
               /\ originRank[o] < originRank[known[n].origin]
            \/ /\ n \in DOMAIN set(known, n, v, o)
               /\ set(known, n, v, o)[n] = [value |-> v, origin |-> o]
               /\ n \in DOMAIN known => ~ (originRank[o] < originRank[known[n].origin])
<1> DEFINE k == [m \in DOMAIN known \cup {n} |->
                    IF m = n THEN [value |-> v, origin |-> o] ELSE known[m]]
           worse == n \in DOMAIN known /\ originRank[o] < originRank[known[n].origin]
<1>1. DOMAIN known \subseteq Name /\ known \in [DOMAIN known -> Entry]
  BY StoreFacts
<1>2. set(known, n, v, o) = IF worse THEN known ELSE k
  BY DEF set
<1>3. /\ DOMAIN k = DOMAIN known \cup {n} /\ k[n] = [value |-> v, origin |-> o]
      /\ \A m \in DOMAIN known : m # n => k[m] = known[m]
  OBVIOUS
<1>4. [value |-> v, origin |-> o] \in Entry
  BY DEF Entry
<1>5. k \in [DOMAIN k -> Entry] /\ DOMAIN k \subseteq Name
  BY <1>1, <1>4
<1> HIDE DEF k
<1>6. k \in Stores
  BY <1>5, StoreFacts
<1>7. CASE worse
  BY <1>2, <1>7
<1>8. CASE ~ worse
  <2>1. set(known, n, v, o) = k
    BY <1>2, <1>8
  <2>2. QED
    BY <1>3, <1>6, <1>8, <2>1
<1>9. QED
  BY <1>7, <1>8

\* What a line does to a store: what set does, or nothing at all when the firmware
\* has named too many facts.
LEMMA FeedFacts ==
  ASSUME NEW known \in Stores, NEW l \in Told
  PROVE  /\ Feed(known, l) \in Stores
         /\ DOMAIN known \subseteq DOMAIN Feed(known, l)
         /\ \A m \in DOMAIN Feed(known, l) :
               m # l.name => m \in DOMAIN known /\ Feed(known, l)[m] = known[m]
         /\ \/ /\ Feed(known, l) = known
               /\ l.name \in DOMAIN known =>
                     originRank[l.origin] < originRank[known[l.name].origin]
            \/ /\ l.name \in DOMAIN Feed(known, l)
               /\ Feed(known, l)[l.name] = [value |-> l.value, origin |-> l.origin]
               /\ l.name \in DOMAIN known =>
                     ~ (originRank[l.origin] < originRank[known[l.name].origin])
<1>1. l.name \in Name /\ l.value \in Value /\ l.origin \in Origin
  BY DEF Told, Origin
<1>2. CASE /\ l.origin = "dev" /\ l.name \notin DOMAIN known
           /\ Cardinality(DOMAIN known) >= DevKeys
  BY <1>2 DEF Feed
<1>3. CASE ~ /\ l.origin = "dev" /\ l.name \notin DOMAIN known
             /\ Cardinality(DOMAIN known) >= DevKeys
  <2>1. Feed(known, l) = set(known, l.name, l.value, l.origin)
    BY <1>3 DEF Feed
  <2>2. QED
    BY <1>1, <2>1, SetFacts
<1>4. QED
  BY <1>2, <1>3

\* The replay of seq, line by line.
LEMMA ReplaySteps ==
  ASSUME NEW known \in Stores, NEW seq \in Seq(Told)
  PROVE  \E r : /\ r[0] = known
                /\ \A i \in 1 .. Len(seq) : r[i] = Feed(r[i - 1], seq[i])
                /\ r[Len(seq)] = FoldLeft(Feed, known, seq)
<1> DEFINE n == Len(seq)
           E(g) == g = [s \in SUBSET DOMAIN seq |->
                           IF s = {} THEN known ELSE Feed(g[s \ {Max(s)}], seq[Max(s)])]
           F == [k \in Stores |-> [l \in Told |-> Feed(k, l)]]
           iter == CHOOSE g : E(g)
           r == [i \in 0 .. n |-> iter[1 .. i]]
<1>1. n \in Nat /\ DOMAIN seq = 1 .. n /\ seq \in [1 .. n -> Told]
  OBVIOUS
<1>2. \E g : E(g)
  <2>1. Combines(F, Stores, Told)
    BY FeedFacts DEF Combines
  <2>2. \A k \in Stores, l \in Told : F[k][l] = Feed(k, l)
    OBVIOUS
  <2> HIDE DEF F, n
  <2>3. PICK g \in [SUBSET (1 .. n) -> Stores] : FoldsTo(g, F, known, seq, 1 .. n)
    BY <1>1, <2>1, FoldExists
  <2>4. ASSUME NEW s \in SUBSET (1 .. n), s # {}
        PROVE  F[g[s \ {Max(s)}]][seq[Max(s)]] = Feed(g[s \ {Max(s)}], seq[Max(s)])
    <3>1. Max(s) \in s
      BY <1>1, <2>4, MaxIsMember
    <3>2. g[s \ {Max(s)}] \in Stores /\ seq[Max(s)] \in Told
      BY <1>1, <3>1
    <3>3. QED
      BY <2>2, <3>2
  <2>5. g = [s \in SUBSET (1 .. n) |->
                IF s = {} THEN known ELSE Feed(g[s \ {Max(s)}], seq[Max(s)])]
    BY <2>3, <2>4 DEF FoldsTo
  <2>6. QED
    BY <1>1, <2>5
<1>3. E(iter)
  <2> HIDE DEF E
  <2>1. QED
    BY <1>2
<1>4. FoldLeft(Feed, known, seq) = iter[DOMAIN seq]
  BY DEF FoldLeft, MapThenFoldSet
<1>5. iter = [s \in SUBSET (1 .. n) |->
                IF s = {} THEN known ELSE Feed(iter[s \ {Max(s)}], seq[Max(s)])]
  <2> HIDE DEF iter, n
  <2>1. QED
    BY <1>1, <1>3
<1> HIDE DEF iter, n, E
<1>6. iter[1 .. 0] = known
  BY <1>1, <1>5, FirstPlaces
<1>7. ASSUME NEW i \in 1 .. n
      PROVE  iter[1 .. i] = Feed(iter[1 .. i - 1], seq[i])
  <2>1. /\ (1 .. i) \in SUBSET (1 .. n) /\ 1 .. i # {} /\ Max(1 .. i) = i
        /\ (1 .. i) \ {Max(1 .. i)} = 1 .. i - 1
    BY <1>1, FirstPlaces
  <2>2. iter[1 .. i] = Feed(iter[(1 .. i) \ {Max(1 .. i)}], seq[Max(1 .. i)])
    BY <1>5, <2>1
  <2>3. QED
    BY <2>1, <2>2
<1>8. r[0] = known /\ (\A i \in 1 .. n : r[i] = Feed(r[i - 1], seq[i])) /\ r[n] = iter[1 .. n]
  BY <1>1, <1>6, <1>7
<1> HIDE DEF r
<1>9. QED
  BY <1>1, <1>4, <1>8 DEF n

\* The last line of H that says name of origin.
LastOf(H, name, origin, i) ==
    /\ i \in DOMAIN H /\ H[i].name = name /\ H[i].origin = origin
    /\ \A j \in DOMAIN H : j > i /\ H[j].name = name => H[j].origin # origin

\* What is known is what the last line of its origin said, if it was fed.
Faithful(known, H) ==
    \A m \in DOMAIN known, i \in DOMAIN H :
        LastOf(H, m, known[m].origin, i) /\ H[i].fed => H[i].value = known[m].value

\* A better source, or the same.
AsGood(e, f) == ~ (originRank[e.origin] < originRank[f.origin])

\* After the first j lines of a replay nothing is forgotten or has a worse source,
\* and what is known is as it was before or as the last line of its origin says.
Replayed(known, seq, j, now) ==
    /\ now \in Stores
    /\ \A m \in DOMAIN known : m \in DOMAIN now /\ AsGood(now[m], known[m])
    /\ \A m \in DOMAIN now :
          \/ m \in DOMAIN known /\ now[m] = known[m]
          \/ \E i \in 1 .. j :
                /\ seq[i].name = m /\ seq[i].origin = now[m].origin
                /\ seq[i].value = now[m].value
                /\ \A p \in 1 .. j : p > i /\ seq[p].name = m => seq[p].origin # now[m].origin

\* One line further.
LEMMA ReplayedNext ==
  ASSUME NEW known \in Stores, NEW seq \in Seq(Told), NEW j \in Nat, j + 1 <= Len(seq),
         NEW now, Replayed(known, seq, j, now)
  PROVE  Replayed(known, seq, j + 1, Feed(now, seq[j + 1]))
<1> DEFINE l == seq[j + 1]
           next == Feed(now, l)
<1>1. now \in Stores /\ l \in Told /\ l.name \in Name
  <2>1. j + 1 \in 1 .. Len(seq)
    OBVIOUS
  <2>2. l \in Told
    BY <2>1
  <2> HIDE DEF l
  <2>3. QED
    BY <2>2 DEF Replayed, Told
<1>2. /\ next \in Stores /\ DOMAIN now \subseteq DOMAIN next
      /\ \A m \in DOMAIN next : m # l.name => m \in DOMAIN now /\ next[m] = now[m]
  BY <1>1, FeedFacts
<1>3. \/ /\ next = now
         /\ l.name \in DOMAIN now => originRank[l.origin] < originRank[now[l.name].origin]
      \/ /\ l.name \in DOMAIN next
         /\ next[l.name] = [value |-> l.value, origin |-> l.origin]
         /\ l.name \in DOMAIN now => ~ (originRank[l.origin] < originRank[now[l.name].origin])
  BY <1>1, FeedFacts
<1>4. \A o \in Origin : originRank[o] \in Nat
  BY DEF originRank, Origin
<1>5. /\ \A m \in DOMAIN known : known[m].origin \in Origin
      /\ \A m \in DOMAIN now : now[m].origin \in Origin
      /\ \A m \in DOMAIN next : next[m].origin \in Origin
      /\ l.origin \in Origin
  BY <1>1, <1>2, StoreFacts DEF Entry, Told, Origin
<1> HIDE DEF next, l
<1>6. \A m \in DOMAIN known : m \in DOMAIN next /\ AsGood(next[m], known[m])
  <2> SUFFICES ASSUME NEW m \in DOMAIN known
               PROVE  m \in DOMAIN next /\ AsGood(next[m], known[m])
    OBVIOUS
  <2>1. m \in DOMAIN now /\ AsGood(now[m], known[m]) /\ m \in DOMAIN next
    BY <1>2 DEF Replayed
  <2>2. CASE next[m] = now[m]
    BY <2>1, <2>2
  <2>3. CASE next[m] # now[m]
    <3>1. m = l.name /\ next[m].origin = l.origin
             /\ ~ (originRank[l.origin] < originRank[now[m].origin])
      BY <1>2, <1>3, <2>1, <2>3
    <3>2. QED
      BY <1>4, <1>5, <2>1, <3>1 DEF AsGood
  <2>4. QED
    BY <2>2, <2>3
<1>7. ASSUME NEW m \in DOMAIN next
      PROVE  \/ m \in DOMAIN known /\ next[m] = known[m]
             \/ \E i \in 1 .. j + 1 :
                   /\ seq[i].name = m /\ seq[i].origin = next[m].origin
                   /\ seq[i].value = next[m].value
                   /\ \A p \in 1 .. j + 1 :
                         p > i /\ seq[p].name = m => seq[p].origin # next[m].origin
  <2>1. CASE m = l.name /\ next[m] = [value |-> l.value, origin |-> l.origin]
    <3>1. j + 1 \in 1 .. j + 1 /\ \A p \in 1 .. j + 1 : ~ (p > j + 1)
      OBVIOUS
    <3>2. /\ seq[j + 1].name = m /\ seq[j + 1].origin = next[m].origin
          /\ seq[j + 1].value = next[m].value
      BY <2>1 DEF l
    <3>3. QED
      BY <3>1, <3>2
  <2>2. CASE ~ (m = l.name /\ next[m] = [value |-> l.value, origin |-> l.origin])
    <3>1. m \in DOMAIN now /\ next[m] = now[m]
      BY <1>2, <1>3, <2>2
    <3>2. m = l.name => l.origin # now[m].origin
      <4>1. m = l.name => originRank[l.origin] < originRank[now[m].origin]
        BY <1>3, <2>2, <3>1
      <4>2. QED
        BY <1>4, <1>5, <4>1
    <3>3. CASE m \in DOMAIN known /\ now[m] = known[m]
      BY <3>1, <3>3
    <3>4. CASE \E i \in 1 .. j :
                 /\ seq[i].name = m /\ seq[i].origin = now[m].origin
                 /\ seq[i].value = now[m].value
                 /\ \A p \in 1 .. j :
                       p > i /\ seq[p].name = m => seq[p].origin # now[m].origin
      <4>1. PICK i \in 1 .. j :
                 /\ seq[i].name = m /\ seq[i].origin = now[m].origin
                 /\ seq[i].value = now[m].value
                 /\ \A p \in 1 .. j :
                       p > i /\ seq[p].name = m => seq[p].origin # now[m].origin
        BY <3>4
      <4>2. ASSUME NEW p \in 1 .. j + 1, p > i, seq[p].name = m
            PROVE  seq[p].origin # now[m].origin
        <5>1. CASE p = j + 1
          BY <3>2, <4>2, <5>1 DEF l
        <5>2. CASE p \in 1 .. j
          BY <4>1, <4>2, <5>2
        <5>3. QED
          BY <5>1, <5>2
      <4>3. i \in 1 .. j + 1
        OBVIOUS
      <4>4. QED
        BY <3>1, <4>1, <4>2, <4>3
    <3>5. QED
      BY <3>1, <3>3, <3>4 DEF Replayed
  <2>3. QED
    BY <2>1, <2>2
<1>8. QED
  BY <1>2, <1>6, <1>7 DEF Replayed, next, l

\* So it is after the whole of a replay: were there a least number of lines of which
\* it is not so, the line before it would disagree.
LEMMA ReplayedAll ==
  ASSUME NEW known \in Stores, NEW seq \in Seq(Told)
  PROVE  Replayed(known, seq, Len(seq), FoldLeft(Feed, known, seq))
<1>1. PICK r : /\ r[0] = known
               /\ \A i \in 1 .. Len(seq) : r[i] = Feed(r[i - 1], seq[i])
               /\ r[Len(seq)] = FoldLeft(Feed, known, seq)
  BY ReplaySteps
<1> DEFINE Q(j) == Replayed(known, seq, j, r[j])
           Bad  == {j \in 0 .. Len(seq) : ~ Q(j)}
<1>2. Q(0)
  <2>1. \A m \in DOMAIN known : originRank[known[m].origin] \in Nat
    BY StoreFacts DEF Entry, Origin, originRank
  <2>2. QED
    BY <1>1, <2>1 DEF Replayed, AsGood
<1>3. ASSUME NEW j \in Nat, j + 1 <= Len(seq), Q(j)
      PROVE  Q(j + 1)
  <2>1. r[j + 1] = Feed(r[j + 1 - 1], seq[j + 1]) /\ j + 1 - 1 = j
    BY <1>1, <1>3
  <2>2. QED
    BY <1>3, <2>1, ReplayedNext
<1> HIDE DEF Q
<1>4. Bad = {}
  <2>1. SUFFICES ASSUME Bad # {}
                 PROVE  FALSE
    OBVIOUS
  <2>2. PICK m \in Bad : \A k \in Bad : m <= k
    <3>1. Bad \in SUBSET Nat
      OBVIOUS
    <3> HIDE DEF Bad
    <3>2. QED
      BY <2>1, <3>1, LeastMember
  <2>3. m \in 0 .. Len(seq) /\ m # 0
    BY <1>2
  <2>4. m - 1 \in Nat /\ m - 1 \in 0 .. Len(seq) /\ m - 1 + 1 = m /\ ~(m <= m - 1)
    BY <2>3
  <2>5. Q(m - 1)
    BY <2>2, <2>4
  <2>6. Q(m - 1 + 1)
    BY <1>3, <2>3, <2>4, <2>5
  <2>7. QED
    BY <2>4, <2>6
<1>5. Q(Len(seq))
  BY <1>4
<1>6. QED
  BY <1>1, <1>5 DEF Q

\* What the replay of the end of a log leaves, when what was known was what the
\* fed lines of the log say: it is replaced by what a better source says, or by
\* what the last line of its source says when that one was not fed.
LEMMA SeedKeeps ==
  ASSUME NEW known \in Stores, history \in Seq(Told), NEW n \in 1 .. Len(history) + 1,
         Faithful(known, history)
  PROVE  /\ SeedFromLog(known, n) \in Stores
         /\ Faithful(SeedFromLog(known, n), history)
         /\ \A m \in DOMAIN known :
               /\ m \in DOMAIN SeedFromLog(known, n)
               /\ \/ SeedFromLog(known, n)[m] = known[m]
                  \/ originRank[known[m].origin] < originRank[SeedFromLog(known, n)[m].origin]
                  \/ \E i \in DOMAIN history :
                        LastOf(history, m, known[m].origin, i) /\ ~ history[i].fed
<1> DEFINE N   == Len(history)
           seq == SubSeq(history, n, N)
           new == SeedFromLog(known, n)
           K   == Len(seq)
<1>1. /\ N \in Nat /\ DOMAIN history = 1 .. N /\ n \in Nat \ {0}
      /\ seq \in Seq(Told) /\ K = N - n + 1 /\ K \in Nat
      /\ \A i \in 1 .. K : seq[i] = history[i + n - 1]
  OBVIOUS
<1>2. Replayed(known, seq, K, new)
  BY <1>1, ReplayedAll DEF SeedFromLog
<1> HIDE DEF N, seq, K, new
<1>3. new \in Stores
  BY <1>2 DEF Replayed
<1>4. ASSUME NEW m \in DOMAIN new, ~ (m \in DOMAIN known /\ new[m] = known[m])
      PROVE  \E p \in 1 .. N : /\ LastOf(history, m, new[m].origin, p)
                               /\ history[p].value = new[m].value
  <2>1. PICK i \in 1 .. K :
            /\ seq[i].name = m /\ seq[i].origin = new[m].origin
            /\ seq[i].value = new[m].value
            /\ \A p \in 1 .. K : p > i /\ seq[p].name = m => seq[p].origin # new[m].origin
    BY <1>2, <1>4 DEF Replayed
  <2>2. i + n - 1 \in 1 .. N /\ seq[i] = history[i + n - 1]
    BY <1>1
  <2>3. ASSUME NEW j \in 1 .. N, j > i + n - 1, history[j].name = m
        PROVE  history[j].origin # new[m].origin
    <3>1. j - n + 1 \in 1 .. K /\ j - n + 1 > i /\ j - n + 1 + n - 1 = j
      BY <1>1, <2>3
    <3>2. seq[j - n + 1] = history[j]
      BY <1>1, <3>1
    <3>3. QED
      BY <2>1, <2>3, <3>1, <3>2
  <2>4. LastOf(history, m, new[m].origin, i + n - 1)
    BY <1>1, <2>1, <2>2, <2>3 DEF LastOf
  <2>5. QED
    BY <2>1, <2>2, <2>4
<1>5. Faithful(new, history)
  <2> SUFFICES ASSUME NEW m \in DOMAIN new, NEW i \in DOMAIN history,
                      LastOf(history, m, new[m].origin, i), history[i].fed
               PROVE  history[i].value = new[m].value
    BY DEF Faithful
  <2>1. CASE m \in DOMAIN known /\ new[m] = known[m]
    BY <2>1 DEF Faithful
  <2>2. CASE ~ (m \in DOMAIN known /\ new[m] = known[m])
    <3>1. PICK p \in 1 .. N : /\ LastOf(history, m, new[m].origin, p)
                              /\ history[p].value = new[m].value
      BY <1>4, <2>2
    <3>2. i \in Nat /\ p \in Nat /\ i \in DOMAIN history /\ p \in DOMAIN history
      BY <1>1
    <3>3. ~ (p > i) /\ ~ (i > p)
      BY <3>1, <3>2 DEF LastOf
    <3>4. i = p
      BY <3>2, <3>3
    <3>5. QED
      BY <3>1, <3>4
  <2>3. QED
    BY <2>1, <2>2
<1>6. ASSUME NEW m \in DOMAIN known
      PROVE  /\ m \in DOMAIN new
             /\ \/ new[m] = known[m]
                \/ originRank[known[m].origin] < originRank[new[m].origin]
                \/ \E i \in DOMAIN history :
                      LastOf(history, m, known[m].origin, i) /\ ~ history[i].fed
  <2>1. m \in DOMAIN new /\ AsGood(new[m], known[m])
    BY <1>2 DEF Replayed
  <2>2. new[m] \in Entry /\ known[m] \in Entry
    BY <1>3, <2>1, StoreFacts
  <2>3. CASE new[m].origin = known[m].origin
    <3>1. CASE new[m] # known[m]
      <4>1. PICK p \in 1 .. N : /\ LastOf(history, m, new[m].origin, p)
                                /\ history[p].value = new[m].value
        BY <1>4, <2>1, <3>1
      <4>2. history[p].value = known[m].value \/ ~ history[p].fed
        BY <1>1, <2>3, <4>1 DEF Faithful
      <4>3. \A e, f \in Entry : e.value = f.value /\ e.origin = f.origin => e = f
        BY DEF Entry
      <4>4. QED
        BY <1>1, <2>1, <2>2, <2>3, <4>1, <4>2, <4>3
    <3>2. QED
      BY <2>1, <3>1
  <2>4. CASE new[m].origin # known[m].origin
    BY <2>1, <2>2, <2>4 DEF AsGood, Entry, Origin, originRank
  <2>5. QED
    BY <2>3, <2>4
<1>7. QED
  BY <1>3, <1>5, <1>6 DEF new

\* The state of the store: what it knows is in info.json and agrees with the log
\* and with the line on its way there.
FactInv ==
    /\ facts \in Stores /\ info \in Stores /\ old \in Stores
    /\ history \in Seq(Told) /\ line \in {<<>>} \cup {<<l>> : l \in Told}
    /\ reader \in {"idle", "reading", "apart"} /\ gap \in BOOLEAN /\ told \in 0 .. MaxTold
    /\ ~ gap => info = facts /\ Faithful(facts, history \o line)

\* One more line.
LEMMA FedIsFaithful ==
  ASSUME NEW known \in Stores, NEW H \in Seq(Told), NEW l \in Told, Faithful(known, H)
  PROVE  Faithful(Feed(known, l), H \o <<l>>)
<1> DEFINE next == Feed(known, l)
           G == H \o <<l>>
           N == Len(H)
<1>1. /\ N \in Nat /\ DOMAIN H = 1 .. N /\ DOMAIN G = 1 .. N + 1
      /\ G[N + 1] = l /\ \A i \in 1 .. N : G[i] = H[i]
  OBVIOUS
<1>2. /\ next \in Stores
      /\ \A m \in DOMAIN next : m # l.name => m \in DOMAIN known /\ next[m] = known[m]
  BY FeedFacts
<1>3. \/ /\ next = known
         /\ l.name \in DOMAIN known => originRank[l.origin] < originRank[known[l.name].origin]
      \/ next[l.name] = [value |-> l.value, origin |-> l.origin]
  BY FeedFacts
<1> HIDE DEF next, G, N
<1> SUFFICES ASSUME NEW m \in DOMAIN next, NEW i \in DOMAIN G,
                    LastOf(G, m, next[m].origin, i), G[i].fed
             PROVE  G[i].value = next[m].value
  BY DEF Faithful, next, G
<1>4. CASE m = l.name /\ next[m] = [value |-> l.value, origin |-> l.origin]
  <2>1. ~ (N + 1 > i)
    BY <1>1, <1>4 DEF LastOf
  <2>2. i = N + 1
    BY <1>1, <2>1
  <2>3. QED
    BY <1>1, <1>4, <2>2
<1>5. CASE ~ (m = l.name /\ next[m] = [value |-> l.value, origin |-> l.origin])
  <2>1. m \in DOMAIN known /\ next[m] = known[m]
    BY <1>2, <1>3, <1>5
  <2>2. m = l.name => l.origin # known[m].origin
    <3>1. m = l.name => originRank[l.origin] < originRank[known[m].origin]
      BY <1>3, <1>5, <2>1
    <3>2. known[m].origin \in Origin
      BY <2>1, StoreFacts DEF Entry
    <3>3. QED
      BY <3>1, <3>2 DEF Origin, originRank
  <2>3. i # N + 1
    BY <1>1, <2>1, <2>2 DEF LastOf
  <2>4. i \in 1 .. N
    BY <1>1, <2>3
  <2>5. LastOf(H, m, known[m].origin, i)
    BY <1>1, <2>1, <2>4 DEF LastOf
  <2>6. QED
    BY <1>1, <2>1, <2>4, <2>5 DEF Faithful
<1>6. QED
  BY <1>4, <1>5

\* A line that was not fed, whether or not another one is on its way.
LEMMA UnfedIsFaithful ==
  ASSUME NEW known \in Stores, NEW H \in Seq(Told), NEW l \in Told, ~ l.fed,
         NEW rest \in {<<>>} \cup {<<k>> : k \in Told}, Faithful(known, H \o rest)
  PROVE  Faithful(known, Append(H, l) \o rest)
<1> DEFINE G == Append(H, l) \o rest
           F == H \o rest
           N == Len(H)
<1> SUFFICES ASSUME NEW m \in DOMAIN known, NEW i \in DOMAIN G,
                    LastOf(G, m, known[m].origin, i), G[i].fed
             PROVE  G[i].value = known[m].value
  BY DEF Faithful
<1>1. N \in Nat /\ DOMAIN H = 1 .. N
  OBVIOUS
<1>2. CASE rest = <<>>
  <2>1. /\ G = Append(H, l) /\ F = H
        /\ DOMAIN G = 1 .. N + 1 /\ G[N + 1] = l /\ \A j \in 1 .. N : G[j] = H[j]
    BY <1>2
  <2> HIDE DEF G, F, N
  <2>2. i \in 1 .. N
    BY <1>1, <2>1
  <2>3. LastOf(F, m, known[m].origin, i)
    BY <1>1, <2>1, <2>2 DEF LastOf
  <2>4. Faithful(known, F)
    BY DEF F
  <2>5. QED
    BY <1>1, <2>1, <2>2, <2>3, <2>4 DEF Faithful
<1>3. ASSUME NEW k \in Told, rest = <<k>>
      PROVE  G[i].value = known[m].value
  <2>1. /\ DOMAIN G = 1 .. N + 2 /\ G[N + 1] = l /\ G[N + 2] = k
        /\ DOMAIN F = 1 .. N + 1 /\ F[N + 1] = k
        /\ \A j \in 1 .. N : G[j] = H[j] /\ F[j] = H[j]
    BY <1>3
  <2> HIDE DEF G, F, N
  <2>2. Faithful(known, F)
    BY DEF F
  <2>3. CASE i = N + 2
    <3>1. LastOf(F, m, known[m].origin, N + 1)
      BY <1>1, <2>1, <2>3 DEF LastOf
    <3>2. QED
      BY <1>1, <2>1, <2>2, <2>3, <3>1 DEF Faithful
  <2>4. CASE i # N + 2
    <3>1. i \in 1 .. N
      BY <1>1, <2>1, <2>4
    <3>2. \A j \in DOMAIN F : j > i /\ F[j].name = m => F[j].origin # known[m].origin
      <4>1. ASSUME NEW j \in 1 .. N, j > i, F[j].name = m
            PROVE  F[j].origin # known[m].origin
        BY <1>1, <2>1, <4>1 DEF LastOf
      <4>2. N + 2 > i /\ N + 2 \in DOMAIN G
        BY <1>1, <2>1, <3>1
      <4>3. F[N + 1].name = m => F[N + 1].origin # known[m].origin
        BY <2>1, <4>2 DEF LastOf
      <4>4. QED
        BY <1>1, <2>1, <4>1, <4>3
    <3>3. LastOf(F, m, known[m].origin, i)
      BY <1>1, <2>1, <3>1, <3>2 DEF LastOf
    <3>4. QED
      BY <1>1, <2>1, <2>2, <3>1, <3>3 DEF Faithful
  <2>5. QED
    BY <2>3, <2>4
<1>4. QED
  BY <1>2, <1>3

\* Every step keeps the invariant.
LEMMA FactsStep == FactInv /\ [FactNext]_factVars => FactInv'
<1> SUFFICES ASSUME FactInv, [FactNext]_factVars
             PROVE  FactInv'
  OBVIOUS
<1> DEFINE Types == /\ facts \in Stores /\ info \in Stores /\ old \in Stores
                    /\ history \in Seq(Told) /\ line \in {<<>>} \cup {<<l>> : l \in Told}
                    /\ reader \in {"idle", "reading", "apart"} /\ gap \in BOOLEAN
                    /\ told \in 0 .. MaxTold
           Kept  == ~ gap => info = facts /\ Faithful(facts, history \o line)
<1>1. Types /\ Kept
  BY DEF FactInv
<1>2. SUFFICES Types' /\ Kept'
  BY DEF FactInv
<1>3. Nothing \in Stores
  <2>1. DOMAIN Nothing = {} /\ Nothing \in [{} -> Entry]
    BY DEF Nothing
  <2>2. QED
    BY <2>1, StoreFacts
<1>4. history \o <<>> = history /\ history \o line \in Seq(Told)
  <2>1. line \in Seq(Told)
    <3>1. <<>> \in Seq(Told) /\ \A l \in Told : <<l>> \in Seq(Told)
      OBVIOUS
    <3>2. QED
      BY <1>1, <3>1
  <2>2. \A l \in Seq(Told) : history \o l \in Seq(Told)
    BY <1>1
  <2>3. QED
    BY <1>1, <2>1, <2>2
<1>5. ASSUME NEW l \in Told, Collect(l)
      PROVE  Types' /\ Kept'
  <2>1. /\ line = <<>> /\ facts' = Feed(facts, l) /\ info' = (IF facts' = facts THEN info ELSE facts')
        /\ line' = <<l>> /\ told' = told + 1 /\ told < MaxTold
        /\ UNCHANGED <<history, reader, old, gap>>
    BY <1>5 DEF Collect, save
  <2>2. facts' \in Stores
    BY <1>1, <2>1, FeedFacts
  <2>3. Types'
    BY <1>1, <2>1, <2>2, FactAssumption
  <2>4. Kept'
    BY <1>1, <1>4, <2>1, FedIsFaithful
  <2>5. QED
    BY <2>3, <2>4
<1>6. CASE LogLine
  <2>1. line # <<>> /\ line' = <<>> /\ UNCHANGED <<facts, info, reader, old, told>>
    BY <1>6 DEF LogLine
  <2>2. history \o line \in Seq(Told) /\ (history \o line) \o <<>> = history \o line
    BY <1>4
  <2>3. \/ history' = history \o line /\ gap' = gap
        \/ gap' = TRUE /\ history' = history
    BY <1>6 DEF LogLine
  <2>4. QED
    BY <1>1, <2>1, <2>2, <2>3
<1>7. CASE Board
  BY <1>1, <1>3, <1>7 DEF Board
<1>8. ASSUME NEW l \in Told, LogOther(l)
      PROVE  Types' /\ Kept'
  <2>1. /\ ~ l.fed /\ history' = Append(history, l) /\ told' = told + 1 /\ told < MaxTold
        /\ UNCHANGED <<facts, info, line, reader, old, gap>>
    BY <1>8 DEF LogOther
  <2>2. Types'
    BY <1>1, <2>1, FactAssumption
  <2>3. Kept'
    BY <1>1, <2>1, UnfedIsFaithful
  <2>4. QED
    BY <2>2, <2>3
<1>9. ASSUME NEW n \in Name, NEW v \in Value, FeedProbe(n, v)
      PROVE  Types' /\ Kept'
  <2>1. UNCHANGED <<history, line, reader>> /\ told' \in 0 .. MaxTold /\ "probe" \in Origin
    BY <1>1, <1>9, FactAssumption DEF FeedProbe, Origin
  <2>2. CASE reader = "reading"
    <3>1. /\ facts' = set(facts, n, v, "probe") /\ UNCHANGED <<old, gap>>
          /\ info' = (IF facts' = facts THEN info ELSE facts')
      BY <1>9, <2>2 DEF FeedProbe, save
    <3>2. facts \in Stores /\ "probe" \in Origin /\ facts' \in Stores
      <4>1. facts \in Stores /\ "probe" \in Origin
        BY <1>1, <2>1
      <4>2. QED
        BY <3>1, <4>1, SetFacts
    <3>3. ASSUME NEW m \in DOMAIN facts'
          PROVE  (m \in DOMAIN facts /\ facts'[m] = facts[m]) \/ facts'[m].origin = "probe"
      <4> DEFINE next == set(facts, n, v, "probe")
      <4>1. /\ \A k \in DOMAIN next : k # n => k \in DOMAIN facts /\ next[k] = facts[k]
            /\ next = facts \/ next[n] = [value |-> v, origin |-> "probe"]
        BY <3>2, SetFacts
      <4> HIDE DEF next
      <4>2. facts' = next
        BY <3>1 DEF next
      <4>3. QED
        BY <4>1, <4>2
    <3>4. \A i \in DOMAIN (history \o line) : (history \o line)[i].origin # "probe"
      <4>1. \A H \in Seq(Told) : \A i \in DOMAIN H : H[i] \in Told
        OBVIOUS
      <4>2. \A l \in Told : l.origin # "probe"
        BY DEF Told
      <4>3. QED
        BY <1>4, <4>1, <4>2
    <3>5. Faithful(facts, history \o line) => Faithful(facts', history \o line)
      BY <3>3, <3>4 DEF Faithful, LastOf
    <3>6. QED
      BY <1>1, <2>1, <3>1, <3>2, <3>5
  <2>3. CASE reader # "reading"
    <3>1. /\ old' = set(old, n, v, "probe") /\ gap' = TRUE /\ facts' = facts
          /\ info' = (IF old' = old THEN info ELSE old')
      BY <1>9, <2>3 DEF FeedProbe, save
    <3>2. old' \in Stores
      BY <1>1, <2>1, <3>1, SetFacts
    <3>3. QED
      BY <1>1, <2>1, <3>1, <3>2
  <2>4. QED
    BY <2>2, <2>3
<1>10. ASSUME NEW n \in 1 .. Len(history) + 1, Open(n)
      PROVE  Types' /\ Kept'
  <2>1. /\ facts' = SeedFromLog(info, n) /\ info' = (IF facts' = info THEN info ELSE facts')
        /\ line' = <<>> /\ gap' = (gap \/ line # <<>>) /\ UNCHANGED <<history, told>>
    BY <1>10 DEF Open, save
  <2>2. reader' \in {"idle", "reading", "apart"} /\ old' \in {old, facts, Nothing}
    BY <1>1, <1>10 DEF Open
  <2>3. facts' \in Stores
    <3>1. SubSeq(history, n, Len(history)) \in Seq(Told)
      BY <1>1
    <3>2. QED
      BY <1>1, <2>1, <3>1, ReplayedAll DEF SeedFromLog, Replayed
  <2>4. Types'
    BY <1>1, <1>3, <2>1, <2>2, <2>3
  <2>5. ASSUME ~ gap'
        PROVE  info' = facts' /\ Faithful(facts', history' \o line')
    <3>1. ~ gap /\ line = <<>>
      BY <1>1, <2>1, <2>5
    <3>2. Faithful(info, history) /\ history' \o line' = history
      BY <1>1, <1>4, <2>1, <3>1
    <3>3. Faithful(facts', history)
      BY <1>1, <2>1, <3>2, SeedKeeps
    <3>4. QED
      BY <2>1, <3>2, <3>3
  <2>6. QED
    BY <2>4, <2>5
<1>11. CASE UNCHANGED factVars
  BY <1>1, <1>11 DEF factVars
<1>12. QED
  BY <1>5, <1>6, <1>7, <1>8, <1>9, <1>10, <1>11 DEF FactNext

\* It holds at the start.
LEMMA InitFacts == FactInit => FactInv
<1> SUFFICES ASSUME FactInit
             PROVE  FactInv
  OBVIOUS
<1>1. DOMAIN Nothing = {} /\ Nothing \in [{} -> Entry]
  BY DEF Nothing
<1>2. Nothing \in Stores
  BY <1>1, StoreFacts
<1>3. <<>> \in Seq(Told) /\ <<>> \o <<>> = <<>> /\ DOMAIN facts = {}
  BY <1>1 DEF FactInit
<1>4. Faithful(facts, history \o line)
  BY <1>3 DEF FactInit, Faithful
<1>5. info = facts /\ told \in 0 .. MaxTold
  BY FactAssumption DEF FactInit
<1>6. QED
  BY <1>2, <1>3, <1>4, <1>5 DEF FactInit, FactInv

\* It always holds.
LEMMA FactsAlways == FactSpec => []FactInv
BY InitFacts, FactsStep, PTL DEF FactSpec

\* A collector that starts again knows what the last one knew, or better: SeedFromLog
\* reads info.json and feeds the end of the log, of any length, to the store (facts.go,
\* collector.go), lines that were never fed among them.  No name is forgotten, no value
\* goes back to an older one that was fed, and what is replaced was a fact of the log
\* and the log's last line about it is one that was not fed.
THEOREM FactsAreKept == FactSpec => FactsKept
<1>1. FactInv /\ [FactNext]_factVars =>
        [(\E n \in 1 .. Len(history) + 1 : Open(n)) /\ line = <<>> /\ ~ gap
           => \A n \in DOMAIN facts :
                 /\ n \in DOMAIN facts'
                 /\ \/ facts'[n] = facts[n]
                    \/ originRank[facts[n].origin] < originRank[facts'[n].origin]
                    \/ EndsUnfed(n)]_factVars
  <2> SUFFICES ASSUME FactInv, NEW n \in 1 .. Len(history) + 1, Open(n), line = <<>>, ~ gap,
                      NEW m \in DOMAIN facts
               PROVE  /\ m \in DOMAIN facts'
                      /\ \/ facts'[m] = facts[m]
                         \/ originRank[facts[m].origin] < originRank[facts'[m].origin]
                         \/ EndsUnfed(m)
    OBVIOUS
  <2>1. facts \in Stores /\ history \in Seq(Told) /\ history \o <<>> = history
    BY DEF FactInv
  <2>2. info = facts /\ Faithful(facts, history)
    BY <2>1 DEF FactInv
  <2>3. facts' = SeedFromLog(facts, n)
    BY <2>2 DEF Open
  <2>4. ASSUME NEW i \in DOMAIN history, LastOf(history, m, facts[m].origin, i),
               ~ history[i].fed
        PROVE  EndsUnfed(m)
    <3>1. history[i] \in Told
      BY <2>1
    <3>2. facts[m].origin = "log"
      BY <2>4, <3>1 DEF Told, LastOf
    <3>3. QED
      BY <2>4, <3>2 DEF EndsUnfed, LastOf
  <2>5. QED
    BY <2>1, <2>2, <2>3, <2>4, SeedKeeps
<1>2. QED
  BY <1>1, FactsAlways, PTL DEF FactSpec, FactsKept

-----------------------------------------------------------------------------
(* Lines. *)

\* What becomes of lines: as Written makes them.
LineType == [kind : {"line", "lump", "partial"}, text : Seq(Byte), logged : BOOLEAN, event : BOOLEAN]

\* A byte without the carriage returns, and a line with its newline.
PlainByte == [b \in Byte |-> IF b = "cr" THEN <<>> ELSE <<b>>]
LineBytes == [l \in LineType |-> l.text \o (IF l.kind = "line" THEN <<"nl">> ELSE <<>>)]
PlainFold == [a \in Seq(Byte) |-> [b \in Byte |-> WithoutCR(a, b)]]
BytesFold == [a \in Seq(Byte) |-> [l \in LineType |-> AndBytes(a, l)]]

\* The operators append what each element becomes.
LEMMA PlainAppends == Appends(PlainFold, PlainByte, Byte, Byte)
<1> SUFFICES ASSUME NEW a \in Seq(Byte), NEW b \in Byte
             PROVE  PlainByte[b] \in Seq(Byte) /\ PlainFold[a][b] = a \o PlainByte[b]
  BY DEF Appends
<1>1. <<>> \in Seq(Byte) /\ <<b>> \in Seq(Byte)
  OBVIOUS
<1>2. PlainByte[b] = IF b = "cr" THEN <<>> ELSE <<b>>
  BY DEF PlainByte
<1>3. PlainFold[a][b] = WithoutCR(a, b)
  BY DEF PlainFold
<1>4. QED
  BY <1>1, <1>2, <1>3 DEF WithoutCR

\* So do these.
LEMMA BytesAppends == Appends(BytesFold, LineBytes, Byte, LineType)
<1> SUFFICES ASSUME NEW a \in Seq(Byte), NEW l \in LineType
             PROVE  LineBytes[l] \in Seq(Byte) /\ BytesFold[a][l] = a \o LineBytes[l]
  BY DEF Appends
<1>1. <<>> \in Seq(Byte) /\ <<"nl">> \in Seq(Byte) /\ l.text \in Seq(Byte)
  BY DEF Byte, LineType
<1>2. LineBytes[l] = l.text \o (IF l.kind = "line" THEN <<"nl">> ELSE <<>>)
  BY DEF LineBytes
<1>3. BytesFold[a][l] = AndBytes(a, l)
  BY DEF BytesFold
<1>4. LineBytes[l] \in Seq(Byte)
  BY <1>1, <1>2, ConcatProperties
<1>5. QED
  BY <1>2, <1>3, <1>4 DEF AndBytes

\* Plain is such a fold.
LEMMA PlainIsFold ==
  ASSUME NEW seq \in Seq(Byte)
  PROVE  Plain(seq) = FoldOf(PlainFold, <<>>, seq)
<1> DEFINE n == Len(seq)
           Acc == Seq(Byte)
           nil == <<>>
           E(g) == g = [s \in SUBSET DOMAIN seq |->
                           IF s = {} THEN nil ELSE WithoutCR(g[s \ {Max(s)}], seq[Max(s)])]
           iter == CHOOSE g : E(g)
<1>1. n \in Nat /\ DOMAIN seq = 1 .. n /\ seq \in [1 .. n -> Byte]
  BY LenProperties
<1>2. Combines(PlainFold, Acc, Byte) /\ nil \in Acc
  BY PlainAppends, AppendsCombines
<1>3. \A a \in Acc, b \in Byte : PlainFold[a][b] = WithoutCR(a, b)
  BY DEF PlainFold
<1>4. Plain(seq) = iter[1 .. n]
  BY <1>1 DEF Plain, FoldLeft, MapThenFoldSet
<1> HIDE DEF Acc, nil, n
<1>5. \E g : E(g)
  <2>1. PICK g \in [SUBSET (1 .. n) -> Acc] : FoldsTo(g, PlainFold, nil, seq, 1 .. n)
    BY <1>1, <1>2, FoldExists
  <2>2. ASSUME NEW s \in SUBSET (1 .. n), s # {}
        PROVE  PlainFold[g[s \ {Max(s)}]][seq[Max(s)]] = WithoutCR(g[s \ {Max(s)}], seq[Max(s)])
    <3>1. Max(s) \in s
      BY <1>1, <2>2, MaxIsMember
    <3>2. g[s \ {Max(s)}] \in Acc /\ seq[Max(s)] \in Byte
      BY <1>1, <3>1
    <3>3. QED
      BY <1>3, <3>2
  <2>3. g = [s \in SUBSET (1 .. n) |->
                IF s = {} THEN nil ELSE WithoutCR(g[s \ {Max(s)}], seq[Max(s)])]
    BY <2>1, <2>2 DEF FoldsTo
  <2>4. QED
    BY <1>1, <2>3
<1>6. iter = [s \in SUBSET (1 .. n) |->
                IF s = {} THEN nil ELSE WithoutCR(iter[s \ {Max(s)}], seq[Max(s)])]
  <2>1. E(iter)
    <3> HIDE DEF E
    <3>1. QED
      BY <1>5
  <2> HIDE DEF iter
  <2>2. QED
    BY <1>1, <2>1
<1> HIDE DEF iter, E
<1>7. GoesOn(iter, PlainFold, Acc, nil, seq, n)
  <2>1. iter[1 .. 0] = nil
    BY <1>1, <1>6, FirstPlaces
  <2>2. ASSUME NEW i \in 1 .. n, iter[1 .. i - 1] \in Acc
        PROVE  iter[1 .. i] = PlainFold[iter[1 .. i - 1]][seq[i]]
    <3>1. /\ (1 .. i) \in SUBSET (1 .. n) /\ 1 .. i # {} /\ Max(1 .. i) = i
          /\ (1 .. i) \ {Max(1 .. i)} = 1 .. i - 1
      BY <1>1, FirstPlaces
    <3>2. iter[1 .. i] = WithoutCR(iter[(1 .. i) \ {Max(1 .. i)}], seq[Max(1 .. i)])
      BY <1>6, <3>1
    <3>3. seq[i] \in Byte
      BY <1>1
    <3>4. QED
      BY <1>3, <2>2, <3>1, <3>2, <3>3
  <2>3. QED
    BY <2>1, <2>2 DEF GoesOn
<1>8. iter[1 .. n] = FoldOf(PlainFold, nil, seq)
  BY <1>2, <1>7, FoldIs DEF n
<1>9. QED
  BY <1>4, <1>8 DEF nil

\* So is BytesOf.
LEMMA BytesIsFold ==
  ASSUME NEW seq \in Seq(LineType)
  PROVE  BytesOf(seq) = FoldOf(BytesFold, <<>>, seq)
<1> DEFINE n == Len(seq)
           Acc == Seq(Byte)
           nil == <<>>
           E(g) == g = [s \in SUBSET DOMAIN seq |->
                           IF s = {} THEN nil ELSE AndBytes(g[s \ {Max(s)}], seq[Max(s)])]
           iter == CHOOSE g : E(g)
<1>1. n \in Nat /\ DOMAIN seq = 1 .. n /\ seq \in [1 .. n -> LineType]
  BY LenProperties
<1>2. Combines(BytesFold, Acc, LineType) /\ nil \in Acc
  BY BytesAppends, AppendsCombines
<1>3. \A a \in Acc, l \in LineType : BytesFold[a][l] = AndBytes(a, l)
  BY DEF BytesFold
<1>4. BytesOf(seq) = iter[1 .. n]
  BY <1>1 DEF BytesOf, FoldLeft, MapThenFoldSet
<1> HIDE DEF Acc, nil, n
<1>5. \E g : E(g)
  <2>1. PICK g \in [SUBSET (1 .. n) -> Acc] : FoldsTo(g, BytesFold, nil, seq, 1 .. n)
    BY <1>1, <1>2, FoldExists
  <2>2. ASSUME NEW s \in SUBSET (1 .. n), s # {}
        PROVE  BytesFold[g[s \ {Max(s)}]][seq[Max(s)]] = AndBytes(g[s \ {Max(s)}], seq[Max(s)])
    <3>1. Max(s) \in s
      BY <1>1, <2>2, MaxIsMember
    <3>2. g[s \ {Max(s)}] \in Acc /\ seq[Max(s)] \in LineType
      BY <1>1, <3>1
    <3>3. QED
      BY <1>3, <3>2
  <2>3. g = [s \in SUBSET (1 .. n) |->
                IF s = {} THEN nil ELSE AndBytes(g[s \ {Max(s)}], seq[Max(s)])]
    BY <2>1, <2>2 DEF FoldsTo
  <2>4. QED
    BY <1>1, <2>3
<1>6. iter = [s \in SUBSET (1 .. n) |->
                IF s = {} THEN nil ELSE AndBytes(iter[s \ {Max(s)}], seq[Max(s)])]
  <2>1. E(iter)
    <3> HIDE DEF E
    <3>1. QED
      BY <1>5
  <2> HIDE DEF iter
  <2>2. QED
    BY <1>1, <2>1
<1> HIDE DEF iter, E
<1>7. GoesOn(iter, BytesFold, Acc, nil, seq, n)
  <2>1. iter[1 .. 0] = nil
    BY <1>1, <1>6, FirstPlaces
  <2>2. ASSUME NEW i \in 1 .. n, iter[1 .. i - 1] \in Acc
        PROVE  iter[1 .. i] = BytesFold[iter[1 .. i - 1]][seq[i]]
    <3>1. /\ (1 .. i) \in SUBSET (1 .. n) /\ 1 .. i # {} /\ Max(1 .. i) = i
          /\ (1 .. i) \ {Max(1 .. i)} = 1 .. i - 1
      BY <1>1, FirstPlaces
    <3>2. iter[1 .. i] = AndBytes(iter[(1 .. i) \ {Max(1 .. i)}], seq[Max(1 .. i)])
      BY <1>6, <3>1
    <3>3. seq[i] \in LineType
      BY <1>1
    <3>4. QED
      BY <1>3, <2>2, <3>1, <3>2, <3>3
  <2>3. QED
    BY <2>1, <2>2 DEF GoesOn
<1>8. iter[1 .. n] = FoldOf(BytesFold, nil, seq)
  BY <1>2, <1>7, FoldIs DEF n
<1>9. QED
  BY <1>4, <1>8 DEF nil

\* The lines of a buffer so far and what is left behind them, a byte more.
CutType == [lines : Seq(LineType), tail : Seq(Byte)]
NoLine  == [lines |-> <<>>, tail |-> <<>>]
CutFold == [a \in CutType |-> [b \in Byte |-> CutByte(a, b)]]

\* What is written is a line.
LEMMA WrittenType ==
  ASSUME NEW kind \in {"line", "lump", "partial"}, NEW text \in Seq(Byte), tap \in BOOLEAN
  PROVE  /\ Written(kind, text) \in LineType
         /\ Written(kind, text).kind = kind /\ Written(kind, text).text = text
<1>1. /\ (~ (kind # "partial" /\ tap /\ Has(text, "b"))) \in BOOLEAN
      /\ (kind # "partial" /\ Has(text, "a")) \in BOOLEAN
  OBVIOUS
<1>2. QED
  BY <1>1 DEF Written, LineType

\* A text is its end and what is before it, and only a carriage return is trimmed.
LEMMA TrimFacts ==
  ASSUME NEW text \in Seq(Byte)
  PROVE  /\ TrimCR(text) \in Seq(Byte)
         /\ TrimCR(text) = text \/ text = TrimCR(text) \o <<"cr">>
         /\ \A b : Has(TrimCR(text), b) => Has(text, b)
<1>1. CASE text = <<>> \/ Last(text) # "cr"
  BY <1>1 DEF TrimCR
<1>2. CASE text # <<>> /\ Last(text) = "cr"
  <2>1. TrimCR(text) = SubSeq(text, 1, Len(text) - 1)
    BY <1>2 DEF TrimCR, Front
  <2>2. text[Len(text)] = "cr" /\ Len(text) \in Nat \ {0}
    BY <1>2 DEF Last
  <2>3. /\ SubSeq(text, 1, Len(text) - 1) \in Seq(Byte)
        /\ Len(SubSeq(text, 1, Len(text) - 1)) = Len(text) - 1
        /\ \A i \in 1 .. Len(text) - 1 : SubSeq(text, 1, Len(text) - 1)[i] = text[i]
    <3> DEFINE m == Len(text) - 1
    <3>1. \A i \in 1 .. m : text[i] \in Byte
      BY <2>2, ElementOfSeq
    <3>2. m \in Nat
      BY <2>2
    <3> HIDE DEF m
    <3>3. /\ SubSeq(text, 1, m) \in Seq(Byte)
          /\ Len(SubSeq(text, 1, m)) = IF 1 <= m THEN m - 1 + 1 ELSE 0
          /\ \A i \in 1 .. m - 1 + 1 : SubSeq(text, 1, m)[i] = text[1 + i - 1]
      BY <3>1, <3>2, SubSeqProperties
    <3>4. /\ SubSeq(text, 1, m) \in Seq(Byte) /\ Len(SubSeq(text, 1, m)) = m
          /\ \A i \in 1 .. m : SubSeq(text, 1, m)[i] = text[i]
      BY <3>2, <3>3
    <3>5. QED
      BY <3>4 DEF m
  <2>4. text = SubSeq(text, 1, Len(text) - 1) \o <<"cr">>
    BY <2>2, <2>3
  <2>5. \A b : Has(SubSeq(text, 1, Len(text) - 1), b) => Has(text, b)
    BY <2>2, <2>3 DEF Has, ToSet
  <2>6. QED
    BY <2>1, <2>3, <2>4, <2>5
<1>3. QED
  BY <1>1, <1>2

\* A byte more leaves lines and a tail.
LEMMA CutByteType ==
  ASSUME tap \in BOOLEAN, NEW a \in CutType, NEW b \in Byte
  PROVE  /\ CutByte(a, b) \in CutType
         /\ b = "nl" => /\ CutByte(a, b).tail = <<>>
                        /\ CutByte(a, b).lines = a.lines \o <<Written("line", TrimCR(a.tail))>>
         /\ b # "nl" => /\ CutByte(a, b).tail = a.tail \o <<b>>
                        /\ CutByte(a, b).lines = a.lines
<1>1. a.lines \in Seq(LineType) /\ a.tail \in Seq(Byte)
  BY DEF CutType
<1>2. CASE b = "nl"
  <2>1. TrimCR(a.tail) \in Seq(Byte)
    BY <1>1, TrimFacts
  <2>2. Written("line", TrimCR(a.tail)) \in LineType
    BY <2>1, WrittenType
  <2> DEFINE w == Written("line", TrimCR(a.tail))
  <2>3. CutByte(a, b) = [lines |-> Append(a.lines, w), tail |-> <<>>]
    BY <1>2 DEF CutByte
  <2> HIDE DEF w
  <2>4. Append(a.lines, w) = a.lines \o <<w>> /\ Append(a.lines, w) \in Seq(LineType)
    BY <1>1, <2>2 DEF w
  <2>5. CutByte(a, b) \in CutType
    <3>1. \A q \in Seq(LineType), r \in Seq(Byte) : [lines |-> q, tail |-> r] \in CutType
      BY DEF CutType
    <3>2. <<>> \in Seq(Byte)
      OBVIOUS
    <3>3. QED
      BY <2>3, <2>4, <3>1, <3>2, Zenon
  <2>6. /\ CutByte(a, b).tail = <<>>
        /\ CutByte(a, b).lines = a.lines \o <<Written("line", TrimCR(a.tail))>>
    <3>1. \A q, r : [lines |-> q, tail |-> r].lines = q /\ [lines |-> q, tail |-> r].tail = r
      OBVIOUS
    <3>2. QED
      BY <2>3, <2>4, <3>1, Zenon DEF w
  <2>7. QED
    BY <1>2, <2>5, <2>6, Zenon
<1>3. CASE b # "nl"
  <2>1. CutByte(a, b) = [a EXCEPT !.tail = Append(@, b)]
    BY <1>3 DEF CutByte
  <2>2. Append(a.tail, b) = a.tail \o <<b>> /\ Append(a.tail, b) \in Seq(Byte)
    BY <1>1
  <2>3. QED
    BY <1>1, <1>3, <2>1, <2>2 DEF CutType
<1>4. QED
  BY <1>2, <1>3

\* So Cut is a fold.
LEMMA CutCombines ==
  ASSUME tap \in BOOLEAN
  PROVE  Combines(CutFold, CutType, Byte) /\ NoLine \in CutType
<1>1. \A a \in CutType, b \in Byte : CutFold[a][b] = CutByte(a, b)
  BY DEF CutFold
<1>2. \A a \in CutType, b \in Byte : CutFold[a][b] \in CutType
  BY <1>1, CutByteType
<1>3. <<>> \in Seq(LineType) /\ <<>> \in Seq(Byte)
  OBVIOUS
<1>4. QED
  BY <1>2, <1>3 DEF Combines, NoLine, CutType

\* And Cut, of lines and what is left behind them.
LEMMA CutIsFold ==
  ASSUME tap \in BOOLEAN, NEW seq \in Seq(Byte)
  PROVE  Cut(seq) = FoldOf(CutFold, NoLine, seq)
<1> DEFINE n == Len(seq)
           Acc == CutType
           nil == NoLine
           E(g) == g = [s \in SUBSET DOMAIN seq |->
                           IF s = {} THEN nil ELSE CutByte(g[s \ {Max(s)}], seq[Max(s)])]
           iter == CHOOSE g : E(g)
<1>1. n \in Nat /\ DOMAIN seq = 1 .. n /\ seq \in [1 .. n -> Byte]
  BY LenProperties
<1>2. Combines(CutFold, Acc, Byte) /\ nil \in Acc
  BY CutCombines
<1>3. \A a \in Acc, b \in Byte : CutFold[a][b] = CutByte(a, b)
  BY DEF CutFold
<1>4. Cut(seq) = iter[1 .. n]
  BY <1>1 DEF NoLine, Cut, FoldLeft, MapThenFoldSet
<1> HIDE DEF Acc, nil, n
<1>5. \E g : E(g)
  <2>1. PICK g \in [SUBSET (1 .. n) -> Acc] : FoldsTo(g, CutFold, nil, seq, 1 .. n)
    BY <1>1, <1>2, FoldExists
  <2>2. ASSUME NEW s \in SUBSET (1 .. n), s # {}
        PROVE  CutFold[g[s \ {Max(s)}]][seq[Max(s)]] = CutByte(g[s \ {Max(s)}], seq[Max(s)])
    <3>1. Max(s) \in s
      BY <1>1, <2>2, MaxIsMember
    <3>2. g[s \ {Max(s)}] \in Acc /\ seq[Max(s)] \in Byte
      BY <1>1, <3>1
    <3>3. QED
      BY <1>3, <3>2
  <2>3. g = [s \in SUBSET (1 .. n) |->
                IF s = {} THEN nil ELSE CutByte(g[s \ {Max(s)}], seq[Max(s)])]
    BY <2>1, <2>2 DEF FoldsTo
  <2>4. QED
    BY <1>1, <2>3
<1>6. iter = [s \in SUBSET (1 .. n) |->
                IF s = {} THEN nil ELSE CutByte(iter[s \ {Max(s)}], seq[Max(s)])]
  <2>1. E(iter)
    <3> HIDE DEF E
    <3>1. QED
      BY <1>5
  <2> HIDE DEF iter
  <2>2. QED
    BY <1>1, <2>1
<1> HIDE DEF iter, E
<1>7. GoesOn(iter, CutFold, Acc, nil, seq, n)
  <2>1. iter[1 .. 0] = nil
    BY <1>1, <1>6, FirstPlaces
  <2>2. ASSUME NEW i \in 1 .. n, iter[1 .. i - 1] \in Acc
        PROVE  iter[1 .. i] = CutFold[iter[1 .. i - 1]][seq[i]]
    <3>1. /\ (1 .. i) \in SUBSET (1 .. n) /\ 1 .. i # {} /\ Max(1 .. i) = i
          /\ (1 .. i) \ {Max(1 .. i)} = 1 .. i - 1
      BY <1>1, FirstPlaces
    <3>2. iter[1 .. i] = CutByte(iter[(1 .. i) \ {Max(1 .. i)}], seq[Max(1 .. i)])
      BY <1>6, <3>1
    <3>3. seq[i] \in Byte
      BY <1>1
    <3>4. QED
      BY <1>3, <2>2, <3>1, <3>2, <3>3
  <2>3. QED
    BY <2>1, <2>2 DEF GoesOn
<1>8. iter[1 .. n] = FoldOf(CutFold, nil, seq)
  BY <1>2, <1>7, FoldIs DEF n
<1>9. QED
  BY <1>4, <1>8 DEF nil

\* Texts put together are one, in whatever order they are.
LEMMA Texts == /\ \A p, q \in Seq(Byte) : p \o q \in Seq(Byte)
               /\ \A p, q, r \in Seq(Byte) : (p \o q) \o r = p \o (q \o r)
BY Concats

\* Plain takes a text part by part, and leaves no carriage return.
LEMMA PlainFacts ==
  /\ \A u \in Seq(Byte) : Plain(u) \in Seq(Byte)
  /\ \A u, v \in Seq(Byte) : Plain(u \o v) = Plain(u) \o Plain(v)
  /\ Plain(<<"cr">>) = <<>> /\ Plain(<<>>) = <<>>
<1>1. /\ FoldOf(PlainFold, <<>>, <<>>) = <<>>
      /\ \A t \in Seq(Byte) : FoldOf(PlainFold, <<>>, t) \in Seq(Byte)
      /\ \A e \in Byte : FoldOf(PlainFold, <<>>, <<e>>) = PlainByte[e]
      /\ \A s, t \in Seq(Byte) :
            FoldOf(PlainFold, <<>>, s \o t) = FoldOf(PlainFold, <<>>, s) \o FoldOf(PlainFold, <<>>, t)
  <2> DEFINE Elem == Byte
  <2>1. Appends(PlainFold, PlainByte, Byte, Elem)
    BY PlainAppends
  <2> HIDE DEF Elem
  <2>2. /\ FoldOf(PlainFold, <<>>, <<>>) = <<>>
        /\ \A t \in Seq(Elem) : FoldOf(PlainFold, <<>>, t) \in Seq(Byte)
        /\ \A e \in Elem : FoldOf(PlainFold, <<>>, <<e>>) = PlainByte[e]
        /\ \A s, t \in Seq(Elem) :
              FoldOf(PlainFold, <<>>, s \o t)
              = FoldOf(PlainFold, <<>>, s) \o FoldOf(PlainFold, <<>>, t)
    BY <2>1, FoldConcat
  <2>3. QED
    BY <2>2 DEF Elem
<1>2. \A u, v \in Seq(Byte) : u \o v \in Seq(Byte)
  BY ConcatProperties
<1>3. "cr" \in Byte /\ <<"cr">> \in Seq(Byte) /\ <<>> \in Seq(Byte) /\ PlainByte["cr"] = <<>>
  BY DEF Byte, PlainByte
<1>4. \A u \in Seq(Byte) : Plain(u) = FoldOf(PlainFold, <<>>, u)
  BY PlainIsFold
<1>5. \A u, v \in Seq(Byte) : Plain(u \o v) = Plain(u) \o Plain(v)
  BY <1>1, <1>2, <1>4, Zenon
<1>6. Plain(<<"cr">>) = <<>> /\ Plain(<<>>) = <<>>
  BY <1>1, <1>3, <1>4, Zenon
<1>7. QED
  BY <1>1, <1>4, <1>5, <1>6, Zenon

\* BytesOf takes lines part by part.
LEMMA BytesFacts ==
  /\ \A u \in Seq(LineType) : BytesOf(u) \in Seq(Byte)
  /\ \A u, v \in Seq(LineType) : BytesOf(u \o v) = BytesOf(u) \o BytesOf(v)
  /\ \A l \in LineType : BytesOf(<<l>>) = l.text \o (IF l.kind = "line" THEN <<"nl">> ELSE <<>>)
  /\ BytesOf(<<>>) = <<>>
<1>1. /\ FoldOf(BytesFold, <<>>, <<>>) = <<>>
      /\ \A t \in Seq(LineType) : FoldOf(BytesFold, <<>>, t) \in Seq(Byte)
      /\ \A e \in LineType : FoldOf(BytesFold, <<>>, <<e>>) = LineBytes[e]
      /\ \A s, t \in Seq(LineType) :
            FoldOf(BytesFold, <<>>, s \o t) = FoldOf(BytesFold, <<>>, s) \o FoldOf(BytesFold, <<>>, t)
  BY BytesAppends, FoldConcat
<1>2. \A u, v \in Seq(LineType) : u \o v \in Seq(LineType)
  BY ConcatProperties
<1>3. <<>> \in Seq(LineType) /\ \A l \in LineType : <<l>> \in Seq(LineType)
  OBVIOUS
<1>4. \A u \in Seq(LineType) : BytesOf(u) = FoldOf(BytesFold, <<>>, u)
  BY BytesIsFold
<1>5. \A l \in LineType : LineBytes[l] = l.text \o (IF l.kind = "line" THEN <<"nl">> ELSE <<>>)
  BY DEF LineBytes
<1>6. \A u, v \in Seq(LineType) : BytesOf(u \o v) = BytesOf(u) \o BytesOf(v)
  BY <1>1, <1>2, <1>4, Zenon
<1>7. \A l \in LineType : BytesOf(<<l>>) = l.text \o (IF l.kind = "line" THEN <<"nl">> ELSE <<>>)
  BY <1>1, <1>3, <1>4, <1>5, Zenon
<1>8. \A u \in Seq(LineType) : BytesOf(u) \in Seq(Byte)
  BY <1>1, <1>4, Zenon
<1>9. BytesOf(<<>>) = <<>>
  BY <1>1, <1>3, <1>4, Zenon
<1>10. QED
  BY <1>6, <1>7, <1>8, <1>9, Zenon

\* What Cut makes of a buffer: the bytes are those of the buffer, and no newline is
\* left in a line or in the tail.
CutWell(buf, c) ==
    /\ c \in CutType
    /\ Plain(BytesOf(c.lines) \o c.tail) = Plain(buf)
    /\ ~ Has(c.tail, "nl") /\ Len(c.tail) <= Len(buf)
    /\ \A i \in DOMAIN c.lines : ~ Has(c.lines[i].text, "nl")

\* A byte more.
LEMMA CutNext ==
  ASSUME tap \in BOOLEAN, NEW buf \in Seq(Byte), NEW c, CutWell(buf, c), NEW b \in Byte
  PROVE  CutWell(buf \o <<b>>, CutByte(c, b))
<1> DEFINE d == CutByte(c, b)
           B == BytesOf(c.lines)
           T == c.tail
<1>1. /\ c \in CutType /\ c.lines \in Seq(LineType) /\ T \in Seq(Byte) /\ B \in Seq(Byte)
      /\ <<b>> \in Seq(Byte) /\ Plain(B \o T) = Plain(buf)
      /\ ~ Has(T, "nl") /\ Len(T) <= Len(buf) /\ Len(buf \o <<b>>) = Len(buf) + 1
      /\ \A i \in DOMAIN c.lines : ~ Has(c.lines[i].text, "nl")
  <2>1. c \in CutType /\ Plain(B \o T) = Plain(buf) /\ ~ Has(T, "nl") /\ Len(T) <= Len(buf)
    BY DEF CutWell
  <2>2. c.lines \in Seq(LineType) /\ T \in Seq(Byte)
    BY <2>1 DEF CutType
  <2>3. B \in Seq(Byte)
    BY <2>2, BytesFacts, Zenon
  <2>4. <<b>> \in Seq(Byte) /\ Len(buf \o <<b>>) = Len(buf) + 1
    OBVIOUS
  <2>5. QED
    BY <2>1, <2>2, <2>3, <2>4, Zenon DEF CutWell
<1>2. /\ d \in CutType
      /\ b = "nl" => d.tail = <<>> /\ d.lines = c.lines \o <<Written("line", TrimCR(T))>>
      /\ b # "nl" => d.tail = T \o <<b>> /\ d.lines = c.lines
  BY <1>1, CutByteType, Zenon
<1>3. /\ \A p, q \in Seq(Byte) : p \o q \in Seq(Byte)
      /\ \A p, q, r \in Seq(Byte) : (p \o q) \o r = p \o (q \o r)
  BY Texts
<1>4. Plain(buf \o <<b>>) = Plain(B \o T) \o Plain(<<b>>)
  <2>1. Plain(buf \o <<b>>) = Plain(buf) \o Plain(<<b>>)
    BY <1>1, PlainFacts, Zenon
  <2>2. QED
    BY <1>1, <2>1, Zenon
<1> HIDE DEF d, B, T
<1>5. CASE b = "nl"
  <2> DEFINE w == Written("line", TrimCR(T))
  <2>1. /\ TrimCR(T) \in Seq(Byte) /\ w \in LineType /\ w.kind = "line" /\ w.text = TrimCR(T)
        /\ ~ Has(TrimCR(T), "nl")
    BY <1>1, TrimFacts, WrittenType
  <2> HIDE DEF w
  <2>2. d.tail = <<>> /\ d.lines = c.lines \o <<w>>
    BY <1>2, <1>5 DEF w
  <2>3. BytesOf(d.lines) = B \o (TrimCR(T) \o <<b>>)
    <3>1. <<w>> \in Seq(LineType)
      BY <2>1
    <3>2. BytesOf(<<w>>) = w.text \o (IF w.kind = "line" THEN <<"nl">> ELSE <<>>)
      BY <2>1, BytesFacts, Zenon
    <3>3. BytesOf(<<w>>) = TrimCR(T) \o <<b>>
      BY <1>5, <2>1, <3>2
    <3>4. QED
      BY <1>1, <2>2, <3>1, <3>3, BytesFacts, Zenon DEF B
  <2>4. Plain(TrimCR(T)) = Plain(T)
    <3>1. CASE T = TrimCR(T) \o <<"cr">>
      <4>1. <<"cr">> \in Seq(Byte)
        BY DEF Byte
      <4>2. Plain(T) = Plain(TrimCR(T)) \o <<>>
        BY <2>1, <3>1, <4>1, PlainFacts, Zenon
      <4>3. Plain(TrimCR(T)) \in Seq(Byte)
        BY <2>1, PlainFacts, Zenon
      <4>4. QED
        BY <4>2, <4>3, ConcatEmptySeq
    <3>2. CASE TrimCR(T) = T
      BY <3>2, Zenon
    <3>3. QED
      BY <1>1, <3>1, <3>2, TrimFacts, Zenon
  <2>5. Plain(BytesOf(d.lines)) = Plain(buf \o <<b>>)
    <3>1. Plain(BytesOf(d.lines)) = Plain(B) \o (Plain(TrimCR(T)) \o Plain(<<b>>))
      <4>1. TrimCR(T) \o <<b>> \in Seq(Byte)
        BY <1>1, <1>3, <2>1, Zenon
      <4>2. Plain(B \o (TrimCR(T) \o <<b>>)) = Plain(B) \o Plain(TrimCR(T) \o <<b>>)
        BY <1>1, <4>1, PlainFacts, Zenon
      <4>3. Plain(TrimCR(T) \o <<b>>) = Plain(TrimCR(T)) \o Plain(<<b>>)
        BY <1>1, <2>1, PlainFacts, Zenon
      <4>4. QED
        BY <2>3, <4>2, <4>3, Zenon
    <3>2. Plain(B \o T) = Plain(B) \o Plain(T)
      BY <1>1, PlainFacts, Zenon
    <3>3. (Plain(B) \o Plain(T)) \o Plain(<<b>>) = Plain(B) \o (Plain(T) \o Plain(<<b>>))
      <4>1. Plain(B) \in Seq(Byte) /\ Plain(T) \in Seq(Byte) /\ Plain(<<b>>) \in Seq(Byte)
        BY <1>1, PlainFacts, Zenon
      <4>2. \A p, q, r \in Seq(Byte) : (p \o q) \o r = p \o (q \o r)
        BY <1>3
      <4> DEFINE x == Plain(B)
                 y == Plain(T)
                 z == Plain(<<b>>)
      <4> HIDE DEF x, y, z
      <4>3. (x \o y) \o z = x \o (y \o z)
        BY <4>1, <4>2 DEF x, y, z
      <4>4. QED
        BY <4>3 DEF x, y, z
    <3>4. QED
      BY <1>4, <2>4, <3>1, <3>2, <3>3, Zenon
  <2>6. BytesOf(d.lines) \o d.tail = BytesOf(d.lines)
    <3>1. BytesOf(d.lines) \in Seq(Byte)
      <4>1. TrimCR(T) \o <<b>> \in Seq(Byte)
        BY <1>1, <1>3, <2>1, Zenon
      <4>2. QED
        BY <1>1, <1>3, <2>3, <4>1
    <3>2. QED
      BY <2>2, <3>1, ConcatEmptySeq
  <2>7. ~ Has(d.tail, "nl") /\ Len(d.tail) <= Len(buf \o <<b>>)
    <3>1. Len(d.tail) = 0 /\ ~ Has(d.tail, "nl")
      BY <2>2 DEF Has, ToSet
    <3>2. Len(buf) \in Nat
      OBVIOUS
    <3>3. QED
      BY <1>1, <3>1, <3>2
  <2>8. \A i \in DOMAIN d.lines : ~ Has(d.lines[i].text, "nl")
    <3>1. \A i \in DOMAIN (c.lines \o <<w>>) :
             \/ i \in DOMAIN c.lines /\ (c.lines \o <<w>>)[i] = c.lines[i]
             \/ (c.lines \o <<w>>)[i] = w
      BY <1>1
    <3>2. QED
      BY <1>1, <2>1, <2>2, <3>1, Zenon
  <2>9. QED
    BY <1>2, <2>5, <2>6, <2>7, <2>8, Zenon DEF CutWell, d
<1>6. CASE b # "nl"
  <2>1. d.tail = T \o <<b>> /\ d.lines = c.lines
    BY <1>2, <1>6
  <2>2. Plain(BytesOf(d.lines) \o d.tail) = Plain(buf \o <<b>>)
    <3>1. BytesOf(d.lines) \o d.tail = (B \o T) \o <<b>>
      <4>1. (B \o T) \o <<b>> = B \o (T \o <<b>>)
        BY <1>1, <1>3, Zenon
      <4>2. BytesOf(d.lines) = B
        BY <2>1 DEF B
      <4>3. QED
        BY <2>1, <4>1, <4>2, Zenon
    <3>2. B \o T \in Seq(Byte)
      BY <1>1, <1>3, Zenon
    <3>3. Plain((B \o T) \o <<b>>) = Plain(B \o T) \o Plain(<<b>>)
      BY <1>1, <3>2, PlainFacts, Zenon
    <3>4. QED
      BY <1>4, <3>1, <3>3, Zenon
  <2>3. ~ Has(d.tail, "nl") /\ Len(d.tail) <= Len(buf \o <<b>>)
    <3>1. Len(T \o <<b>>) = Len(T) + 1 /\ Len(T) \in Nat /\ Len(buf) \in Nat
      BY <1>1
    <3>2. \A i \in DOMAIN (T \o <<b>>) : (i \in DOMAIN T /\ (T \o <<b>>)[i] = T[i]) \/ (T \o <<b>>)[i] = b
      BY <1>1
    <3>3. ~ Has(T \o <<b>>, "nl")
      BY <1>1, <1>6, <3>2 DEF Has, ToSet
    <3>4. QED
      BY <1>1, <2>1, <3>1, <3>3
  <2>4. QED
    BY <1>1, <1>2, <2>1, <2>2, <2>3, Zenon DEF CutWell, d
<1>7. QED
  BY <1>5, <1>6 DEF d

\* So it is of the whole buffer.
LEMMA CutIsWell ==
  ASSUME tap \in BOOLEAN, NEW buf \in Seq(Byte)
  PROVE  CutWell(buf, Cut(buf))
<1> DEFINE S == {u \in Seq(Byte) : CutWell(u, FoldOf(CutFold, NoLine, u))}
<1>1. Combines(CutFold, CutType, Byte) /\ NoLine \in CutType
  BY CutCombines
<1>2. <<>> \in S
  <2>1. FoldOf(CutFold, NoLine, <<>>) = NoLine
    BY <1>1, FoldEmpty
  <2>2. NoLine.lines = <<>> /\ NoLine.tail = <<>>
    BY DEF NoLine
  <2>3. BytesOf(NoLine.lines) \o NoLine.tail = <<>>
    <3>1. <<>> \o <<>> = <<>>
      OBVIOUS
    <3>2. QED
      BY <2>2, <3>1, BytesFacts, Zenon
  <2>4. ~ Has(<<>>, "nl") /\ Len(<<>>) <= Len(<<>>) /\ DOMAIN NoLine.lines = {}
    BY <2>2 DEF Has, ToSet
  <2>5. CutWell(<<>>, NoLine)
    BY <1>1, <2>2, <2>3, <2>4, Zenon DEF CutWell
  <2>6. <<>> \in Seq(Byte)
    OBVIOUS
  <2>7. QED
    BY <2>1, <2>5, <2>6
<1>3. ASSUME NEW u \in Seq(Byte), NEW b \in Byte, u \in S
      PROVE  u \o <<b>> \in S
  <2>1. CutWell(u, FoldOf(CutFold, NoLine, u))
    BY <1>3
  <2>2. /\ FoldOf(CutFold, NoLine, u) \in CutType
        /\ FoldOf(CutFold, NoLine, u \o <<b>>) = CutFold[FoldOf(CutFold, NoLine, u)][b]
    BY <1>1, FoldAppend
  <2>3. CutFold[FoldOf(CutFold, NoLine, u)][b] = CutByte(FoldOf(CutFold, NoLine, u), b)
    BY <2>2 DEF CutFold
  <2>4. CutWell(u \o <<b>>, CutByte(FoldOf(CutFold, NoLine, u), b))
    BY <2>1, CutNext
  <2>5. u \o <<b>> \in Seq(Byte)
    BY ConcatProperties
  <2>6. QED
    BY <2>2, <2>3, <2>4, <2>5
<1>4. buf \in S
  <2> HIDE DEF S
  <2>1. QED
    BY <1>2, <1>3, AppendInduction
<1>5. Cut(buf) = FoldOf(CutFold, NoLine, buf)
  BY CutIsFold
<1>6. QED
  BY <1>4, <1>5

\* The state of the assembler, with what NothingLost says of it.
FeedTypes == tail \in Seq(Byte) /\ lines \in Seq(LineType) /\ got \in Seq(Byte) /\ tap \in BOOLEAN
FeedInv   == FeedTypes /\ NothingLost

\* A chunk is a sequence of bytes.
LEMMA ChunkIsSeq ==
  ASSUME NEW data \in Chunk
  PROVE  data \in Seq(Byte)
<1>1. PICK n \in 1 .. MaxChunk : data \in [1 .. n -> Byte]
  BY DEF Chunk
<1>2. n \in Nat
  BY <1>1, FeedAssumption
<1>3. QED
  BY <1>1, <1>2

\* What leaves the assembler, put behind what left it before, with the tail that is
\* left, is what was there with the bytes that came.
LEMMA FedOn ==
  ASSUME NEW first \in Seq(LineType), NEW rest \in Seq(Byte), NEW all \in Seq(Byte),
         NEW data \in Seq(Byte), NEW more \in Seq(LineType), NEW left \in Seq(Byte),
         Plain(BytesOf(first) \o rest) = Plain(all),
         Plain(BytesOf(more) \o left) = Plain(rest \o data)
  PROVE  Plain(BytesOf(first \o more) \o left) = Plain(all \o data)
<1> DEFINE A == BytesOf(first)
           M == BytesOf(more)
<1>1. A \in Seq(Byte) /\ M \in Seq(Byte) /\ BytesOf(first \o more) = A \o M
  BY BytesFacts, Zenon
<1>2. \A p, q \in Seq(Byte) : p \o q \in Seq(Byte) /\ Plain(p \o q) = Plain(p) \o Plain(q)
  BY Texts, PlainFacts, Zenon
<1>3. \A p, q, r \in Seq(Byte) : (p \o q) \o r = p \o (q \o r)
  BY Texts, Zenon
<1>4. Plain(A \o rest) = Plain(all) /\ Plain(M \o left) = Plain(rest \o data)
  OBVIOUS
<1> HIDE DEF A, M
<1>5. Plain((A \o M) \o left) = Plain(A) \o Plain(M \o left)
  <2>1. (A \o M) \o left = A \o (M \o left) /\ M \o left \in Seq(Byte)
    <3>1. A \in Seq(Byte) /\ M \in Seq(Byte) /\ left \in Seq(Byte)
      BY <1>1
    <3>2. M \o left \in Seq(Byte)
      BY <1>2, <3>1
    <3>3. (A \o M) \o left = A \o (M \o left)
      <4>1. \A r \in Seq(Byte) : (A \o M) \o r = A \o (M \o r)
        BY <1>3, <3>1
      <4>2. QED
        BY <3>1, <4>1, Zenon
    <3>4. QED
      BY <3>2, <3>3, Zenon
  <2>2. Plain(A \o (M \o left)) = Plain(A) \o Plain(M \o left)
    BY <1>1, <1>2, <2>1
  <2>3. QED
    BY <2>1, <2>2, Zenon
<1>6. Plain(A) \o Plain(rest \o data) = Plain(A \o (rest \o data))
  BY <1>1, <1>2
<1>7. Plain(A \o (rest \o data)) = Plain((A \o rest) \o data)
  <2>1. \A r \in Seq(Byte) : (A \o rest) \o r = A \o (rest \o r)
    BY <1>1, <1>3
  <2>2. (A \o rest) \o data = A \o (rest \o data)
    BY <2>1, Zenon
  <2>3. QED
    BY <2>2, Zenon
<1>8. Plain((A \o rest) \o data) = Plain(A \o rest) \o Plain(data)
  BY <1>1, <1>2
<1>9. Plain(all \o data) = Plain(all) \o Plain(data)
  BY <1>2
<1>10. QED
  BY <1>1, <1>4, <1>5, <1>6, <1>7, <1>8, <1>9

\* Every step keeps it.
LEMMA FeedStep == FeedInv /\ [FeedNext]_feedVars => FeedInv'
<1> SUFFICES ASSUME FeedInv, [FeedNext]_feedVars
             PROVE  FeedInv'
  OBVIOUS
<1>1. /\ tail \in Seq(Byte) /\ lines \in Seq(LineType) /\ got \in Seq(Byte) /\ tap \in BOOLEAN
      /\ Plain(BytesOf(lines) \o tail) = Plain(got)
      /\ ~ Has(tail, "nl") /\ Len(tail) <= MaxTail
      /\ \A i \in DOMAIN lines : lines[i].kind # "lump" => ~ Has(lines[i].text, "nl")
  BY DEF FeedInv, FeedTypes, NothingLost
<1>2. ASSUME NEW more \in Seq(LineType),
             \A i \in DOMAIN more : more[i].kind # "lump" => ~ Has(more[i].text, "nl"),
             lines' = lines \o more
      PROVE  /\ lines' \in Seq(LineType)
             /\ \A i \in DOMAIN lines' : lines'[i].kind # "lump" => ~ Has(lines'[i].text, "nl")
  <2>1. \A i \in DOMAIN (lines \o more) :
           \/ i \in DOMAIN lines /\ (lines \o more)[i] = lines[i]
           \/ \E j \in DOMAIN more : (lines \o more)[i] = more[j]
    BY <1>1
  <2>2. lines \o more \in Seq(LineType)
    BY <1>1, ConcatProperties
  <2>3. QED
    BY <1>1, <1>2, <2>1, <2>2, Zenon
<1>3. ~ Has(<<>>, "nl") /\ Len(<<>>) = 0 /\ <<>> \in Seq(Byte) /\ MaxTail \in Nat
  BY FeedAssumption DEF Has, ToSet
<1>4. ASSUME NEW data \in Chunk, Turn(data)
      PROVE  FeedInv'
  <2>1. data \in Seq(Byte)
    BY ChunkIsSeq
  <2> DEFINE buf == tail \o data
  <2>2. buf \in Seq(Byte) /\ Len(buf) \in Nat /\ got \o data \in Seq(Byte)
    BY <1>1, <2>1, ConcatProperties
  <2>3. /\ got' = got \o data /\ lines' = lines \o feed(data).lines
        /\ tail' = feed(data).tail /\ tap' = tap
    BY <1>4 DEF Turn
  <2>4. /\ Len(buf) > MaxTail =>
              feed(data) = [lines |-> <<Written("lump", buf)>>, tail |-> <<>>]
        /\ ~ Len(buf) > MaxTail => feed(data) = Cut(buf)
    BY DEF feed
  <2> HIDE DEF buf
  <2>5. CASE Len(buf) > MaxTail
    <3> DEFINE w == Written("lump", buf)
    <3>1. w \in LineType /\ w.kind = "lump" /\ w.text = buf
      BY <1>1, <2>2, WrittenType
    <3> HIDE DEF w
    <3>2. lines' = lines \o <<w>> /\ tail' = <<>>
      <4>1. feed(data) = [lines |-> <<w>>, tail |-> <<>>]
        BY <2>4, <2>5 DEF w
      <4>2. \A q, r : [lines |-> q, tail |-> r].lines = q /\ [lines |-> q, tail |-> r].tail = r
        OBVIOUS
      <4>3. QED
        BY <2>3, <4>1, <4>2, Zenon
    <3>3. <<w>> \in Seq(LineType) /\ \A i \in DOMAIN <<w>> : <<w>>[i] = w
      BY <3>1
    <3>4. BytesOf(<<w>>) \o <<>> = buf
      <4>1. BytesOf(<<w>>) = w.text \o (IF w.kind = "line" THEN <<"nl">> ELSE <<>>)
        BY <3>1, BytesFacts, Zenon
      <4>2. BytesOf(<<w>>) = buf \o <<>>
        BY <3>1, <4>1
      <4>3. buf \o <<>> = buf
        BY <2>2, ConcatEmptySeq
      <4>4. QED
        BY <4>2, <4>3
    <3>5. Plain(BytesOf(lines \o <<w>>) \o <<>>) = Plain(got \o data)
      <4> DEFINE more == <<w>>
                 left == <<>>
      <4>1. /\ more \in Seq(LineType) /\ left \in Seq(Byte)
            /\ Plain(BytesOf(more) \o left) = Plain(tail \o data)
        BY <1>3, <3>3, <3>4 DEF buf
      <4> HIDE DEF more, left
      <4>2. Plain(BytesOf(lines \o more) \o left) = Plain(got \o data)
        BY <1>1, <2>1, <4>1, FedOn
      <4>3. QED
        BY <4>2 DEF more, left
    <3>6. /\ lines' \in Seq(LineType)
          /\ \A i \in DOMAIN lines' : lines'[i].kind # "lump" => ~ Has(lines'[i].text, "nl")
      BY <1>2, <3>1, <3>2, <3>3
    <3>7. FeedTypes'
      BY <1>1, <1>3, <2>2, <2>3, <3>2, <3>6 DEF FeedTypes
    <3>8. Plain(BytesOf(lines') \o tail') = Plain(got')
      BY <2>3, <3>2, <3>5
    <3>9. ~ Has(tail', "nl") /\ Len(tail') <= MaxTail
      BY <1>3, <3>2
    <3>10. QED
      BY <3>6, <3>7, <3>8, <3>9 DEF FeedInv, NothingLost
  <2>6. CASE ~ Len(buf) > MaxTail
    <3> DEFINE c == Cut(buf)
    <3>1. CutWell(buf, c)
      BY <1>1, <2>2, CutIsWell
    <3>2. lines' = lines \o c.lines /\ tail' = c.tail
      BY <2>3, <2>4, <2>6
    <3> HIDE DEF c
    <3>3. /\ c.lines \in Seq(LineType) /\ c.tail \in Seq(Byte)
          /\ Plain(BytesOf(c.lines) \o c.tail) = Plain(buf)
          /\ ~ Has(c.tail, "nl") /\ Len(c.tail) <= Len(buf)
          /\ \A i \in DOMAIN c.lines : ~ Has(c.lines[i].text, "nl")
      BY <3>1 DEF CutWell, CutType
    <3>4. Plain(BytesOf(lines \o c.lines) \o c.tail) = Plain(got \o data)
      <4>1. Plain(BytesOf(c.lines) \o c.tail) = Plain(tail \o data)
        BY <3>3 DEF buf
      <4>2. QED
        BY <1>1, <2>1, <3>3, <4>1, FedOn
    <3>5. /\ lines' \in Seq(LineType)
          /\ \A i \in DOMAIN lines' : lines'[i].kind # "lump" => ~ Has(lines'[i].text, "nl")
      BY <1>2, <3>2, <3>3
    <3>6. FeedTypes'
      BY <1>1, <2>2, <2>3, <3>2, <3>3, <3>5 DEF FeedTypes
    <3>7. Plain(BytesOf(lines') \o tail') = Plain(got')
      BY <2>3, <3>2, <3>4
    <3>8. ~ Has(tail', "nl") /\ Len(tail') <= MaxTail
      <4>1. Len(c.tail) \in Nat
        BY <3>3
      <4>2. Len(c.tail) <= MaxTail
        BY <1>3, <2>2, <2>6, <3>3, <4>1
      <4>3. QED
        BY <3>2, <3>3, <4>2
    <3>9. QED
      BY <3>5, <3>6, <3>7, <3>8 DEF FeedInv, NothingLost
  <2>7. QED
    BY <2>5, <2>6
<1>5. CASE flushTail
  <2> DEFINE w == Written("partial", tail)
  <2>1. w \in LineType /\ w.kind = "partial" /\ w.text = tail
    BY <1>1, WrittenType
  <2>2. lines' = Append(lines, w) /\ tail' = <<>> /\ got' = got /\ tap' = tap
    BY <1>5 DEF flushTail
  <2> HIDE DEF w
  <2>3. lines' = lines \o <<w>>
    BY <1>1, <2>1, <2>2
  <2>4. <<w>> \in Seq(LineType) /\ \A i \in DOMAIN <<w>> : <<w>>[i] = w
    BY <2>1
  <2>5. BytesOf(<<w>>) \o <<>> = tail \o <<>>
    <3>1. BytesOf(<<w>>) = w.text \o (IF w.kind = "line" THEN <<"nl">> ELSE <<>>)
      BY <2>1, BytesFacts, Zenon
    <3>2. BytesOf(<<w>>) = tail \o <<>> /\ tail \o <<>> = tail
      BY <1>1, <2>1, <3>1, ConcatEmptySeq
    <3>3. QED
      BY <3>2
  <2>6. Plain(BytesOf(lines \o <<w>>) \o <<>>) = Plain(got \o <<>>)
    <3> DEFINE more == <<w>>
               nil  == <<>>
    <3>1. /\ more \in Seq(LineType) /\ nil \in Seq(Byte)
          /\ Plain(BytesOf(more) \o nil) = Plain(tail \o nil)
      BY <1>3, <2>4, <2>5
    <3> HIDE DEF more, nil
    <3>2. Plain(BytesOf(lines \o more) \o nil) = Plain(got \o nil)
      BY <1>1, <3>1, FedOn
    <3>3. QED
      BY <3>2 DEF more, nil
  <2>7. got \o <<>> = got
    BY <1>1, ConcatEmptySeq
  <2>8. /\ lines' \in Seq(LineType)
        /\ \A i \in DOMAIN lines' : lines'[i].kind # "lump" => ~ Has(lines'[i].text, "nl")
    BY <1>1, <1>2, <2>1, <2>3, <2>4
  <2>9. FeedTypes'
    BY <1>1, <1>3, <2>2, <2>8 DEF FeedTypes
  <2>10. Plain(BytesOf(lines') \o tail') = Plain(got')
    BY <2>2, <2>3, <2>6, <2>7
  <2>11. ~ Has(tail', "nl") /\ Len(tail') <= MaxTail
    BY <1>3, <2>2
  <2>12. QED
    BY <2>8, <2>9, <2>10, <2>11 DEF FeedInv, NothingLost
<1>6. CASE TapChanges
  <2>1. UNCHANGED <<tail, lines, got>> /\ tap' \in BOOLEAN
    BY <1>1, <1>6 DEF TapChanges
  <2>2. QED
    BY <1>1, <2>1 DEF FeedInv, FeedTypes, NothingLost
<1>7. CASE UNCHANGED feedVars
  <2>1. UNCHANGED <<tail, lines, got, tap>>
    BY <1>7 DEF feedVars
  <2>2. QED
    BY <1>1, <2>1 DEF FeedInv, FeedTypes, NothingLost
<1>8. QED
  BY <1>4, <1>5, <1>6, <1>7 DEF FeedNext

\* However the bytes of a session come, in reads of any size, none is lost, doubled
\* or moved on its way through the assembler, and no line is broken but at the end of
\* a session or where the tail grew too long (collector.go: feed, flushTail).
THEOREM NothingIsLost == FeedSpec => []NothingLost
<1>1. FeedInit => FeedInv
  <2> SUFFICES ASSUME FeedInit
               PROVE  FeedInv
    OBVIOUS
  <2>1. tail = <<>> /\ lines = <<>> /\ got = <<>> /\ tap \in BOOLEAN
    BY DEF FeedInit
  <2>2. FeedTypes
    <3>1. <<>> \in Seq(Byte) /\ <<>> \in Seq(LineType)
      OBVIOUS
    <3>2. QED
      BY <2>1, <3>1 DEF FeedTypes
  <2>3. BytesOf(<<>>) \o <<>> = <<>>
    <3>1. <<>> \o <<>> = <<>>
      OBVIOUS
    <3>2. QED
      BY <3>1, BytesFacts, Zenon
  <2>4. ~ Has(tail, "nl") /\ Len(tail) <= MaxTail /\ DOMAIN lines = {}
    BY <2>1, FeedAssumption DEF Has, ToSet
  <2>5. QED
    BY <2>1, <2>2, <2>3, <2>4 DEF FeedInv, NothingLost
<1>2. FeedInv => NothingLost
  BY DEF FeedInv
<1>3. QED
  BY <1>1, <1>2, FeedStep, PTL DEF FeedSpec
=============================================================================
