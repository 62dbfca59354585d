----------------------------- MODULE LayoutProofs -----------------------------
(***************************************************************************)
(* What the layout engine keeps for any panes, sizes and swap layouts.     *)
(*                                                                         *)
(* A tree is proved about by its paths: the list of its leaves is the one  *)
(* list of them in the order of Before, so an operation's effect on the    *)
(* order is shown by listing the new leaves.  Geometry goes along a path:  *)
(* a node's area lies inside that of every node above it, the areas of     *)
(* two children divide their parent's, and two leaves part at one split.   *)
(* What the code does step by step (renaming the leaves of a template,     *)
(* splitting off further panes, dividing the area) is followed by Climb.   *)
(***************************************************************************)
EXTENDS Layout, SequenceTheorems, FiniteSetTheorems, WellFoundedInduction, TLAPS

-----------------------------------------------------------------------------
(* Lists of panes *)

(* IndexOf (Iterator::position) finds an id that is in the list. *)
LEMMA IndexOfFinds ==
  ASSUME NEW S, NEW s \in Seq(S), NEW id \in ToSet(s)
  PROVE  IndexOf(s, id) \in 1 .. Len(s) /\ s[IndexOf(s, id)] = id
  BY DEF IndexOf, ToSet

(* In a list without repetition that position is the only one. *)
LEMMA IndexOfUnique ==
  ASSUME NEW S, NEW s \in Seq(S), Distinct(s), NEW i \in 1 .. Len(s)
  PROVE  IndexOf(s, s[i]) = i
  BY DEF IndexOf, Distinct

(* Distinct by positions. *)
LEMMA DistinctAt ==
  ASSUME NEW S, NEW s \in Seq(S)
  PROVE  Distinct(s) <=> \A i, j \in 1 .. Len(s) : s[i] = s[j] => i = j
  BY DEF Distinct

(* The members of a list are the ids at its positions. *)
LEMMA Members ==
  ASSUME NEW S, NEW s \in Seq(S)
  PROVE  /\ \A i \in 1 .. Len(s) : s[i] \in ToSet(s) /\ s[i] \in S
         /\ \A x \in ToSet(s) : \E i \in 1 .. Len(s) : s[i] = x
         /\ ToSet(s) \subseteq S
  BY DEF ToSet

(* RemoveAt (Vec::remove) by positions. *)
LEMMA RemoveAtShape ==
  ASSUME NEW S, NEW s \in Seq(S), NEW k \in 1 .. Len(s)
  PROVE  /\ RemoveAt(s, k) \in Seq(S)
         /\ Len(RemoveAt(s, k)) = Len(s) - 1
         /\ \A i \in 1 .. Len(s) - 1 :
              RemoveAt(s, k)[i] = IF i < k THEN s[i] ELSE s[i + 1]
<1> DEFINE a == SubSeq(s, 1, k - 1)
           b == SubSeq(s, k + 1, Len(s))
<1>1. /\ a \in Seq(S)
      /\ Len(a) = k - 1
      /\ \A i \in 1 .. k - 1 : a[i] = s[i]
  BY SubSeqProperties
<1>2. /\ b \in Seq(S)
      /\ Len(b) = Len(s) - k
      /\ \A i \in 1 .. Len(s) - k : b[i] = s[k + i]
  <2>1. \A i \in k + 1 .. Len(s) : s[i] \in S
    OBVIOUS
  <2>2. k + 1 \in Int /\ Len(s) \in Int
    OBVIOUS
  <2>3. /\ b \in Seq(S)
        /\ Len(b) = IF k + 1 <= Len(s) THEN Len(s) - (k + 1) + 1 ELSE 0
        /\ \A i \in 1 .. Len(s) - (k + 1) + 1 : b[i] = s[(k + 1) + i - 1]
    BY <2>1, <2>2, SubSeqProperties
  <2> HIDE DEF b
  <2>4. QED BY <2>3
<1> HIDE DEF a, b
<1>3. /\ a \o b \in Seq(S)
      /\ Len(a \o b) = Len(a) + Len(b)
      /\ \A i \in 1 .. Len(a) + Len(b) :
           (a \o b)[i] = IF i <= Len(a) THEN a[i] ELSE b[i - Len(a)]
  BY <1>1, <1>2, ConcatProperties
<1>4. RemoveAt(s, k) = a \o b
  BY DEF RemoveAt, a, b
<1>5. ASSUME NEW i \in 1 .. Len(s) - 1
      PROVE  (a \o b)[i] = IF i < k THEN s[i] ELSE s[i + 1]
  <2>1. CASE i < k
    BY <2>1, <1>1, <1>2, <1>3
  <2>2. CASE ~(i < k)
    <3>1. i - (k - 1) \in 1 .. Len(s) - k /\ k + (i - (k - 1)) = i + 1
      BY <2>2
    <3>2. (a \o b)[i] = b[i - (k - 1)]
      BY <2>2, <1>1, <1>2, <1>3
    <3>3. QED BY <2>2, <3>1, <3>2, <1>2
  <2>3. QED BY <2>1, <2>2
<1>6. Len(a \o b) = Len(s) - 1
  BY <1>1, <1>2, <1>3
<1>7. QED BY <1>3, <1>4, <1>5, <1>6

(* InsertAt (the leaf order after a split) by positions. *)
LEMMA InsertAtShape ==
  ASSUME NEW S, NEW s \in Seq(S), NEW k \in 1 .. Len(s) + 1, NEW e \in S
  PROVE  /\ InsertAt(s, k, e) \in Seq(S)
         /\ Len(InsertAt(s, k, e)) = Len(s) + 1
         /\ \A i \in 1 .. Len(s) + 1 :
              InsertAt(s, k, e)[i] = IF i < k THEN s[i]
                                     ELSE IF i = k THEN e ELSE s[i - 1]
<1> DEFINE a == SubSeq(s, 1, k - 1)
           b == SubSeq(s, k, Len(s))
           c == a \o <<e>>
<1>1. /\ a \in Seq(S)
      /\ Len(a) = k - 1
      /\ \A i \in 1 .. k - 1 : a[i] = s[i]
  BY SubSeqProperties
<1>2. /\ b \in Seq(S)
      /\ Len(b) = Len(s) - k + 1
      /\ \A i \in 1 .. Len(s) - k + 1 : b[i] = s[k + i - 1]
  <2>1. \A i \in k .. Len(s) : s[i] \in S
    OBVIOUS
  <2>2. /\ b \in Seq(S)
        /\ Len(b) = IF k <= Len(s) THEN Len(s) - k + 1 ELSE 0
        /\ \A i \in 1 .. Len(s) - k + 1 : b[i] = s[k + i - 1]
    BY <2>1, SubSeqProperties
  <2> HIDE DEF b
  <2>3. QED BY <2>2
<1> HIDE DEF a, b
<1>3. <<e>> \in Seq(S) /\ Len(<<e>>) = 1 /\ <<e>>[1] = e
  OBVIOUS
<1>4. /\ c \in Seq(S)
      /\ Len(c) = k
      /\ \A i \in 1 .. k : c[i] = IF i <= k - 1 THEN s[i] ELSE e
  <2>1. /\ c \in Seq(S)
        /\ Len(c) = Len(a) + 1
        /\ \A i \in 1 .. Len(a) + 1 :
             c[i] = IF i <= Len(a) THEN a[i] ELSE <<e>>[i - Len(a)]
    BY <1>1, <1>3, ConcatProperties
  <2>2. \A i \in 1 .. k : ~(i <= k - 1) => i - Len(a) = 1
    BY <1>1
  <2> HIDE DEF c
  <2>3. Len(a) + 1 = k
    BY <1>1
  <2>4. ASSUME NEW i \in 1 .. k PROVE c[i] = IF i <= k - 1 THEN s[i] ELSE e
    <3>1. CASE i <= k - 1
      BY <1>1, <2>1, <3>1
    <3>2. CASE ~(i <= k - 1)
      <4>1. i - Len(a) = 1 /\ ~(i <= Len(a)) /\ i \in 1 .. Len(a) + 1
        BY <1>1, <2>2, <3>2
      <4>2. QED BY <1>3, <2>1, <3>2, <4>1
    <3>3. QED BY <3>1, <3>2
  <2>5. QED BY <2>1, <2>3, <2>4
<1> HIDE DEF c
<1>5. /\ c \o b \in Seq(S)
      /\ Len(c \o b) = Len(c) + Len(b)
      /\ \A i \in 1 .. Len(c) + Len(b) :
           (c \o b)[i] = IF i <= Len(c) THEN c[i] ELSE b[i - Len(c)]
  BY <1>2, <1>4, ConcatProperties
<1>6. InsertAt(s, k, e) = c \o b
  BY DEF InsertAt, a, b, c
<1>7. ASSUME NEW i \in 1 .. Len(s) + 1
      PROVE  (c \o b)[i] = IF i < k THEN s[i] ELSE IF i = k THEN e ELSE s[i - 1]
  <2>1. CASE i <= k
    BY <2>1, <1>2, <1>4, <1>5
  <2>2. CASE ~(i <= k)
    <3>1. i - k \in 1 .. Len(s) - k + 1 /\ k + (i - k) - 1 = i - 1
      BY <2>2
    <3>2. (c \o b)[i] = b[i - k]
      BY <2>2, <1>2, <1>4, <1>5
    <3>3. QED BY <2>2, <3>1, <3>2, <1>2
  <2>3. QED BY <2>1, <2>2
<1>8. QED BY <1>2, <1>4, <1>5, <1>6, <1>7

-----------------------------------------------------------------------------
(* Numbers *)

(* Among the numbers of a set there is a least one. *)
LEMMA LeastNumber ==
  ASSUME NEW S \in SUBSET Nat, S # {}
  PROVE  \E k \in S : \A j \in S : k <= j
<1> DEFINE T == {0..j : j \in S}
<1>1. T \subseteq FiniteSubsetsOf(Nat) /\ T # {}
  <2>1. \A j \in S : 0..j \in FiniteSubsetsOf(Nat)
    BY FS_Interval DEF FiniteSubsetsOf
  <2> QED BY <2>1
<1>2. PICK x \in T : \A y \in T : ~(<<y, x>> \in StrictSubsetOrdering(Nat))
  <2> HIDE DEF T
  <2> QED BY <1>1, FS_StrictSubsetOrderingWellFounded, WFMin
<1>3. PICK k \in S : x = 0..k
  BY <1>2
<1>4. ASSUME NEW j \in S, ~(k <= j) PROVE FALSE
  <2>1. 0..j \in T /\ j \in Nat /\ k \in Nat
    OBVIOUS
  <2>2. (0..j) \subseteq Nat /\ (0..k) \subseteq Nat /\ (0..j) \subseteq (0..k) /\ 0..j # 0..k
    <3>1. k \in 0..k /\ k \notin 0..j
      BY <2>1, <1>4
    <3> QED BY <2>1, <3>1, <1>4
  <2>3. <<0..j, 0..k>> \in StrictSubsetOrdering(Nat)
    BY <2>2, <2>1, <1>1, <1>3 DEF StrictSubsetOrdering, FiniteSubsetsOf
  <2> QED BY <2>1, <2>3, <1>2, <1>3
<1> QED BY <1>4

-----------------------------------------------------------------------------
(* Paths *)

Path == Seq({1, 2})

(* The steps of a path. *)
LEMMA PathAt ==
  ASSUME NEW p \in Path
  PROVE  /\ Len(p) \in Nat /\ DOMAIN p = 1..Len(p)
         /\ \A i \in 1..Len(p) : p[i] \in {1, 2}
BY DEF Path

(* Paths are equal when they take the same steps. *)
LEMMA PathsEqual ==
  ASSUME NEW p \in Path, NEW q \in Path, Len(p) = Len(q),
         \A i \in 1..Len(p) : p[i] = q[i]
  PROVE  p = q
BY SeqEqual DEF Path

(* The root's path has no step. *)
LEMMA RootIs == <<>> \in Path /\ Len(<<>>) = 0 /\ \A p \in Path : Len(p) = 0 => p = <<>>
<1>1. <<>> \in Path /\ Len(<<>>) = 0
  BY DEF Path
<1>2. \A p \in Path : Len(p) = 0 => p = <<>>
  BY <1>1, PathsEqual
<1> QED BY <1>1, <1>2

(* The beginning of a path. *)
LEMMA CutIs ==
  ASSUME NEW p \in Path, NEW k \in 0..Len(p)
  PROVE  /\ SubSeq(p, 1, k) \in Path /\ Len(SubSeq(p, 1, k)) = k
         /\ \A i \in 1..k : SubSeq(p, 1, k)[i] = p[i]
<1>1. \A m, n \in 1..Len(p) : TRUE
  OBVIOUS
<1>2. /\ SubSeq(p, 1, k) \in Path
      /\ Len(SubSeq(p, 1, k)) = IF 1 <= k THEN k - 1 + 1 ELSE 0
      /\ \A i \in 1..(k - 1 + 1) : SubSeq(p, 1, k)[i] = p[1 + i - 1]
  BY SubSeqProperties DEF Path
<1> QED BY <1>2

(* All of it. *)
LEMMA CutAll == ASSUME NEW p \in Path PROVE SubSeq(p, 1, Len(p)) = p
<1>1. Len(p) \in 0..Len(p)
  BY PathAt
<1> QED BY <1>1, CutIs, PathsEqual

(* The beginning of a beginning. *)
LEMMA CutCut ==
  ASSUME NEW p \in Path, NEW k \in 0..Len(p), NEW j \in 0..k
  PROVE  SubSeq(SubSeq(p, 1, k), 1, j) = SubSeq(p, 1, j)
<1> DEFINE c == SubSeq(p, 1, k)
<1>1. c \in Path /\ Len(c) = k /\ \A i \in 1..k : c[i] = p[i]
  BY CutIs
<1>2. Len(p) \in Nat
  BY PathAt
<1> HIDE DEF c
<1>3. j \in 0..Len(c) /\ j \in 0..Len(p)
  BY <1>1, <1>2
<1>4. /\ SubSeq(c, 1, j) \in Path /\ Len(SubSeq(c, 1, j)) = j
      /\ \A i \in 1..j : SubSeq(c, 1, j)[i] = c[i]
  BY <1>1, <1>3, CutIs
<1>5. /\ SubSeq(p, 1, j) \in Path /\ Len(SubSeq(p, 1, j)) = j
      /\ \A i \in 1..j : SubSeq(p, 1, j)[i] = p[i]
  BY <1>3, CutIs
<1>6. SubSeq(c, 1, j) = SubSeq(p, 1, j)
  BY <1>1, <1>4, <1>5, PathsEqual
<1> QED BY <1>6 DEF c

(* Beginnings of two paths that agree so far. *)
LEMMA CutsAgree ==
  ASSUME NEW p \in Path, NEW q \in Path, NEW k \in Nat, k <= Len(p), k <= Len(q)
  PROVE  SubSeq(p, 1, k) = SubSeq(q, 1, k) <=> \A i \in 1..k : p[i] = q[i]
<1>1. k \in 0..Len(p) /\ k \in 0..Len(q)
  BY PathAt
<1>2. /\ SubSeq(p, 1, k) \in Path /\ Len(SubSeq(p, 1, k)) = k
      /\ \A i \in 1..k : SubSeq(p, 1, k)[i] = p[i]
  BY <1>1, CutIs
<1>3. /\ SubSeq(q, 1, k) \in Path /\ Len(SubSeq(q, 1, k)) = k
      /\ \A i \in 1..k : SubSeq(q, 1, k)[i] = q[i]
  BY <1>1, CutIs
<1>4. ASSUME SubSeq(p, 1, k) = SubSeq(q, 1, k) PROVE \A i \in 1..k : p[i] = q[i]
  BY <1>2, <1>3, <1>4
<1>5. ASSUME \A i \in 1..k : p[i] = q[i] PROVE SubSeq(p, 1, k) = SubSeq(q, 1, k)
  BY <1>2, <1>3, <1>5, PathsEqual
<1> QED BY <1>4, <1>5

(* One step further. *)
LEMMA ChildIs ==
  ASSUME NEW p \in Path, NEW side \in {1, 2}
  PROVE  /\ Child(p, side) \in Path /\ Len(Child(p, side)) = Len(p) + 1
         /\ \A i \in 1..Len(p) : Child(p, side)[i] = p[i]
         /\ Child(p, side)[Len(p) + 1] = side
BY AppendProperties DEF Path, Child

(* The node above a node. *)
LEMMA FrontIs ==
  ASSUME NEW p \in Path, Len(p) > 0
  PROVE  /\ Front(p) \in Path /\ Len(Front(p)) = Len(p) - 1
         /\ \A i \in 1..Len(p) - 1 : Front(p)[i] = p[i]
         /\ Front(p) = SubSeq(p, 1, Len(p) - 1)
         /\ Last(p) = p[Len(p)] /\ Last(p) \in {1, 2}
         /\ p = Child(Front(p), Last(p))
<1>1. Len(p) \in Nat /\ \A i \in 1..Len(p) : p[i] \in {1, 2}
  BY PathAt
<1>2. Len(p) - 1 \in 0..Len(p)
  BY <1>1
<1>3. Front(p) = SubSeq(p, 1, Len(p) - 1) /\ Last(p) = p[Len(p)]
  BY DEF Front, Last
<1>4. Last(p) \in {1, 2}
  BY <1>1, <1>3
<1>5. /\ Front(p) \in Path /\ Len(Front(p)) = Len(p) - 1
      /\ \A i \in 1..Len(p) - 1 : Front(p)[i] = p[i]
  BY <1>2, <1>3, CutIs
<1>6. p = Child(Front(p), Last(p))
  <2> DEFINE c == Child(Front(p), Last(p))
  <2>1. /\ c \in Path /\ Len(c) = Len(p) - 1 + 1
        /\ \A i \in 1..Len(p) - 1 : c[i] = Front(p)[i]
        /\ c[Len(p) - 1 + 1] = Last(p)
    BY <1>4, <1>5, ChildIs
  <2> HIDE DEF c
  <2>2. Len(c) = Len(p) /\ \A i \in 1..Len(p) : c[i] = p[i]
    BY <1>1, <1>3, <1>5, <2>1
  <2>3. c = p
    BY <2>1, <2>2, PathsEqual
  <2> QED BY <2>3 DEF c
<1> QED BY <1>3, <1>4, <1>5, <1>6

(* The node above a child. *)
LEMMA FrontOfChild ==
  ASSUME NEW p \in Path, NEW side \in {1, 2}
  PROVE  Front(Child(p, side)) = p /\ Last(Child(p, side)) = side
<1> DEFINE c == Child(p, side)
<1>1. /\ c \in Path /\ Len(c) = Len(p) + 1
      /\ \A i \in 1..Len(p) : c[i] = p[i]
      /\ c[Len(p) + 1] = side
  BY ChildIs
<1>2. Len(p) \in Nat
  BY PathAt
<1> HIDE DEF c
<1>3. /\ Front(c) \in Path /\ Len(Front(c)) = Len(c) - 1
      /\ \A i \in 1..Len(c) - 1 : Front(c)[i] = c[i]
      /\ Last(c) = c[Len(c)]
  <2>1. c \in Path /\ Len(c) > 0
    BY <1>1, <1>2
  <2> QED BY ONLY <2>1, FrontIs
<1>4. Front(c) = p
  BY <1>1, <1>2, <1>3, PathsEqual
<1> QED BY <1>1, <1>3, <1>4 DEF c

(* A node is above another, or the same. *)
LEMMA PrefixIs ==
  ASSUME NEW p \in Path, NEW q \in Path
  PROVE  /\ IsPrefix(p, q) <=> Len(p) <= Len(q) /\ \A i \in 1..Len(p) : p[i] = q[i]
         /\ IsPrefix(p, q) => SubSeq(q, 1, Len(p)) = p
<1>1. Len(p) \in Nat
  BY PathAt
<1>2. SubSeq(p, 1, Len(p)) = p
  BY CutAll
<1>3. CASE Len(p) <= Len(q)
  BY <1>1, <1>2, <1>3, CutsAgree DEF IsPrefix
<1>4. CASE ~(Len(p) <= Len(q))
  BY <1>4 DEF IsPrefix
<1> QED BY <1>3, <1>4

(* Beginnings of a path are above it. *)
LEMMA CutAbove ==
  ASSUME NEW p \in Path, NEW k \in 0..Len(p)
  PROVE  IsPrefix(SubSeq(p, 1, k), p)
<1> DEFINE c == SubSeq(p, 1, k)
<1>1. c \in Path /\ Len(c) = k /\ \A i \in 1..k : c[i] = p[i]
  BY CutIs
<1>2. Len(p) \in Nat
  BY PathAt
<1> HIDE DEF c
<1>3. Len(c) <= Len(p) /\ \A i \in 1..Len(c) : c[i] = p[i]
  BY <1>1, <1>2
<1>4. IsPrefix(c, p)
  BY <1>1, <1>3, PrefixIs
<1> QED BY <1>4 DEF c

(* What Before compares. *)
PartsAt(p, q, i) == i <= Len(q) /\ p[i] = 1 /\ q[i] = 2 /\ \A j \in 1..i - 1 : p[j] = q[j]

(* Before says where two paths part. *)
LEMMA BeforeIs ==
  ASSUME NEW p \in Path, NEW q \in Path
  PROVE  Before(p, q) <=> \E i \in 1..Len(p) : PartsAt(p, q, i)
<1>1. /\ Len(p) \in Nat /\ DOMAIN p = 1..Len(p) /\ \A i \in 1..Len(p) : p[i] \in {1, 2}
      /\ Len(q) \in Nat /\ DOMAIN q = 1..Len(q) /\ \A i \in 1..Len(q) : q[i] \in {1, 2}
  BY PathAt
<1>2. \A i \in 1..Len(p) : i <= Len(q) =>
        (SubSeq(p, 1, i - 1) = SubSeq(q, 1, i - 1) <=> \A j \in 1..i - 1 : p[j] = q[j])
  <2>1. ASSUME NEW i \in 1..Len(p), i <= Len(q)
        PROVE SubSeq(p, 1, i - 1) = SubSeq(q, 1, i - 1) <=> \A j \in 1..i - 1 : p[j] = q[j]
    <3>1. i - 1 \in Nat /\ i - 1 <= Len(p) /\ i - 1 <= Len(q)
      BY <1>1, <2>1
    <3> QED BY <3>1, CutsAgree
  <2> QED BY <2>1
<1>3. \A i \in 1..Len(p) : i <= Len(q) => (p[i] < q[i] <=> p[i] = 1 /\ q[i] = 2)
  <2>1. ASSUME NEW i \in 1..Len(p), i <= Len(q)
        PROVE p[i] < q[i] <=> p[i] = 1 /\ q[i] = 2
    <3>1. p[i] \in {1, 2} /\ q[i] \in {1, 2}
      BY <1>1, <2>1
    <3> QED BY <3>1
  <2> QED BY <2>1
<1>4. \A i : i \in DOMAIN p \cap DOMAIN q <=> i \in 1..Len(p) /\ i <= Len(q)
  BY <1>1
<1>5. ASSUME Before(p, q) PROVE \E i \in 1..Len(p) : PartsAt(p, q, i)
  <2>1. PICK i \in DOMAIN p \cap DOMAIN q : p[i] < q[i] /\ SubSeq(p, 1, i - 1) = SubSeq(q, 1, i - 1)
    BY <1>5 DEF Before
  <2>2. i \in 1..Len(p) /\ i <= Len(q)
    BY <1>4, <2>1
  <2> QED BY <1>2, <1>3, <2>1, <2>2 DEF PartsAt
<1>6. ASSUME NEW i \in 1..Len(p), PartsAt(p, q, i) PROVE Before(p, q)
  <2>1. i <= Len(q) /\ p[i] = 1 /\ q[i] = 2 /\ \A j \in 1..i - 1 : p[j] = q[j]
    BY <1>6 DEF PartsAt
  <2>2. i \in DOMAIN p \cap DOMAIN q /\ p[i] < q[i] /\ SubSeq(p, 1, i - 1) = SubSeq(q, 1, i - 1)
    BY <1>2, <1>3, <1>4, <2>1
  <2> QED BY <2>2 DEF Before
<1> QED BY <1>5, <1>6

(* The order of a walk is an order. *)
LEMMA BeforeOrders ==
  /\ \A p \in Path : ~Before(p, p)
  /\ \A p, q \in Path : Before(p, q) => ~Before(q, p)
  /\ \A p, q, r \in Path : Before(p, q) /\ Before(q, r) => Before(p, r)
<1>1. ASSUME NEW p \in Path, NEW q \in Path, Before(p, q), Before(q, p) PROVE FALSE
  <2>1. PICK i \in 1..Len(p) : PartsAt(p, q, i)
    BY <1>1, BeforeIs
  <2>2. PICK j \in 1..Len(q) : PartsAt(q, p, j)
    BY <1>1, BeforeIs
  <2>3. Len(p) \in Nat /\ Len(q) \in Nat
    BY PathAt
  <2>4. i < j \/ i = j \/ j < i
    BY <2>3
  <2> QED BY <2>1, <2>2, <2>3, <2>4 DEF PartsAt
<1>2. ASSUME NEW p \in Path, NEW q \in Path, NEW r \in Path, Before(p, q), Before(q, r)
      PROVE  Before(p, r)
  <2>1. PICK i \in 1..Len(p) : PartsAt(p, q, i)
    BY <1>2, BeforeIs
  <2>2. PICK j \in 1..Len(q) : PartsAt(q, r, j)
    BY <1>2, BeforeIs
  <2>3. Len(p) \in Nat /\ Len(q) \in Nat /\ Len(r) \in Nat
    BY PathAt
  <2>4. CASE i < j
    <3>1. PartsAt(p, r, i)
      BY <2>1, <2>2, <2>3, <2>4 DEF PartsAt
    <3> QED BY <3>1, BeforeIs
  <2>5. CASE i = j
    BY <2>1, <2>2, <2>5 DEF PartsAt
  <2>6. CASE j < i
    <3>1. j \in 1..Len(p) /\ PartsAt(p, r, j)
      BY <2>1, <2>2, <2>3, <2>6 DEF PartsAt
    <3> QED BY <3>1, BeforeIs
  <2>7. i < j \/ i = j \/ j < i
    BY <2>3
  <2> QED BY <2>4, <2>5, <2>6, <2>7
<1> QED BY <1>1, <1>2

(* Where two paths part, when neither leads on from the other. *)
LEMMA FirstDifference ==
  ASSUME NEW p \in Path, NEW q \in Path, ~IsPrefix(p, q), ~IsPrefix(q, p)
  PROVE  \E i \in 1..Len(p) : i <= Len(q) /\ (PartsAt(p, q, i) \/ PartsAt(q, p, i))
<1>1. /\ Len(p) \in Nat /\ \A i \in 1..Len(p) : p[i] \in {1, 2}
      /\ Len(q) \in Nat /\ \A i \in 1..Len(q) : q[i] \in {1, 2}
  BY PathAt
<1> DEFINE D == {i \in 1..Len(p) : i <= Len(q) /\ p[i] # q[i]}
<1>2. D # {}
  <2>1. CASE Len(p) <= Len(q)
    BY <1>1, <2>1, PrefixIs
  <2>2. CASE Len(q) <= Len(p)
    <3>1. PICK i \in 1..Len(q) : q[i] # p[i]
      BY <2>2, PrefixIs
    <3>2. i \in 1..Len(p) /\ i <= Len(q)
      BY <1>1, <2>2
    <3> QED BY <3>1, <3>2
  <2> QED BY <1>1, <2>1, <2>2
<1>3. D \in SUBSET Nat
  BY <1>1
<1>4. PICK i \in D : \A j \in D : i <= j
  <2> HIDE DEF D
  <2> QED BY <1>2, <1>3, LeastNumber
<1>5. i \in 1..Len(p) /\ i <= Len(q) /\ p[i] # q[i]
  BY <1>4
<1>6. \A j \in 1..i - 1 : p[j] = q[j]
  <2>1. ASSUME NEW j \in 1..i - 1, p[j] # q[j] PROVE FALSE
    <3>1. j \in 1..Len(p) /\ j <= Len(q) /\ ~(i <= j)
      BY <1>1, <1>5
    <3>2. j \in D
      BY <2>1, <3>1
    <3> QED BY <1>4, <3>1, <3>2
  <2> QED BY <2>1
<1>7. p[i] \in {1, 2} /\ q[i] \in {1, 2}
  BY <1>1, <1>5
<1>8. PartsAt(p, q, i) \/ PartsAt(q, p, i)
  <2>1. \A j \in 1..i - 1 : q[j] = p[j]
    BY <1>6
  <2>2. i <= Len(p)
    BY <1>1, <1>5
  <2> QED BY <1>5, <1>6, <1>7, <2>1, <2>2 DEF PartsAt
<1> QED BY <1>5, <1>8

-----------------------------------------------------------------------------
(* Trees *)

(* The nodes of a tree and what they hold. *)
LEMMA TreeNodes ==
  ASSUME NEW t, IsTree(t)
  PROVE  /\ \A p \in Nodes(t) : p \in Path
         /\ \A p \in DOMAIN t.leaf : p \in Path /\ p \in Nodes(t) /\ p \notin DOMAIN t.split
         /\ \A p \in DOMAIN t.split : p \in Path /\ p \in Nodes(t) /\ p \notin DOMAIN t.leaf
         /\ \A p \in Nodes(t) : p \in DOMAIN t.leaf \/ p \in DOMAIN t.split
         /\ \A p \in Nodes(t) : Len(p) > 0 => Front(p) \in DOMAIN t.split
         /\ \A p \in DOMAIN t.split, side \in {1, 2} : Child(p, side) \in Nodes(t)
         /\ <<>> \in Nodes(t)
         /\ IsFiniteSet(DOMAIN t.leaf)
<1>1. /\ Nodes(t) \subseteq Path /\ IsFiniteSet(Nodes(t))
      /\ DOMAIN t.leaf \cap DOMAIN t.split = {}
      /\ <<>> \in Nodes(t)
  BY DEF IsTree, Path
<1>2. \A p \in Nodes(t) : p # <<>> => Front(p) \in DOMAIN t.split
  BY DEF IsTree
<1>3. \A p \in DOMAIN t.split : Child(p, 1) \in Nodes(t) /\ Child(p, 2) \in Nodes(t)
  BY DEF IsTree
<1>4. \A p : p \in Nodes(t) <=> p \in DOMAIN t.leaf \/ p \in DOMAIN t.split
  BY DEF Nodes
<1>5. IsFiniteSet(DOMAIN t.leaf)
  BY <1>1, <1>4, FS_Subset
<1>6. \A p \in Nodes(t) : Len(p) > 0 => p # <<>>
  BY RootIs
<1>7. \A p \in DOMAIN t.split, side \in {1, 2} : Child(p, side) \in Nodes(t)
  BY <1>3
<1> QED BY <1>1, <1>2, <1>4, <1>5, <1>6, <1>7

(* What a split holds, and that no pane has two leaves. *)
LEMMA TreeHolds ==
  ASSUME NEW t, IsTree(t)
  PROVE  /\ DOMAIN t = {"leaf", "split"}
         /\ \A p \in DOMAIN t.split : t.split[p] \in [direction : Direction, ratio : Int]
         /\ \A p, q \in DOMAIN t.leaf : t.leaf[p] = t.leaf[q] => p = q
BY DEF IsTree

(* Whatever is above a node is a split. *)
LEMMA AncestorsSplit ==
  ASSUME NEW t, IsTree(t), NEW p \in Nodes(t), NEW k \in Nat, k < Len(p)
  PROVE  SubSeq(p, 1, k) \in DOMAIN t.split
<1>1. p \in Path /\ Len(p) \in Nat
  BY TreeNodes, PathAt
<1> DEFINE Bad == {j \in 1..Len(p) : SubSeq(p, 1, Len(p) - j) \notin DOMAIN t.split}
<1>2. ASSUME Bad # {} PROVE FALSE
  <2>1. Bad \in SUBSET Nat
    BY <1>1
  <2>2. PICK j \in Bad : \A i \in Bad : j <= i
    <3> HIDE DEF Bad
    <3> QED BY <1>2, <2>1, LeastNumber
  <2>3. j \in 1..Len(p) /\ SubSeq(p, 1, Len(p) - j) \notin DOMAIN t.split
    BY <2>2
  <2> DEFINE c == SubSeq(p, 1, Len(p) - j + 1)
  <2>4. Len(p) - j + 1 \in 0..Len(p) /\ Len(p) - j \in 0..(Len(p) - j + 1)
    BY <1>1, <2>3
  <2>5. c \in Path /\ Len(c) = Len(p) - j + 1
    BY <1>1, <2>4, CutIs
  <2>6. c \in Nodes(t)
    <3>1. CASE j = 1
      <4>1. Len(p) - 1 + 1 = Len(p)
        BY <1>1
      <4> QED BY <1>1, <3>1, <4>1, CutAll
    <3>2. CASE j # 1
      <4>1. j - 1 \in 1..Len(p) /\ ~(j <= j - 1) /\ Len(p) - (j - 1) = Len(p) - j + 1
        BY <1>1, <2>3, <3>2
      <4>2. j - 1 \notin Bad
        BY <2>2, <4>1
      <4>3. c \in DOMAIN t.split
        BY <4>1, <4>2
      <4> QED BY <4>3, TreeNodes
    <3> QED BY <3>1, <3>2
  <2>7. SubSeq(c, 1, Len(p) - j) = SubSeq(p, 1, Len(p) - j)
    BY <1>1, <2>4, CutCut
  <2> HIDE DEF c
  <2>8. Front(c) \in DOMAIN t.split /\ Front(c) = SubSeq(c, 1, Len(c) - 1) /\ Len(c) - 1 = Len(p) - j
    <3>1. Len(c) > 0
      BY <1>1, <2>3, <2>5
    <3>2. Len(c) - 1 = Len(p) - j
      BY <1>1, <2>3, <2>5
    <3> QED BY <2>5, <2>6, <3>1, <3>2, TreeNodes, FrontIs
  <2> QED BY <2>3, <2>7, <2>8
<1>3. Len(p) - k \in 1..Len(p) /\ Len(p) - (Len(p) - k) = k
  BY <1>1
<1>4. Len(p) - k \notin Bad
  BY <1>2
<1> QED BY <1>3, <1>4

(* No leaf is above another. *)
LEMMA LeavesApart ==
  ASSUME NEW t, IsTree(t), NEW p \in DOMAIN t.leaf, NEW q \in Nodes(t), p # q
  PROVE  ~IsPrefix(p, q)
<1>1. /\ p \in Path /\ q \in Path /\ Len(p) \in Nat /\ Len(q) \in Nat
      /\ p \notin DOMAIN t.split
  BY TreeNodes, PathAt
<1>2. ASSUME IsPrefix(p, q) PROVE FALSE
  <2>1. Len(p) <= Len(q) /\ SubSeq(q, 1, Len(p)) = p
    BY <1>1, <1>2, PrefixIs
  <2>2. Len(p) # Len(q)
    BY <1>1, <2>1, CutAll
  <2>3. Len(p) < Len(q)
    BY <1>1, <2>1, <2>2
  <2>4. SubSeq(q, 1, Len(p)) \in DOMAIN t.split
    BY <1>1, <2>3, AncestorsSplit
  <2> QED BY <1>1, <2>1, <2>4
<1> QED BY <1>2

(* Of two leaves one comes before the other. *)
LEMMA LeavesOrdered ==
  ASSUME NEW t, IsTree(t), NEW p \in DOMAIN t.leaf, NEW q \in DOMAIN t.leaf, p # q
  PROVE  Before(p, q) \/ Before(q, p)
<1>1. p \in Path /\ q \in Path /\ p \in Nodes(t) /\ q \in Nodes(t)
  BY TreeNodes
<1>2. ~IsPrefix(p, q) /\ ~IsPrefix(q, p)
  BY <1>1, LeavesApart
<1>3. PICK i \in 1..Len(p) : i <= Len(q) /\ (PartsAt(p, q, i) \/ PartsAt(q, p, i))
  BY <1>1, <1>2, FirstDifference
<1>4. i \in 1..Len(q)
  BY <1>1, <1>3, PathAt
<1> QED BY <1>1, <1>3, <1>4, BeforeIs

-----------------------------------------------------------------------------
(* The order of the leaves *)

(* s lists the paths of S from left to right. *)
Listing(s, S) ==
  /\ s \in Seq(S)
  /\ \A p \in S : \E i \in 1..Len(s) : s[i] = p
  /\ \A i, j \in 1..Len(s) : i < j => Before(s[i], s[j])

(* Two such lists agree from the left on. *)
LEMMA ListingAgrees ==
  ASSUME NEW S \in SUBSET Path, NEW s, NEW u, Listing(s, S), Listing(u, S)
  PROVE  Len(s) <= Len(u) /\ \A i \in 1..Len(s) : s[i] = u[i]
<1>1. /\ Len(s) \in Nat /\ \A i \in 1..Len(s) : s[i] \in S
      /\ Len(u) \in Nat /\ \A i \in 1..Len(u) : u[i] \in S
  BY DEF Listing
<1>2. /\ \A p \in S : \E i \in 1..Len(s) : s[i] = p
      /\ \A i, j \in 1..Len(s) : i < j => Before(s[i], s[j])
      /\ \A p \in S : \E i \in 1..Len(u) : u[i] = p
      /\ \A i, j \in 1..Len(u) : i < j => Before(u[i], u[j])
  BY DEF Listing
<1> DEFINE Bad == {i \in 1..Len(s) : i > Len(u) \/ s[i] # u[i]}
<1>3. ASSUME Bad # {} PROVE FALSE
  <2>1. Bad \in SUBSET Nat
    OBVIOUS
  <2>2. PICK i \in Bad : \A j \in Bad : i <= j
    <3> HIDE DEF Bad
    <3> QED BY <1>3, <2>1, LeastNumber
  <2>3. i \in 1..Len(s) /\ (i > Len(u) \/ s[i] # u[i])
    BY <2>2
  <2>4. \A j \in 1..Len(s) : j < i => j <= Len(u) /\ s[j] = u[j]
    <3>1. ASSUME NEW j \in 1..Len(s), j < i PROVE j <= Len(u) /\ s[j] = u[j]
      <4>1. j \notin Bad
        BY <2>2, <2>3, <3>1
      <4> QED BY <1>1, <4>1
    <3> QED BY <3>1
  <2>5. PICK j \in 1..Len(u) : u[j] = s[i]
    BY <1>1, <1>2, <2>3
  <2>6. s[i] \in Path
    BY <1>1, <2>3
  <2>7. ~(j < i)
    <3>1. ASSUME j < i PROVE FALSE
      <4>1. j \in 1..Len(s) /\ s[j] = u[j]
        BY <1>1, <2>3, <2>4, <2>5, <3>1
      <4>2. Before(s[j], s[i])
        BY <1>2, <2>3, <3>1, <4>1
      <4> QED BY <2>5, <2>6, <4>1, <4>2, BeforeOrders
    <3> QED BY <3>1
  <2>8. i \in 1..Len(u) /\ i < j
    BY <1>1, <2>3, <2>5, <2>7
  <2>9. Before(u[i], s[i])
    BY <1>2, <2>5, <2>8
  <2>10. PICK k \in 1..Len(s) : s[k] = u[i]
    BY <1>1, <1>2, <2>8
  <2>11. ~(k < i)
    <3>1. ASSUME k < i PROVE FALSE
      <4>1. k \in 1..Len(u) /\ s[k] = u[k]
        BY <1>1, <2>4, <2>10, <3>1
      <4>2. Before(u[k], u[i]) /\ u[i] \in Path
        BY <1>1, <1>2, <2>8, <3>1, <4>1
      <4> QED BY <2>10, <4>1, <4>2, BeforeOrders
    <3> QED BY <3>1
  <2>12. i < k
    BY <2>3, <2>5, <2>8, <2>10, <2>11, <2>7
  <2>13. Before(s[i], u[i]) /\ u[i] \in Path
    BY <1>1, <1>2, <2>3, <2>8, <2>10, <2>12
  <2> QED BY <2>6, <2>9, <2>13, BeforeOrders
<1>4. \A i \in 1..Len(s) : i <= Len(u) /\ s[i] = u[i]
  <2>1. ASSUME NEW i \in 1..Len(s) PROVE i <= Len(u) /\ s[i] = u[i]
    <3>1. i \notin Bad
      BY <1>3
    <3> QED BY <1>1, <3>1
  <2> QED BY <2>1
<1>5. Len(s) <= Len(u)
  <2>1. CASE Len(s) = 0
    BY <1>1, <2>1
  <2>2. CASE Len(s) # 0
    <3>1. Len(s) \in 1..Len(s)
      BY <1>1, <2>2
    <3> QED BY <1>4, <3>1
  <2> QED BY <2>1, <2>2
<1> QED BY <1>4, <1>5

(* There is only one such list. *)
LEMMA ListingUnique ==
  ASSUME NEW S \in SUBSET Path, NEW s, NEW u, Listing(s, S), Listing(u, S)
  PROVE  s = u
<1>1. s \in Seq(S) /\ u \in Seq(S)
  BY DEF Listing
<1>2. /\ Len(s) <= Len(u) /\ \A i \in 1..Len(s) : s[i] = u[i]
      /\ Len(u) <= Len(s)
  BY ListingAgrees
<1>3. Len(s) = Len(u)
  BY <1>1, <1>2
<1> QED BY <1>1, <1>2, <1>3, SeqEqual

(* Counting from 1 instead of 0. *)
LEMMA OneMore ==
  ASSUME NEW n \in Nat, NEW k \in 0..n - 1
  PROVE  \E i \in 1..n : i - 1 = k
<1>1. k + 1 \in 1..n /\ k + 1 - 1 = k
  OBVIOUS
<1> QED BY <1>1

(* How many leaves come before a leaf tells where it is in the list. *)
LEMMA RankIs ==
  ASSUME NEW t, IsTree(t), NEW r,
         r = [p \in DOMAIN t.leaf |-> Cardinality({q \in DOMAIN t.leaf : Before(q, p)})]
  PROVE  /\ \A p, q \in DOMAIN t.leaf : Before(p, q) => r[p] < r[q]
         /\ \A p, q \in DOMAIN t.leaf : r[p] = r[q] => p = q
         /\ \A p \in DOMAIN t.leaf : r[p] \in 0..Cardinality(DOMAIN t.leaf) - 1
         /\ \A i \in 1..Cardinality(DOMAIN t.leaf) : \E p \in DOMAIN t.leaf : r[p] = i - 1
<1> DEFINE S == DOMAIN t.leaf
           L(p) == {q \in S : Before(q, p)}
           n == Cardinality(S)
<1>1. /\ IsFiniteSet(S) /\ S \subseteq Path /\ n \in Nat
  BY TreeNodes, FS_CardinalityType
<1>2. \A p \in S : r[p] = Cardinality(L(p))
  OBVIOUS
<1>3. \A p \in S : IsFiniteSet(L(p)) /\ r[p] \in Nat
  <2>1. \A p \in S : L(p) \subseteq S
    OBVIOUS
  <2> HIDE DEF L, S
  <2> QED BY <1>1, <1>2, <2>1, FS_Subset, FS_CardinalityType
<1>4. \A p, q \in S : p # q => Before(p, q) \/ Before(q, p)
  BY LeavesOrdered
<1>5. ASSUME NEW p \in S, NEW q \in S, Before(p, q) PROVE r[p] < r[q]
  <2>1. L(p) \subseteq L(q)
    BY <1>1, <1>5, BeforeOrders
  <2>2. p \in L(q) /\ p \notin L(p)
    BY <1>1, <1>5, BeforeOrders
  <2> HIDE DEF L, S
  <2>3. Cardinality(L(p)) <= Cardinality(L(q)) /\ Cardinality(L(p)) # Cardinality(L(q))
    BY <1>3, <2>1, <2>2, FS_Subset
  <2>4. r[p] = Cardinality(L(p)) /\ r[q] = Cardinality(L(q)) /\ r[p] \in Nat /\ r[q] \in Nat
    BY <1>2, <1>3
  <2> QED BY <2>3, <2>4
<1>6. \A p, q \in S : r[p] = r[q] => p = q
  <2>1. ASSUME NEW p \in S, NEW q \in S, r[p] = r[q], p # q PROVE FALSE
    <3>1. r[p] \in Nat /\ r[q] \in Nat
      BY <1>3, <2>1
    <3>2. Before(p, q) \/ Before(q, p)
      BY <1>4, <2>1
    <3>3. r[p] < r[q] \/ r[q] < r[p]
      BY <1>5, <2>1, <3>2
    <3> QED BY <2>1, <3>1, <3>3
  <2> QED BY <2>1
<1>7. \A p \in S : r[p] \in 0..n - 1
  <2>1. ASSUME NEW p \in S PROVE r[p] \in 0..n - 1
    <3>1. L(p) \subseteq S /\ p \notin L(p)
      BY <1>1, BeforeOrders
    <3> HIDE DEF L, S
    <3>2. Cardinality(L(p)) <= Cardinality(S) /\ Cardinality(L(p)) # Cardinality(S)
      BY <1>1, <2>1, <3>1, FS_Subset
    <3>3. r[p] = Cardinality(L(p)) /\ r[p] \in Nat /\ n = Cardinality(S) /\ n \in Nat
      BY <1>1, <1>2, <1>3, <2>1
    <3> HIDE DEF n
    <3> QED BY <3>2, <3>3
  <2> QED BY <2>1
<1>8. \A i \in 1..n : \E p \in S : r[p] = i - 1
  <2> DEFINE T == 0..n - 1
  <2>1. r \in [S -> T]
    BY <1>7
  <2>2. IsFiniteSet(T) /\ Cardinality(T) = n
    <3>1. 0 \in Int /\ n - 1 \in Int
      BY <1>1
    <3>2. IsFiniteSet(T) /\ Cardinality(T) = IF 0 > n - 1 THEN 0 ELSE n - 1 - 0 + 1
      BY <3>1, FS_Interval
    <3> HIDE DEF n
    <3> QED BY <1>1, <3>2
  <2> HIDE DEF S
  <2>3. r \in Injection(S, T)
    BY <1>6, <2>1 DEF Injection, IsInjective
  <2>4. r \in Surjection(S, T)
    <3> HIDE DEF T
    <3> QED BY <1>1, <2>2, <2>3, FS_Injection DEF n
  <2>5. \A i \in 1..n : i - 1 \in T
    BY <1>1
  <2> HIDE DEF T
  <2> QED BY <2>4, <2>5 DEF Surjection
<1> QED BY <1>5, <1>6, <1>7, <1>8

(* leaf_paths lists the leaves. *)
LEMMA LeafPathsIs ==
  ASSUME NEW t, IsTree(t)
  PROVE  Listing(leaf_paths(t), DOMAIN t.leaf)
<1> DEFINE S == DOMAIN t.leaf
           n == Cardinality(S)
           r == [p \in S |-> Cardinality({q \in S : Before(q, p)})]
           s == leaf_paths(t)
<1>1. /\ IsFiniteSet(S) /\ S \subseteq Path /\ n \in Nat
  BY TreeNodes, FS_CardinalityType
<1>2. /\ \A p, q \in S : Before(p, q) => r[p] < r[q]
      /\ \A p, q \in S : r[p] = r[q] => p = q
      /\ \A p \in S : r[p] \in 0..n - 1
      /\ \A i \in 1..n : \E p \in S : r[p] = i - 1
  <2> DEFINE f == r
  <2>1. f = [p \in DOMAIN t.leaf |-> Cardinality({q \in DOMAIN t.leaf : Before(q, p)})]
    OBVIOUS
  <2> HIDE DEF f
  <2>2. /\ \A p, q \in S : Before(p, q) => f[p] < f[q]
        /\ \A p, q \in S : f[p] = f[q] => p = q
        /\ \A p \in S : f[p] \in 0..n - 1
        /\ \A i \in 1..n : \E p \in S : f[p] = i - 1
    BY <2>1, RankIs
  <2> QED BY <2>2 DEF f
<1>3. s = [i \in 1..n |-> CHOOSE p \in S : Cardinality({q \in S : Before(q, p)}) = i - 1]
  BY DEF leaf_paths
<1>4. \A i \in 1..n : s[i] \in S /\ r[s[i]] = i - 1
  <2>1. ASSUME NEW i \in 1..n PROVE s[i] \in S /\ r[s[i]] = i - 1
    <3>1. PICK p \in S : r[p] = i - 1
      BY <1>2, <2>1
    <3>2. Cardinality({q \in S : Before(q, p)}) = i - 1
      BY <3>1
    <3>3. s[i] = CHOOSE x \in S : Cardinality({q \in S : Before(q, x)}) = i - 1
      BY <1>3
    <3>4. s[i] \in S /\ Cardinality({q \in S : Before(q, s[i])}) = i - 1
      <4> HIDE DEF s
      <4> QED BY <3>2, <3>3, Zenon
    <3> QED BY <3>4
  <2> QED BY <2>1
<1> HIDE DEF r, s
<1>5. s \in Seq(S) /\ Len(s) = n
  <2>1. s \in [1..n -> S]
    BY <1>3, <1>4
  <2> HIDE DEF S, n
  <2> QED BY <1>1, <2>1, IsASeq, LenProperties DEF n
<1>6. \A p \in S : \E i \in 1..Len(s) : s[i] = p
  <2>1. ASSUME NEW p \in S PROVE \E i \in 1..Len(s) : s[i] = p
    <3>1. r[p] \in 0..n - 1
      BY <1>2, <2>1
    <3>2. PICK i \in 1..n : i - 1 = r[p]
      BY <1>1, <3>1, OneMore
    <3>3. r[s[i]] = r[p] /\ s[i] \in S
      BY <1>4, <3>2
    <3> QED BY <1>2, <1>5, <3>3
  <2> QED BY <2>1
<1>7. \A i, j \in 1..Len(s) : i < j => Before(s[i], s[j])
  <2>1. ASSUME NEW i \in 1..Len(s), NEW j \in 1..Len(s), i < j PROVE Before(s[i], s[j])
    <3>1. /\ s[i] \in S /\ s[j] \in S /\ r[s[i]] = i - 1 /\ r[s[j]] = j - 1
      BY <1>4, <1>5
    <3>2. ~(r[s[j]] < r[s[i]]) /\ s[i] # s[j]
      BY <2>1, <3>1
    <3>3. ~Before(s[j], s[i])
      BY <1>2, <3>1, <3>2
    <3> QED BY <3>1, <3>2, <3>3, LeavesOrdered
  <2> QED BY <2>1
<1> HIDE DEF S
<1>8. Listing(s, S)
  BY <1>5, <1>6, <1>7 DEF Listing
<1> QED BY <1>8 DEF s, S

(* Any list of the leaves from left to right is the list. *)
LEMMA LeafPathsAre ==
  ASSUME NEW t, IsTree(t), NEW s, Listing(s, DOMAIN t.leaf)
  PROVE  leaf_paths(t) = s
<1>1. Listing(leaf_paths(t), DOMAIN t.leaf)
  BY LeafPathsIs
<1>2. DOMAIN t.leaf \in SUBSET Path
  BY TreeNodes
<1> DEFINE S == DOMAIN t.leaf
<1> HIDE DEF S
<1>3. leaf_paths(t) = s
  BY <1>1, <1>2, ListingUnique
<1> QED BY <1>3

(* The panes in their order: each leaf's once. *)
LEMMA PaneIdsAre ==
  ASSUME NEW t, IsTree(t)
  PROVE  /\ leaf_paths(t) \in Seq(DOMAIN t.leaf) /\ Len(leaf_paths(t)) \in Nat
         /\ \A i \in 1..Len(leaf_paths(t)) : leaf_paths(t)[i] \in DOMAIN t.leaf
         /\ \A i, j \in 1..Len(leaf_paths(t)) : leaf_paths(t)[i] = leaf_paths(t)[j] => i = j
         /\ \A p \in DOMAIN t.leaf : \E i \in 1..Len(leaf_paths(t)) : leaf_paths(t)[i] = p
         /\ pane_ids(t) \in Seq(Leaves(t)) /\ Len(pane_ids(t)) = Len(leaf_paths(t))
         /\ \A i \in 1..Len(leaf_paths(t)) : pane_ids(t)[i] = t.leaf[leaf_paths(t)[i]]
         /\ Distinct(pane_ids(t))
         /\ ToSet(pane_ids(t)) = Leaves(t)
<1> DEFINE s == leaf_paths(t)
           ids == pane_ids(t)
<1>1. /\ s \in Seq(DOMAIN t.leaf)
      /\ \A p \in DOMAIN t.leaf : \E i \in 1..Len(s) : s[i] = p
      /\ \A i, j \in 1..Len(s) : i < j => Before(s[i], s[j])
  BY LeafPathsIs DEF Listing
<1> HIDE DEF s
<1>2. Len(s) \in Nat /\ DOMAIN s = 1..Len(s) /\ \A i \in 1..Len(s) : s[i] \in DOMAIN t.leaf
  BY <1>1
<1>3. \A i \in 1..Len(s) : s[i] \in Path
  BY <1>2, TreeNodes
<1>4. \A i, j \in 1..Len(s) : s[i] = s[j] => i = j
  <2>1. ASSUME NEW i \in 1..Len(s), NEW j \in 1..Len(s), s[i] = s[j], i < j PROVE FALSE
    BY <1>1, <1>3, <2>1, BeforeOrders
  <2> QED BY <1>2, <2>1
<1>5. ids = [i \in 1..Len(s) |-> t.leaf[s[i]]]
  BY <1>2 DEF pane_ids, PanesAt, s
<1>6. \A i \in 1..Len(s) : t.leaf[s[i]] \in Leaves(t)
  BY <1>2 DEF Leaves
<1> HIDE DEF ids
<1>7. ids \in Seq(Leaves(t)) /\ Len(ids) = Len(s) /\ \A i \in 1..Len(s) : ids[i] = t.leaf[s[i]]
  <2>1. ids \in [1..Len(s) -> Leaves(t)]
    BY <1>5, <1>6
  <2>2. ids \in Seq(Leaves(t)) /\ Len(ids) = Len(s)
    BY <1>2, <2>1, IsASeq, LenProperties
  <2> QED BY <1>5, <2>2
<1>8. \A i, j \in 1..Len(ids) : ids[i] = ids[j] => i = j
  BY <1>2, <1>4, <1>7, TreeHolds
<1>9. Distinct(ids)
  BY <1>7, <1>8, DistinctAt
<1>10. ToSet(ids) = Leaves(t)
  <2>1. ToSet(ids) \subseteq Leaves(t)
    BY <1>7, Members
  <2>2. ASSUME NEW x \in Leaves(t) PROVE x \in ToSet(ids)
    <3>1. PICK p \in DOMAIN t.leaf : x = t.leaf[p]
      BY DEF Leaves
    <3>2. PICK i \in 1..Len(s) : s[i] = p
      BY <1>1
    <3>3. ids[i] = x /\ i \in 1..Len(ids)
      BY <1>7, <3>1, <3>2
    <3> QED BY <1>7, <3>3, Members
  <2> QED BY <2>1, <2>2
<1>11. QED
  BY <1>1, <1>2, <1>4, <1>7, <1>9, <1>10 DEF s, ids

(* The leaf of a pane. *)
LEMMA PathOfIs ==
  ASSUME NEW t, IsTree(t), NEW id \in Leaves(t)
  PROVE  PathOf(t, id) \in DOMAIN t.leaf /\ t.leaf[PathOf(t, id)] = id
<1>1. PICK p \in DOMAIN t.leaf : t.leaf[p] = id
  BY DEF Leaves
<1>2. \A q \in DOMAIN t.leaf : t.leaf[q] = id => q = p
  BY <1>1, TreeHolds
<1> QED BY <1>1, <1>2 DEF PathOf

(* There is no other. *)
LEMMA PathOfLeaf ==
  ASSUME NEW t, IsTree(t), NEW p \in DOMAIN t.leaf
  PROVE  t.leaf[p] \in Leaves(t) /\ PathOf(t, t.leaf[p]) = p
<1>1. t.leaf[p] \in Leaves(t)
  BY DEF Leaves
<1> QED BY <1>1, PathOfIs, TreeHolds

(* The panes in order, once the leaves are listed. *)
LEMMA PaneIdsBy ==
  ASSUME NEW t, IsTree(t), NEW s, Listing(s, DOMAIN t.leaf), NEW X, NEW ids \in Seq(X),
         Len(ids) = Len(s), \A i \in 1..Len(s) : ids[i] = t.leaf[s[i]]
  PROVE  pane_ids(t) = ids
<1>1. leaf_paths(t) = s
  BY LeafPathsAre
<1>2. /\ pane_ids(t) \in Seq(Leaves(t)) /\ Len(pane_ids(t)) = Len(s)
      /\ \A i \in 1..Len(s) : pane_ids(t)[i] = t.leaf[s[i]]
  BY <1>1, PaneIdsAre
<1> DEFINE l == pane_ids(t)
<1> HIDE DEF l
<1>3. /\ l \in Seq(Leaves(t)) /\ Len(l) = Len(ids)
      /\ \A i \in 1..Len(l) : l[i] = ids[i]
  BY <1>2 DEF l
<1>4. l = ids
  BY <1>3, SeqEqual
<1> QED BY <1>4 DEF l

-----------------------------------------------------------------------------
(* Splitting a leaf *)

(* The children of a node stand where it stood. *)
LEMMA BeforeChild ==
  ASSUME NEW p \in Path, NEW q \in Path, NEW side \in {1, 2}
  PROVE  /\ Before(p, q) => Before(Child(p, side), q)
         /\ Before(q, p) => Before(q, Child(p, side))
         /\ Before(Child(p, 1), Child(p, 2))
<1> DEFINE c == Child(p, side)
<1>1. /\ c \in Path /\ Len(c) = Len(p) + 1 /\ Len(p) \in Nat /\ Len(q) \in Nat
      /\ \A i \in 1..Len(p) : c[i] = p[i]
  BY ChildIs, PathAt
<1> HIDE DEF c
<1>2. ASSUME Before(p, q) PROVE Before(c, q)
  <2>1. PICK i \in 1..Len(p) : PartsAt(p, q, i)
    BY <1>2, BeforeIs
  <2>2. i \in 1..Len(c) /\ PartsAt(c, q, i)
    BY <1>1, <2>1 DEF PartsAt
  <2> QED BY <1>1, <2>2, BeforeIs
<1>3. ASSUME Before(q, p) PROVE Before(q, c)
  <2>1. PICK i \in 1..Len(q) : PartsAt(q, p, i)
    BY <1>3, BeforeIs
  <2>2. PartsAt(q, c, i)
    BY <1>1, <2>1 DEF PartsAt
  <2> QED BY <1>1, <2>2, BeforeIs
<1>4. Before(Child(p, 1), Child(p, 2))
  <2> DEFINE a == Child(p, 1)
             b == Child(p, 2)
  <2>1. /\ a \in Path /\ Len(a) = Len(p) + 1
        /\ \A i \in 1..Len(p) : a[i] = p[i]
        /\ a[Len(p) + 1] = 1
    BY ChildIs
  <2>2. /\ b \in Path /\ Len(b) = Len(p) + 1
        /\ \A i \in 1..Len(p) : b[i] = p[i]
        /\ b[Len(p) + 1] = 2
    BY ChildIs
  <2> HIDE DEF a, b
  <2>3. Len(p) + 1 \in 1..Len(a) /\ PartsAt(a, b, Len(p) + 1)
    BY <1>1, <2>1, <2>2 DEF PartsAt
  <2>4. Before(a, b)
    BY <2>1, <2>2, <2>3, BeforeIs
  <2> QED BY <2>4 DEF a, b
<1> QED BY <1>2, <1>3, <1>4 DEF c

(* Children of a leaf are no nodes yet. *)
LEMMA ChildrenNew ==
  ASSUME NEW t, IsTree(t), NEW p \in DOMAIN t.leaf, NEW side \in {1, 2}
  PROVE  Child(p, side) \notin Nodes(t) /\ Child(p, side) # p
<1> DEFINE c == Child(p, side)
<1>1. p \in Path /\ Len(p) \in Nat /\ c \in Path /\ Len(c) = Len(p) + 1 /\ \A i \in 1..Len(p) : c[i] = p[i]
  BY TreeNodes, ChildIs, PathAt
<1> HIDE DEF c
<1>2. IsPrefix(p, c) /\ p # c
  BY <1>1, PrefixIs
<1>3. c \notin Nodes(t)
  BY <1>2, LeavesApart
<1> QED BY <1>2, <1>3 DEF c

(* What SplitAt makes of a tree. *)
LEMMA SplitAtHolds ==
  ASSUME NEW t, NEW p, NEW id, NEW direction, NEW u, u = SplitAt(t, p, id, direction),
         Child(p, 1) # Child(p, 2)
  PROVE  /\ DOMAIN u = {"leaf", "split"}
         /\ DOMAIN u.leaf = (DOMAIN t.leaf \ {p}) \cup {Child(p, 1), Child(p, 2)}
         /\ DOMAIN u.split = DOMAIN t.split \cup {p}
         /\ u.leaf[Child(p, 1)] = t.leaf[p]
         /\ u.leaf[Child(p, 2)] = id
         /\ \A q \in DOMAIN t.leaf \ {p} :
              q \notin {Child(p, 1), Child(p, 2)} => u.leaf[q] = t.leaf[q]
         /\ u.split[p] = [direction |-> direction, ratio |-> 50]
         /\ \A q \in DOMAIN t.split : q # p => u.split[q] = t.split[q]
<1> DEFINE a == Child(p, 1)
           b == Child(p, 2)
<1>1. /\ u.leaf = [q \in (DOMAIN t.leaf \ {p}) \cup {a, b} |->
                     CASE q = a -> t.leaf[p] [] q = b -> id [] OTHER -> t.leaf[q]]
      /\ u.split = [q \in DOMAIN t.split \cup {p} |->
                     IF q = p THEN [direction |-> direction, ratio |-> 50] ELSE t.split[q]]
      /\ DOMAIN u = {"leaf", "split"}
  BY DEF SplitAt
<1>2. a # b
  OBVIOUS
<1> HIDE DEF a, b
<1>3. /\ DOMAIN u.leaf = (DOMAIN t.leaf \ {p}) \cup {a, b}
      /\ DOMAIN u.split = DOMAIN t.split \cup {p}
      /\ u.leaf[a] = t.leaf[p]
      /\ u.leaf[b] = id
      /\ \A q \in DOMAIN t.leaf \ {p} : q \notin {a, b} => u.leaf[q] = t.leaf[q]
      /\ u.split[p] = [direction |-> direction, ratio |-> 50]
      /\ \A q \in DOMAIN t.split : q # p => u.split[q] = t.split[q]
  BY <1>1, <1>2
<1> QED BY <1>1, <1>3 DEF a, b

(* Splitting a leaf gives a tree with one more leaf, right after it. *)
LEMMA SplitAtIs ==
  ASSUME NEW t, IsTree(t), NEW p \in DOMAIN t.leaf, NEW id, id \notin Leaves(t),
         NEW direction \in Direction
  PROVE  /\ IsTree(SplitAt(t, p, id, direction))
         /\ Leaves(SplitAt(t, p, id, direction)) = Leaves(t) \cup {id}
         /\ pane_ids(SplitAt(t, p, id, direction)) = InsertAfter(pane_ids(t), t.leaf[p], id)
<1> DEFINE u == SplitAt(t, p, id, direction)
           a == Child(p, 1)
           b == Child(p, 2)
<1>1. /\ p \in Path /\ p \in Nodes(t) /\ p \notin DOMAIN t.split
      /\ a \notin Nodes(t) /\ b \notin Nodes(t) /\ a # p /\ b # p
      /\ a \in Path /\ b \in Path /\ Front(a) = p /\ Front(b) = p /\ Last(a) = 1 /\ Last(b) = 2
  BY TreeNodes, ChildrenNew, ChildIs, FrontOfChild
<1>2. a # b
  BY <1>1
<1>3. /\ DOMAIN u = {"leaf", "split"}
      /\ DOMAIN u.leaf = (DOMAIN t.leaf \ {p}) \cup {a, b}
      /\ DOMAIN u.split = DOMAIN t.split \cup {p}
      /\ u.leaf[a] = t.leaf[p]
      /\ u.leaf[b] = id
      /\ \A q \in DOMAIN t.leaf \ {p} : q \notin {a, b} => u.leaf[q] = t.leaf[q]
      /\ u.split[p] = [direction |-> direction, ratio |-> 50]
      /\ \A q \in DOMAIN t.split : q # p => u.split[q] = t.split[q]
  BY <1>2, SplitAtHolds
<1> HIDE DEF u, a, b
<1>4. \A q : q \in Nodes(t) <=> q \in DOMAIN t.leaf \/ q \in DOMAIN t.split
  BY DEF Nodes
<1>5. Nodes(u) = Nodes(t) \cup {a, b}
  BY <1>1, <1>3, <1>4 DEF Nodes
<1>6. \A q \in DOMAIN t.leaf \ {p} : u.leaf[q] = t.leaf[q]
  BY <1>1, <1>3, <1>4
<1>7. IsTree(u)
  <2>1. Nodes(u) \subseteq Seq({1, 2}) /\ IsFiniteSet(Nodes(u))
    <3>1. Nodes(u) \subseteq Path
      BY <1>1, <1>5, TreeNodes
    <3>2. IsFiniteSet(Nodes(t))
      BY DEF IsTree
    <3>3. IsFiniteSet(Nodes(t) \cup {a})
      BY <3>2, FS_AddElement
    <3>4. Nodes(u) = (Nodes(t) \cup {a}) \cup {b}
      BY <1>5
    <3>5. IsFiniteSet(Nodes(u))
      BY <3>3, <3>4, FS_AddElement
    <3> QED BY <3>1, <3>5 DEF Path
  <2>2. DOMAIN u.leaf \cap DOMAIN u.split = {}
    <3>1. ASSUME NEW q \in DOMAIN u.leaf, q \in DOMAIN u.split PROVE FALSE
      BY <1>1, <1>3, <1>4, <3>1, TreeNodes
    <3> QED BY <3>1
  <2>3. <<>> \in Nodes(u)
    BY <1>5, TreeNodes
  <2>4. ASSUME NEW q \in DOMAIN u.split
        PROVE  {Child(q, 1), Child(q, 2)} \subseteq Nodes(u) /\ u.split[q] \in [direction : Direction, ratio : Int]
    <3>1. CASE q = p
      BY <1>3, <1>5, <3>1 DEF a, b
    <3>2. CASE q # p
      <4>1. q \in DOMAIN t.split
        BY <1>3, <3>2
      <4>2. Child(q, 1) \in Nodes(t) /\ Child(q, 2) \in Nodes(t)
        BY <4>1, TreeNodes
      <4>3. t.split[q] \in [direction : Direction, ratio : Int]
        BY <4>1, TreeHolds
      <4> QED BY <1>3, <1>5, <3>2, <4>1, <4>2, <4>3
    <3> QED BY <3>1, <3>2
  <2>5. ASSUME NEW q \in Nodes(u), q # <<>> PROVE Front(q) \in DOMAIN u.split
    <3>1. CASE q \in Nodes(t)
      <4>1. Front(q) \in DOMAIN t.split
        BY <2>5, <3>1 DEF IsTree
      <4> QED BY <1>3, <4>1
    <3>2. CASE q \in {a, b}
      BY <1>1, <1>3, <3>2
    <3> QED BY <1>5, <3>1, <3>2
  <2>6. ASSUME NEW q \in DOMAIN u.leaf, NEW r \in DOMAIN u.leaf, u.leaf[q] = u.leaf[r] PROVE q = r
    <3>1. t.leaf[p] # id /\ \A x \in DOMAIN t.leaf : t.leaf[x] # id
      BY DEF Leaves
    <3>2. \A x, y \in DOMAIN t.leaf : t.leaf[x] = t.leaf[y] => x = y
      BY TreeHolds
    <3>3. \A x \in DOMAIN u.leaf : x = a \/ x = b \/ (x \in DOMAIN t.leaf \ {p} /\ u.leaf[x] = t.leaf[x])
      BY <1>3, <1>6
    <3> QED BY <1>3, <2>6, <3>1, <3>2, <3>3
  <2> QED BY <1>3, <2>1, <2>2, <2>3, <2>4, <2>5, <2>6 DEF IsTree
<1>8. Leaves(u) = Leaves(t) \cup {id}
  <2>1. \A x : x \in Leaves(u) <=> \E q \in DOMAIN u.leaf : x = u.leaf[q]
    BY DEF Leaves
  <2>2. \A x : x \in Leaves(t) <=> \E q \in DOMAIN t.leaf : x = t.leaf[q]
    BY DEF Leaves
  <2>3. ASSUME NEW x \in Leaves(u) PROVE x \in Leaves(t) \cup {id}
    <3>1. PICK q \in DOMAIN u.leaf : x = u.leaf[q]
      BY <2>1
    <3> QED BY <1>3, <1>6, <2>2, <3>1
  <2>4. id \in Leaves(u)
    BY <1>3, <2>1
  <2>5. ASSUME NEW x \in Leaves(t) PROVE x \in Leaves(u)
    <3>1. PICK q \in DOMAIN t.leaf : x = t.leaf[q]
      BY <2>2
    <3>2. CASE q = p
      BY <1>3, <2>1, <3>1, <3>2
    <3>3. CASE q # p
      <4>1. q \in DOMAIN u.leaf /\ u.leaf[q] = x
        BY <1>3, <1>6, <3>1, <3>3
      <4> QED BY <2>1, <4>1
    <3> QED BY <3>2, <3>3
  <2> QED BY <2>3, <2>4, <2>5
<1>9. pane_ids(u) = InsertAfter(pane_ids(t), t.leaf[p], id)
  <2> DEFINE s == leaf_paths(t)
             ids == pane_ids(t)
             n == Len(s)
  <2>1. /\ s \in Seq(DOMAIN t.leaf) /\ n \in Nat
        /\ \A i \in 1..n : s[i] \in DOMAIN t.leaf
        /\ \A i, j \in 1..n : s[i] = s[j] => i = j
        /\ \A q \in DOMAIN t.leaf : \E i \in 1..n : s[i] = q
        /\ ids \in Seq(Leaves(t)) /\ Len(ids) = n
        /\ \A i \in 1..n : ids[i] = t.leaf[s[i]]
        /\ Distinct(ids)
    BY PaneIdsAre
  <2>2. \A i, j \in 1..n : i < j => Before(s[i], s[j])
    BY LeafPathsIs DEF Listing
  <2> HIDE DEF s, ids, n
  <2>3. PICK k \in 1..n : s[k] = p
    BY <2>1
  <2>30. k \in Nat /\ n \in Nat /\ 1 <= k /\ k <= n
    BY <2>1
  <2>4. IndexOf(ids, t.leaf[p]) = k
    <3>1. ids[k] = t.leaf[p] /\ k \in 1..Len(ids)
      BY <2>1, <2>3
    <3>2. IndexOf(ids, ids[k]) = k
      BY <2>1, <3>1, IndexOfUnique
    <3> QED BY <3>1, <3>2
  <2> DEFINE X == Leaves(t) \cup {id}
             new == InsertAt(ids, k + 1, id)
             z == [i \in 1..n + 1 |-> IF i < k THEN s[i] ELSE IF i = k THEN a
                                      ELSE IF i = k + 1 THEN b ELSE s[i - 1]]
  <2>5. ids \in Seq(X) /\ id \in X /\ k + 1 \in 1..Len(ids) + 1
    BY <2>1, <2>3, SeqMonotonic
  <2>6. /\ new \in Seq(X) /\ Len(new) = n + 1
        /\ \A i \in 1..n + 1 : new[i] = IF i < k + 1 THEN ids[i] ELSE IF i = k + 1 THEN id ELSE ids[i - 1]
    <3>1. /\ new \in Seq(X) /\ Len(new) = Len(ids) + 1
          /\ \A i \in 1..Len(ids) + 1 :
               new[i] = IF i < k + 1 THEN ids[i] ELSE IF i = k + 1 THEN id ELSE ids[i - 1]
      <4> DEFINE m == k + 1
      <4>1. m \in 1..Len(ids) + 1 /\ ids \in Seq(X) /\ id \in X
        BY <2>5
      <4> HIDE DEF X, m
      <4>2. /\ InsertAt(ids, m, id) \in Seq(X) /\ Len(InsertAt(ids, m, id)) = Len(ids) + 1
            /\ \A i \in 1..Len(ids) + 1 :
               InsertAt(ids, m, id)[i] = IF i < m THEN ids[i] ELSE IF i = m THEN id ELSE ids[i - 1]
        BY <4>1, InsertAtShape
      <4> QED BY <4>2 DEF m
    <3> HIDE DEF new, X
    <3> QED BY <2>1, <3>1
  <2>7. \A i \in 1..n + 1 :
          \/ i < k /\ i \in 1..n /\ z[i] = s[i] /\ s[i] # p
          \/ i = k /\ z[i] = a
          \/ i = k + 1 /\ z[i] = b
          \/ i > k + 1 /\ i - 1 \in 1..n /\ i - 1 > k /\ z[i] = s[i - 1] /\ s[i - 1] # p
    <3>1. ASSUME NEW i \in 1..n + 1
          PROVE  \/ i < k /\ i \in 1..n /\ z[i] = s[i] /\ s[i] # p
                 \/ i = k /\ z[i] = a
                 \/ i = k + 1 /\ z[i] = b
                 \/ i > k + 1 /\ i - 1 \in 1..n /\ i - 1 > k /\ z[i] = s[i - 1] /\ s[i - 1] # p
      <4>1. z[i] = IF i < k THEN s[i] ELSE IF i = k THEN a ELSE IF i = k + 1 THEN b ELSE s[i - 1]
        OBVIOUS
      <4>2. i < k \/ i = k \/ i = k + 1 \/ i > k + 1
        BY <2>1
      <4>3. ASSUME i < k PROVE i \in 1..n /\ s[i] # p
        <5> HIDE DEF z
        <5>1. i \in 1..n /\ i # k
          BY <2>30, <4>3
        <5>2. s[i] = s[k] => i = k
          BY <2>1, <5>1
        <5> QED BY <2>3, <5>1, <5>2
      <4>4. ASSUME i > k + 1 PROVE i - 1 \in 1..n /\ i - 1 > k /\ s[i - 1] # p
        <5> HIDE DEF z
        <5>1. i - 1 \in 1..n /\ i - 1 > k /\ i - 1 # k
          BY <2>30, <4>4
        <5>2. s[i - 1] = s[k] => i - 1 = k
          BY <2>1, <5>1
        <5> QED BY <2>3, <5>1, <5>2
      <4> HIDE DEF z
      <4> QED BY <2>1, <2>3, <4>1, <4>2, <4>3, <4>4
    <3> QED BY <3>1
  <2>8. \A i \in 1..n + 1 : z[i] \in DOMAIN u.leaf
    <3> HIDE DEF z
    <3>1. \A i \in 1..n : s[i] # p => s[i] \in DOMAIN u.leaf
      BY <1>3, <2>1
    <3>2. a \in DOMAIN u.leaf /\ b \in DOMAIN u.leaf
      BY <1>3
    <3> QED BY <2>7, <3>1, <3>2
  <2>9. z \in Seq(DOMAIN u.leaf) /\ Len(z) = n + 1
    <3>1. z \in [1..n + 1 -> DOMAIN u.leaf]
      BY <2>8
    <3>2. n + 1 \in Nat
      BY <2>1
    <3> HIDE DEF z
    <3> QED BY <3>1, <3>2, IsASeq, LenProperties
  <2> HIDE DEF z
  <2>10. \A q \in DOMAIN u.leaf : \E i \in 1..Len(z) : z[i] = q
    <3>1. ASSUME NEW q \in DOMAIN u.leaf PROVE \E i \in 1..n + 1 : z[i] = q
      <4>1. CASE q = a
        <5>1. k \in 1..n + 1 /\ ~(k = k + 1) /\ ~(k < k) /\ ~(k > k + 1)
          BY <2>30
        <5> QED BY <2>7, <4>1, <5>1
      <4>2. CASE q = b
        <5>1. k + 1 \in 1..n + 1 /\ ~(k + 1 = k) /\ ~(k + 1 < k) /\ ~(k + 1 > k + 1)
          BY <2>1
        <5> QED BY <2>7, <4>2, <5>1
      <4>3. CASE q # a /\ q # b
        <5>1. q \in DOMAIN t.leaf /\ q # p
          BY <1>3, <4>3
        <5>2. PICK i \in 1..n : s[i] = q
          BY <2>1, <5>1
        <5>3. i # k
          BY <2>3, <5>1, <5>2
        <5>4. CASE i < k
          <6>1. i \in 1..n + 1 /\ ~(i = k) /\ ~(i = k + 1) /\ ~(i > k + 1)
            BY <2>1, <5>4
          <6> QED BY <2>7, <5>2, <6>1
        <5>5. CASE i > k
          <6>1. i + 1 \in 1..n + 1 /\ ~(i + 1 = k) /\ ~(i + 1 = k + 1) /\ ~(i + 1 < k) /\ i + 1 - 1 = i
            BY <2>30, <5>5
          <6> DEFINE m == i + 1
          <6> HIDE DEF m
          <6>2. m \in 1..n + 1 /\ ~(m = k) /\ ~(m = k + 1) /\ ~(m < k) /\ m - 1 = i
            BY <6>1 DEF m
          <6>3. z[m] = s[m - 1]
            BY <2>7, <6>2
          <6> QED BY <5>2, <6>2, <6>3
        <5> QED BY <2>30, <5>3, <5>4, <5>5
      <4> QED BY <4>1, <4>2, <4>3
    <3> QED BY <2>9, <3>1
  <2>11. \A i, j \in 1..Len(z) : i < j => Before(z[i], z[j])
    <3>1. \A x \in 1..n : s[x] \in Path
      BY <2>1, TreeNodes
    <3>2. Before(a, b)
      BY <1>1, BeforeChild DEF a, b
    <3>3. \A x \in 1..n : x < k => Before(s[x], a) /\ Before(s[x], b)
      <4>1. \A x \in 1..n : x < k => Before(s[x], p)
        BY <2>2, <2>3
      <4> QED BY <1>1, <3>1, <4>1, BeforeChild DEF a, b
    <3>4. \A x \in 1..n : x > k => Before(a, s[x]) /\ Before(b, s[x])
      <4>1. \A x \in 1..n : x > k => Before(p, s[x])
        BY <2>1, <2>2, <2>3
      <4> QED BY <1>1, <3>1, <4>1, BeforeChild DEF a, b
    <3>5. ASSUME NEW i \in 1..n + 1, NEW j \in 1..n + 1, i < j PROVE Before(z[i], z[j])
      <4>1. /\ \/ i < k /\ i \in 1..n /\ z[i] = s[i]
               \/ i = k /\ z[i] = a
               \/ i = k + 1 /\ z[i] = b
               \/ i > k + 1 /\ i - 1 \in 1..n /\ i - 1 > k /\ z[i] = s[i - 1]
            /\ \/ j < k /\ j \in 1..n /\ z[j] = s[j]
               \/ j = k /\ z[j] = a
               \/ j = k + 1 /\ z[j] = b
               \/ j > k + 1 /\ j - 1 \in 1..n /\ j - 1 > k /\ z[j] = s[j - 1]
        BY <2>7
      <4>2. i > k + 1 /\ j > k + 1 => i - 1 < j - 1
        BY <3>5
      <4>3. i \in Int /\ j \in Int /\ k \in Int
        OBVIOUS
      <4>4. CASE i < k /\ i \in 1..n /\ z[i] = s[i]
        <5>1. j - 1 > k => i < j - 1
          BY <4>3, <4>4
        <5> QED BY <2>2, <3>3, <3>5, <4>1, <4>3, <4>4, <5>1
      <4>5. CASE i = k /\ z[i] = a
        BY <3>2, <3>4, <3>5, <4>1, <4>3, <4>5
      <4>6. CASE i = k + 1 /\ z[i] = b
        BY <3>4, <3>5, <4>1, <4>3, <4>6
      <4>7. CASE i > k + 1 /\ i - 1 \in 1..n /\ i - 1 > k /\ z[i] = s[i - 1]
        <5>1. j > k + 1
          BY <3>5, <4>3, <4>7
        <5>2. j - 1 \in 1..n /\ z[j] = s[j - 1] /\ i - 1 < j - 1
          BY <4>1, <4>2, <4>3, <4>7, <5>1
        <5> QED BY <2>2, <4>7, <5>2
      <4> QED BY <4>1, <4>4, <4>5, <4>6, <4>7
    <3> QED BY <2>9, <3>5
  <2>12. Listing(z, DOMAIN u.leaf)
    BY <2>9, <2>10, <2>11 DEF Listing
  <2>13. \A i \in 1..n + 1 : new[i] = u.leaf[z[i]]
    <3>1. ids[k] = t.leaf[p]
      BY <2>1, <2>3
    <3>2. \A x \in 1..n : s[x] # p => ids[x] = u.leaf[s[x]]
      BY <1>6, <2>1
    <3> HIDE DEF new
    <3>3. ASSUME NEW i \in 1..n + 1 PROVE new[i] = u.leaf[z[i]]
      <4>1. new[i] = IF i < k + 1 THEN ids[i] ELSE IF i = k + 1 THEN id ELSE ids[i - 1]
        BY <2>6
      <4>2. \/ i < k /\ i \in 1..n /\ z[i] = s[i] /\ s[i] # p
            \/ i = k /\ z[i] = a
            \/ i = k + 1 /\ z[i] = b
            \/ i > k + 1 /\ i - 1 \in 1..n /\ i - 1 > k /\ z[i] = s[i - 1] /\ s[i - 1] # p
        BY <2>7
      <4>3. i \in Int /\ k \in Int
        OBVIOUS
      <4> QED BY <1>3, <3>1, <3>2, <4>1, <4>2, <4>3
    <3> QED BY <3>3
  <2> HIDE DEF new, X
  <2>14. pane_ids(u) = new
    BY <1>7, <2>6, <2>9, <2>12, <2>13, PaneIdsBy
  <2>15. InsertAfter(ids, t.leaf[p], id) = new
    BY <2>4 DEF InsertAfter, new
  <2> QED BY <2>14, <2>15 DEF ids
<1> QED BY <1>7, <1>8, <1>9 DEF u

-----------------------------------------------------------------------------
(* Taking a leaf away *)

(* Where what is at x once the leaf p is gone was before, and where what is *)
(* at q goes.                                                               *)
Old(p, x) == IF IsPrefix(Front(p), x) THEN InsertAt(x, Len(p), Last(Sibling(p))) ELSE x
New(p, q) == IF IsPrefix(Sibling(p), q) THEN RemoveAt(q, Len(p)) ELSE q

(* The other child of a node's parent. *)
LEMMA SiblingIs ==
  ASSUME NEW p \in Path, Len(p) > 0
  PROVE  /\ Sibling(p) \in Path /\ Len(Sibling(p)) = Len(p)
         /\ Sibling(p) = Child(Front(p), Last(Sibling(p)))
         /\ Last(Sibling(p)) \in {1, 2} /\ Last(Sibling(p)) # p[Len(p)]
         /\ \A i \in 1..Len(p) - 1 : Sibling(p)[i] = p[i]
         /\ Sibling(p)[Len(p)] = Last(Sibling(p))
<1>1. /\ Front(p) \in Path /\ Len(Front(p)) = Len(p) - 1
      /\ \A i \in 1..Len(p) - 1 : Front(p)[i] = p[i]
      /\ Last(p) = p[Len(p)] /\ Last(p) \in {1, 2}
      /\ Len(p) \in Nat
  BY FrontIs, PathAt
<1> DEFINE e == 3 - Last(p)
           f == Front(p)
           s == Child(f, e)
<1>2. e \in {1, 2} /\ e # p[Len(p)] /\ f \in Path
  BY <1>1
<1>3. Sibling(p) = s
  BY DEF Sibling, Child
<1> HIDE DEF e, f
<1>4. /\ s \in Path /\ Len(s) = Len(f) + 1
      /\ \A i \in 1..Len(f) : s[i] = f[i]
      /\ s[Len(f) + 1] = e
      /\ Last(s) = e
  BY <1>2, ChildIs, FrontOfChild
<1>5. /\ Len(f) = Len(p) - 1 /\ Len(f) + 1 = Len(p) /\ Len(f) \in Nat
      /\ \A i \in 1..Len(p) - 1 : f[i] = p[i]
  BY <1>1 DEF f
<1> HIDE DEF s
<1>6. Last(s) \in {1, 2} /\ Last(s) # p[Len(p)] /\ s = Child(f, Last(s))
  BY <1>2, <1>4 DEF s
<1> QED BY <1>3, <1>4, <1>5, <1>6 DEF f

(* Inserting a step below the parent of p. *)
LEMMA OldIs ==
  ASSUME NEW p \in Path, Len(p) > 0, NEW x \in Path
  PROVE  /\ Old(p, x) \in Path
         /\ IsPrefix(Front(p), x) =>
              /\ Len(x) >= Len(p) - 1
              /\ Len(Old(p, x)) = Len(x) + 1
              /\ \A i \in 1..Len(x) + 1 :
                   Old(p, x)[i] = IF i < Len(p) THEN x[i] ELSE IF i = Len(p) THEN Last(Sibling(p)) ELSE x[i - 1]
              /\ IsPrefix(Sibling(p), Old(p, x))
         /\ ~IsPrefix(Front(p), x) => Old(p, x) = x
<1> DEFINE f == Front(p)
           k == Len(p)
           s == Sibling(p)
           e == Last(s)
           y == InsertAt(x, k, e)
<1>1. /\ f \in Path /\ Len(f) = k - 1 /\ \A i \in 1..k - 1 : f[i] = p[i]
      /\ k \in Nat /\ Len(x) \in Nat
  BY FrontIs, PathAt
<1>2. /\ s \in Path /\ Len(s) = k /\ e \in {1, 2}
      /\ \A i \in 1..k - 1 : s[i] = p[i]
      /\ s[k] = e
  BY SiblingIs
<1>3. Old(p, x) = IF IsPrefix(f, x) THEN y ELSE x
  BY DEF Old
<1> HIDE DEF f, s, e, k
<1>4. ASSUME IsPrefix(f, x)
      PROVE  /\ Len(x) >= k - 1
             /\ y \in Path /\ Len(y) = Len(x) + 1
             /\ \A i \in 1..Len(x) + 1 : y[i] = IF i < k THEN x[i] ELSE IF i = k THEN e ELSE x[i - 1]
             /\ IsPrefix(s, y)
  <2>1. Len(f) <= Len(x) /\ \A i \in 1..Len(f) : f[i] = x[i]
    BY <1>1, <1>4, PrefixIs
  <2>2. k \in 1..Len(x) + 1
    BY <1>1, <2>1 DEF k
  <2>3. x \in Seq({1, 2})
    BY DEF Path
  <2>4. /\ y \in Path /\ Len(y) = Len(x) + 1
        /\ \A i \in 1..Len(x) + 1 : y[i] = IF i < k THEN x[i] ELSE IF i = k THEN e ELSE x[i - 1]
    BY <1>2, <2>2, <2>3, InsertAtShape DEF Path
  <2> HIDE DEF y
  <2>5. \A i \in 1..k : s[i] = y[i]
    <3>1. ASSUME NEW i \in 1..k PROVE s[i] = y[i]
      <4>1. CASE i = k
        <5>1. i \in 1..Len(x) + 1 /\ ~(i < k)
          BY <2>2, <4>1
        <5> QED BY <1>2, <2>4, <4>1, <5>1
      <4>2. CASE i # k
        <5>1. i \in 1..k - 1 /\ i \in 1..Len(x) + 1 /\ i < k
          BY <1>1, <2>2, <4>2
        <5>2. s[i] = p[i] /\ f[i] = p[i] /\ f[i] = x[i]
          BY <1>1, <1>2, <2>1, <5>1
        <5> QED BY <2>4, <5>1, <5>2
      <4> QED BY <4>1, <4>2
    <3> QED BY <3>1
  <2>6. k <= Len(y)
    BY <1>1, <2>2, <2>4
  <2>7. IsPrefix(s, y)
    BY <1>2, <2>4, <2>5, <2>6, PrefixIs
  <2>8. Len(x) >= k - 1
    BY <1>1, <2>1
  <2> QED BY <2>4, <2>7, <2>8
<1> HIDE DEF y
<1>5. Old(p, x) \in Path
  BY <1>3, <1>4
<1> QED BY <1>3, <1>4, <1>5 DEF f, s, e, k

(* Removing it again. *)
LEMMA NewIs ==
  ASSUME NEW p \in Path, Len(p) > 0, NEW q \in Path
  PROVE  /\ New(p, q) \in Path
         /\ IsPrefix(Sibling(p), q) =>
              /\ Len(q) >= Len(p)
              /\ Len(New(p, q)) = Len(q) - 1
              /\ \A i \in 1..Len(q) - 1 : New(p, q)[i] = IF i < Len(p) THEN q[i] ELSE q[i + 1]
              /\ IsPrefix(Front(p), New(p, q))
              /\ Old(p, New(p, q)) = q
         /\ ~IsPrefix(Sibling(p), q) => New(p, q) = q
<1> DEFINE f == Front(p)
           k == Len(p)
           s == Sibling(p)
           e == Last(s)
           y == RemoveAt(q, k)
<1>1. /\ f \in Path /\ Len(f) = k - 1 /\ \A i \in 1..k - 1 : f[i] = p[i]
      /\ k \in Nat /\ Len(q) \in Nat /\ k > 0
  BY FrontIs, PathAt
<1>2. /\ s \in Path /\ Len(s) = k /\ e \in {1, 2}
      /\ \A i \in 1..k - 1 : s[i] = p[i]
      /\ s[k] = e
  BY SiblingIs
<1>3. New(p, q) = IF IsPrefix(s, q) THEN y ELSE q
  BY DEF New
<1>30. \A x \in Path : IsPrefix(f, x) =>
              /\ Old(p, x) \in Path
              /\ Len(Old(p, x)) = Len(x) + 1
              /\ \A i \in 1..Len(x) + 1 :
                   Old(p, x)[i] = IF i < k THEN x[i] ELSE IF i = k THEN e ELSE x[i - 1]
  BY OldIs
<1> HIDE DEF f, s, e, k
<1>4. ASSUME IsPrefix(s, q)
      PROVE  /\ Len(q) >= k
             /\ y \in Path /\ Len(y) = Len(q) - 1
             /\ \A i \in 1..Len(q) - 1 : y[i] = IF i < k THEN q[i] ELSE q[i + 1]
             /\ IsPrefix(f, y)
             /\ Old(p, y) = q
  <2>1. k <= Len(q) /\ \A i \in 1..k : s[i] = q[i]
    BY <1>2, <1>4, PrefixIs
  <2>2. k \in 1..Len(q)
    BY <1>1, <2>1
  <2>3. q \in Seq({1, 2})
    BY DEF Path
  <2>4. /\ y \in Path /\ Len(y) = Len(q) - 1
        /\ \A i \in 1..Len(q) - 1 : y[i] = IF i < k THEN q[i] ELSE q[i + 1]
    BY <2>2, <2>3, RemoveAtShape DEF Path
  <2> HIDE DEF y
  <2>5. \A i \in 1..k - 1 : f[i] = y[i]
    <3>1. ASSUME NEW i \in 1..k - 1 PROVE f[i] = y[i]
      <4>1. i \in 1..k /\ i \in 1..Len(q) - 1 /\ i < k
        BY <1>1, <2>2
      <4>2. f[i] = p[i] /\ s[i] = p[i] /\ s[i] = q[i]
        BY <1>1, <1>2, <2>1, <4>1
      <4> QED BY <2>4, <4>1, <4>2
    <3> QED BY <3>1
  <2>6. Len(f) <= Len(y)
    BY <1>1, <2>2, <2>4
  <2>7. IsPrefix(f, y)
    BY <1>1, <2>4, <2>5, <2>6, PrefixIs
  <2> DEFINE o == Old(p, y)
  <2>8. /\ o \in Path /\ Len(o) = Len(y) + 1
        /\ \A i \in 1..Len(y) + 1 : o[i] = IF i < k THEN y[i] ELSE IF i = k THEN e ELSE y[i - 1]
    BY <1>30, <2>4, <2>7
  <2> HIDE DEF o
  <2>9. Len(o) = Len(q)
    BY <1>1, <2>4, <2>8
  <2>10. ASSUME NEW i \in 1..Len(o) PROVE o[i] = q[i]
    <3>1. i \in 1..Len(q) /\ i \in 1..Len(y) + 1
      BY <1>1, <2>4, <2>9
    <3>2. CASE i < k
      <4>1. i \in 1..Len(q) - 1
        BY <1>1, <2>1, <3>1, <3>2
      <4> QED BY <2>4, <2>8, <3>1, <3>2, <4>1
    <3>3. CASE i = k
      <4>1. o[i] = e
        BY <2>8, <3>1, <3>3
      <4>2. k \in 1..k
        BY <1>1
      <4> QED BY <1>2, <2>1, <3>3, <4>1, <4>2
    <3>4. CASE i > k
      <4>1. i - 1 \in 1..Len(q) - 1 /\ ~(i - 1 < k) /\ i - 1 + 1 = i /\ ~(i < k) /\ i # k
        BY <1>1, <2>1, <3>1, <3>4
      <4>2. o[i] = y[i - 1]
        BY <2>8, <3>1, <4>1
      <4> DEFINE m == i - 1
      <4>3. m \in 1..Len(q) - 1 /\ ~(m < k) /\ m + 1 = i
        BY <4>1
      <4> HIDE DEF m
      <4>4. y[m] = q[m + 1]
        BY <2>4, <4>3
      <4> QED BY <4>2, <4>3, <4>4 DEF m
    <3> QED BY <1>1, <3>1, <3>2, <3>3, <3>4
  <2>11. o = q
    BY <2>8, <2>9, <2>10, PathsEqual
  <2> QED BY <2>1, <2>4, <2>7, <2>11 DEF o
<1> HIDE DEF y
<1>5. New(p, q) \in Path
  BY <1>3, <1>4
<1> QED BY <1>3, <1>4, <1>5 DEF f, s, e, k

(* What the two say of each other. *)
LEMMA OldNew ==
  ASSUME NEW p \in Path, Len(p) > 0, NEW x \in Path
  PROVE  /\ New(p, Old(p, x)) = x
         /\ IsPrefix(Front(p), Old(p, x)) <=> IsPrefix(Front(p), x)
<1> DEFINE f == Front(p)
           k == Len(p)
           s == Sibling(p)
           e == Last(s)
           o == Old(p, x)
<1>1. /\ f \in Path /\ Len(f) = k - 1 /\ \A i \in 1..k - 1 : f[i] = p[i]
      /\ k \in Nat /\ Len(x) \in Nat /\ k > 0
  BY FrontIs, PathAt
<1>2. /\ s \in Path /\ Len(s) = k /\ \A i \in 1..k - 1 : s[i] = p[i]
  BY SiblingIs
<1>3. \A q \in Path : IsPrefix(s, q) => IsPrefix(f, q)
  <2>1. ASSUME NEW q \in Path, IsPrefix(s, q) PROVE IsPrefix(f, q)
    <3>1. Len(s) <= Len(q) /\ \A i \in 1..Len(s) : s[i] = q[i]
      BY <1>2, <2>1, PrefixIs
    <3>2. Len(q) \in Nat
      BY PathAt
    <3> HIDE DEF f, s, k
    <3>3. Len(f) <= Len(q) /\ \A i \in 1..Len(f) : f[i] = q[i]
      BY <1>1, <1>2, <3>1, <3>2
    <3> QED BY <1>1, <3>3, PrefixIs
  <2> QED BY <2>1
<1>4. CASE IsPrefix(f, x)
  <2>1. /\ o \in Path /\ Len(x) >= k - 1 /\ Len(o) = Len(x) + 1 /\ IsPrefix(s, o)
        /\ \A i \in 1..Len(x) + 1 : o[i] = IF i < k THEN x[i] ELSE IF i = k THEN e ELSE x[i - 1]
    BY <1>4, OldIs
  <2> DEFINE n == New(p, o)
  <2>2. /\ n \in Path /\ Len(n) = Len(o) - 1
        /\ \A i \in 1..Len(o) - 1 : n[i] = IF i < k THEN o[i] ELSE o[i + 1]
    <3> HIDE DEF o
    <3> QED BY <2>1, NewIs
  <2> HIDE DEF n, o, f, s, k, e
  <2>3. Len(n) = Len(x)
    BY <1>1, <2>1, <2>2
  <2>4. ASSUME NEW i \in 1..Len(n) PROVE n[i] = x[i]
    <3>1. i \in 1..Len(o) - 1 /\ i \in 1..Len(x) + 1
      BY <1>1, <2>1, <2>3
    <3>2. CASE i < k
      BY <2>1, <2>2, <3>1, <3>2
    <3>3. CASE ~(i < k)
      <4> DEFINE m == i + 1
      <4>1. m \in 1..Len(x) + 1 /\ ~(m < k) /\ m # k /\ m - 1 = i
        BY <1>1, <2>1, <3>1, <3>3
      <4>2. n[i] = o[m]
        BY <2>2, <3>1, <3>3
      <4> HIDE DEF m
      <4>3. o[m] = x[m - 1]
        BY <2>1, <4>1
      <4> QED BY <4>1, <4>2, <4>3
    <3> QED BY <3>2, <3>3
  <2>5. n = x
    BY <2>2, <2>3, <2>4, PathsEqual
  <2>6. IsPrefix(f, o)
    BY <1>3, <2>1
  <2> QED BY <1>4, <2>5, <2>6 DEF n, o, f
<1>5. CASE ~IsPrefix(f, x)
  <2>1. o = x
    BY <1>5, OldIs
  <2>2. ~IsPrefix(s, x)
    BY <1>3, <1>5
  <2>3. New(p, x) = x
    BY <2>2, NewIs
  <2> QED BY <1>5, <2>1, <2>3
<1> QED BY <1>4, <1>5

(* What was left of another node still is. *)
LEMMA OldBefore ==
  ASSUME NEW p \in Path, Len(p) > 0, NEW x \in Path, NEW y \in Path,
         Before(Old(p, x), Old(p, y))
  PROVE  Before(x, y)
<1> DEFINE f == Front(p)
           k == Len(p)
           e == Last(Sibling(p))
           a == Old(p, x)
           b == Old(p, y)
<1>1. /\ f \in Path /\ Len(f) = k - 1 /\ k \in Nat /\ k > 0
      /\ Len(x) \in Nat /\ Len(y) \in Nat
  BY FrontIs, PathAt
<1>2. /\ a \in Path
      /\ IsPrefix(f, x) =>
           /\ Len(x) >= k - 1
           /\ Len(a) = Len(x) + 1
           /\ \A i \in 1..Len(x) + 1 : a[i] = IF i < k THEN x[i] ELSE IF i = k THEN e ELSE x[i - 1]
      /\ ~IsPrefix(f, x) => a = x
  BY OldIs
<1>3. /\ b \in Path
      /\ IsPrefix(f, y) =>
           /\ Len(y) >= k - 1
           /\ Len(b) = Len(y) + 1
           /\ \A i \in 1..Len(y) + 1 : b[i] = IF i < k THEN y[i] ELSE IF i = k THEN e ELSE y[i - 1]
      /\ ~IsPrefix(f, y) => b = y
  BY OldIs
<1>4. Before(a, b)
  OBVIOUS
<1>5. /\ IsPrefix(f, x) <=> Len(f) <= Len(x) /\ \A i \in 1..Len(f) : f[i] = x[i]
      /\ IsPrefix(f, y) <=> Len(f) <= Len(y) /\ \A i \in 1..Len(f) : f[i] = y[i]
  BY <1>1, PrefixIs
<1> HIDE DEF f, k, e, a, b
<1>6. PICK i \in 1..Len(a) : PartsAt(a, b, i)
  BY <1>2, <1>3, <1>4, BeforeIs
<1>7. /\ i \in Nat /\ i >= 1 /\ i <= Len(a) /\ i <= Len(b) /\ a[i] = 1 /\ b[i] = 2
      /\ \A j \in 1..i - 1 : a[j] = b[j]
      /\ Len(a) \in Nat /\ Len(b) \in Nat
  BY <1>2, <1>3, <1>6, PathAt DEF PartsAt
<1>8. CASE ~IsPrefix(f, x) /\ ~IsPrefix(f, y)
  BY <1>2, <1>3, <1>4, <1>8
<1>9. CASE IsPrefix(f, x) /\ IsPrefix(f, y)
  <2>1. \A j \in 1..k - 1 : x[j] = y[j]
    BY <1>1, <1>5, <1>9
  <2>2. i > k
    <3>1. CASE i < k
      <4>1. i \in 1..k - 1 /\ i \in 1..Len(x) + 1 /\ i \in 1..Len(y) + 1
        BY <1>1, <1>2, <1>3, <1>7, <1>9, <3>1
      <4> QED BY <1>2, <1>3, <1>7, <1>9, <2>1, <3>1, <4>1
    <3>2. CASE i = k
      <4>1. i \in 1..Len(x) + 1 /\ i \in 1..Len(y) + 1 /\ ~(i < k)
        BY <1>1, <1>2, <1>3, <1>7, <1>9, <3>2
      <4> QED BY <1>2, <1>3, <1>7, <1>9, <3>2, <4>1
    <3> QED BY <1>1, <1>7, <3>1, <3>2
  <2> DEFINE m == i - 1
  <2>3. m \in 1..Len(x) /\ m <= Len(y) /\ m >= k /\ m \in Nat /\ m + 1 = i
    BY <1>1, <1>2, <1>3, <1>7, <1>9, <2>2
  <2>4. i \in 1..Len(x) + 1 /\ i \in 1..Len(y) + 1 /\ ~(i < k) /\ i # k
    BY <1>1, <1>2, <1>3, <1>7, <1>9, <2>2
  <2>5. x[m] = 1 /\ y[m] = 2
    <3>1. a[i] = x[i - 1] /\ b[i] = y[i - 1]
      BY <1>2, <1>3, <1>9, <2>4
    <3> QED BY <1>7, <3>1
  <2> HIDE DEF m
  <2>6. ASSUME NEW j \in 1..m - 1 PROVE x[j] = y[j]
    <3>1. CASE j < k
      <4>1. j \in 1..k - 1
        BY <1>1, <3>1
      <4> QED BY <2>1, <4>1
    <3>2. CASE ~(j < k)
      <4> DEFINE l == j + 1
      <4>1. l \in 1..i - 1 /\ l \in 1..Len(x) + 1 /\ l \in 1..Len(y) + 1 /\ ~(l < k) /\ l # k /\ l - 1 = j
        BY <1>1, <1>7, <2>3, <3>2
      <4> HIDE DEF l
      <4>2. a[l] = x[l - 1] /\ b[l] = y[l - 1]
        BY <1>2, <1>3, <1>9, <4>1
      <4>3. a[l] = b[l]
        BY <1>7, <4>1
      <4> QED BY <4>1, <4>2, <4>3
    <3> QED BY <3>1, <3>2
  <2>7. PartsAt(x, y, m)
    BY <2>3, <2>5, <2>6 DEF PartsAt
  <2> QED BY <2>3, <2>7, BeforeIs
<1>10. CASE IsPrefix(f, x) /\ ~IsPrefix(f, y)
  <2>1. b = y
    BY <1>3, <1>10
  <2>2. \A j \in 1..k - 1 : f[j] = x[j] /\ a[j] = x[j]
    <3>1. \A j \in 1..k - 1 : j \in 1..Len(f) /\ j \in 1..Len(x) + 1 /\ j < k
      BY <1>1, <1>2, <1>10
    <3> QED BY <1>2, <1>5, <1>10, <3>1
  <2>3. i < k
    <3>1. ASSUME i >= k PROVE FALSE
      <4>1. \A j \in 1..k - 1 : j \in 1..i - 1
        BY <1>1, <1>7, <3>1
      <4>2. \A j \in 1..k - 1 : f[j] = y[j]
        BY <1>7, <2>1, <2>2, <4>1
      <4>3. Len(f) <= Len(y)
        BY <1>1, <1>7, <2>1, <3>1
      <4> QED BY <1>1, <1>5, <1>10, <4>2, <4>3
    <3> QED BY <1>1, <1>7, <3>1
  <2>4. i \in 1..Len(x) /\ \A j \in 1..i : j \in 1..k - 1
    BY <1>1, <1>2, <1>7, <1>10, <2>3
  <2>5. i \in 1..i /\ \A j \in 1..i - 1 : j \in 1..i
    BY <1>7
  <2>6. PartsAt(x, y, i)
    BY <1>7, <2>1, <2>2, <2>4, <2>5 DEF PartsAt
  <2> QED BY <2>4, <2>6, BeforeIs
<1>11. CASE ~IsPrefix(f, x) /\ IsPrefix(f, y)
  <2>1. a = x
    BY <1>2, <1>11
  <2>2. \A j \in 1..k - 1 : f[j] = y[j] /\ b[j] = y[j]
    <3>1. \A j \in 1..k - 1 : j \in 1..Len(f) /\ j \in 1..Len(y) + 1 /\ j < k
      BY <1>1, <1>3, <1>11
    <3> QED BY <1>3, <1>5, <1>11, <3>1
  <2>3. i < k
    <3>1. ASSUME i >= k PROVE FALSE
      <4>1. \A j \in 1..k - 1 : j \in 1..i - 1
        BY <1>1, <1>7, <3>1
      <4>2. \A j \in 1..k - 1 : f[j] = x[j]
        BY <1>7, <2>1, <2>2, <4>1
      <4>3. Len(f) <= Len(x)
        BY <1>1, <1>7, <2>1, <3>1
      <4> QED BY <1>1, <1>5, <1>11, <4>2, <4>3
    <3> QED BY <1>1, <1>7, <3>1
  <2>4. i \in 1..Len(x) /\ i <= Len(y) /\ \A j \in 1..i : j \in 1..k - 1
    BY <1>1, <1>3, <1>7, <1>11, <2>1, <2>3
  <2>5. i \in 1..i /\ \A j \in 1..i - 1 : j \in 1..i
    BY <1>7
  <2>6. PartsAt(x, y, i)
    BY <1>7, <2>1, <2>2, <2>4, <2>5 DEF PartsAt
  <2> QED BY <2>4, <2>6, BeforeIs
<1> QED BY <1>8, <1>9, <1>10, <1>11

(* A child of a node was a child of it, but for the node that takes the     *)
(* parent's place.                                                          *)
LEMMA OldChild ==
  ASSUME NEW p \in Path, Len(p) > 0, NEW x \in Path, NEW side \in {1, 2}
  PROVE  \/ Old(p, Child(x, side)) = Child(Old(p, x), side)
         \/ Child(x, side) = Front(p) /\ Old(p, x) = x /\ Old(p, Child(x, side)) = Sibling(p)
<1> DEFINE f == Front(p)
           k == Len(p)
           s == Sibling(p)
           e == Last(s)
           c == Child(x, side)
           a == Old(p, x)
           d == Child(a, side)
           b == Old(p, c)
<1>1. /\ f \in Path /\ Len(f) = k - 1 /\ k \in Nat /\ k > 0
      /\ Len(x) \in Nat
  BY FrontIs, PathAt
<1>2. /\ s \in Path /\ Len(s) = k
  BY SiblingIs
<1>3. /\ c \in Path /\ Len(c) = Len(x) + 1
      /\ \A i \in 1..Len(x) : c[i] = x[i]
      /\ c[Len(x) + 1] = side
  BY ChildIs
<1>4. /\ a \in Path
      /\ IsPrefix(f, x) =>
           /\ Len(x) >= k - 1
           /\ Len(a) = Len(x) + 1
           /\ \A i \in 1..Len(x) + 1 : a[i] = IF i < k THEN x[i] ELSE IF i = k THEN e ELSE x[i - 1]
      /\ ~IsPrefix(f, x) => a = x
  BY OldIs
<1>5. /\ d \in Path /\ Len(d) = Len(a) + 1
      /\ \A i \in 1..Len(a) : d[i] = a[i]
      /\ d[Len(a) + 1] = side
  <2> HIDE DEF a
  <2> QED BY <1>4, ChildIs
<1>6. /\ b \in Path
      /\ IsPrefix(f, c) =>
           /\ Len(c) >= k - 1
           /\ Len(b) = Len(c) + 1
           /\ \A i \in 1..Len(c) + 1 : b[i] = IF i < k THEN c[i] ELSE IF i = k THEN e ELSE c[i - 1]
           /\ IsPrefix(s, b)
      /\ ~IsPrefix(f, c) => b = c
  <2> HIDE DEF c
  <2> QED BY <1>3, OldIs
<1>7. /\ IsPrefix(f, x) <=> Len(f) <= Len(x) /\ \A i \in 1..Len(f) : f[i] = x[i]
      /\ IsPrefix(f, c) <=> Len(f) <= Len(c) /\ \A i \in 1..Len(f) : f[i] = c[i]
  <2> HIDE DEF c
  <2> QED BY <1>1, <1>3, PrefixIs
<1>8. d = Child(a, side)
  OBVIOUS
<1> HIDE DEF f, k, s, e, c, a, b, d
<1>9. CASE IsPrefix(f, x)
  <2>1. IsPrefix(f, c)
    <3>1. Len(f) <= Len(c) /\ \A i \in 1..Len(f) : i \in 1..Len(x)
      BY <1>1, <1>3, <1>7, <1>9
    <3> QED BY <1>3, <1>7, <1>9, <3>1
  <2>2. Len(b) = Len(x) + 2 /\ Len(d) = Len(x) + 2
    BY <1>1, <1>3, <1>4, <1>5, <1>6, <1>9, <2>1
  <2>3. ASSUME NEW i \in 1..Len(b) PROVE b[i] = d[i]
    <3>1. i \in 1..Len(c) + 1 /\ i \in Nat
      BY <1>1, <1>3, <2>2
    <3>2. CASE i < k
      <4>1. i \in 1..Len(x) + 1 /\ i \in 1..Len(x) /\ i \in 1..Len(a)
        BY <1>1, <1>4, <1>9, <3>1, <3>2
      <4> QED BY <1>3, <1>4, <1>5, <1>6, <1>9, <2>1, <3>1, <3>2, <4>1
    <3>3. CASE i = k
      <4>1. i \in 1..Len(x) + 1 /\ i \in 1..Len(a) /\ ~(i < k)
        BY <1>1, <1>4, <1>9, <3>1, <3>3
      <4> QED BY <1>3, <1>4, <1>5, <1>6, <1>9, <2>1, <3>1, <3>3, <4>1
    <3>4. CASE i > k /\ i <= Len(x) + 1
      <4>1. i \in 1..Len(x) + 1 /\ i - 1 \in 1..Len(x) /\ i \in 1..Len(a) /\ ~(i < k) /\ i # k
        BY <1>1, <1>4, <1>9, <3>1, <3>4
      <4>2. b[i] = c[i - 1] /\ a[i] = x[i - 1] /\ d[i] = a[i]
        BY <1>4, <1>5, <1>6, <1>9, <2>1, <3>1, <4>1
      <4>3. c[i - 1] = x[i - 1]
        BY <1>3, <4>1
      <4> QED BY <4>2, <4>3
    <3>5. CASE i = Len(x) + 2
      <4>1. ~(i < k) /\ i # k /\ i - 1 = Len(x) + 1 /\ i = Len(a) + 1
        BY <1>1, <1>4, <1>9, <3>5
      <4>2. b[i] = c[i - 1]
        BY <1>6, <2>1, <3>1, <4>1
      <4> QED BY <1>3, <1>5, <4>1, <4>2
    <3> QED BY <1>1, <2>2, <3>1, <3>2, <3>3, <3>4, <3>5
  <2>4. b = d
    BY <1>5, <1>6, <2>2, <2>3, PathsEqual
  <2> QED BY <2>4 DEF b, d, a, c
<1>10. CASE ~IsPrefix(f, x) /\ ~IsPrefix(f, c)
  BY <1>4, <1>6, <1>10 DEF a, b, c
<1>11. CASE ~IsPrefix(f, x) /\ IsPrefix(f, c)
  <2>1. Len(f) = Len(c)
    <3>1. ASSUME Len(f) <= Len(x) PROVE FALSE
      <4>1. \A i \in 1..Len(f) : i \in 1..Len(x)
        BY <1>1, <3>1
      <4> QED BY <1>3, <1>7, <1>11, <3>1, <4>1
    <3> QED BY <1>1, <1>3, <1>7, <1>11, <3>1
  <2>2. f = c
    BY <1>1, <1>3, <1>7, <1>11, <2>1, PathsEqual
  <2>3. Len(b) = Len(s)
    BY <1>1, <1>2, <1>3, <1>6, <1>11, <2>1
  <2>4. b = s
    <3>1. \A i \in 1..Len(s) : s[i] = b[i]
      BY <1>2, <1>6, <1>11, PrefixIs
    <3> QED BY <1>2, <1>6, <2>3, <3>1, PathsEqual
  <2> QED BY <1>4, <1>11, <2>2, <2>4 DEF a, b, c, f, s
<1> QED BY <1>9, <1>10, <1>11

(* The root's place. *)
LEMMA OldRoot ==
  ASSUME NEW p \in Path, Len(p) > 0
  PROVE  Old(p, <<>>) = <<>> \/ Old(p, <<>>) = Sibling(p)
<1> DEFINE f == Front(p)
           s == Sibling(p)
           z == <<>>
           o == Old(p, z)
<1>1. f \in Path /\ Len(f) = Len(p) - 1 /\ Len(p) \in Nat /\ z \in Path /\ Len(z) = 0
  BY FrontIs, PathAt, RootIs
<1>2. s \in Path /\ Len(s) = Len(p)
  BY SiblingIs
<1>3. /\ o \in Path
      /\ IsPrefix(f, z) => Len(z) >= Len(p) - 1 /\ Len(o) = Len(z) + 1 /\ IsPrefix(s, o)
      /\ ~IsPrefix(f, z) => o = z
  <2> HIDE DEF z
  <2> QED BY <1>1, OldIs
<1> HIDE DEF f, s, z, o
<1>4. CASE IsPrefix(f, z)
  <2>1. Len(o) = Len(s)
    BY <1>1, <1>2, <1>3, <1>4
  <2>2. \A i \in 1..Len(s) : s[i] = o[i]
    BY <1>2, <1>3, <1>4, PrefixIs
  <2>3. o = s
    BY <1>2, <1>3, <2>1, <2>2, PathsEqual
  <2> QED BY <2>3 DEF o, s, z
<1>5. CASE ~IsPrefix(f, z)
  BY <1>3, <1>5 DEF o, z
<1> QED BY <1>4, <1>5

(* Lifted moves what was at Old(p, x) to x. *)
LEMMA LiftedIs ==
  ASSUME NEW p \in Path, Len(p) > 0, NEW g, DOMAIN g \subseteq Path
  PROVE  /\ DOMAIN Lifted(g, p) \subseteq Path
         /\ \A x \in Path : x \in DOMAIN Lifted(g, p) <=> Old(p, x) \in DOMAIN g
         /\ \A x \in DOMAIN Lifted(g, p) : Lifted(g, p)[x] = g[Old(p, x)]
<1> DEFINE f == Front(p)
           k == Len(p)
           s == Sibling(p)
           A == {q \in DOMAIN g : ~IsPrefix(f, q)}
           B == {RemoveAt(q, k) : q \in {q \in DOMAIN g : IsPrefix(s, q)}}
           h == Lifted(g, p)
<1>1. h = [q \in A \cup B |-> IF IsPrefix(f, q) THEN g[InsertAt(q, k, Last(s))] ELSE g[q]]
  BY DEF Lifted
<1>2. \A x \in A \cup B : h[x] = g[Old(p, x)]
  BY <1>1 DEF Old
<1>3. \A q \in Path : IsPrefix(s, q) =>
        New(p, q) = RemoveAt(q, k) /\ New(p, q) \in Path /\ IsPrefix(f, New(p, q)) /\ Old(p, New(p, q)) = q
  BY NewIs DEF New
<1>4. \A x \in Path : /\ IsPrefix(f, x) => IsPrefix(s, Old(p, x)) /\ Old(p, x) \in Path
                      /\ ~IsPrefix(f, x) => Old(p, x) = x
                      /\ New(p, Old(p, x)) = x
  BY OldIs, OldNew
<1>5. \A x \in A \cup B : x \in Path /\ Old(p, x) \in DOMAIN g
  <2>1. \A x \in A : x \in Path /\ Old(p, x) \in DOMAIN g
    BY <1>4
  <2>2. ASSUME NEW x \in B PROVE x \in Path /\ Old(p, x) \in DOMAIN g
    <3>1. PICK q \in DOMAIN g : IsPrefix(s, q) /\ x = RemoveAt(q, k)
      OBVIOUS
    <3>2. x = New(p, q) /\ q \in Path
      BY <1>3, <3>1
    <3> HIDE DEF s, k, f, B
    <3> QED BY <1>3, <3>1, <3>2
  <2> QED BY <2>1, <2>2
<1>6. ASSUME NEW x \in Path, Old(p, x) \in DOMAIN g PROVE x \in A \cup B
  <2>1. CASE IsPrefix(f, x)
    <3> DEFINE q == Old(p, x)
    <3>1. q \in DOMAIN g /\ IsPrefix(s, q) /\ New(p, q) = x /\ q \in Path
      BY <1>4, <1>6, <2>1
    <3> HIDE DEF q
    <3>2. x = RemoveAt(q, k)
      BY <1>3, <3>1
    <3> QED BY <3>1, <3>2
  <2>2. CASE ~IsPrefix(f, x)
    BY <1>4, <1>6, <2>2
  <2> QED BY <2>1, <2>2
<1>7. DOMAIN h = A \cup B
  BY <1>1
<1> HIDE DEF A, B, h
<1>8. DOMAIN h \subseteq Path /\ \A x \in Path : x \in DOMAIN h <=> Old(p, x) \in DOMAIN g
  BY <1>5, <1>6, <1>7
<1> QED BY <1>2, <1>7, <1>8 DEF h

(* The nodes of the tree that is left, and what they hold. *)
LEMMA CollapsedHolds ==
  ASSUME NEW t, IsTree(t), NEW p \in Path, Len(p) > 0, NEW u, u = Collapsed(t, p)
  PROVE  /\ DOMAIN u = {"leaf", "split"}
         /\ Nodes(u) \subseteq Path
         /\ \A x \in Path : /\ x \in DOMAIN u.leaf <=> Old(p, x) \in DOMAIN t.leaf
                            /\ x \in DOMAIN u.split <=> Old(p, x) \in DOMAIN t.split
                            /\ x \in Nodes(u) <=> Old(p, x) \in Nodes(t)
         /\ \A x \in DOMAIN u.leaf : x \in Path /\ u.leaf[x] = t.leaf[Old(p, x)]
         /\ \A x \in DOMAIN u.split : x \in Path /\ u.split[x] = t.split[Old(p, x)]
<1>1. DOMAIN u = {"leaf", "split"} /\ u.leaf = Lifted(t.leaf, p) /\ u.split = Lifted(t.split, p)
  BY DEF Collapsed
<1>2. DOMAIN t.leaf \subseteq Path /\ DOMAIN t.split \subseteq Path
  BY TreeNodes
<1>3. /\ DOMAIN u.leaf \subseteq Path
      /\ \A x \in Path : x \in DOMAIN u.leaf <=> Old(p, x) \in DOMAIN t.leaf
      /\ \A x \in DOMAIN u.leaf : u.leaf[x] = t.leaf[Old(p, x)]
  BY <1>1, <1>2, LiftedIs
<1>4. /\ DOMAIN u.split \subseteq Path
      /\ \A x \in Path : x \in DOMAIN u.split <=> Old(p, x) \in DOMAIN t.split
      /\ \A x \in DOMAIN u.split : u.split[x] = t.split[Old(p, x)]
  BY <1>1, <1>2, LiftedIs
<1>5. Nodes(u) \subseteq Path /\ \A x \in Path : x \in Nodes(u) <=> Old(p, x) \in Nodes(t)
  BY <1>3, <1>4 DEF Nodes
<1> QED BY <1>1, <1>3, <1>4, <1>5

(* It is a tree. *)
LEMMA CollapsedIsTree ==
  ASSUME NEW t, IsTree(t), NEW p \in DOMAIN t.leaf, Len(p) > 0
  PROVE  IsTree(Collapsed(t, p))
<1> DEFINE u == Collapsed(t, p)
           f == Front(p)
           s == Sibling(p)
<1>1. p \in Path /\ p \in Nodes(t) /\ f \in DOMAIN t.split /\ f \in Path
  BY TreeNodes
<1>2. /\ s \in Path /\ s = Child(f, Last(s)) /\ Last(s) \in {1, 2}
  BY <1>1, SiblingIs
<1>3. s \in Nodes(t)
  <2> HIDE DEF s, f
  <2> QED BY <1>1, <1>2, TreeNodes
<1>4. /\ DOMAIN u = {"leaf", "split"}
      /\ Nodes(u) \subseteq Path
      /\ \A x \in Path : /\ x \in DOMAIN u.leaf <=> Old(p, x) \in DOMAIN t.leaf
                         /\ x \in DOMAIN u.split <=> Old(p, x) \in DOMAIN t.split
                         /\ x \in Nodes(u) <=> Old(p, x) \in Nodes(t)
      /\ \A x \in DOMAIN u.leaf : x \in Path /\ u.leaf[x] = t.leaf[Old(p, x)]
      /\ \A x \in DOMAIN u.split : x \in Path /\ u.split[x] = t.split[Old(p, x)]
  BY <1>1, CollapsedHolds
<1>5. /\ \A x \in Path : Old(p, x) \in Path /\ New(p, Old(p, x)) = x
      /\ \A x \in Path, side \in {1, 2} :
           \/ Old(p, Child(x, side)) = Child(Old(p, x), side)
           \/ Child(x, side) = f /\ Old(p, x) = x /\ Old(p, Child(x, side)) = s
      /\ Old(p, <<>>) = <<>> \/ Old(p, <<>>) = s
  <2>1. \A x \in Path : Old(p, x) \in Path
    BY <1>1, OldIs
  <2>2. \A x \in Path : New(p, Old(p, x)) = x
    BY <1>1, OldNew
  <2>3. \A x \in Path, side \in {1, 2} :
           \/ Old(p, Child(x, side)) = Child(Old(p, x), side)
           \/ Child(x, side) = f /\ Old(p, x) = x /\ Old(p, Child(x, side)) = s
    BY <1>1, OldChild
  <2>4. Old(p, <<>>) = <<>> \/ Old(p, <<>>) = s
    BY <1>1, OldRoot
  <2> HIDE DEF f, s
  <2> QED BY <2>1, <2>2, <2>3, <2>4
<1> HIDE DEF u, f, s
<1>6. IsFiniteSet(Nodes(u))
  <2> DEFINE m == [x \in Nodes(u) |-> Old(p, x)]
  <2>1. m \in [Nodes(u) -> Nodes(t)]
    BY <1>4
  <2>2. \A x, y \in Nodes(u) : m[x] = m[y] => x = y
    <3>1. ASSUME NEW x \in Nodes(u), NEW y \in Nodes(u), m[x] = m[y] PROVE x = y
      <4>1. Old(p, x) = Old(p, y) /\ x \in Path /\ y \in Path
        BY <1>4, <3>1
      <4> QED BY <1>5, <4>1
    <3> QED BY <3>1
  <2> HIDE DEF m
  <2>3. m \in Injection(Nodes(u), Nodes(t))
    BY <2>1, <2>2 DEF Injection, IsInjective
  <2>4. IsFiniteSet(Nodes(t))
    BY DEF IsTree
  <2> QED BY <2>3, <2>4, FS_Injection
<1>7. DOMAIN u.leaf \cap DOMAIN u.split = {}
  <2>1. ASSUME NEW x \in DOMAIN u.leaf, x \in DOMAIN u.split PROVE FALSE
    BY <1>4, <2>1, TreeNodes
  <2> QED BY <2>1
<1>8. <<>> \in Nodes(u)
  <2>1. Old(p, <<>>) \in Nodes(t)
    BY <1>3, <1>5, TreeNodes
  <2> QED BY <1>4, <2>1, RootIs
<1>9. ASSUME NEW x \in DOMAIN u.split
      PROVE  {Child(x, 1), Child(x, 2)} \subseteq Nodes(u) /\ u.split[x] \in [direction : Direction, ratio : Int]
  <2>1. x \in Path /\ Old(p, x) \in DOMAIN t.split /\ u.split[x] = t.split[Old(p, x)]
    BY <1>4
  <2>2. ASSUME NEW side \in {1, 2} PROVE Child(x, side) \in Nodes(u)
    <3>1. Child(x, side) \in Path
      BY <2>1, ChildIs
    <3>2. Child(Old(p, x), side) \in Nodes(t)
      BY <2>1, TreeNodes
    <3>3. Old(p, Child(x, side)) \in Nodes(t)
      BY <1>3, <1>5, <2>1, <3>2
    <3> QED BY <1>4, <3>1, <3>3
  <2>3. t.split[Old(p, x)] \in [direction : Direction, ratio : Int]
    BY <2>1, TreeHolds
  <2> QED BY <2>1, <2>2, <2>3
<1>10. ASSUME NEW x \in Nodes(u), x # <<>> PROVE Front(x) \in DOMAIN u.split
  <2>1. x \in Path /\ Old(p, x) \in Nodes(t)
    BY <1>4
  <2>2. Len(x) > 0
    BY <1>10, <2>1, RootIs, PathAt
  <2> DEFINE y == Front(x)
             side == Last(x)
  <2>3. y \in Path /\ side \in {1, 2} /\ x = Child(y, side)
    BY <2>1, <2>2, FrontIs
  <2> HIDE DEF y, side
  <2>4. CASE Old(p, x) = Child(Old(p, y), side)
    <3> DEFINE o == Old(p, y)
    <3>1. o \in Path /\ Old(p, x) = Child(o, side)
      BY <1>5, <2>3, <2>4
    <3> HIDE DEF o
    <3>2. Front(Old(p, x)) = o /\ Len(Old(p, x)) > 0
      BY <2>3, <3>1, FrontOfChild, ChildIs, PathAt
    <3>3. o \in DOMAIN t.split
      BY <2>1, <3>2, TreeNodes
    <3> QED BY <1>4, <2>3, <3>3 DEF o, y
  <2>5. CASE x = f /\ Old(p, y) = y
    <3>1. Front(f) \in DOMAIN t.split
      BY <1>1, <2>2, <2>5, TreeNodes
    <3>2. y \in DOMAIN t.split
      BY <2>5, <3>1 DEF y
    <3> QED BY <1>4, <2>3, <2>5, <3>2 DEF y
  <2> QED BY <1>5, <2>3, <2>4, <2>5
<1>11. ASSUME NEW x \in DOMAIN u.leaf, NEW y \in DOMAIN u.leaf, u.leaf[x] = u.leaf[y] PROVE x = y
  <2>1. /\ x \in Path /\ y \in Path /\ Old(p, x) \in DOMAIN t.leaf /\ Old(p, y) \in DOMAIN t.leaf
        /\ t.leaf[Old(p, x)] = t.leaf[Old(p, y)]
    BY <1>4, <1>11
  <2>2. Old(p, x) = Old(p, y)
    BY <2>1, TreeHolds
  <2> QED BY <1>5, <2>1, <2>2
<1>12. Nodes(u) \subseteq Seq({1, 2})
  BY <1>4 DEF Path
<1>13. IsTree(u)
  BY <1>4, <1>6, <1>7, <1>8, <1>9, <1>10, <1>11, <1>12 DEF IsTree
<1> QED BY <1>13 DEF u

(* A leaf other than p has its place in what is left. *)
LEMMA NewLeaf ==
  ASSUME NEW t, IsTree(t), NEW p \in DOMAIN t.leaf, Len(p) > 0, NEW q \in DOMAIN t.leaf, q # p
  PROVE  New(p, q) \in DOMAIN Collapsed(t, p).leaf /\ Old(p, New(p, q)) = q
<1> DEFINE f == Front(p)
           s == Sibling(p)
           k == Len(p)
<1>1. /\ p \in Path /\ p \in Nodes(t) /\ q \in Path /\ q \in Nodes(t)
      /\ f \in DOMAIN t.split /\ f \notin DOMAIN t.leaf
  BY TreeNodes
<1>2. /\ f \in Path /\ Len(f) = k - 1 /\ \A i \in 1..k - 1 : f[i] = p[i]
      /\ k \in Nat /\ k > 0 /\ p[k] \in {1, 2}
      /\ Len(q) \in Nat /\ \A i \in 1..Len(q) : q[i] \in {1, 2}
  BY <1>1, FrontIs, PathAt
<1>3. /\ s \in Path /\ Len(s) = k /\ s[k] = Last(s) /\ Last(s) \in {1, 2} /\ Last(s) # p[k]
      /\ \A i \in 1..k - 1 : s[i] = p[i]
  BY <1>1, SiblingIs
<1>4. /\ IsPrefix(f, q) <=> Len(f) <= Len(q) /\ \A i \in 1..Len(f) : f[i] = q[i]
      /\ IsPrefix(s, q) <=> Len(s) <= Len(q) /\ \A i \in 1..Len(s) : s[i] = q[i]
      /\ IsPrefix(p, q) <=> Len(p) <= Len(q) /\ \A i \in 1..Len(p) : p[i] = q[i]
  BY <1>1, <1>2, <1>3, PrefixIs
<1>5. ~IsPrefix(p, q)
  BY <1>1, LeavesApart
<1>6. New(p, q) \in Path /\ (IsPrefix(s, q) => Old(p, New(p, q)) = q) /\ (~IsPrefix(s, q) => New(p, q) = q)
  BY <1>1, NewIs
<1>7. ~IsPrefix(f, q) => Old(p, q) = q
  BY <1>1, OldIs
<1>8. p \in Path /\ k = Len(p) /\ q # f
  BY <1>1
<1>9. \A x \in Path : x \in DOMAIN Collapsed(t, p).leaf <=> Old(p, x) \in DOMAIN t.leaf
  BY <1>1, CollapsedHolds
<1> HIDE DEF f, s, k
<1>10. CASE IsPrefix(f, q)
  <2>1. Len(q) >= k
    <3>1. ASSUME Len(q) = Len(f) PROVE FALSE
      BY <1>1, <1>2, <1>4, <1>8, <1>10, <3>1, PathsEqual
    <3> QED BY <1>2, <1>4, <1>10, <3>1
  <2>2. \A i \in 1..k - 1 : q[i] = p[i]
    BY <1>2, <1>4, <1>10
  <2>3. q[k] # p[k]
    <3>1. ASSUME q[k] = p[k] PROVE FALSE
      <4>1. \A i \in 1..k : i = k \/ i \in 1..k - 1
        BY <1>2
      <4>2. \A i \in 1..k : p[i] = q[i]
        BY <2>2, <3>1, <4>1
      <4> QED BY <1>4, <1>5, <1>8, <2>1, <4>2
    <3> QED BY <3>1
  <2>4. q[k] = s[k]
    <3>1. k \in 1..Len(q)
      BY <1>2, <2>1
    <3> QED BY <1>2, <1>3, <2>3, <3>1
  <2>5. \A i \in 1..k : s[i] = q[i]
    <3>1. \A i \in 1..k : i = k \/ i \in 1..k - 1
      BY <1>2
    <3> QED BY <1>3, <2>2, <2>4, <3>1
  <2>6. IsPrefix(s, q)
    BY <1>3, <1>4, <2>1, <2>5
  <2> QED BY <1>6, <1>9, <2>6
<1>11. CASE ~IsPrefix(f, q)
  <2>1. ~IsPrefix(s, q)
    <3>1. ASSUME IsPrefix(s, q) PROVE FALSE
      <4>1. Len(f) <= Len(q) /\ \A i \in 1..Len(f) : i \in 1..Len(s) /\ i \in 1..k - 1
        BY <1>2, <1>3, <1>4, <3>1
      <4>2. \A i \in 1..Len(f) : f[i] = q[i]
        BY <1>2, <1>3, <1>4, <3>1, <4>1
      <4> QED BY <1>4, <1>11, <4>1, <4>2
    <3> QED BY <3>1
  <2> QED BY <1>1, <1>6, <1>7, <1>9, <1>11, <2>1
<1> QED BY <1>10, <1>11

(* No leaf that is left was p. *)
LEMMA OldLeaf ==
  ASSUME NEW p \in Path, Len(p) > 0, NEW x \in Path
  PROVE  Old(p, x) # p
<1> DEFINE f == Front(p)
           k == Len(p)
           o == Old(p, x)
<1>1. f \in Path /\ Len(f) = k - 1 /\ k \in Nat /\ k > 0 /\ \A i \in 1..k - 1 : f[i] = p[i]
      /\ Len(x) \in Nat
  BY FrontIs, PathAt
<1>2. Last(Sibling(p)) # p[k]
  BY SiblingIs
<1>3. /\ IsPrefix(f, x) =>
           /\ Len(x) >= k - 1
           /\ \A i \in 1..Len(x) + 1 : o[i] = IF i < k THEN x[i] ELSE IF i = k THEN Last(Sibling(p)) ELSE x[i - 1]
      /\ ~IsPrefix(f, x) => o = x
  BY OldIs
<1>4. IsPrefix(f, p)
  <2>1. Len(f) <= Len(p) /\ \A i \in 1..Len(f) : f[i] = p[i]
    BY <1>1
  <2> HIDE DEF f
  <2> QED BY <1>1, <2>1, PrefixIs
<1> HIDE DEF f, o
<1>5. CASE IsPrefix(f, x)
  <2>1. k \in 1..Len(x) + 1 /\ ~(k < k)
    BY <1>1, <1>3, <1>5
  <2>2. o[k] = Last(Sibling(p))
    <3> HIDE DEF k
    <3> QED BY <1>3, <1>5, <2>1
  <2> QED BY <1>2, <2>2 DEF o
<1>6. CASE ~IsPrefix(f, x)
  BY <1>3, <1>4, <1>6 DEF o
<1> QED BY <1>5, <1>6

(* Taking a leaf away gives a tree without its pane, the other panes in the *)
(* same order.                                                              *)
LEMMA CollapsedIs ==
  ASSUME NEW t, IsTree(t), NEW p \in DOMAIN t.leaf, Len(p) > 0
  PROVE  /\ IsTree(Collapsed(t, p))
         /\ Leaves(Collapsed(t, p)) = Leaves(t) \ {t.leaf[p]}
         /\ pane_ids(Collapsed(t, p)) = Without(pane_ids(t), t.leaf[p])
<1> DEFINE u == Collapsed(t, p)
<1>1. p \in Path /\ \A q \in DOMAIN t.leaf : q \in Path
  BY TreeNodes
<1>2. IsTree(u)
  BY CollapsedIsTree
<1>3. /\ \A x \in Path : x \in DOMAIN u.leaf <=> Old(p, x) \in DOMAIN t.leaf
      /\ \A x \in DOMAIN u.leaf : x \in Path /\ u.leaf[x] = t.leaf[Old(p, x)]
  BY <1>1, CollapsedHolds
<1>4. \A q \in DOMAIN t.leaf : q # p => New(p, q) \in DOMAIN u.leaf /\ Old(p, New(p, q)) = q
  BY NewLeaf
<1>5. \A x \in Path : Old(p, x) # p /\ New(p, Old(p, x)) = x
  BY <1>1, OldLeaf, OldNew
<1>6. \A x, y \in Path : Before(Old(p, x), Old(p, y)) => Before(x, y)
  BY <1>1, OldBefore
<1> HIDE DEF u
<1>7. Leaves(u) = Leaves(t) \ {t.leaf[p]}
  <2>1. ASSUME NEW x \in Leaves(u) PROVE x \in Leaves(t) \ {t.leaf[p]}
    <3>1. PICK q \in DOMAIN u.leaf : x = u.leaf[q]
      BY DEF Leaves
    <3>2. q \in Path /\ Old(p, q) \in DOMAIN t.leaf /\ x = t.leaf[Old(p, q)] /\ Old(p, q) # p
      BY <1>3, <1>5, <3>1
    <3>3. t.leaf[Old(p, q)] # t.leaf[p]
      BY <3>2, TreeHolds
    <3> QED BY <3>2, <3>3 DEF Leaves
  <2>2. ASSUME NEW x \in Leaves(t), x # t.leaf[p] PROVE x \in Leaves(u)
    <3>1. PICK q \in DOMAIN t.leaf : x = t.leaf[q]
      BY DEF Leaves
    <3>2. q # p
      BY <2>2, <3>1
    <3>3. New(p, q) \in DOMAIN u.leaf /\ u.leaf[New(p, q)] = x
      BY <1>3, <1>4, <3>1, <3>2
    <3> QED BY <3>3 DEF Leaves
  <2> QED BY <2>1, <2>2
<1>8. pane_ids(u) = Without(pane_ids(t), t.leaf[p])
  <2> DEFINE s == leaf_paths(t)
             ids == pane_ids(t)
             n == Len(s)
  <2>1. /\ s \in Seq(DOMAIN t.leaf) /\ n \in Nat
        /\ \A i \in 1..n : s[i] \in DOMAIN t.leaf
        /\ \A i, j \in 1..n : s[i] = s[j] => i = j
        /\ \A q \in DOMAIN t.leaf : \E i \in 1..n : s[i] = q
        /\ ids \in Seq(Leaves(t)) /\ Len(ids) = n
        /\ \A i \in 1..n : ids[i] = t.leaf[s[i]]
        /\ Distinct(ids)
        /\ ToSet(ids) = Leaves(t)
    BY PaneIdsAre
  <2>2. \A i, j \in 1..n : i < j => Before(s[i], s[j])
    BY LeafPathsIs DEF Listing
  <2> HIDE DEF s, ids, n
  <2>3. PICK k \in 1..n : s[k] = p
    BY <2>1
  <2>4. k \in Nat /\ n \in Nat /\ 1 <= k /\ k <= n
    BY <2>1
  <2>5. IndexOf(ids, t.leaf[p]) = k
    <3>1. ids[k] = t.leaf[p] /\ k \in 1..Len(ids)
      BY <2>1, <2>3
    <3>2. IndexOf(ids, ids[k]) = k
      BY <2>1, <3>1, IndexOfUnique
    <3> QED BY <3>1, <3>2
  <2> DEFINE m == [i \in 1..n - 1 |-> IF i < k THEN i ELSE i + 1]
             z == [i \in 1..n - 1 |-> New(p, s[m[i]])]
             new == RemoveAt(ids, k)
  <2>6. \A i \in 1..n - 1 : m[i] \in 1..n /\ m[i] # k /\ m[i] = IF i < k THEN i ELSE i + 1
    BY <2>4
  <2>7. \A i, j \in 1..n - 1 : i < j => m[i] < m[j]
    BY <2>4
  <2>8. \A l \in 1..n : l # k => \E i \in 1..n - 1 : m[i] = l
    <3>1. ASSUME NEW l \in 1..n, l # k PROVE \E i \in 1..n - 1 : m[i] = l
      <4>1. CASE l < k
        <5>1. l \in 1..n - 1
          BY <2>4, <4>1
        <5> QED BY <4>1, <5>1
      <4>2. CASE l > k
        <5> DEFINE i == l - 1
        <5>1. i \in 1..n - 1 /\ ~(i < k) /\ i + 1 = l
          BY <2>4, <4>2
        <5> HIDE DEF i
        <5>2. m[i] = l
          BY <5>1
        <5> QED BY <5>1, <5>2
      <4> QED BY <2>4, <3>1, <4>1, <4>2
    <3> QED BY <3>1
  <2>9. \A i \in 1..n - 1 : z[i] = New(p, s[m[i]])
    OBVIOUS
  <2> HIDE DEF m
  <2>10. \A i \in 1..n - 1 : s[m[i]] \in DOMAIN t.leaf /\ s[m[i]] # p
    <3>1. \A l \in 1..n : l # k => s[l] # p
      BY <2>1, <2>3
    <3> QED BY <2>1, <2>6, <3>1
  <2> HIDE DEF z
  <2>11. \A i \in 1..n - 1 : z[i] \in DOMAIN u.leaf /\ z[i] \in Path /\ Old(p, z[i]) = s[m[i]]
    BY <1>3, <1>4, <2>9, <2>10
  <2>12. z \in Seq(DOMAIN u.leaf) /\ Len(z) = n - 1
    <3>1. z \in [1..n - 1 -> DOMAIN u.leaf]
      BY <2>11 DEF z
    <3>2. n - 1 \in Nat
      BY <2>4
    <3> DEFINE l == n - 1
    <3> HIDE DEF l
    <3>3. z \in [1..l -> DOMAIN u.leaf] /\ l \in Nat
      BY <3>1, <3>2 DEF l
    <3>4. z \in Seq(DOMAIN u.leaf) /\ Len(z) = l
      BY <3>3, IsASeq, LenProperties
    <3> QED BY <3>4 DEF l
  <2>13. \A q \in DOMAIN u.leaf : \E i \in 1..Len(z) : z[i] = q
    <3>1. ASSUME NEW q \in DOMAIN u.leaf PROVE \E i \in 1..n - 1 : z[i] = q
      <4>1. q \in Path /\ Old(p, q) \in DOMAIN t.leaf /\ Old(p, q) # p /\ New(p, Old(p, q)) = q
        BY <1>3, <1>5
      <4>2. PICK l \in 1..n : s[l] = Old(p, q)
        BY <2>1, <4>1
      <4>3. l # k
        BY <2>3, <4>1, <4>2
      <4>4. PICK i \in 1..n - 1 : m[i] = l
        BY <2>8, <4>3
      <4> QED BY <2>9, <4>1, <4>2, <4>4
    <3> QED BY <2>12, <3>1
  <2>14. \A i, j \in 1..Len(z) : i < j => Before(z[i], z[j])
    <3>1. ASSUME NEW i \in 1..n - 1, NEW j \in 1..n - 1, i < j PROVE Before(z[i], z[j])
      <4>1. Before(s[m[i]], s[m[j]])
        BY <2>2, <2>6, <2>7, <3>1
      <4> QED BY <1>6, <2>11, <4>1
    <3> QED BY <2>12, <3>1
  <2>15. Listing(z, DOMAIN u.leaf)
    BY <2>12, <2>13, <2>14 DEF Listing
  <2>16. /\ new \in Seq(Leaves(t)) /\ Len(new) = n - 1
         /\ \A i \in 1..n - 1 : new[i] = IF i < k THEN ids[i] ELSE ids[i + 1]
    <3>1. ids \in Seq(Leaves(t)) /\ k \in 1..Len(ids) /\ Len(ids) = n
      BY <2>1
    <3>2. /\ new \in Seq(Leaves(t)) /\ Len(new) = Len(ids) - 1
          /\ \A i \in 1..Len(ids) - 1 : new[i] = IF i < k THEN ids[i] ELSE ids[i + 1]
      BY <3>1, RemoveAtShape
    <3> HIDE DEF new
    <3> QED BY <3>1, <3>2
  <2>17. Without(ids, t.leaf[p]) = new
    <3>1. t.leaf[p] \in ToSet(ids)
      BY <2>1 DEF Leaves
    <3> QED BY <2>5, <3>1 DEF Without, new
  <2> HIDE DEF new
  <2>18. \A i \in 1..Len(z) : new[i] = u.leaf[z[i]]
    <3>1. ASSUME NEW i \in 1..n - 1 PROVE new[i] = u.leaf[z[i]]
      <4>1. new[i] = ids[m[i]]
        BY <2>6, <2>16
      <4>2. ids[m[i]] = t.leaf[s[m[i]]]
        BY <2>1, <2>6
      <4>3. u.leaf[z[i]] = t.leaf[s[m[i]]]
        BY <1>3, <2>11
      <4> QED BY <4>1, <4>2, <4>3
    <3> QED BY <2>12, <3>1
  <2>19. pane_ids(u) = new
    <3>1. Len(new) = Len(z)
      BY <2>12, <2>16
    <3> QED BY <1>2, <2>15, <2>16, <2>18, <3>1, PaneIdsBy
  <2> QED BY <2>17, <2>19 DEF ids
<1> QED BY <1>2, <1>7, <1>8 DEF u

(* Step by step from a to b. *)
LEMMA Climb ==
  ASSUME NEW a \in Nat, NEW b \in Nat, NEW S, a \in S,
         \A i \in a + 1..b : i - 1 \in S => i \in S
  PROVE  a..b \subseteq S
<1> DEFINE Bad == {i \in a..b : i \notin S}
<1>1. ASSUME Bad # {} PROVE FALSE
  <2>1. Bad \in SUBSET Nat
    OBVIOUS
  <2>2. PICK i \in Bad : \A j \in Bad : i <= j
    <3> HIDE DEF Bad
    <3> QED BY <1>1, <2>1, LeastNumber
  <2>3. i \in a..b /\ i \notin S /\ i # a
    BY <2>2
  <2>4. i - 1 \in a..b /\ i \in a + 1..b /\ ~(i <= i - 1)
    BY <2>3
  <2>5. i - 1 \notin Bad
    BY <2>2, <2>4
  <2> QED BY <2>3, <2>4, <2>5
<1> QED BY <1>1

-----------------------------------------------------------------------------
(* Renaming leaves *)

(* t is the tree base with the panes l at its leaves, from left to right;   *)
(* the same pane may be at several.                                         *)
Labelled(t, base, l) ==
  /\ DOMAIN t = {"leaf", "split"}
  /\ DOMAIN t.leaf = DOMAIN base.leaf
  /\ t.split = base.split
  /\ DOMAIN l = 1..Len(leaf_paths(base))
  /\ l = [i \in 1..Len(leaf_paths(base)) |-> t.leaf[leaf_paths(base)[i]]]

(* A tree holds its own panes. *)
LEMMA LabelledSelf ==
  ASSUME NEW t, IsTree(t)
  PROVE  Labelled(t, t, pane_ids(t))
<1>1. DOMAIN leaf_paths(t) = 1..Len(leaf_paths(t))
  BY PaneIdsAre
<1>2. pane_ids(t) = [i \in 1..Len(leaf_paths(t)) |-> t.leaf[leaf_paths(t)[i]]]
  BY <1>1 DEF pane_ids, PanesAt
<1> DEFINE s == leaf_paths(t)
           l == pane_ids(t)
<1> HIDE DEF s, l
<1>3. l = [i \in 1..Len(s) |-> t.leaf[s[i]]]
  BY <1>2 DEF s, l
<1>4. DOMAIN l = 1..Len(s)
  BY <1>3
<1>5. DOMAIN t = {"leaf", "split"}
  BY TreeHolds
<1> QED BY <1>3, <1>4, <1>5 DEF Labelled, s, l

(* With no pane twice it is a tree again, in the same order. *)
LEMMA LabelledIs ==
  ASSUME NEW base, IsTree(base), NEW t, NEW l, Labelled(t, base, l), Distinct(l)
  PROVE  IsTree(t) /\ pane_ids(t) = l /\ Leaves(t) = {l[i] : i \in DOMAIN l}
<1> DEFINE s == leaf_paths(base)
           n == Len(s)
<1>1. /\ s \in Seq(DOMAIN base.leaf) /\ n \in Nat
      /\ \A i \in 1..n : s[i] \in DOMAIN base.leaf
      /\ \A p \in DOMAIN base.leaf : \E i \in 1..n : s[i] = p
  BY PaneIdsAre
<1>2. /\ DOMAIN t = {"leaf", "split"}
      /\ DOMAIN t.leaf = DOMAIN base.leaf
      /\ t.split = base.split
      /\ DOMAIN l = 1..n
      /\ l = [i \in 1..n |-> t.leaf[s[i]]]
  BY DEF Labelled
<1>3. leaf_paths(t) = s
  BY <1>2 DEF leaf_paths
<1>4. Nodes(t) = Nodes(base)
  BY <1>2 DEF Nodes
<1> HIDE DEF s, n
<1>5. \A i \in 1..n : l[i] = t.leaf[s[i]]
  BY <1>2
<1>6. ASSUME NEW p \in DOMAIN t.leaf, NEW q \in DOMAIN t.leaf, t.leaf[p] = t.leaf[q] PROVE p = q
  <2>1. PICK i \in 1..n : s[i] = p
    BY <1>1, <1>2
  <2>2. PICK j \in 1..n : s[j] = q
    BY <1>1, <1>2
  <2>3. l[i] = l[j]
    BY <1>5, <1>6, <2>1, <2>2
  <2> QED BY <1>2, <2>1, <2>2, <2>3 DEF Distinct
<1>7. IsTree(t)
  BY <1>2, <1>4, <1>6 DEF IsTree
<1>8. pane_ids(t) = l
  <2>1. DOMAIN s = 1..n
    BY <1>1 DEF n
  <2> QED BY <1>2, <1>3, <2>1 DEF pane_ids, PanesAt
<1>9. Leaves(t) = {l[i] : i \in DOMAIN l}
  <2>1. ASSUME NEW x \in Leaves(t) PROVE x \in {l[i] : i \in DOMAIN l}
    <3>1. PICK p \in DOMAIN base.leaf : x = t.leaf[p]
      BY <1>2 DEF Leaves
    <3>2. PICK i \in 1..n : s[i] = p
      BY <1>1
    <3> QED BY <1>2, <1>5, <3>1, <3>2
  <2>2. ASSUME NEW i \in 1..n PROVE l[i] \in Leaves(t)
    BY <1>1, <1>2, <1>5 DEF Leaves
  <2> QED BY <1>2, <2>1, <2>2
<1> QED BY <1>7, <1>8, <1>9

(* replace_leaf renames the first leaf of that name. *)
LEMMA ReplaceIs ==
  ASSUME NEW base, IsTree(base), NEW t, NEW l, Labelled(t, base, l), NEW old, NEW new,
         NEW j \in DOMAIN l, l[j] = old, \A i \in DOMAIN l : l[i] = old => j <= i
  PROVE  old \in Leaves(t) /\ Labelled(replace_leaf(t, old, new), base, [l EXCEPT ![j] = new])
<1> DEFINE s == leaf_paths(base)
           n == Len(s)
           u == replace_leaf(t, old, new)
           m == [l EXCEPT ![j] = new]
<1>1. /\ s \in Seq(DOMAIN base.leaf) /\ n \in Nat
      /\ \A i \in 1..n : s[i] \in DOMAIN base.leaf
      /\ \A p \in DOMAIN base.leaf : \E i \in 1..n : s[i] = p
      /\ \A i, k \in 1..n : s[i] = s[k] => i = k
  BY PaneIdsAre
<1>2. \A i, k \in 1..n : i < k => Before(s[i], s[k])
  BY LeafPathsIs DEF Listing
<1>3. /\ DOMAIN t = {"leaf", "split"}
      /\ DOMAIN t.leaf = DOMAIN base.leaf
      /\ t.split = base.split
      /\ DOMAIN l = 1..n
      /\ l = [i \in 1..n |-> t.leaf[s[i]]]
  BY DEF Labelled
<1>4. \A p \in DOMAIN base.leaf : p \in Path
  BY TreeNodes
<1>5. u = IF old \in Leaves(t) THEN [t EXCEPT !.leaf[PathOf(t, old)] = new] ELSE t
  BY DEF replace_leaf
<1> HIDE DEF s, n, u
<1>6. \A i \in 1..n : l[i] = t.leaf[s[i]]
  BY <1>3
<1>7. s[j] \in DOMAIN t.leaf /\ t.leaf[s[j]] = old
  BY <1>1, <1>3, <1>6
<1>8. old \in Leaves(t)
  BY <1>7 DEF Leaves
<1>9. ASSUME NEW q \in DOMAIN t.leaf, t.leaf[q] = old
      PROVE  q = s[j] \/ Before(s[j], q)
  <2>1. PICK i \in 1..n : s[i] = q
    BY <1>1, <1>3
  <2>2. j <= i
    BY <1>3, <1>6, <1>9, <2>1
  <2>3. i = j \/ j < i
    BY <1>1, <1>3, <2>2
  <2> QED BY <1>2, <1>3, <2>1, <2>3
<1>10. PathOf(t, old) = s[j]
  <2> DEFINE First(p) == t.leaf[p] = old /\ \A q \in DOMAIN t.leaf : t.leaf[q] = old => q = p \/ Before(p, q)
  <2>1. s[j] \in DOMAIN t.leaf /\ First(s[j])
    BY <1>7, <1>9
  <2>2. PathOf(t, old) = CHOOSE p \in DOMAIN t.leaf : First(p)
    BY DEF PathOf
  <2>3. PathOf(t, old) \in DOMAIN t.leaf /\ First(PathOf(t, old))
    <3> HIDE DEF First
    <3> QED BY <2>1, <2>2, Zenon
  <2> DEFINE p == PathOf(t, old)
  <2>4. p \in DOMAIN t.leaf /\ First(p)
    BY <2>3
  <2> HIDE DEF p
  <2>5. p = s[j] \/ (Before(p, s[j]) /\ Before(s[j], p))
    BY <2>1, <2>4
  <2>6. p \in Path /\ s[j] \in Path
    BY <1>3, <1>4, <2>1, <2>4
  <2>7. p = s[j]
    BY <2>5, <2>6, BeforeOrders
  <2> QED BY <2>7 DEF p
<1>11. u = [t EXCEPT !.leaf[s[j]] = new]
  BY <1>5, <1>8, <1>10
<1>12. /\ DOMAIN u = {"leaf", "split"} /\ u.split = t.split /\ DOMAIN u.leaf = DOMAIN t.leaf
       /\ u.leaf[s[j]] = new
       /\ \A p \in DOMAIN t.leaf : p # s[j] => u.leaf[p] = t.leaf[p]
  BY <1>3, <1>7, <1>11
<1>13. m = [i \in 1..n |-> u.leaf[s[i]]]
  <2>1. DOMAIN m = 1..n /\ m[j] = new /\ \A i \in 1..n : i # j => m[i] = l[i]
    BY <1>3
  <2>2. \A i \in 1..n : m[i] = u.leaf[s[i]]
    <3> HIDE DEF m
    <3>1. ASSUME NEW i \in 1..n PROVE m[i] = u.leaf[s[i]]
      <4>1. CASE i = j
        BY <1>12, <2>1, <4>1
      <4>2. CASE i # j
        <5>1. s[i] # s[j] /\ s[i] \in DOMAIN t.leaf
          BY <1>1, <1>3, <4>2
        <5> QED BY <1>6, <1>12, <2>1, <4>2, <5>1
      <4> QED BY <4>1, <4>2
    <3> QED BY <3>1
  <2>3. m = [i \in DOMAIN m |-> m[i]]
    BY <1>3
  <2> HIDE DEF m
  <2> QED BY <2>1, <2>2, <2>3
<1>14. DOMAIN m = 1..n
  BY <1>3
<1> HIDE DEF m
<1>15. Labelled(u, base, m)
  BY <1>3, <1>12, <1>13, <1>14 DEF Labelled, s, n
<1> QED BY <1>8, <1>15 DEF u, m

(* A list as a function of its positions. *)
LEMMA SwappedLabels ==
  ASSUME NEW n \in Nat, NEW l, l = [i \in 1..n |-> l[i]], NEW i \in 1..n, NEW j \in 1..n, i # j,
         NEW a, NEW b, NEW x
  PROVE  [[[l EXCEPT ![i] = x] EXCEPT ![j] = a] EXCEPT ![i] = b] = [[l EXCEPT ![i] = b] EXCEPT ![j] = a]
<1> DEFINE u == [[[l EXCEPT ![i] = x] EXCEPT ![j] = a] EXCEPT ![i] = b]
           v == [[l EXCEPT ![i] = b] EXCEPT ![j] = a]
<1>1. DOMAIN l = 1..n
  OBVIOUS
<1>2. u = [k \in 1..n |-> u[k]] /\ v = [k \in 1..n |-> v[k]]
  BY <1>1
<1>3. \A k \in 1..n : u[k] = v[k]
  BY <1>1
<1> HIDE DEF u, v
<1>4. u = v
  BY <1>2, <1>3
<1> QED BY <1>4 DEF u, v

(* swap_leaves exchanges two panes and moves nothing else. *)
LEMMA SwapIs ==
  ASSUME NEW t, IsTree(t), NEW a \in Leaves(t), NEW b \in Leaves(t), a # b,
         Sentinel \notin Leaves(t)
  PROVE  /\ IsTree(swap_leaves(t, a, b))
         /\ Leaves(swap_leaves(t, a, b)) = Leaves(t)
         /\ pane_ids(swap_leaves(t, a, b)) = Swapped(pane_ids(t), a, b)
<1> DEFINE ids == pane_ids(t)
           n == Len(leaf_paths(t))
           i == IndexOf(ids, a)
           j == IndexOf(ids, b)
           l1 == [ids EXCEPT ![i] = Sentinel]
           l2 == [l1 EXCEPT ![j] = a]
           l3 == [l2 EXCEPT ![i] = b]
           t1 == replace_leaf(t, a, Sentinel)
           t2 == replace_leaf(t1, b, a)
           t3 == replace_leaf(t2, Sentinel, b)
<1>1. /\ ids \in Seq(Leaves(t)) /\ Len(ids) = n /\ n \in Nat
      /\ Distinct(ids) /\ ToSet(ids) = Leaves(t)
  BY PaneIdsAre
<1>2. Labelled(t, t, ids)
  BY LabelledSelf
<1>3. ids = [k \in 1..n |-> ids[k]] /\ DOMAIN ids = 1..n
  BY <1>1
<1>4. swap_leaves(t, a, b) = IF b \in Leaves(t1) THEN t3 ELSE replace_leaf(t1, Sentinel, a)
  BY DEF swap_leaves
<1> HIDE DEF ids, n
<1>5. i \in 1..n /\ ids[i] = a /\ j \in 1..n /\ ids[j] = b
  BY <1>1, IndexOfFinds
<1>6. Swapped(ids, a, b) = [[ids EXCEPT ![i] = b] EXCEPT ![j] = a]
  BY DEF Swapped
<1> HIDE DEF i, j
<1>7. i # j /\ \A k \in 1..n : ids[k] # Sentinel
  BY <1>1, <1>5, Members
<1>8. \A k, m \in 1..n : ids[k] = ids[m] => k = m
  BY <1>1, <1>3, DistinctAt
<1>9. Labelled(t1, t, l1)
  <2>1. \A k \in DOMAIN ids : ids[k] = a => i <= k
    BY <1>3, <1>5, <1>8
  <2> HIDE DEF l1, t1
  <2> QED BY <1>2, <1>3, <1>5, <2>1, ReplaceIs DEF l1, t1
<1>10. DOMAIN l1 = 1..n /\ \A k \in 1..n : l1[k] = IF k = i THEN Sentinel ELSE ids[k]
  BY <1>3
<1> HIDE DEF l1, t1
<1>11. b \in Leaves(t1) /\ Labelled(t2, t, l2)
  <2>1. \A k \in DOMAIN l1 : l1[k] = b => j <= k
    BY <1>5, <1>7, <1>8, <1>10
  <2>2. j \in DOMAIN l1 /\ l1[j] = b
    BY <1>5, <1>7, <1>10
  <2> HIDE DEF l2, t2
  <2> QED BY <1>9, <2>1, <2>2, ReplaceIs DEF l2, t2
<1>12. DOMAIN l2 = 1..n /\ \A k \in 1..n : l2[k] = IF k = j THEN a ELSE l1[k]
  BY <1>10
<1> HIDE DEF l2, t2
<1>13. Labelled(t3, t, l3)
  <2>1. a # Sentinel
    OBVIOUS
  <2>2. \A k \in DOMAIN l2 : l2[k] = Sentinel => i <= k
    BY <1>5, <1>7, <1>10, <1>12, <2>1
  <2>3. i \in DOMAIN l2 /\ l2[i] = Sentinel
    BY <1>5, <1>7, <1>10, <1>12
  <2> HIDE DEF l3, t3
  <2> QED BY <1>11, <2>2, <2>3, ReplaceIs DEF l3, t3
<1>14. DOMAIN l3 = 1..n /\ \A k \in 1..n : l3[k] = IF k = i THEN b ELSE IF k = j THEN a ELSE ids[k]
  BY <1>7, <1>10, <1>12
<1>15. l3 = Swapped(ids, a, b)
  BY <1>1, <1>3, <1>5, <1>6, <1>7, SwappedLabels DEF l1, l2, l3
<1> HIDE DEF l3, t3
<1>16. Distinct(l3)
  BY <1>5, <1>7, <1>8, <1>14 DEF Distinct
<1>17. IsTree(t3) /\ pane_ids(t3) = l3 /\ Leaves(t3) = {l3[k] : k \in DOMAIN l3}
  BY <1>13, <1>16, LabelledIs
<1>18. {l3[k] : k \in DOMAIN l3} = Leaves(t)
  <2>1. \A k \in 1..n : ids[k] \in Leaves(t)
    BY <1>1, Members
  <2>2. \A x \in Leaves(t) : \E k \in 1..n : ids[k] = x
    BY <1>1, Members
  <2>3. \A k \in 1..n : l3[k] \in Leaves(t)
    BY <1>14, <2>1
  <2>4. ASSUME NEW x \in Leaves(t) PROVE \E k \in 1..n : l3[k] = x
    <3>1. PICK k \in 1..n : ids[k] = x
      BY <2>2
    <3>2. CASE k = i
      <4>1. l3[j] = x
        BY <1>5, <1>7, <1>14, <3>1, <3>2
      <4> QED BY <1>5, <4>1
    <3>3. CASE k = j
      <4>1. l3[i] = x
        BY <1>5, <1>7, <1>14, <3>1, <3>3
      <4> QED BY <1>5, <4>1
    <3>4. CASE k # i /\ k # j
      BY <1>14, <3>1, <3>4
    <3> QED BY <3>2, <3>3, <3>4
  <2> QED BY <1>14, <2>3, <2>4
<1>19. swap_leaves(t, a, b) = t3
  BY <1>4, <1>11
<1> QED BY <1>15, <1>17, <1>18, <1>19 DEF ids

(* A single pane is a tree. *)
LEMMA LeafIsTree ==
  ASSUME NEW id
  PROVE  IsTree(Leaf(id)) /\ Leaves(Leaf(id)) = {id}
<1> DEFINE t == Leaf(id)
           z == <<>>
<1>1. /\ DOMAIN t = {"leaf", "split"} /\ DOMAIN t.leaf = {z} /\ t.leaf[z] = id
      /\ DOMAIN t.split = {}
  BY DEF Leaf
<1>2. z \in Path
  BY RootIs
<1> HIDE DEF t
<1>3. Nodes(t) = {z}
  BY <1>1 DEF Nodes
<1>4. IsFiniteSet(Nodes(t))
  BY <1>3, FS_Singleton
<1>5. IsTree(t)
  BY <1>1, <1>2, <1>3, <1>4 DEF IsTree, Path
<1>6. Leaves(t) = {id}
  BY <1>1 DEF Leaves
<1> QED BY <1>5, <1>6 DEF t

(* LayoutNode::split of the leaf that holds a pane. *)
LEMMA SplitLeafIs ==
  ASSUME NEW t, IsTree(t), NEW target \in Leaves(t), NEW id, id \notin Leaves(t),
         NEW direction \in Direction
  PROVE  /\ IsTree(SplitLeaf(t, target, id, direction))
         /\ Leaves(SplitLeaf(t, target, id, direction)) = Leaves(t) \cup {id}
         /\ pane_ids(SplitLeaf(t, target, id, direction)) = InsertAfter(pane_ids(t), target, id)
<1> DEFINE p == PathOf(t, target)
<1>1. p \in DOMAIN t.leaf /\ t.leaf[p] = target
  BY PathOfIs
<1>2. SplitLeaf(t, target, id, direction) = SplitAt(t, p, id, direction)
  BY DEF SplitLeaf
<1> HIDE DEF p
<1>3. /\ IsTree(SplitAt(t, p, id, direction))
      /\ Leaves(SplitAt(t, p, id, direction)) = Leaves(t) \cup {id}
      /\ pane_ids(SplitAt(t, p, id, direction)) = InsertAfter(pane_ids(t), t.leaf[p], id)
  BY <1>1, SplitAtIs
<1> QED BY <1>1, <1>2, <1>3

(* LayoutEngine::remove_pane of one of several panes. *)
LEMMA RemovePaneIs ==
  ASSUME NEW t, IsTree(t), ~IsLeaf(t), NEW id \in Leaves(t)
  PROVE  /\ IsTree(RemovePane(t, id))
         /\ Leaves(RemovePane(t, id)) = Leaves(t) \ {id}
         /\ pane_ids(RemovePane(t, id)) = Without(pane_ids(t), id)
<1> DEFINE p == PathOf(t, id)
<1>1. p \in DOMAIN t.leaf /\ t.leaf[p] = id
  BY PathOfIs
<1>2. RemovePane(t, id) = Collapsed(t, p)
  BY DEF RemovePane
<1> HIDE DEF p
<1>3. p \in Path /\ p # <<>>
  BY <1>1, TreeNodes DEF IsLeaf
<1>4. Len(p) > 0
  BY <1>3, RootIs, PathAt
<1>5. /\ IsTree(Collapsed(t, p))
      /\ Leaves(Collapsed(t, p)) = Leaves(t) \ {t.leaf[p]}
      /\ pane_ids(Collapsed(t, p)) = Without(pane_ids(t), t.leaf[p])
  BY <1>1, <1>4, CollapsedIs
<1> QED BY <1>1, <1>2, <1>5

(* Of the splits above a leaf along an axis there is a first. *)
LEMMA SomeFirstAbove ==
  ASSUME NEW t, IsTree(t), NEW p, NEW axis, SplitsAbove(t, p, axis) # {}
  PROVE  \E q \in SplitsAbove(t, p, axis) : \A r \in SplitsAbove(t, p, axis) : Len(q) <= Len(r)
<1> DEFINE above == SplitsAbove(t, p, axis)
           D == {Len(r) : r \in above}
<1>1. \A r \in above : Len(r) \in Nat
  BY TreeNodes, PathAt DEF SplitsAbove
<1>2. above # {}
  OBVIOUS
<1> HIDE DEF above
<1>3. D \in SUBSET Nat /\ D # {}
  BY <1>1, <1>2
<1>4. PICK k \in D : \A j \in D : k <= j
  <2> HIDE DEF D
  <2> QED BY <1>3, LeastNumber
<1>5. \E q \in above : \A r \in above : Len(q) <= Len(r)
  BY <1>4
<1> QED BY <1>5 DEF above

(* Where it is on the way to the leaf. *)
LEMMA FirstAbove ==
  ASSUME NEW t, IsTree(t), NEW p \in DOMAIN t.leaf, NEW axis, 
         NEW q \in SplitsAbove(t, p, axis), \A r \in SplitsAbove(t, p, axis) : Len(q) <= Len(r)
  PROVE  /\ q \in DOMAIN t.split /\ q \in Path /\ p \in Path /\ Len(q) \in Nat /\ Len(q) < Len(p)
         /\ q = SubSeq(p, 1, Len(q))
         /\ t.split[q].direction = axis
         /\ \A k \in 0..Len(q) - 1 : t.split[SubSeq(p, 1, k)].direction # axis
<1> DEFINE above == SplitsAbove(t, p, axis)
<1>1. /\ p \in Path /\ p \in Nodes(t) /\ Len(p) \in Nat
      /\ \A r \in DOMAIN t.split : r \in Path /\ Len(r) \in Nat
  BY TreeNodes, PathAt
<1>2. \A r : r \in above <=> r \in DOMAIN t.split /\ IsPrefix(r, p) /\ r # p /\ t.split[r].direction = axis
  BY DEF SplitsAbove, IsStrictPrefix
<1>8. q \in above /\ \A x \in above : Len(q) <= Len(x)
  OBVIOUS
<1> HIDE DEF above
<1>9. /\ q \in DOMAIN t.split /\ q \in Path /\ Len(q) \in Nat /\ IsPrefix(q, p) /\ q # p
      /\ t.split[q].direction = axis
  BY <1>1, <1>2, <1>8
<1>10. Len(q) <= Len(p) /\ SubSeq(p, 1, Len(q)) = q
  BY <1>1, <1>9, PrefixIs
<1>11. Len(q) # Len(p)
  <2>1. ASSUME Len(q) = Len(p) PROVE FALSE
    <3>1. SubSeq(p, 1, Len(p)) = p
      BY <1>1, CutAll
    <3> QED BY <1>9, <1>10, <2>1, <3>1
  <2> QED BY <2>1
<1>12. ASSUME NEW m \in 0..Len(q) - 1, t.split[SubSeq(p, 1, m)].direction = axis PROVE FALSE
  <2> DEFINE c == SubSeq(p, 1, m)
  <2>1. m \in 0..Len(p) /\ m < Len(p) /\ m \in Nat
    BY <1>1, <1>9, <1>10
  <2>2. c \in DOMAIN t.split /\ IsPrefix(c, p) /\ Len(c) = m
    BY <1>1, <2>1, AncestorsSplit, CutAbove, CutIs
  <2>3. t.split[c].direction = axis
    BY <1>12
  <2> HIDE DEF c
  <2>4. c # p
    BY <2>1, <2>2
  <2>5. c \in above
    BY <1>2, <2>2, <2>3, <2>4
  <2> QED BY <1>8, <1>9, <2>1, <2>2, <2>5
<1> QED BY <1>1, <1>9, <1>10, <1>11, <1>12

(* What adjust_ratio does: nothing, or one ratio changes. *)
Adjusted(t, p, u, q, axis, delta) ==
           /\ p \in DOMAIN t.leaf /\ q \in Path /\ p \in Path /\ Len(q) \in Nat /\ Len(q) < Len(p)
           /\ q = SubSeq(p, 1, Len(q))
           /\ t.split[q].direction = axis
           /\ \A k \in 0..Len(q) - 1 : t.split[SubSeq(p, 1, k)].direction # axis
           /\ DOMAIN u = {"leaf", "split"} /\ u.leaf = t.leaf /\ DOMAIN u.split = DOMAIN t.split
           /\ u.split[q] = [direction |-> axis,
                            ratio |-> NewRatio(t.split[q].ratio, p[Len(q) + 1], delta)]
           /\ \A r \in DOMAIN t.split : r # q => u.split[r] = t.split[r]

(* There is such a split when the tree changes. *)
LEMMA AdjustHolds ==
  ASSUME NEW t, IsTree(t), NEW id \in Leaves(t), NEW axis, NEW delta \in Int,
         NEW p, p = PathOf(t, id), NEW u, u = adjust_ratio(t, id, axis, delta),
         u # t
  PROVE  \E q \in DOMAIN t.split : Adjusted(t, p, u, q, axis, delta)
<1> DEFINE above == SplitsAbove(t, p, axis)
           q == CHOOSE q \in above : \A r \in above : Len(q) <= Len(r)
<1>1. p \in DOMAIN t.leaf
  BY PathOfIs
<1>2. u = IF above = {} THEN t ELSE [t EXCEPT !.split[q].ratio = NewRatio(@, p[Len(q) + 1], delta)]
  BY DEF adjust_ratio
<1>3. q \in above /\ \A r \in above : Len(q) <= Len(r)
  <2>1. above # {}
    BY <1>2
  <2>2. \E x \in above : \A r \in above : Len(x) <= Len(r)
    BY <2>1, SomeFirstAbove
  <2>3. q = CHOOSE x \in above : \A r \in above : Len(x) <= Len(r)
    OBVIOUS
  <2> HIDE DEF above, q
  <2> QED BY <2>2, <2>3, Zenon
<1> HIDE DEF q
<1>4. /\ q \in DOMAIN t.split /\ q \in Path /\ p \in Path /\ Len(q) \in Nat /\ Len(q) < Len(p)
      /\ q = SubSeq(p, 1, Len(q))
      /\ t.split[q].direction = axis
      /\ \A k \in 0..Len(q) - 1 : t.split[SubSeq(p, 1, k)].direction # axis
  BY <1>1, <1>3, FirstAbove
<1>5. u = [t EXCEPT !.split[q].ratio = NewRatio(@, p[Len(q) + 1], delta)]
  BY <1>2, <1>3
<1> HIDE DEF above
<1> DEFINE rr == NewRatio(t.split[q].ratio, p[Len(q) + 1], delta)
<1>6. u = [t EXCEPT !.split[q].ratio = rr]
  BY <1>5
<1>7. t.split[q] \in [direction : Direction, ratio : Int] /\ DOMAIN t = {"leaf", "split"}
  BY <1>4, TreeHolds
<1> HIDE DEF rr
<1>8. /\ DOMAIN u = {"leaf", "split"} /\ u.leaf = t.leaf /\ DOMAIN u.split = DOMAIN t.split
      /\ u.split[q] = [t.split[q] EXCEPT !.ratio = rr]
      /\ \A r \in DOMAIN t.split : r # q => u.split[r] = t.split[r]
  BY <1>4, <1>6, <1>7
<1>9. u.split[q] = [direction |-> axis, ratio |-> rr]
  <2> DEFINE w == t.split[q]
  <2>1. w \in [direction : Direction, ratio : Int] /\ w.direction = axis
    BY <1>4, <1>7
  <2> HIDE DEF w
  <2>2. [w EXCEPT !.ratio = rr] = [direction |-> axis, ratio |-> rr]
    BY <2>1
  <2> QED BY <1>8, <2>2 DEF w
<1>10. Adjusted(t, p, u, q, axis, delta)
  BY <1>1, <1>4, <1>8, <1>9 DEF rr, Adjusted
<1> QED BY <1>4, <1>10

(* Ratios stay whole numbers. *)
LEMMA NewRatioIs ==
  ASSUME NEW ratio \in Int, NEW side, NEW delta \in Int
  PROVE  NewRatio(ratio, side, delta) \in MinRatio..MaxRatio
BY DEF NewRatio, Clamp, MinRatio, MaxRatio

(* adjust_ratio leaves the tree and its panes as they are. *)
LEMMA AdjustIs ==
  ASSUME NEW t, IsTree(t), NEW id \in Leaves(t), NEW axis \in Direction, NEW delta \in Int
  PROVE  /\ IsTree(adjust_ratio(t, id, axis, delta))
         /\ Leaves(adjust_ratio(t, id, axis, delta)) = Leaves(t)
         /\ PathOf(adjust_ratio(t, id, axis, delta), id) = PathOf(t, id)
<1> DEFINE u == adjust_ratio(t, id, axis, delta)
           p == PathOf(t, id)
<1>1. CASE u = t
  BY <1>1
<1>20. u = adjust_ratio(t, id, axis, delta) /\ p = PathOf(t, id)
  OBVIOUS
<1> HIDE DEF u, p
<1>2. CASE u # t
  <2>0. PICK q \in DOMAIN t.split : Adjusted(t, p, u, q, axis, delta)
    BY <1>2, <1>20, AdjustHolds
  <2>1. /\ DOMAIN u = {"leaf", "split"} /\ u.leaf = t.leaf /\ DOMAIN u.split = DOMAIN t.split
        /\ u.split[q] = [direction |-> axis,
                         ratio |-> NewRatio(t.split[q].ratio, p[Len(q) + 1], delta)]
        /\ \A r \in DOMAIN t.split : r # q => u.split[r] = t.split[r]
    BY <2>0 DEF Adjusted
  <2>2. \A r \in DOMAIN t.split : t.split[r] \in [direction : Direction, ratio : Int]
    BY TreeHolds
  <2>3. NewRatio(t.split[q].ratio, p[Len(q) + 1], delta) \in Int
    <3>1. t.split[q].ratio \in Int
      BY <2>2
    <3> DEFINE r == t.split[q].ratio
               side == p[Len(q) + 1]
    <3>10. r \in Int
      BY <3>1
    <3> HIDE DEF r, side
    <3>2. NewRatio(r, side, delta) \in MinRatio..MaxRatio
      BY <3>10, NewRatioIs
    <3>3. NewRatio(r, side, delta) \in Int
      BY <3>2 DEF MinRatio, MaxRatio
    <3> QED BY <3>3 DEF r, side
  <2>4. Nodes(u) = Nodes(t) /\ Leaves(u) = Leaves(t)
    BY <2>1 DEF Nodes, Leaves
  <2>5. \A r \in DOMAIN u.split : u.split[r] \in [direction : Direction, ratio : Int]
    BY <2>1, <2>2, <2>3
  <2>6. IsTree(u)
    BY <2>1, <2>4, <2>5 DEF IsTree
  <2>7. PathOf(u, id) = PathOf(t, id)
    BY <2>1 DEF PathOf
  <2> QED BY <1>20, <2>4, <2>6, <2>7
<1> QED BY <1>1, <1>2, <1>20

(* Going down from the root and from every split to one of its children     *)
(* ends at a leaf.                                                          *)
LEMMA Descent ==
  ASSUME NEW t, IsTree(t), NEW N \in SUBSET Nodes(t), <<>> \in N,
         \A p \in N : p \in DOMAIN t.split => \E side \in {1, 2} : Child(p, side) \in N
  PROVE  \E p \in N : p \in DOMAIN t.leaf
<1>1. ASSUME \A p \in N : p \notin DOMAIN t.leaf PROVE FALSE
  <2>1. IsFiniteSet(N) /\ N # {} /\ \A p \in N : p \in Path /\ Len(p) \in Nat /\ p \in DOMAIN t.split
    <3>1. IsFiniteSet(Nodes(t))
      BY DEF IsTree
    <3>2. IsFiniteSet(N)
      BY <3>1, FS_Subset
    <3> QED BY <1>1, <3>2, TreeNodes, PathAt
  <2>2. \A p \in N : \E q \in N : Len(q) = Len(p) + 1
    <3>1. ASSUME NEW p \in N PROVE \E q \in N : Len(q) = Len(p) + 1
      <4>1. PICK side \in {1, 2} : Child(p, side) \in N
        BY <2>1
      <4>2. Len(Child(p, side)) = Len(p) + 1
        BY <2>1, ChildIs
      <4> QED BY <4>1, <4>2
    <3> QED BY <3>1
  <2> DEFINE T == {{p \in N : Len(p) > n} : n \in Nat}
  <2>3. T \subseteq FiniteSubsetsOf(N) /\ T # {}
    <3>1. \A n \in Nat : {p \in N : Len(p) > n} \in FiniteSubsetsOf(N)
      BY <2>1, FS_Subset DEF FiniteSubsetsOf
    <3>2. {p \in N : Len(p) > 0} \in T
      OBVIOUS
    <3> QED BY <3>1, <3>2
  <2>4. PICK x \in T : \A y \in T : ~(<<y, x>> \in StrictSubsetOrdering(N))
    <3> HIDE DEF T
    <3> QED BY <2>3, FS_StrictSubsetOrderingWellFounded, WFMin
  <2>5. PICK n \in Nat : x = {p \in N : Len(p) > n}
    BY <2>4
  <2>6. \A k \in Nat : \E p \in N : Len(p) = k
    <3> DEFINE K == {k \in Nat : \E p \in N : Len(p) = k}
    <3>1. 0 \in K
      BY RootIs
    <3>2. ASSUME NEW k \in Nat PROVE k \in K
      <4>1. \A i \in 0 + 1..k : i - 1 \in K => i \in K
        <5>1. ASSUME NEW i \in 0 + 1..k, i - 1 \in K PROVE i \in K
          <6>1. PICK p \in N : Len(p) = i - 1
            BY <5>1
          <6>2. PICK q \in N : Len(q) = Len(p) + 1
            BY <2>2
          <6> QED BY <6>1, <6>2
        <5> QED BY <5>1
      <4> HIDE DEF K
      <4>2. 0..k \subseteq K
        BY <3>1, <4>1, Climb
      <4> QED BY <4>2
    <3> QED BY <3>2
  <2> DEFINE y == {p \in N : Len(p) > n + 1}
  <2>7. y \in T
    <3>1. n + 1 \in Nat
      OBVIOUS
    <3> QED BY <3>1
  <2>8. y \subseteq x /\ y # x
    <3>1. PICK p \in N : Len(p) = n + 1
      BY <2>6
    <3>2. p \in x /\ p \notin y
      BY <2>5, <3>1
    <3> QED BY <2>1, <2>5, <3>2
  <2>9. x \in FiniteSubsetsOf(N) /\ y \in FiniteSubsetsOf(N)
    BY <2>3, <2>4, <2>7
  <2> HIDE DEF T, y
  <2>10. <<y, x>> \in StrictSubsetOrdering(N)
    BY <2>8, <2>9 DEF StrictSubsetOrdering, FiniteSubsetsOf
  <2> QED BY <2>4, <2>7, <2>10
<1> QED BY <1>1

(* A tree has a leaf. *)
LEMMA SomeLeaf ==
  ASSUME NEW t, IsTree(t)
  PROVE  Leaves(t) # {} /\ Len(pane_ids(t)) \in Nat /\ Len(pane_ids(t)) >= 1
<1>1. PICK p \in DOMAIN t.leaf : TRUE
  <2>1. /\ Nodes(t) \in SUBSET Nodes(t) /\ <<>> \in Nodes(t)
        /\ \A p \in Nodes(t) : p \in DOMAIN t.split => \E side \in {1, 2} : Child(p, side) \in Nodes(t)
    BY TreeNodes
  <2> QED BY <2>1, Descent
<1>2. \A q \in DOMAIN t.leaf : \E i \in 1..Len(leaf_paths(t)) : leaf_paths(t)[i] = q
  BY PaneIdsAre
<1>3. PICK i \in 1..Len(leaf_paths(t)) : leaf_paths(t)[i] = p
  BY <1>2
<1>4. Len(leaf_paths(t)) \in Nat /\ Len(pane_ids(t)) = Len(leaf_paths(t))
  BY PaneIdsAre
<1>5. Len(leaf_paths(t)) >= 1
  BY <1>3, <1>4
<1> QED BY <1>1, <1>4, <1>5 DEF Leaves

-----------------------------------------------------------------------------
(* Swap layouts *)

(* g is a permutation of the first n numbers. *)
Permutes(g, n) ==
  /\ g \in [1..n -> 1..n]
  /\ \A k, m \in 1..n : g[k] = g[m] => k = m
  /\ \A m \in 1..n : \E k \in 1..n : g[k] = m

(* After i steps of the renaming the tree u holds l: leaf k has the new     *)
(* name g[k] if its turn has come and the old name g[k] if it has not.  A   *)
(* new name that is also an old one makes g something else than the order   *)
(* of the leaves.                                                           *)
Renaming(u, base, from, to, l, g, i) ==
  /\ Labelled(u, base, l)
  /\ DOMAIN l = 1..Len(from)
  /\ Permutes(g, Len(from))
  /\ \A k \in 1..Len(from) : l[k] = IF g[k] <= i THEN to[g[k]] ELSE from[g[k]]
  /\ (\A k, m \in 1..Len(from) : from[k] # to[m]) => \A k \in 1..Len(from) : g[k] = k

(* Two positions trade places. *)
Traded(h, g, n, j, k0) ==
  /\ j \in 1..n /\ k0 \in 1..n /\ j # k0
  /\ h \in [1..n -> 1..n]
  /\ h[j] = g[k0] /\ h[k0] = g[j] /\ \A k \in 1..n : k # j /\ k # k0 => h[k] = g[k]

(* A permutation stays one. *)
LEMMA Trade ==
  ASSUME NEW n \in Nat, NEW g, Permutes(g, n), NEW j, NEW k0, NEW h, Traded(h, g, n, j, k0)
  PROVE  Permutes(h, n)
<1> USE DEF Traded
<1>1. /\ g \in [1..n -> 1..n]
      /\ \A k, m \in 1..n : g[k] = g[m] => k = m
      /\ \A m \in 1..n : \E k \in 1..n : g[k] = m
  BY DEF Permutes
<1>2. g[j] # g[k0] /\ \A k \in 1..n : k # j /\ k # k0 => g[k] # g[j] /\ g[k] # g[k0]
  BY <1>1
<1>3. ASSUME NEW k \in 1..n, NEW m \in 1..n, h[k] = h[m] PROVE k = m
  <2>1. CASE k # j /\ k # k0
    <3>1. m # j /\ m # k0
      BY <1>2, <1>3, <2>1
    <3> QED BY <1>1, <1>3, <2>1, <3>1
  <2>2. CASE k = j
    BY <1>2, <1>3, <2>2
  <2>3. CASE k = k0
    BY <1>2, <1>3, <2>3
  <2> QED BY <2>1, <2>2, <2>3
<1>4. ASSUME NEW m \in 1..n PROVE \E k \in 1..n : h[k] = m
  <2>1. PICK k \in 1..n : g[k] = m
    BY <1>1
  <2> QED BY <1>1, <2>1
<1> QED BY <1>3, <1>4 DEF Permutes

(* One step of it. *)
LEMMA RenameStep ==
  ASSUME NEW base, IsTree(base), NEW from, NEW to, NEW n, n = Len(from), n \in Nat,
         \A k, m \in 1..n : from[k] = from[m] => k = m,
         NEW i \in 1..n, NEW u, NEW l, NEW g, Renaming(u, base, from, to, l, g, i - 1)
  PROVE  \E l2, g2 : Renaming(replace_leaf(u, from[i], to[i]), base, from, to, l2, g2, i)
<1>1. /\ Labelled(u, base, l) /\ DOMAIN l = 1..n
      /\ g \in [1..n -> 1..n]
      /\ \A k, m \in 1..n : g[k] = g[m] => k = m
      /\ \A m \in 1..n : \E k \in 1..n : g[k] = m
      /\ \A k \in 1..n : l[k] = IF g[k] <= i - 1 THEN to[g[k]] ELSE from[g[k]]
      /\ (\A k, m \in 1..n : from[k] # to[m]) => \A k \in 1..n : g[k] = k
      /\ Permutes(g, n)
  BY DEF Renaming, Permutes
<1>2. PICK k0 \in 1..n : g[k0] = i
  BY <1>1
<1>3. l[k0] = from[i]
  <2>1. ~(g[k0] <= i - 1)
    BY <1>2
  <2> QED BY <1>1, <1>2, <2>1
<1> DEFINE C == {k \in 1..n : l[k] = from[i]}
<1>4. PICK j \in C : \A k \in C : j <= k
  <2>1. C \in SUBSET Nat /\ C # {}
    BY <1>3
  <2> HIDE DEF C
  <2> QED BY <2>1, LeastNumber
<1>5. j \in 1..n /\ l[j] = from[i] /\ \A k \in DOMAIN l : l[k] = from[i] => j <= k
  BY <1>1, <1>4
<1> DEFINE v == replace_leaf(u, from[i], to[i])
           l2 == [l EXCEPT ![j] = to[i]]
<1>6. Labelled(v, base, l2)
  <2> DEFINE old == from[i]
             new == to[i]
  <2>1. l[j] = old /\ j \in DOMAIN l /\ \A k \in DOMAIN l : l[k] = old => j <= k
    BY <1>1, <1>5
  <2> HIDE DEF old, new
  <2>2. Labelled(replace_leaf(u, old, new), base, [l EXCEPT ![j] = new])
    BY <1>1, <2>1, ReplaceIs
  <2> QED BY <2>2 DEF old, new
<1>7. DOMAIN l2 = 1..n /\ l2[j] = to[i] /\ \A k \in 1..n : k # j => l2[k] = l[k]
  BY <1>1, <1>5
<1> HIDE DEF C, v, l2
<1>8. \A k \in 1..n : k # k0 => (g[k] <= i - 1 <=> g[k] <= i)
  <2>1. \A k \in 1..n : k # k0 => g[k] # i /\ g[k] \in 1..n
    BY <1>1, <1>2
  <2> QED BY <2>1
<1>9. CASE j = k0
  <2>1. \A k \in 1..n : l2[k] = IF g[k] <= i THEN to[g[k]] ELSE from[g[k]]
    <3>1. ASSUME NEW k \in 1..n PROVE l2[k] = IF g[k] <= i THEN to[g[k]] ELSE from[g[k]]
      <4>1. CASE k = j
        BY <1>2, <1>7, <1>9, <4>1
      <4>2. CASE k # j
        BY <1>1, <1>7, <1>8, <1>9, <4>2
      <4> QED BY <4>1, <4>2
    <3> QED BY <3>1
  <2>2. Renaming(v, base, from, to, l2, g, i)
    BY <1>1, <1>6, <1>7, <2>1 DEF Renaming
  <2> QED BY <2>2 DEF v
<1>10. CASE j # k0
  <2>1. g[j] <= i - 1 /\ to[g[j]] = from[i] /\ g[j] \in 1..n
    <3>1. g[j] \in 1..n /\ l[j] = IF g[j] <= i - 1 THEN to[g[j]] ELSE from[g[j]]
      BY <1>1, <1>5
    <3>2. ASSUME ~(g[j] <= i - 1) PROVE FALSE
      <4>1. from[g[j]] = from[i]
        BY <1>5, <3>1, <3>2
      <4>2. g[j] = i
        BY <3>1, <4>1
      <4> QED BY <1>1, <1>2, <1>5, <1>10, <4>2
    <3> QED BY <1>5, <3>1, <3>2
  <2>20. \A k \in 1..n : g[k] \in 1..n
    BY <1>1
  <2>21. \A k \in 1..n : (IF k = j THEN g[k0] ELSE IF k = k0 THEN g[j] ELSE g[k]) \in 1..n
    BY <1>2, <1>5, <2>20
  <2>2. PICK h \in [1..n -> 1..n] :
          h = [k \in 1..n |-> IF k = j THEN g[k0] ELSE IF k = k0 THEN g[j] ELSE g[k]]
    BY <2>21
  <2>3. h[j] = i /\ h[k0] = g[j] /\ \A k \in 1..n : k # j /\ k # k0 => h[k] = g[k]
    BY <1>2, <1>5, <1>10, <2>2
  <2>30. Permutes(h, n)
    <3>1. h[j] = g[k0]
      BY <1>2, <2>3
    <3>2. Traded(h, g, n, j, k0)
      BY <1>5, <1>10, <2>3, <3>1 DEF Traded
    <3> QED BY <1>1, <3>2, Trade
  <2>4. \A k \in 1..n : l2[k] = IF h[k] <= i THEN to[h[k]] ELSE from[h[k]]
    <3>1. ASSUME NEW k \in 1..n PROVE l2[k] = IF h[k] <= i THEN to[h[k]] ELSE from[h[k]]
      <4>1. CASE k = j
        <5>1. i <= i
          OBVIOUS
        <5> QED BY <1>7, <2>3, <4>1, <5>1
      <4>2. CASE k = k0
        <5>1. l2[k] = from[i] /\ g[j] <= i
          BY <1>3, <1>7, <1>10, <2>1, <4>2
        <5> QED BY <2>1, <2>3, <4>2, <5>1
      <4>3. CASE k # j /\ k # k0
        <5>1. l2[k] = l[k] /\ h[k] = g[k] /\ (g[k] <= i - 1 <=> g[k] <= i)
          BY <1>7, <1>8, <2>3, <4>3
        <5>2. l[k] = IF g[k] <= i - 1 THEN to[g[k]] ELSE from[g[k]]
          BY <1>1
        <5> QED BY <5>1, <5>2
      <4> QED BY <4>1, <4>2, <4>3
    <3> QED BY <3>1
  <2>5. ~(\A k, m \in 1..n : from[k] # to[m])
    BY <2>1
  <2>6. Renaming(v, base, from, to, l2, h, i)
    BY <1>6, <1>7, <2>30, <2>4, <2>5 DEF Renaming
  <2> QED BY <2>6 DEF v
<1> QED BY <1>9, <1>10

(* The renaming, step by step. *)
Renames(f, t, from, to) ==
  /\ f[0] = t
  /\ \A i \in 1..Len(from) : f[i] = replace_leaf(f[i - 1], from[i], to[i])

(* There are such trees. *)
LEMMA RenamedSteps ==
  ASSUME NEW t, NEW from, NEW to, Len(from) \in Nat, Len(from) <= Len(to)
  PROVE  \E f : Renamed(t, from, to) = f[Len(from)] /\ Renames(f, t, from, to)
<1> DEFINE n == Len(from)
<1>0. n \in Nat
  OBVIOUS
<1>01. Renamed(t, from, to) =
         LET renamed[i \in 0..n] == IF i = 0 THEN t ELSE replace_leaf(renamed[i - 1], from[i], to[i])
         IN  renamed[n]
  BY DEF Renamed
<1> HIDE DEF n
<1> DEFINE Body(f, j) == [i \in 0..j |-> IF i = 0 THEN t ELSE replace_leaf(f[i - 1], from[i], to[i])]
           S == {j \in 0..n : \E f : f = Body(f, j)}
           F == CHOOSE f : f = Body(f, n)
<1>1. 0 \in S
  <2> DEFINE z == [i \in 0..0 |-> t]
  <2>1. z = Body(z, 0)
    <3>1. \A i \in 0..0 : i = 0
      OBVIOUS
    <3>2. DOMAIN Body(z, 0) = 0..0 /\ \A i \in 0..0 : z[i] = Body(z, 0)[i]
      BY <3>1
    <3> QED BY <3>2
  <2> HIDE DEF Body
  <2> QED BY <2>1
<1>2. ASSUME NEW j \in 0 + 1..n, j - 1 \in S PROVE j \in S
  <2>1. PICK f : f = Body(f, j - 1)
    BY <1>2
  <2> DEFINE x == replace_leaf(f[j - 1], from[j], to[j])
             e == [i \in 0..j |-> IF i < j THEN f[i] ELSE x]
  <2>2. e = Body(e, j)
    <3>1. ASSUME NEW i \in 0..j PROVE e[i] = IF i = 0 THEN t ELSE replace_leaf(e[i - 1], from[i], to[i])
      <4>1. CASE i = 0
        <5>1. e[0] = f[0] /\ 0 \in 0..j - 1
          OBVIOUS
        <5>2. f[0] = Body(f, j - 1)[0]
          BY <2>1
        <5> QED BY <4>1, <5>1, <5>2
      <4>2. CASE i # 0 /\ i < j
        <5>1. i \in 0..j - 1 /\ i - 1 \in 0..j /\ i - 1 < j
          BY <4>2
        <5>2. e[i] = f[i] /\ e[i - 1] = f[i - 1]
          <6> HIDE DEF x
          <6> QED BY <4>2, <5>1
        <5>3. f[i] = Body(f, j - 1)[i]
          BY <2>1
        <5>4. f[i] = replace_leaf(f[i - 1], from[i], to[i])
          BY <4>2, <5>1, <5>3
        <5> HIDE DEF e
        <5> QED BY <4>2, <5>2, <5>4
      <4>3. CASE i = j
        <5>1. j - 1 \in 0..j /\ j - 1 < j /\ j # 0 /\ j \in 0..j
          OBVIOUS
        <5>2. e[j] = x /\ e[j - 1] = f[j - 1]
          <6> HIDE DEF x
          <6> QED BY <5>1
        <5> HIDE DEF e
        <5> QED BY <4>3, <5>1, <5>2
      <4> QED BY <4>1, <4>2, <4>3
    <3>2. DOMAIN e = 0..j /\ e = [i \in 0..j |-> e[i]]
      OBVIOUS
    <3> HIDE DEF e
    <3> QED BY <3>1, <3>2
  <2>3. j \in 0..n
    OBVIOUS
  <2> HIDE DEF Body
  <2> QED BY <2>2, <2>3
<1>3. n \in S
  <2> HIDE DEF S
  <2>1. 0..n \subseteq S
    BY <1>0, <1>1, <1>2, Climb
  <2> QED BY <1>0, <2>1
<1>4. F = Body(F, n)
  <2>1. \E f : f = Body(f, n)
    BY <1>3
  <2> HIDE DEF Body
  <2> QED BY <2>1
<1>5. Renamed(t, from, to) = F[n]
  BY <1>01
<1> HIDE DEF F
<1>6. F[0] = t
  BY <1>0, <1>4
<1>7. \A i \in 1..n : F[i] = replace_leaf(F[i - 1], from[i], to[i])
  <2>1. ASSUME NEW i \in 1..n PROVE F[i] = replace_leaf(F[i - 1], from[i], to[i])
    <3>1. i \in 0..n /\ i # 0
      OBVIOUS
    <3>2. F[i] = Body(F, n)[i]
      BY <1>4
    <3> QED BY <3>1, <3>2
  <2> QED BY <2>1
<1> QED BY <1>5, <1>6, <1>7 DEF Renames, n

(* At the end of the renaming every leaf has a new name. *)
LEMMA RenamingDone ==
  ASSUME NEW t, IsTree(t), NEW X, NEW to \in Seq(X), Distinct(to),
         NEW from, NEW n \in Nat, Len(from) = n, n <= Len(to), n = Len(leaf_paths(t)),
         NEW u, NEW l, NEW g, Renaming(u, t, from, to, l, g, n)
  PROVE  /\ IsTree(u)
         /\ Leaves(u) = {to[m] : m \in 1..n}
         /\ (\A k, m \in 1..n : from[k] # to[m]) => pane_ids(u) = SubSeq(to, 1, n)
<1>1. Len(to) \in Nat
  OBVIOUS
<1>2. \A k, m \in 1..n : to[k] = to[m] => k = m
  <2>1. \A k, m \in 1..Len(to) : to[k] = to[m] => k = m
    BY DistinctAt
  <2> QED BY <1>1, <2>1
<1>8. /\ Labelled(u, t, l) /\ DOMAIN l = 1..n
      /\ \A k \in 1..n : g[k] \in 1..n
      /\ \A k, m \in 1..n : g[k] = g[m] => k = m
      /\ \A m \in 1..n : \E k \in 1..n : g[k] = m
      /\ \A k \in 1..n : l[k] = IF g[k] <= n THEN to[g[k]] ELSE from[g[k]]
      /\ (\A k, m \in 1..n : from[k] # to[m]) => \A k \in 1..n : g[k] = k
  BY DEF Renaming, Permutes
<1>9. \A k \in 1..n : l[k] = to[g[k]]
  <2>1. \A k \in 1..n : g[k] <= n
    BY <1>8
  <2> QED BY <1>8, <2>1
<1>10. Distinct(l)
  <2>1. ASSUME NEW k \in 1..n, NEW m \in 1..n, l[k] = l[m] PROVE k = m
    <3>1. g[k] \in 1..n /\ g[m] \in 1..n /\ to[g[k]] = to[g[m]]
      BY <1>8, <1>9, <2>1
    <3>2. g[k] = g[m]
      BY <1>2, <3>1
    <3> QED BY <1>8, <3>2
  <2> QED BY <1>8, <2>1 DEF Distinct
<1>11. IsTree(u) /\ pane_ids(u) = l /\ Leaves(u) = {l[k] : k \in DOMAIN l}
  <2>1. Labelled(u, t, l)
    BY <1>8
  <2> QED BY <1>10, <2>1, LabelledIs
<1>12. Leaves(u) = {to[m] : m \in 1..n}
  <2>1. ASSUME NEW m \in 1..n PROVE to[m] \in Leaves(u)
    <3>1. PICK k \in 1..n : g[k] = m
      BY <1>8
    <3>2. l[k] = to[m] /\ k \in DOMAIN l
      BY <1>8, <1>9, <3>1
    <3> QED BY <1>11, <3>2
  <2>2. ASSUME NEW x \in Leaves(u) PROVE x \in {to[m] : m \in 1..n}
    <3>1. PICK k \in 1..n : x = l[k]
      BY <1>8, <1>11
    <3> QED BY <1>8, <1>9, <3>1
  <2> QED BY <2>1, <2>2
<1>13. ASSUME \A k, m \in 1..n : from[k] # to[m] PROVE pane_ids(u) = SubSeq(to, 1, n)
  <2>4. \A k \in 1..n : l[k] = to[k]
    BY <1>8, <1>9, <1>13
  <2>5. SubSeq(to, 1, n) = [k \in 1..n |-> to[k]]
    <3>1. SubSeq(to, 1, n) = [k \in 1..(1 + n - 1) |-> to[k + 1 - 1]]
      OBVIOUS
    <3> QED BY <3>1
  <2>6. l = [k \in 1..n |-> l[k]]
    <3>1. DOMAIN l = 1..n /\ l = [i \in 1..n |-> u.leaf[leaf_paths(t)[i]]]
      BY <1>8 DEF Labelled
    <3> QED BY <3>1
  <2> QED BY <1>11, <2>4, <2>5, <2>6
<1> QED BY <1>11, <1>12, <1>13

(* Each leaf of the template gets a pane of the tab, and the first does the *)
(* first and so on when the names do not clash.                             *)
LEMMA RenamedIs ==
  ASSUME NEW t, IsTree(t), NEW X, NEW to \in Seq(X), Distinct(to),
         NEW from, from = pane_ids(t), Len(from) <= Len(to)
  PROVE  /\ IsTree(Renamed(t, from, to))
         /\ Leaves(Renamed(t, from, to)) = {to[m] : m \in 1..Len(from)}
         /\ Leaves(t) \cap ToSet(to) = {} =>
              pane_ids(Renamed(t, from, to)) = SubSeq(to, 1, Len(from))
<1> DEFINE n == Len(from)
           u == Renamed(t, from, to)
<1>1. /\ from \in Seq(Leaves(t)) /\ n \in Nat /\ Distinct(from) /\ ToSet(from) = Leaves(t)
      /\ n = Len(leaf_paths(t)) /\ DOMAIN from = 1..n /\ Labelled(t, t, from)
  BY PaneIdsAre, LabelledSelf
<1>2. n <= Len(to) /\ Len(from) = n /\ Len(to) \in Nat
  OBVIOUS
<1>20. \A k, m \in 1..n : from[k] = from[m] => k = m
  BY <1>1, DistinctAt
<1>3. PICK f : u = f[n] /\ Renames(f, t, from, to)
  BY <1>1, RenamedSteps
<1> HIDE DEF n, u
<1>30. f[0] = t /\ \A i \in 1..n : f[i] = replace_leaf(f[i - 1], from[i], to[i])
  BY <1>3 DEF Renames, n
<1> DEFINE S == {i \in 0..n : \E l, g : Renaming(f[i], t, from, to, l, g, i)}
<1>4. 0 \in S
  <2>1. PICK g \in [1..n -> 1..n] : \A k \in 1..n : g[k] = k
    <3> DEFINE h == [k \in 1..n |-> k]
    <3>1. h \in [1..n -> 1..n] /\ \A k \in 1..n : h[k] = k
      OBVIOUS
    <3> QED BY <3>1
  <2>2. Permutes(g, n)
    BY <2>1 DEF Permutes
  <2>4. \A k \in 1..n : from[k] = IF g[k] <= 0 THEN to[g[k]] ELSE from[g[k]]
    <3>1. \A k \in 1..n : ~(g[k] <= 0)
      BY <1>1, <2>1
    <3> QED BY <2>1, <3>1
  <2>5. Renaming(f[0], t, from, to, from, g, 0)
    BY <1>1, <1>2, <1>30, <2>1, <2>2, <2>4 DEF Renaming
  <2>6. 0 \in 0..n
    BY <1>1
  <2> QED BY <2>5, <2>6
<1>5. ASSUME NEW i \in 0 + 1..n, i - 1 \in S PROVE i \in S
  <2>1. PICK l, g : Renaming(f[i - 1], t, from, to, l, g, i - 1)
    BY <1>5
  <2>2. i \in 1..n /\ i \in 0..n
    BY <1>1
  <2> DEFINE v == f[i - 1]
  <2> HIDE DEF v
  <2>3. Renaming(v, t, from, to, l, g, i - 1)
    BY <2>1 DEF v
  <2>4. \E l2, g2 : Renaming(replace_leaf(v, from[i], to[i]), t, from, to, l2, g2, i)
    BY <1>1, <1>2, <1>20, <2>2, <2>3, RenameStep
  <2>5. f[i] = replace_leaf(v, from[i], to[i])
    BY <1>30, <2>2 DEF v
  <2> QED BY <2>2, <2>4, <2>5
<1>6. n \in S
  <2> HIDE DEF S
  <2>1. 0..n \subseteq S
    BY <1>1, <1>4, <1>5, Climb
  <2> QED BY <1>1, <2>1
<1>7. PICK l, g : Renaming(u, t, from, to, l, g, n)
  BY <1>3, <1>6
<1>8. /\ IsTree(u)
      /\ Leaves(u) = {to[m] : m \in 1..n}
      /\ (\A k, m \in 1..n : from[k] # to[m]) => pane_ids(u) = SubSeq(to, 1, n)
  BY <1>1, <1>2, <1>7, RenamingDone
<1>13. ASSUME Leaves(t) \cap ToSet(to) = {} PROVE pane_ids(u) = SubSeq(to, 1, n)
  <2>1. \A k \in 1..n : from[k] \in Leaves(t)
    BY <1>1, <1>2, Members
  <2>2. \A m \in 1..n : to[m] \in ToSet(to)
    <3>1. \A m \in 1..n : m \in 1..Len(to)
      BY <1>1, <1>2
    <3> QED BY <3>1, Members
  <2>3. \A k, m \in 1..n : from[k] # to[m]
    BY <1>13, <2>1, <2>2
  <2> QED BY <1>8, <2>3
<1> QED BY <1>8, <1>13 DEF n, u

(* f holds the trees of that splitting off, from the n-th on. *)
Extends(f, t, ids, n) ==
  /\ f[n] = t
  /\ \A i \in n + 1..Len(ids) : f[i] = SplitLeaf(f[i - 1], ids[i - 1], ids[i], "Vertical")

(* The splitting off of the other panes, step by step. *)
LEMMA ExtendedSteps ==
  ASSUME NEW t, NEW ids, NEW n \in Nat, Len(ids) \in Nat, n <= Len(ids)
  PROVE  \E f : Extended(t, ids, n) = f[Len(ids)] /\ Extends(f, t, ids, n)
<1> DEFINE b == Len(ids)
<1>0. b \in Nat /\ n <= b
  OBVIOUS
<1>01. Extended(t, ids, n) =
         LET extended[i \in n..b] ==
               IF i = n THEN t ELSE SplitLeaf(extended[i - 1], ids[i - 1], ids[i], "Vertical")
         IN  extended[b]
  BY DEF Extended
<1>02. ASSUME NEW f, f[n] = t,
              \A i \in n + 1..b : f[i] = SplitLeaf(f[i - 1], ids[i - 1], ids[i], "Vertical")
       PROVE  Extends(f, t, ids, n)
  BY <1>02 DEF Extends
<1>03. \A f : Extended(t, ids, n) = f[b] => Extended(t, ids, n) = f[Len(ids)]
  OBVIOUS
<1> HIDE DEF b
<1> DEFINE Body(f, j) == [i \in n..j |-> IF i = n THEN t
                                         ELSE SplitLeaf(f[i - 1], ids[i - 1], ids[i], "Vertical")]
           S == {j \in n..b : \E f : f = Body(f, j)}
           F == CHOOSE f : f = Body(f, b)
<1>1. n \in S
  <2>0. n \in n..b
    BY <1>0
  <2> DEFINE z == [i \in n..n |-> t]
  <2>1. z = Body(z, n)
    <3>1. \A i \in n..n : i = n
      OBVIOUS
    <3>2. DOMAIN Body(z, n) = n..n /\ \A i \in n..n : z[i] = Body(z, n)[i]
      BY <3>1
    <3> QED BY <3>2
  <2> HIDE DEF Body
  <2> QED BY <2>0, <2>1
<1>2. ASSUME NEW j \in n + 1..b, j - 1 \in S PROVE j \in S
  <2>1. PICK f : f = Body(f, j - 1)
    BY <1>2
  <2> DEFINE x == SplitLeaf(f[j - 1], ids[j - 1], ids[j], "Vertical")
             e == [i \in n..j |-> IF i < j THEN f[i] ELSE x]
  <2>2. e = Body(e, j)
    <3>1. ASSUME NEW i \in n..j
          PROVE  e[i] = IF i = n THEN t ELSE SplitLeaf(e[i - 1], ids[i - 1], ids[i], "Vertical")
      <4>1. CASE i = n
        <5>1. n \in n..j - 1 /\ n < j /\ n \in n..j
          OBVIOUS
        <5>2. e[n] = f[n]
          <6> HIDE DEF x
          <6> QED BY <5>1
        <5>3. f[n] = Body(f, j - 1)[n]
          BY <2>1
        <5> QED BY <4>1, <5>1, <5>2, <5>3
      <4>2. CASE i # n /\ i < j
        <5>1. i \in n..j - 1 /\ i - 1 \in n..j /\ i - 1 < j
          BY <4>2
        <5>2. e[i] = f[i] /\ e[i - 1] = f[i - 1]
          <6> HIDE DEF x
          <6> QED BY <4>2, <5>1
        <5>3. f[i] = Body(f, j - 1)[i]
          BY <2>1
        <5>4. f[i] = SplitLeaf(f[i - 1], ids[i - 1], ids[i], "Vertical")
          BY <4>2, <5>1, <5>3
        <5> HIDE DEF e
        <5> QED BY <4>2, <5>2, <5>4
      <4>3. CASE i = j
        <5>1. j - 1 \in n..j /\ j - 1 < j /\ j # n /\ j \in n..j
          OBVIOUS
        <5>2. e[j] = x /\ e[j - 1] = f[j - 1]
          <6> HIDE DEF x
          <6> QED BY <5>1
        <5> HIDE DEF e
        <5> QED BY <4>3, <5>1, <5>2
      <4> QED BY <4>1, <4>2, <4>3
    <3>2. DOMAIN e = n..j /\ e = [i \in n..j |-> e[i]]
      OBVIOUS
    <3> HIDE DEF e
    <3> QED BY <3>1, <3>2
  <2>3. j \in n..b
    BY <1>0
  <2> HIDE DEF Body
  <2> QED BY <2>2, <2>3
<1>3. b \in S
  <2> HIDE DEF S
  <2>1. n..b \subseteq S
    BY <1>0, <1>1, <1>2, Climb
  <2> QED BY <1>0, <2>1
<1>4. F = Body(F, b)
  <2>1. \E f : f = Body(f, b)
    BY <1>3
  <2> HIDE DEF Body
  <2> QED BY <2>1
<1>5. Extended(t, ids, n) = F[b]
  BY <1>01
<1> HIDE DEF F
<1>6. F[n] = t
  <2>1. n \in n..b
    BY <1>0
  <2>2. F[n] = Body(F, b)[n]
    BY <1>4
  <2> QED BY <2>1, <2>2
<1>7. \A i \in n + 1..b : F[i] = SplitLeaf(F[i - 1], ids[i - 1], ids[i], "Vertical")
  <2>1. ASSUME NEW i \in n + 1..b PROVE F[i] = SplitLeaf(F[i - 1], ids[i - 1], ids[i], "Vertical")
    <3>1. i \in n..b /\ i # n
      BY <1>0
    <3>2. F[i] = Body(F, b)[i]
      BY <1>4
    <3> QED BY <3>1, <3>2
  <2> QED BY <2>1
<1>8. Extends(F, t, ids, n)
  BY <1>02, <1>6, <1>7
<1> QED BY <1>03, <1>5, <1>8

(* Inserting after the last of a list's first panes gives one more of them. *)
LEMMA InsertNext ==
  ASSUME NEW X, NEW ids \in Seq(X), Distinct(ids), NEW i \in 2..Len(ids)
  PROVE  InsertAfter(SubSeq(ids, 1, i - 1), ids[i - 1], ids[i]) = SubSeq(ids, 1, i)
<1> DEFINE m == i - 1
           q == SubSeq(ids, 1, m)
           r == SubSeq(ids, 1, i)
           e == ids[i]
           w == InsertAt(q, i, e)
<1>1. /\ m \in 1..Len(ids) /\ m + 1 = i /\ i \in 1..Len(ids) /\ Len(ids) \in Nat
      /\ m \in Nat /\ i \in Nat /\ m = i - 1
  OBVIOUS
<1>2. e \in X
  BY <1>1
<1>3. /\ q \in Seq(X) /\ Len(q) = m /\ \A k \in 1..m : q[k] = ids[k]
  <2> HIDE DEF m
  <2> QED BY <1>1, SubSeqProperties
<1>4. /\ r \in Seq(X) /\ Len(r) = i /\ \A k \in 1..i : r[k] = ids[k]
  BY <1>1, SubSeqProperties
<1>5. \A k, l \in 1..Len(ids) : ids[k] = ids[l] => k = l
  BY DistinctAt
<1> HIDE DEF m, q, r, e
<1>6. Distinct(q)
  <2>1. \A k \in 1..m : k \in 1..Len(ids)
    BY <1>1
  <2>2. \A k, l \in 1..Len(q) : q[k] = q[l] => k = l
    BY <1>3, <1>5, <2>1
  <2> QED BY <1>3, <2>2, DistinctAt
<1>7. IndexOf(q, ids[m]) = m
  <2>1. m \in 1..Len(q) /\ q[m] = ids[m]
    BY <1>1, <1>3
  <2>2. IndexOf(q, q[m]) = m
    BY <1>3, <1>6, <2>1, IndexOfUnique
  <2> QED BY <2>1, <2>2
<1>8. InsertAfter(q, ids[m], e) = w
  BY <1>1, <1>7 DEF InsertAfter
<1>9. /\ w \in Seq(X) /\ Len(w) = Len(q) + 1
      /\ \A k \in 1..Len(q) + 1 : w[k] = IF k < i THEN q[k] ELSE IF k = i THEN e ELSE q[k - 1]
  <2>1. i \in 1..Len(q) + 1 /\ q \in Seq(X)
    BY <1>1, <1>3
  <2>2. e \in X
    BY <1>2 DEF e
  <2>3. /\ InsertAt(q, i, e) \in Seq(X) /\ Len(InsertAt(q, i, e)) = Len(q) + 1
        /\ \A k \in 1..Len(q) + 1 : InsertAt(q, i, e)[k] = IF k < i THEN q[k] ELSE IF k = i THEN e ELSE q[k - 1]
    BY <2>1, <2>2, InsertAtShape
  <2> QED BY <2>3
<1> HIDE DEF w
<1>10. ASSUME NEW k \in 1..Len(w) PROVE w[k] = r[k]
  <2>1. k \in 1..i /\ k \in 1..Len(q) + 1
    BY <1>1, <1>3, <1>9
  <2>2. CASE k = i
    BY <1>4, <1>9, <2>1, <2>2 DEF e
  <2>3. CASE k # i
    <3>1. k \in 1..m /\ k < i
      BY <1>1, <2>1, <2>3
    <3> QED BY <1>3, <1>4, <1>9, <2>1, <3>1
  <2> QED BY <2>2, <2>3
<1>11. Len(w) = Len(r)
  BY <1>1, <1>3, <1>4, <1>9
<1>12. w = r
  BY <1>4, <1>9, <1>10, <1>11, SeqEqual
<1> QED BY <1>8, <1>12 DEF m, q, r, e

(* u holds the first k panes of the list; in their order if ordered says so. *)
Arranges(u, ids, k, ordered) ==
  /\ IsTree(u)
  /\ Leaves(u) = {ids[m] : m \in 1..k}
  /\ ordered => pane_ids(u) = SubSeq(ids, 1, k)

(* One more pane. *)
LEMMA ArrangesNext ==
  ASSUME NEW X, NEW ids \in Seq(X), Distinct(ids), NEW i \in 2..Len(ids), NEW u, NEW ordered,
         Arranges(u, ids, i - 1, ordered)
  PROVE  Arranges(SplitLeaf(u, ids[i - 1], ids[i], "Vertical"), ids, i, ordered)
<1> DEFINE a == ids[i - 1]
           b == ids[i]
           v == SplitLeaf(u, a, b, "Vertical")
<1>1. /\ IsTree(u) /\ Leaves(u) = {ids[m] : m \in 1..i - 1}
      /\ ordered => pane_ids(u) = SubSeq(ids, 1, i - 1)
  BY DEF Arranges
<1>2. a \in Leaves(u)
  <2>1. i - 1 \in 1..i - 1
    OBVIOUS
  <2> QED BY <1>1, <2>1
<1>3. b \notin Leaves(u)
  <2>1. \A k, l \in 1..Len(ids) : ids[k] = ids[l] => k = l
    BY DistinctAt
  <2>2. \A m \in 1..i - 1 : m \in 1..Len(ids) /\ m # i /\ i \in 1..Len(ids)
    OBVIOUS
  <2>3. \A m \in 1..i - 1 : ids[m] # b
    BY <2>1, <2>2
  <2> QED BY <1>1, <2>3
<1>4. "Vertical" \in Direction
  BY DEF Direction
<1>5. /\ IsTree(v) /\ Leaves(v) = Leaves(u) \cup {b}
      /\ pane_ids(v) = InsertAfter(pane_ids(u), a, b)
  <2>1. IsTree(u)
    BY <1>1
  <2> HIDE DEF a, b, v
  <2>2. /\ IsTree(SplitLeaf(u, a, b, "Vertical"))
        /\ Leaves(SplitLeaf(u, a, b, "Vertical")) = Leaves(u) \cup {b}
        /\ pane_ids(SplitLeaf(u, a, b, "Vertical")) = InsertAfter(pane_ids(u), a, b)
    BY <2>1, <1>2, <1>3, <1>4, SplitLeafIs
  <2> QED BY <2>2 DEF v
<1>6. InsertAfter(SubSeq(ids, 1, i - 1), a, b) = SubSeq(ids, 1, i)
  BY InsertNext
<1> HIDE DEF a, v
<1>7. Leaves(v) = {ids[m] : m \in 1..i}
  <2>1. \A m : m \in 1..i <=> m \in 1..i - 1 \/ m = i
    OBVIOUS
  <2> QED BY <1>1, <1>5, <2>1
<1>8. Arranges(v, ids, i, ordered)
  BY <1>1, <1>5, <1>6, <1>7 DEF Arranges
<1> QED BY <1>8 DEF v, a, b

(* All of them. *)
LEMMA ExtendedIs ==
  ASSUME NEW X, NEW ids \in Seq(X), Distinct(ids), NEW n \in 1..Len(ids), NEW t, NEW ordered,
         Arranges(t, ids, n, ordered)
  PROVE  Arranges(Extended(t, ids, n), ids, Len(ids), ordered)
<1> DEFINE b == Len(ids)
           u == Extended(t, ids, n)
<1>1. n \in Nat /\ b \in Nat /\ b = Len(ids) /\ n <= b /\ n >= 1
  OBVIOUS
<1>20. PICK f : Extended(t, ids, n) = f[Len(ids)] /\ Extends(f, t, ids, n)
  BY <1>1, ExtendedSteps
<1>2. /\ u = f[b] /\ f[n] = t
      /\ \A i \in n + 1..b : f[i] = SplitLeaf(f[i - 1], ids[i - 1], ids[i], "Vertical")
  BY <1>20 DEF Extends
<1> DEFINE S == {i \in n..b : Arranges(f[i], ids, i, ordered)}
<1>3. n \in S
  BY <1>1, <1>2
<1>4. ASSUME NEW i \in n + 1..b, i - 1 \in S PROVE i \in S
  <2> DEFINE v == f[i - 1]
  <2>1. Arranges(v, ids, i - 1, ordered)
    BY <1>4
  <2>2. i \in 2..Len(ids) /\ i \in n..b
    BY <1>1
  <2> HIDE DEF v
  <2>3. Arranges(SplitLeaf(v, ids[i - 1], ids[i], "Vertical"), ids, i, ordered)
    BY <2>1, <2>2, ArrangesNext
  <2>4. f[i] = SplitLeaf(v, ids[i - 1], ids[i], "Vertical")
    BY <1>2 DEF v
  <2> QED BY <2>2, <2>3, <2>4
<1>5. b \in S
  <2> HIDE DEF S, b
  <2>1. n..b \subseteq S
    BY <1>1, <1>3, <1>4, Climb
  <2> QED BY <1>1, <2>1
<1> QED BY <1>2, <1>5

(* LayoutEngine::apply_template of a template with no more leaves than      *)
(* there are panes.                                                         *)
LEMMA TemplateIs ==
  ASSUME NEW t, IsTree(t), NEW X, NEW ids \in Seq(X), Distinct(ids),
         Len(pane_ids(t)) <= Len(ids)
  PROVE  /\ IsTree(apply_template(t, ids))
         /\ Leaves(apply_template(t, ids)) = ToSet(ids)
         /\ Leaves(t) \cap ToSet(ids) = {} => pane_ids(apply_template(t, ids)) = ids
<1> DEFINE from == pane_ids(t)
           n == Len(from)
           b == Len(ids)
           u == Renamed(t, from, ids)
           v == apply_template(t, ids)
           ordered == Leaves(t) \cap ToSet(ids) = {}
<1>1. n \in Nat /\ n >= 1 /\ b \in Nat /\ n <= b
  BY SomeLeaf
<1>2. /\ IsTree(u) /\ Leaves(u) = {ids[m] : m \in 1..n}
      /\ ordered => pane_ids(u) = SubSeq(ids, 1, n)
  <2>1. from = pane_ids(t) /\ Len(from) <= Len(ids)
    OBVIOUS
  <2> HIDE DEF from
  <2> QED BY <2>1, RenamedIs
<1>3. v = IF b > n THEN Extended(u, ids, n) ELSE Pruned(u, from, b)
  BY DEF apply_template
<1> HIDE DEF u, v, from, ordered
<1>4. Arranges(u, ids, n, ordered)
  BY <1>2 DEF Arranges
<1>5. Arranges(v, ids, b, ordered)
  <2>1. CASE b > n
    <3>1. n \in 1..Len(ids)
      BY <1>1
    <3> HIDE DEF n
    <3>2. Arranges(Extended(u, ids, n), ids, Len(ids), ordered)
      BY <1>4, <3>1, ExtendedIs
    <3> QED BY <1>3, <2>1, <3>2
  <2>2. CASE ~(b > n)
    <3>1. b = n
      BY <1>1, <2>2
    <3>2. Pruned(u, from, n) = u
      <4> DEFINE Body(f) == [i \in n..n |-> IF i = n THEN u ELSE RemoveLeaf(f[i - 1], from[i])]
                 F == CHOOSE f : f = Body(f)
                 z == [i \in n..n |-> u]
      <4>1. z = Body(z)
        <5>1. \A i \in n..n : i = n
          BY <1>1
        <5>2. DOMAIN Body(z) = n..n /\ \A i \in n..n : z[i] = Body(z)[i]
          BY <5>1
        <5> QED BY <5>2
      <4>2. F = Body(F)
        <5> HIDE DEF Body, z
        <5> QED BY <4>1
      <4>3. Pruned(u, from, n) = F[n]
        BY DEF Pruned
      <4>4. F[n] = u
        <5> HIDE DEF F
        <5>1. n \in n..n
          BY <1>1
        <5>2. F[n] = Body(F)[n]
          BY <4>2
        <5> QED BY <5>1, <5>2
      <4> QED BY <4>3, <4>4
    <3> QED BY <1>3, <1>4, <2>2, <3>1, <3>2
  <2> QED BY <2>1, <2>2
<1>6. ToSet(ids) = {ids[m] : m \in 1..b}
  BY DEF ToSet
<1>7. SubSeq(ids, 1, b) = ids
  <2>1. SubSeq(ids, 1, Len(ids)) = [k \in 1..(1 + Len(ids) - 1) |-> ids[k + 1 - 1]]
    BY <1>1
  <2>2. ids = [k \in 1..Len(ids) |-> ids[k]]
    OBVIOUS
  <2>3. SubSeq(ids, 1, Len(ids)) = [k \in 1..Len(ids) |-> ids[k]]
    BY <2>1
  <2> QED BY <2>2, <2>3
<1> QED BY <1>5, <1>6, <1>7 DEF Arranges, v, ordered

-----------------------------------------------------------------------------
(* The tree through every operation *)

(* root is a tree of panes that may exist, size one of the sizes. *)
TreeInv ==
  /\ IsTree(root)
  /\ Leaves(root) \subseteq Ids
  /\ size \in Sizes

(* The positions are those of the leaves. *)
LEMMA PositionsAre ==
  ASSUME NEW t, IsTree(t), NEW sz
  PROVE  /\ DOMAIN compute_positions(t, sz) = 1..Len(leaf_paths(t))
         /\ \A i \in 1..Len(leaf_paths(t)) :
              /\ leaf_paths(t)[i] \in DOMAIN t.leaf
              /\ compute_positions(t, sz)[i] = Placed(t, sz, leaf_paths(t)[i])
              /\ compute_positions(t, sz)[i].id = t.leaf[leaf_paths(t)[i]]
              /\ compute_positions(t, sz)[i].id \in Leaves(t)
<1> DEFINE s == leaf_paths(t)
<1>1. s \in Seq(DOMAIN t.leaf) /\ \A i \in 1..Len(s) : s[i] \in DOMAIN t.leaf
  BY PaneIdsAre
<1>2. compute_positions(t, sz) = [i \in DOMAIN s |-> Placed(t, sz, s[i])]
  BY DEF compute_positions
<1> HIDE DEF s
<1>3. DOMAIN s = 1..Len(s)
  BY <1>1
<1>4. \A p : Placed(t, sz, p).id = t.leaf[p]
  BY DEF Placed, PanePosition
<1>5. \A p \in DOMAIN t.leaf : t.leaf[p] \in Leaves(t)
  BY DEF Leaves
<1>6. \A i \in 1..Len(s) : compute_positions(t, sz)[i] = Placed(t, sz, s[i])
  BY <1>2, <1>3
<1>7. DOMAIN compute_positions(t, sz) = 1..Len(s)
  BY <1>2, <1>3
<1> QED BY <1>1, <1>4, <1>5, <1>6, <1>7 DEF s

(* A neighbour is another pane of the tree. *)
LEMMA NeighborIs ==
  ASSUME NEW t, IsTree(t), NEW sz, NEW id, NEW direction,
         NEW n \in find_neighbor_in_direction(t, sz, id, direction)
  PROVE  n \in Leaves(t) /\ n # id
<1> DEFINE ps == compute_positions(t, sz)
<1>1. PICK i \in DOMAIN ps : n = ps[i].id /\ ps[i].id # id
  BY DEF find_neighbor_in_direction
<1>2. ps[i].id \in Leaves(t)
  BY PositionsAre
<1> QED BY <1>1, <1>2

(* A resize asks for a whole number of hundredths. *)
LEMMA RatioDeltaIs ==
  ASSUME NEW amount \in Int, NEW total \in Int, total > 0
  PROVE  /\ RatioDelta(amount, total) \in Int
         /\ amount > 0 => RatioDelta(amount, total) >= 0
<1> DEFINE m == amount * RatioUnit
<1>1. m \in Int /\ (amount > 0 => m >= 0)
  BY DEF RatioUnit
<1> HIDE DEF m
<1>2. m \div total \in Int /\ (m >= 0 => m \div total >= 0)
  BY <1>1
<1> QED BY <1>1, <1>2 DEF RatioDelta, m

(* A split. *)
LEMMA TreeSplit ==
  ASSUME TreeInv, NEW target \in Ids, NEW id \in Ids, NEW direction \in Direction,
         split(target, id, direction)
  PROVE  TreeInv'
<1>1. /\ target \in Leaves(root) /\ id \notin Leaves(root) /\ IsTree(root)
      /\ root' = SplitLeaf(root, target, id, direction) /\ size' = size
  BY DEF TreeInv, split
<1>2. /\ IsTree(SplitLeaf(root, target, id, direction))
      /\ Leaves(SplitLeaf(root, target, id, direction)) = Leaves(root) \cup {id}
  BY <1>1, SplitLeafIs
<1>3. IsTree(root') /\ Leaves(root') = Leaves(root) \cup {id}
  BY <1>1, <1>2
<1> QED BY <1>1, <1>3 DEF TreeInv

(* A pane embedded after the last. *)
LEMMA TreeAdd ==
  ASSUME TreeInv, NEW id \in Ids, add_pane(id)
  PROVE  TreeInv'
<1> DEFINE target == Last(pane_ids(root))
<1>1. /\ id \notin Leaves(root) /\ IsTree(root)
      /\ root' = SplitLeaf(root, target, id, "Vertical") /\ size' = size
  BY DEF TreeInv, add_pane
<1>2. target \in Leaves(root)
  <2>1. /\ pane_ids(root) \in Seq(Leaves(root)) /\ Len(pane_ids(root)) \in Nat
        /\ Len(pane_ids(root)) >= 1
    BY <1>1, PaneIdsAre, SomeLeaf
  <2> QED BY <2>1 DEF Last
<1>3. "Vertical" \in Direction
  BY DEF Direction
<1> HIDE DEF target
<1>4. /\ IsTree(SplitLeaf(root, target, id, "Vertical"))
      /\ Leaves(SplitLeaf(root, target, id, "Vertical")) = Leaves(root) \cup {id}
  BY <1>1, <1>2, <1>3, SplitLeafIs
<1>5. IsTree(root') /\ Leaves(root') = Leaves(root) \cup {id}
  BY <1>1, <1>4
<1> QED BY <1>1, <1>5 DEF TreeInv

(* A removal. *)
LEMMA TreeRemove ==
  ASSUME TreeInv, NEW id \in Ids, remove_pane(id)
  PROVE  TreeInv'
<1>1. /\ id \in Leaves(root) /\ ~IsLeaf(root) /\ IsTree(root)
      /\ root' = RemovePane(root, id) /\ size' = size
  BY DEF TreeInv, remove_pane
<1>2. /\ IsTree(RemovePane(root, id)) /\ Leaves(RemovePane(root, id)) = Leaves(root) \ {id}
  BY <1>1, RemovePaneIs
<1>3. IsTree(root') /\ Leaves(root') = Leaves(root) \ {id}
  BY <1>1, <1>2
<1> QED BY <1>1, <1>3 DEF TreeInv

(* A move. *)
LEMMA TreeSwap ==
  ASSUME TreeInv, NEW id \in Ids, NEW direction, swap_with_neighbor(id, direction)
  PROVE  TreeInv'
<1>1. /\ id \in Leaves(root) /\ IsTree(root) /\ size' = size
      /\ \E n \in find_neighbor_in_direction(root, size, id, direction) :
           root' = swap_leaves(root, id, n)
  BY DEF TreeInv, swap_with_neighbor
<1>2. PICK n \in find_neighbor_in_direction(root, size, id, direction) :
           root' = swap_leaves(root, id, n)
  BY <1>1
<1>3. n \in Leaves(root) /\ n # id
  BY <1>1, NeighborIs
<1>4. Sentinel \notin Leaves(root)
  BY LayoutAssumption DEF TreeInv
<1>5. /\ IsTree(swap_leaves(root, id, n)) /\ Leaves(swap_leaves(root, id, n)) = Leaves(root)
  BY <1>1, <1>3, <1>4, SwapIs
<1>6. IsTree(root') /\ Leaves(root') = Leaves(root)
  BY <1>2, <1>5
<1> QED BY <1>1, <1>6 DEF TreeInv

(* The sizes and the amounts are whole numbers. *)
LEMMA SizeIs ==
  ASSUME TreeInv
  PROVE  size[1] \in Nat /\ size[2] \in Nat
<1>1. size \in Nat \X Nat
  BY LayoutAssumption DEF TreeInv
<1> QED BY <1>1

(* A resize of a pane. *)
LEMMA TreeResize ==
  ASSUME TreeInv, NEW id \in Ids, NEW axis \in Direction, NEW amount \in Amounts,
         resize_pane(id, axis, amount)
  PROVE  TreeInv'
<1> DEFINE total == IF axis = "Vertical" THEN size[1] ELSE size[2]
           delta == RatioDelta(amount, total)
<1>1. /\ id \in Leaves(root) /\ IsTree(root) /\ size' = size /\ total > 0
      /\ root' = adjust_ratio(root, id, axis, delta)
  BY DEF TreeInv, resize_pane
<1>2. delta \in Int
  <2>1. total \in Int /\ amount \in Int
    BY SizeIs, LayoutAssumption
  <2> HIDE DEF total
  <2> QED BY <1>1, <2>1, RatioDeltaIs
<1> HIDE DEF delta
<1>3. /\ IsTree(adjust_ratio(root, id, axis, delta))
      /\ Leaves(adjust_ratio(root, id, axis, delta)) = Leaves(root)
  BY <1>1, <1>2, AdjustIs
<1>4. IsTree(root') /\ Leaves(root') = Leaves(root)
  BY <1>1, <1>3
<1> QED BY <1>1, <1>4 DEF TreeInv

(* The panes of a tree as a list, and the templates there are. *)
LEMMA TemplateArranges ==
  ASSUME TreeInv, NEW template \in Templates, Len(pane_ids(template)) <= Len(pane_ids(root))
  PROVE  /\ IsTree(apply_template(template, pane_ids(root)))
         /\ Leaves(apply_template(template, pane_ids(root))) = Leaves(root)
         /\ Leaves(template) \cap Leaves(root) = {} =>
              pane_ids(apply_template(template, pane_ids(root))) = pane_ids(root)
<1> DEFINE ids == pane_ids(root)
<1>1. IsTree(template)
  BY LayoutAssumption
<1>2. /\ ids \in Seq(Leaves(root)) /\ Distinct(ids) /\ ToSet(ids) = Leaves(root)
      /\ Len(pane_ids(template)) <= Len(ids)
  BY PaneIdsAre DEF TreeInv
<1> HIDE DEF ids
<1>3. /\ IsTree(apply_template(template, ids))
      /\ Leaves(apply_template(template, ids)) = ToSet(ids)
      /\ Leaves(template) \cap ToSet(ids) = {} => pane_ids(apply_template(template, ids)) = ids
  BY <1>1, <1>2, TemplateIs
<1> QED BY <1>2, <1>3 DEF ids

(* A swap layout. *)
LEMMA TreeApply ==
  ASSUME TreeInv, NEW template \in Templates, apply_swap_layout(template)
  PROVE  TreeInv'
<1>1. /\ Len(pane_ids(template)) <= Len(pane_ids(root)) /\ size' = size
      /\ root' = apply_template(template, pane_ids(root))
  BY DEF apply_swap_layout
<1>2. /\ IsTree(apply_template(template, pane_ids(root)))
      /\ Leaves(apply_template(template, pane_ids(root))) = Leaves(root)
  BY <1>1, TemplateArranges
<1>3. IsTree(root') /\ Leaves(root') = Leaves(root)
  BY <1>1, <1>2
<1> QED BY <1>1, <1>3 DEF TreeInv

(* Whatever the tab does with it, the layout is a tree: every split has two *)
(* children, no pane has two leaves, no leaf holds anything but a pane.     *)
THEOREM LayoutStaysTree == Spec => []TreeInv
<1>1. Init => TreeInv
  <2> SUFFICES ASSUME Init PROVE TreeInv
    OBVIOUS
  <2>1. PICK id \in Ids : root = Leaf(id)
    BY DEF Init
  <2>2. IsTree(Leaf(id)) /\ Leaves(Leaf(id)) = {id}
    BY LeafIsTree
  <2> QED BY <2>1, <2>2 DEF Init, TreeInv
<1>2. TreeInv /\ [Next]_vars => TreeInv'
  <2> SUFFICES ASSUME TreeInv, [Next]_vars PROVE TreeInv'
    OBVIOUS
  <2>1. ASSUME NEW target \in Ids, NEW id \in Ids, NEW direction \in Direction,
               split(target, id, direction)
        PROVE  TreeInv'
    BY <2>1, TreeSplit
  <2>2. ASSUME NEW id \in Ids, add_pane(id) PROVE TreeInv'
    BY <2>2, TreeAdd
  <2>3. ASSUME NEW id \in Ids, remove_pane(id) PROVE TreeInv'
    BY <2>3, TreeRemove
  <2>4. ASSUME NEW id \in Ids, NEW direction \in FocusDirection, swap_with_neighbor(id, direction)
        PROVE  TreeInv'
    BY <2>4, TreeSwap
  <2>5. ASSUME NEW id \in Ids, NEW axis \in Direction, NEW amount \in Amounts,
               resize_pane(id, axis, amount)
        PROVE  TreeInv'
    BY <2>5, TreeResize
  <2>6. ASSUME NEW template \in Templates, apply_swap_layout(template) PROVE TreeInv'
    BY <2>6, TreeApply
  <2>7. ASSUME NEW sz \in Sizes, resize(sz) PROVE TreeInv'
    BY <2>7 DEF resize, TreeInv
  <2>8. CASE UNCHANGED vars
    BY <2>8 DEF vars, TreeInv
  <2> QED BY <2>1, <2>2, <2>3, <2>4, <2>5, <2>6, <2>7, <2>8 DEF Next
<1> QED BY <1>1, <1>2, PTL DEF Spec

(* In every reachable tree a split inserts right after its target, a        *)
(* removal closes the gap and a swap exchanges two entries of the list of   *)
(* leaves (layout.rs:204, 239, 299).                                        *)
THEOREM LayoutActsOnLeafOrder == Spec => []OperationsActOnLeafOrder
<1>1. TreeInv => OperationsActOnLeafOrder
  <2> SUFFICES ASSUME TreeInv PROVE OperationsActOnLeafOrder
    OBVIOUS
  <2>1. IsTree(root) /\ Sentinel \notin Leaves(root)
    BY LayoutAssumption DEF TreeInv
  <2>2. ASSUME NEW target \in Leaves(root), NEW id \in Ids \ Leaves(root), NEW direction \in Direction
        PROVE  pane_ids(SplitLeaf(root, target, id, direction)) = InsertAfter(pane_ids(root), target, id)
    BY <2>1, SplitLeafIs
  <2>3. ASSUME ~IsLeaf(root), NEW id \in Leaves(root)
        PROVE  pane_ids(RemovePane(root, id)) = Without(pane_ids(root), id)
    BY <2>1, <2>3, RemovePaneIs
  <2>4. ASSUME NEW a \in Leaves(root), NEW b \in Leaves(root), a # b
        PROVE  pane_ids(swap_leaves(root, a, b)) = Swapped(pane_ids(root), a, b)
    BY <2>1, <2>4, SwapIs
  <2> QED BY <2>2, <2>3, <2>4 DEF OperationsActOnLeafOrder
<1> QED BY <1>1, LayoutStaysTree, PTL

(* A swap layout with no more leaves than there are panes arranges exactly  *)
(* the tab's panes, whatever ids its leaves have (layout.rs:384).           *)
THEOREM LayoutTemplateArranges == Spec => []TemplateArrangesPanes
<1>1. TreeInv => TemplateArrangesPanes
  <2> SUFFICES ASSUME TreeInv, NEW template \in Templates,
                      Len(pane_ids(root)) >= Len(pane_ids(template))
               PROVE  LET arranged == apply_template(template, pane_ids(root)) IN
                      /\ IsTree(arranged)
                      /\ Leaves(arranged) = Leaves(root)
                      /\ Leaves(template) \cap Leaves(root) = {} => pane_ids(arranged) = pane_ids(root)
    BY DEF TemplateArrangesPanes
  <2>1. /\ IsTree(template) /\ IsTree(root)
    BY LayoutAssumption DEF TreeInv
  <2>2. Len(pane_ids(template)) \in Nat /\ Len(pane_ids(root)) \in Nat
    BY <2>1, SomeLeaf
  <2>3. Len(pane_ids(template)) <= Len(pane_ids(root))
    BY <2>2
  <2> QED BY <2>3, TemplateArranges
<1> QED BY <1>1, LayoutStaysTree, PTL

-----------------------------------------------------------------------------
(* Areas *)

Box == [col : Nat, row : Nat, cols : Nat, rows : Nat]
SplitData == [direction : Direction, ratio : Int]

(* The first child gets some of the cells, never more than there are. *)
LEMMA FirstCellsIs ==
  ASSUME NEW n \in Nat, NEW ratio \in Int
  PROVE  FirstCells(n, ratio) \in 0..n
<1> DEFINE rounded == (2 * n * ratio + RatioUnit) \div (2 * RatioUnit)
           m == 2 * n * ratio + RatioUnit
<1>1. m \in Int
  BY DEF RatioUnit
<1>2. rounded \in Int
  <2> HIDE DEF m
  <2>1. m \div 200 \in Int
    BY <1>1
  <2> QED BY <2>1 DEF m, RatioUnit
<1>3. FirstCells(n, ratio) = LET atLeast == IF rounded < 1 THEN 1 ELSE rounded
                                 most == IF n = 0 THEN 0 ELSE n - 1
                             IN  IF atLeast > most THEN most ELSE atLeast
  BY DEF FirstCells
<1> HIDE DEF rounded
<1> QED BY <1>2, <1>3

(* The area of a child, in numbers. *)
LEMMA ChildAreaIs ==
  ASSUME NEW a \in Box, NEW s \in SplitData, NEW side \in {1, 2}
  PROVE  LET h == FirstCells(a.rows, s.ratio)
             w == FirstCells(a.cols, s.ratio)
             c == ChildArea(a, s, side)
         IN  /\ h \in 0..a.rows /\ w \in 0..a.cols /\ c \in Box
             /\ s.direction = "Horizontal" =>
                  /\ c.col = a.col /\ c.cols = a.cols
                  /\ side = 1 => c.row = a.row /\ c.rows = h
                  /\ side = 2 => c.row = a.row + h /\ c.rows = a.rows - h
             /\ s.direction = "Vertical" =>
                  /\ c.row = a.row /\ c.rows = a.rows
                  /\ side = 1 => c.col = a.col /\ c.cols = w
                  /\ side = 2 => c.col = a.col + w /\ c.cols = a.cols - w
<1> DEFINE h == FirstCells(a.rows, s.ratio)
           w == FirstCells(a.cols, s.ratio)
           c == ChildArea(a, s, side)
<1>1. /\ a.col \in Nat /\ a.row \in Nat /\ a.cols \in Nat /\ a.rows \in Nat /\ s.ratio \in Int
      /\ a = [col |-> a.col, row |-> a.row, cols |-> a.cols, rows |-> a.rows]
      /\ (s.direction = "Horizontal" \/ s.direction = "Vertical")
  BY DEF Box, SplitData, Direction
<1>2. h \in 0..a.rows /\ w \in 0..a.cols
  BY <1>1, FirstCellsIs
<1>3. c = CASE s.direction = "Horizontal" /\ side = 1 -> [a EXCEPT !.rows = h]
        [] s.direction = "Horizontal" /\ side = 2 -> [a EXCEPT !.row = @ + h, !.rows = @ - h]
        [] s.direction = "Vertical" /\ side = 1 -> [a EXCEPT !.cols = w]
        [] s.direction = "Vertical" /\ side = 2 -> [a EXCEPT !.col = @ + w, !.cols = @ - w]
  BY DEF ChildArea
<1> HIDE DEF h, w, c
<1>4. CASE s.direction = "Horizontal" /\ side = 1
  <2>1. c = [a EXCEPT !.rows = h]
    BY <1>3, <1>4
  <2>2. c = [col |-> a.col, row |-> a.row, cols |-> a.cols, rows |-> h]
    BY <1>1, <2>1
  <2> QED BY <1>1, <1>2, <1>4, <2>2 DEF Box, h, w, c
<1>5. CASE s.direction = "Horizontal" /\ side = 2
  <2>1. c = [a EXCEPT !.row = @ + h, !.rows = @ - h]
    BY <1>3, <1>5
  <2>2. c = [col |-> a.col, row |-> a.row + h, cols |-> a.cols, rows |-> a.rows - h]
    BY <1>1, <2>1
  <2> QED BY <1>1, <1>2, <1>5, <2>2 DEF Box, h, w, c
<1>6. CASE s.direction = "Vertical" /\ side = 1
  <2>1. c = [a EXCEPT !.cols = w]
    BY <1>3, <1>6
  <2>2. c = [col |-> a.col, row |-> a.row, cols |-> w, rows |-> a.rows]
    BY <1>1, <2>1
  <2> QED BY <1>1, <1>2, <1>6, <2>2 DEF Box, h, w, c
<1>7. CASE s.direction = "Vertical" /\ side = 2
  <2>1. c = [a EXCEPT !.col = @ + w, !.cols = @ - w]
    BY <1>3, <1>7
  <2>2. c = [col |-> a.col + w, row |-> a.row, cols |-> a.cols - w, rows |-> a.rows]
    BY <1>1, <2>1
  <2> QED BY <1>1, <1>2, <1>7, <2>2 DEF Box, h, w, c
<1> QED BY <1>1, <1>4, <1>5, <1>6, <1>7

(* b has no cell outside a. *)
Within(b, a) ==
  /\ a.col <= b.col /\ b.col + b.cols <= a.col + a.cols
  /\ a.row <= b.row /\ b.row + b.rows <= a.row + a.rows

(* Inside what is inside. *)
LEMMA WithinTransitive ==
  ASSUME NEW a \in Box, NEW b \in Box, NEW c \in Box, Within(c, b), Within(b, a)
  PROVE  Within(c, a)
BY DEF Within, Box

(* The children's areas divide that of their parent. *)
LEMMA ChildrenDivide ==
  ASSUME NEW a \in Box, NEW s \in SplitData
  PROVE  LET b == ChildArea(a, s, 1)
             c == ChildArea(a, s, 2)
         IN  /\ b \in Box /\ Within(b, a)
             /\ c \in Box /\ Within(c, a)
             /\ b.col + b.cols <= c.col \/ b.row + b.rows <= c.row
             /\ \A col, row \in Int : Covers(a, col, row) => Covers(b, col, row) \/ Covers(c, col, row)
<1> DEFINE b == ChildArea(a, s, 1)
           c == ChildArea(a, s, 2)
           h == FirstCells(a.rows, s.ratio)
           w == FirstCells(a.cols, s.ratio)
<1>1. /\ a.col \in Nat /\ a.row \in Nat /\ a.cols \in Nat /\ a.rows \in Nat
      /\ (s.direction = "Horizontal" \/ s.direction = "Vertical")
  BY DEF Box, SplitData, Direction
<1>2. /\ h \in 0..a.rows /\ w \in 0..a.cols /\ b \in Box
      /\ s.direction = "Horizontal" => b.col = a.col /\ b.cols = a.cols /\ b.row = a.row /\ b.rows = h
      /\ s.direction = "Vertical" => b.row = a.row /\ b.rows = a.rows /\ b.col = a.col /\ b.cols = w
  <2>1. 1 \in {1, 2}
    OBVIOUS
  <2> HIDE DEF h, w, b
  <2> QED BY <2>1, ChildAreaIs DEF h, w, b
<1>3. /\ c \in Box
      /\ s.direction = "Horizontal" => c.col = a.col /\ c.cols = a.cols /\ c.row = a.row + h /\ c.rows = a.rows - h
      /\ s.direction = "Vertical" => c.row = a.row /\ c.rows = a.rows /\ c.col = a.col + w /\ c.cols = a.cols - w
  <2>1. 2 \in {1, 2}
    OBVIOUS
  <2> HIDE DEF h, w, c
  <2> QED BY <2>1, ChildAreaIs DEF h, w, c
<1> HIDE DEF b, c, h, w
<1>4. Within(b, a) /\ Within(c, a)
  BY <1>1, <1>2, <1>3 DEF Within
<1>5. b.col + b.cols <= c.col \/ b.row + b.rows <= c.row
  BY <1>1, <1>2, <1>3
<1>6. ASSUME NEW col \in Int, NEW row \in Int, Covers(a, col, row)
      PROVE  Covers(b, col, row) \/ Covers(c, col, row)
  <2>1. a.col <= col /\ col <= a.col + a.cols - 1 /\ a.row <= row /\ row <= a.row + a.rows - 1
    BY <1>1, <1>6 DEF Covers
  <2>2. CASE s.direction = "Horizontal"
    BY <1>1, <1>2, <1>3, <2>1, <2>2 DEF Covers
  <2>3. CASE s.direction = "Vertical"
    BY <1>1, <1>2, <1>3, <2>1, <2>3 DEF Covers
  <2> QED BY <1>1, <2>2, <2>3
<1> QED BY <1>2, <1>3, <1>4, <1>5, <1>6 DEF b, c

(* f holds the areas on the way to a node. *)
Divides(f, t, p, sz) ==
  /\ f[0] = [col |-> 0, row |-> 0, cols |-> sz[1], rows |-> sz[2]]
  /\ \A i \in 1..Len(p) : f[i] = ChildArea(f[i - 1], t.split[SubSeq(p, 1, i - 1)], p[i])

(* There are such areas. *)
LEMMA AreaSteps ==
  ASSUME NEW t, NEW p, Len(p) \in Nat, NEW sz
  PROVE  \E f : AreaOf(t, p, sz) = f[Len(p)] /\ Divides(f, t, p, sz)
<1> DEFINE n == Len(p)
           a == [col |-> 0, row |-> 0, cols |-> sz[1], rows |-> sz[2]]
<1>0. n \in Nat
  OBVIOUS
<1>01. AreaOf(t, p, sz) =
         LET area[i \in 0..n] ==
               IF i = 0 THEN a ELSE ChildArea(area[i - 1], t.split[SubSeq(p, 1, i - 1)], p[i])
         IN  area[n]
  BY DEF AreaOf
<1>02. ASSUME NEW f, f[0] = a,
              \A i \in 1..n : f[i] = ChildArea(f[i - 1], t.split[SubSeq(p, 1, i - 1)], p[i])
       PROVE  Divides(f, t, p, sz)
  BY <1>02 DEF Divides
<1>03. \A f : AreaOf(t, p, sz) = f[n] => AreaOf(t, p, sz) = f[Len(p)]
  OBVIOUS
<1> HIDE DEF n, a
<1> DEFINE Body(f, j) == [i \in 0..j |-> IF i = 0 THEN a
                              ELSE ChildArea(f[i - 1], t.split[SubSeq(p, 1, i - 1)], p[i])]
           S == {j \in 0..n : \E f : f = Body(f, j)}
           F == CHOOSE f : f = Body(f, n)
<1>1. 0 \in S
  <2> DEFINE z == [i \in 0..0 |-> a]
  <2>1. z = Body(z, 0)
    <3>1. \A i \in 0..0 : i = 0
      OBVIOUS
    <3>2. DOMAIN Body(z, 0) = 0..0 /\ \A i \in 0..0 : z[i] = Body(z, 0)[i]
      BY <3>1
    <3> QED BY <3>2
  <2>2. 0 \in 0..n
    BY <1>0
  <2> HIDE DEF Body
  <2> QED BY <2>1, <2>2
<1>2. ASSUME NEW j \in 0 + 1..n, j - 1 \in S PROVE j \in S
  <2>1. PICK f : f = Body(f, j - 1)
    BY <1>2
  <2> DEFINE x == ChildArea(f[j - 1], t.split[SubSeq(p, 1, j - 1)], p[j])
             e == [i \in 0..j |-> IF i < j THEN f[i] ELSE x]
  <2>2. e = Body(e, j)
    <3>1. ASSUME NEW i \in 0..j
          PROVE  e[i] = IF i = 0 THEN a ELSE ChildArea(e[i - 1], t.split[SubSeq(p, 1, i - 1)], p[i])
      <4>1. CASE i = 0
        <5>1. 0 \in 0..j - 1 /\ 0 \in 0..j /\ 0 < j
          OBVIOUS
        <5>2. e[0] = f[0]
          <6> HIDE DEF x
          <6> QED BY <5>1
        <5>3. f[0] = Body(f, j - 1)[0]
          BY <2>1
        <5> QED BY <4>1, <5>1, <5>2, <5>3
      <4>2. CASE i # 0 /\ i < j
        <5>1. i \in 0..j - 1 /\ i - 1 \in 0..j /\ i - 1 < j
          BY <4>2
        <5>2. e[i] = f[i] /\ e[i - 1] = f[i - 1]
          <6> HIDE DEF x
          <6> QED BY <4>2, <5>1
        <5>3. f[i] = Body(f, j - 1)[i]
          BY <2>1
        <5>4. f[i] = ChildArea(f[i - 1], t.split[SubSeq(p, 1, i - 1)], p[i])
          BY <4>2, <5>1, <5>3
        <5> HIDE DEF e
        <5> QED BY <4>2, <5>2, <5>4
      <4>3. CASE i = j
        <5>1. j - 1 \in 0..j /\ j - 1 < j /\ j # 0 /\ j \in 0..j
          OBVIOUS
        <5>2. e[j] = x /\ e[j - 1] = f[j - 1]
          <6> HIDE DEF x
          <6> QED BY <5>1
        <5> HIDE DEF e
        <5> QED BY <4>3, <5>1, <5>2
      <4> QED BY <4>1, <4>2, <4>3
    <3>2. DOMAIN e = 0..j /\ e = [i \in 0..j |-> e[i]]
      OBVIOUS
    <3> HIDE DEF e
    <3> QED BY <3>1, <3>2
  <2>3. j \in 0..n
    OBVIOUS
  <2> HIDE DEF Body
  <2> QED BY <2>2, <2>3
<1>3. n \in S
  <2> HIDE DEF S
  <2>1. 0..n \subseteq S
    BY <1>0, <1>1, <1>2, Climb
  <2> QED BY <1>0, <2>1
<1>4. F = Body(F, n)
  <2>1. \E f : f = Body(f, n)
    BY <1>3
  <2> HIDE DEF Body
  <2> QED BY <2>1
<1>5. AreaOf(t, p, sz) = F[n]
  BY <1>01
<1> HIDE DEF F
<1>6. F[0] = a
  <2>1. 0 \in 0..n
    BY <1>0
  <2>2. F[0] = Body(F, n)[0]
    BY <1>4
  <2> QED BY <2>1, <2>2
<1>7. \A i \in 1..n : F[i] = ChildArea(F[i - 1], t.split[SubSeq(p, 1, i - 1)], p[i])
  <2>1. ASSUME NEW i \in 1..n PROVE F[i] = ChildArea(F[i - 1], t.split[SubSeq(p, 1, i - 1)], p[i])
    <3>1. i \in 0..n /\ i # 0
      OBVIOUS
    <3>2. F[i] = Body(F, n)[i]
      BY <1>4
    <3> QED BY <3>1, <3>2
  <2> QED BY <2>1
<1>8. Divides(F, t, p, sz)
  BY <1>02, <1>6, <1>7
<1> QED BY <1>03, <1>5, <1>8

(* The area of a node is one of those on the way to any node below. *)
LEMMA AreaOnTheWay ==
  ASSUME NEW t, NEW p \in Path, NEW sz, NEW f, Divides(f, t, p, sz), NEW k \in 0..Len(p)
  PROVE  AreaOf(t, SubSeq(p, 1, k), sz) = f[k]
<1> DEFINE q == SubSeq(p, 1, k)
<1>1. /\ k \in Nat /\ Len(p) \in Nat /\ q \in Path /\ Len(q) = k
      /\ \A i \in 1..k : q[i] = p[i]
  BY CutIs, PathAt
<1>2. \A i \in 1..k : SubSeq(q, 1, i - 1) = SubSeq(p, 1, i - 1)
  <2>1. \A i \in 1..k : i - 1 \in 0..k
    BY <1>1
  <2> QED BY <2>1, CutCut
<1> HIDE DEF q
<1>3. PICK g : AreaOf(t, q, sz) = g[Len(q)] /\ Divides(g, t, q, sz)
  BY <1>1, AreaSteps
<1> DEFINE S == {i \in 0..k : g[i] = f[i]}
<1>4. 0 \in S
  BY <1>1, <1>3 DEF Divides
<1>5. ASSUME NEW i \in 0 + 1..k, i - 1 \in S PROVE i \in S
  <2>1. i \in 1..Len(q) /\ i \in 1..Len(p) /\ i \in 1..k /\ i \in 0..k
    BY <1>1
  <2>2. g[i] = ChildArea(g[i - 1], t.split[SubSeq(q, 1, i - 1)], q[i])
    BY <1>3, <2>1 DEF Divides
  <2>3. f[i] = ChildArea(f[i - 1], t.split[SubSeq(p, 1, i - 1)], p[i])
    BY <2>1 DEF Divides
  <2>4. g[i - 1] = f[i - 1]
    BY <1>5
  <2>5. q[i] = p[i] /\ SubSeq(q, 1, i - 1) = SubSeq(p, 1, i - 1)
    BY <1>1, <1>2, <2>1
  <2>6. g[i] = f[i]
    BY <2>2, <2>3, <2>4, <2>5
  <2> QED BY <2>1, <2>6
<1>6. k \in S
  <2> HIDE DEF S
  <2>1. 0..k \subseteq S
    BY <1>1, <1>4, <1>5, Climb
  <2> QED BY <1>1, <2>1
<1> QED BY <1>1, <1>3, <1>6 DEF q

(* The whole terminal is the root's. *)
LEMMA AreaOfRoot ==
  ASSUME NEW t, NEW sz
  PROVE  AreaOf(t, <<>>, sz) = [col |-> 0, row |-> 0, cols |-> sz[1], rows |-> sz[2]]
<1>1. Len(<<>>) = 0
  BY RootIs
<1>2. PICK f : AreaOf(t, <<>>, sz) = f[Len(<<>>)] /\ Divides(f, t, <<>>, sz)
  BY <1>1, AreaSteps
<1> QED BY <1>1, <1>2 DEF Divides

(* A child's area is a part of its parent's. *)
LEMMA AreaOfCut ==
  ASSUME NEW t, NEW p \in Path, NEW sz, NEW k \in 1..Len(p)
  PROVE  AreaOf(t, SubSeq(p, 1, k), sz) =
           ChildArea(AreaOf(t, SubSeq(p, 1, k - 1), sz), t.split[SubSeq(p, 1, k - 1)], p[k])
<1>1. Len(p) \in Nat
  BY PathAt
<1>2. PICK f : Divides(f, t, p, sz)
  BY <1>1, AreaSteps
<1>3. k \in 0..Len(p) /\ k - 1 \in 0..Len(p)
  BY <1>1
<1>4. AreaOf(t, SubSeq(p, 1, k), sz) = f[k]
  BY <1>2, <1>3, AreaOnTheWay
<1>5. AreaOf(t, SubSeq(p, 1, k - 1), sz) = f[k - 1]
  <2> DEFINE j == k - 1
  <2>1. j \in 0..Len(p)
    BY <1>3
  <2> HIDE DEF j
  <2>2. AreaOf(t, SubSeq(p, 1, j), sz) = f[j]
    BY <1>2, <2>1, AreaOnTheWay
  <2> QED BY <2>2 DEF j
<1>6. f[k] = ChildArea(f[k - 1], t.split[SubSeq(p, 1, k - 1)], p[k])
  BY <1>2 DEF Divides
<1> QED BY <1>4, <1>5, <1>6

(* The same for a child by its name. *)
LEMMA AreaOfChild ==
  ASSUME NEW t, NEW p \in Path, NEW sz, NEW side \in {1, 2}
  PROVE  AreaOf(t, Child(p, side), sz) = ChildArea(AreaOf(t, p, sz), t.split[p], side)
<1> DEFINE q == Child(p, side)
           n == Len(p)
<1>1. /\ n \in Nat /\ q \in Path /\ Len(q) = n + 1 /\ q[n + 1] = side
      /\ Front(q) = p
  BY ChildIs, FrontOfChild, PathAt
<1>2. SubSeq(q, 1, n + 1) = q
  BY <1>1, CutAll
<1>3. SubSeq(q, 1, (n + 1) - 1) = p
  BY <1>1, FrontIs
<1>4. n + 1 \in 1..Len(q)
  BY <1>1
<1> HIDE DEF q, n
<1>5. AreaOf(t, SubSeq(q, 1, n + 1), sz) =
        ChildArea(AreaOf(t, SubSeq(q, 1, (n + 1) - 1), sz), t.split[SubSeq(q, 1, (n + 1) - 1)], q[n + 1])
  <2> DEFINE k == n + 1
  <2>1. k \in 1..Len(q)
    BY <1>4
  <2> HIDE DEF k
  <2>2. AreaOf(t, SubSeq(q, 1, k), sz) =
        ChildArea(AreaOf(t, SubSeq(q, 1, k - 1), sz), t.split[SubSeq(q, 1, k - 1)], q[k])
    <3>1. q \in Path
      BY <1>1
    <3> QED BY ONLY <2>1, <3>1, AreaOfCut
  <2> QED BY <2>2 DEF k
<1> QED BY <1>1, <1>2, <1>3, <1>5 DEF q

-----------------------------------------------------------------------------
(* Tiling *)

(* Every node has an area, inside that of each node above it. *)
LEMMA AreasNest ==
  ASSUME NEW t, IsTree(t), NEW p \in Nodes(t), NEW sz, sz[1] \in Nat, sz[2] \in Nat,
         NEW j \in 0..Len(p)
  PROVE  /\ AreaOf(t, p, sz) \in Box
         /\ AreaOf(t, SubSeq(p, 1, j), sz) \in Box
         /\ Within(AreaOf(t, p, sz), AreaOf(t, SubSeq(p, 1, j), sz))
<1> DEFINE n == Len(p)
<1>1. p \in Path /\ n \in Nat /\ j \in Nat /\ j \in 0..n
  BY TreeNodes, PathAt
<1>2. PICK f : AreaOf(t, p, sz) = f[n] /\ Divides(f, t, p, sz)
  BY <1>1, AreaSteps
<1>3. AreaOf(t, SubSeq(p, 1, j), sz) = f[j]
  BY <1>1, <1>2, AreaOnTheWay
<1>4. ASSUME NEW i \in 1..n, f[i - 1] \in Box PROVE f[i] \in Box /\ Within(f[i], f[i - 1])
  <2> DEFINE s == t.split[SubSeq(p, 1, i - 1)]
             side == p[i]
             a == f[i - 1]
  <2>1. side \in {1, 2}
    BY <1>1, PathAt
  <2>2. SubSeq(p, 1, i - 1) \in DOMAIN t.split
    <3> DEFINE k == i - 1
    <3>1. k \in Nat /\ k < Len(p)
      BY <1>1
    <3> HIDE DEF k
    <3>2. SubSeq(p, 1, k) \in DOMAIN t.split
      BY <3>1, AncestorsSplit
    <3> QED BY <3>2 DEF k
  <2>3. s \in SplitData
    BY <2>2, TreeHolds DEF SplitData
  <2>4. f[i] = ChildArea(a, s, side)
    BY <1>2 DEF Divides
  <2>5. a \in Box
    BY <1>4
  <2> HIDE DEF s, side, a
  <2>6. /\ ChildArea(a, s, 1) \in Box /\ Within(ChildArea(a, s, 1), a)
        /\ ChildArea(a, s, 2) \in Box /\ Within(ChildArea(a, s, 2), a)
    BY <2>3, <2>5, ChildrenDivide
  <2>7. f[i] \in Box /\ Within(f[i], a)
    BY <2>1, <2>4, <2>6
  <2> QED BY <2>7 DEF a
<1>5. f[0] \in Box
  BY <1>2 DEF Divides, Box
<1> HIDE DEF n
<1>6. \A i \in 0..n : f[i] \in Box
  <2> DEFINE S == {i \in 0..n : f[i] \in Box}
  <2>1. 0 \in S
    BY <1>1, <1>5
  <2>2. \A i \in 0 + 1..n : i - 1 \in S => i \in S
    BY <1>1, <1>4
  <2> HIDE DEF S
  <2>3. 0..n \subseteq S
    BY <1>1, <2>1, <2>2, Climb
  <2> QED BY <2>3 DEF S
<1>7. Within(f[n], f[j])
  <2> DEFINE S == {i \in j..n : Within(f[i], f[j])}
  <2>1. f[j] \in Box
    BY <1>1, <1>6
  <2>2. j \in S
    <3>1. Within(f[j], f[j])
      BY <2>1 DEF Within, Box
    <3> QED BY <1>1, <3>1
  <2>3. ASSUME NEW i \in j + 1..n, i - 1 \in S PROVE i \in S
    <3>1. i \in 1..n /\ i \in 0..n /\ i - 1 \in 0..n /\ i \in j..n
      BY <1>1
    <3> DEFINE a == f[i - 1]
               b == f[i]
               c == f[j]
    <3>2. a \in Box /\ b \in Box /\ c \in Box /\ Within(a, c)
      BY <1>6, <2>1, <2>3, <3>1
    <3>3. Within(b, a)
      BY <1>4, <3>1, <3>2
    <3> HIDE DEF a, b, c
    <3>4. Within(b, c)
      BY <3>2, <3>3, WithinTransitive
    <3> QED BY <3>1, <3>4 DEF b, c
  <2> HIDE DEF S
  <2>4. j..n \subseteq S
    BY <1>1, <2>2, <2>3, Climb
  <2>5. n \in S
    BY <1>1, <2>4
  <2> QED BY <2>5 DEF S
<1>8. f[n] \in Box /\ f[j] \in Box
  BY <1>1, <1>6
<1> QED BY <1>2, <1>3, <1>7, <1>8

(* What lies inside two areas that lie beside each other does so too.       *)
LEMMA BoxesBeyond ==
  ASSUME NEW b \in Box, NEW c \in Box, NEW d \in Box, NEW e \in Box, Within(d, b), Within(e, c),
         b.col + b.cols <= c.col \/ b.row + b.rows <= c.row
  PROVE  d.col + d.cols <= e.col \/ d.row + d.rows <= e.row
<1>1. /\ d.col \in Nat /\ d.row \in Nat /\ d.cols \in Nat /\ d.rows \in Nat
      /\ e.col \in Nat /\ e.row \in Nat /\ e.cols \in Nat /\ e.rows \in Nat
      /\ b.col \in Nat /\ b.row \in Nat /\ b.cols \in Nat /\ b.rows \in Nat
      /\ c.col \in Nat /\ c.row \in Nat
  BY DEF Box
<1>2. d.col + d.cols <= b.col + b.cols /\ d.row + d.rows <= b.row + b.rows
  BY DEF Within
<1>3. c.col <= e.col /\ c.row <= e.row
  BY DEF Within
<1>4. CASE b.col + b.cols <= c.col
  <2>1. d.col + d.cols <= e.col
    BY <1>1, <1>2, <1>3, <1>4
  <2> QED BY <2>1
<1>5. CASE b.row + b.rows <= c.row
  <2>1. d.row + d.rows <= e.row
    BY <1>1, <1>2, <1>3, <1>5
  <2> QED BY <2>1
<1> QED BY <1>4, <1>5

(* Areas that lie beside each other do not overlap. *)
LEMMA BoxesBeside ==
  ASSUME NEW d \in Box, NEW e \in Box,
         \/ d.col + d.cols <= e.col \/ d.row + d.rows <= e.row
         \/ e.col + e.cols <= d.col \/ e.row + e.rows <= d.row
  PROVE  ~(ColsOverlap(d, e) /\ RowsOverlap(d, e))
<1>1. /\ d.col \in Nat /\ d.row \in Nat /\ d.cols \in Nat /\ d.rows \in Nat
      /\ e.col \in Nat /\ e.row \in Nat /\ e.cols \in Nat /\ e.rows \in Nat
  BY DEF Box
<1>2. /\ ColsOverlap(d, e) => d.col < e.col + e.cols /\ e.col < d.col + d.cols
      /\ RowsOverlap(d, e) => d.row < e.row + e.rows /\ e.row < d.row + d.rows
  BY DEF ColsOverlap, RowsOverlap, ranges_overlap
<1> QED BY <1>1, <1>2

(* A leaf to the left ends before the other begins, or above it. *)
LEMMA PartedAreas ==
  ASSUME NEW t, IsTree(t), NEW p \in DOMAIN t.leaf, NEW q \in DOMAIN t.leaf,
         NEW sz, sz[1] \in Nat, sz[2] \in Nat, NEW i \in 1..Len(p), PartsAt(p, q, i)
  PROVE  \/ AreaOf(t, p, sz).col + AreaOf(t, p, sz).cols <= AreaOf(t, q, sz).col
         \/ AreaOf(t, p, sz).row + AreaOf(t, p, sz).rows <= AreaOf(t, q, sz).row
<1> DEFINE j == i - 1
           r == SubSeq(p, 1, j)
           s == t.split[r]
           a == AreaOf(t, r, sz)
           b == AreaOf(t, SubSeq(p, 1, i), sz)
           c == AreaOf(t, SubSeq(q, 1, i), sz)
           d == AreaOf(t, p, sz)
           e == AreaOf(t, q, sz)
<1>1. /\ p \in Path /\ q \in Path /\ p \in Nodes(t) /\ q \in Nodes(t)
      /\ Len(p) \in Nat /\ Len(q) \in Nat
  BY TreeNodes, PathAt
<1>2. /\ i <= Len(q) /\ p[i] = 1 /\ q[i] = 2 /\ \A k \in 1..j : p[k] = q[k]
  BY DEF PartsAt
<1>3. /\ i \in 0..Len(p) /\ i \in 0..Len(q) /\ i \in 1..Len(q)
      /\ j \in Nat /\ j < Len(p) /\ j <= Len(p) /\ j <= Len(q) /\ j \in 0..Len(p)
  BY <1>1, <1>2
<1>4. SubSeq(q, 1, j) = r
  <2> HIDE DEF j
  <2> QED BY <1>1, <1>2, <1>3, CutsAgree
<1>5. r \in DOMAIN t.split
  <2> HIDE DEF j
  <2> QED BY <1>1, <1>3, AncestorsSplit
<1>6. s \in SplitData
  BY <1>5, TreeHolds DEF SplitData
<1>7. a \in Box
  <2> HIDE DEF j
  <2> QED BY <1>1, <1>3, AreasNest
<1>8. b = ChildArea(a, s, 1)
  <2>1. b = ChildArea(AreaOf(t, SubSeq(p, 1, i - 1), sz), t.split[SubSeq(p, 1, i - 1)], p[i])
    BY <1>1, AreaOfCut
  <2> QED BY <1>2, <2>1
<1>9. c = ChildArea(a, s, 2)
  <2>1. c = ChildArea(AreaOf(t, SubSeq(q, 1, i - 1), sz), t.split[SubSeq(q, 1, i - 1)], q[i])
    BY <1>1, <1>3, AreaOfCut
  <2> QED BY <1>2, <1>4, <2>1
<1>10. d \in Box /\ b \in Box /\ Within(d, b)
  BY <1>1, <1>3, AreasNest
<1>11. e \in Box /\ c \in Box /\ Within(e, c)
  BY <1>1, <1>3, AreasNest
<1> HIDE DEF a, b, c, d, e, s
<1>12. b.col + b.cols <= c.col \/ b.row + b.rows <= c.row
  BY <1>6, <1>7, <1>8, <1>9, ChildrenDivide
<1>13. d.col + d.cols <= e.col \/ d.row + d.rows <= e.row
  BY <1>10, <1>11, <1>12, BoxesBeyond
<1> QED BY <1>13 DEF d, e

(* Panes do not overlap. *)
LEMMA PanesApart ==
  ASSUME NEW t, IsTree(t), NEW p \in DOMAIN t.leaf, NEW q \in DOMAIN t.leaf, p # q,
         NEW sz, sz[1] \in Nat, sz[2] \in Nat
  PROVE  ~(/\ ColsOverlap(AreaOf(t, p, sz), AreaOf(t, q, sz))
           /\ RowsOverlap(AreaOf(t, p, sz), AreaOf(t, q, sz)))
<1> DEFINE d == AreaOf(t, p, sz)
           e == AreaOf(t, q, sz)
<1>1. /\ p \in Path /\ q \in Path /\ p \in Nodes(t) /\ q \in Nodes(t)
      /\ Len(p) \in Nat /\ Len(q) \in Nat
  BY TreeNodes, PathAt
<1>2. ~IsPrefix(p, q) /\ ~IsPrefix(q, p)
  BY <1>1, LeavesApart
<1>3. d \in Box /\ e \in Box
  <2>1. 0 \in 0..Len(p) /\ 0 \in 0..Len(q)
    BY <1>1
  <2> QED BY <1>1, <2>1, AreasNest
<1>4. PICK i \in 1..Len(p) : i <= Len(q) /\ (PartsAt(p, q, i) \/ PartsAt(q, p, i))
  BY <1>1, <1>2, FirstDifference
<1>5. i \in 1..Len(q)
  BY <1>1, <1>4
<1>6. \/ d.col + d.cols <= e.col \/ d.row + d.rows <= e.row
      \/ e.col + e.cols <= d.col \/ e.row + e.rows <= d.row
  <2>1. CASE PartsAt(p, q, i)
    BY <2>1, PartedAreas
  <2>2. CASE PartsAt(q, p, i)
    BY <1>5, <2>2, PartedAreas
  <2> QED BY <1>4, <2>1, <2>2
<1> HIDE DEF d, e
<1>7. ~(ColsOverlap(d, e) /\ RowsOverlap(d, e))
  BY <1>3, <1>6, BoxesBeside
<1> QED BY <1>7 DEF d, e

(* Every cell of the terminal is in the area of some leaf. *)
LEMMA CellsCovered ==
  ASSUME NEW t, IsTree(t), NEW sz, sz[1] \in Nat, sz[2] \in Nat,
         NEW col \in 0..sz[1] - 1, NEW row \in 0..sz[2] - 1
  PROVE  \E p \in DOMAIN t.leaf : Covers(AreaOf(t, p, sz), col, row)
<1> DEFINE N == {p \in Nodes(t) : Covers(AreaOf(t, p, sz), col, row)}
<1>1. <<>> \in N
  BY TreeNodes, AreaOfRoot DEF Covers
<1>2. ASSUME NEW p \in N, p \in DOMAIN t.split PROVE \E side \in {1, 2} : Child(p, side) \in N
  <2> DEFINE a == AreaOf(t, p, sz)
             s == t.split[p]
  <2>1. /\ p \in Path /\ p \in Nodes(t) /\ Covers(a, col, row)
        /\ Len(p) \in Nat /\ 0 \in 0..Len(p)
    <3>1. p \in Path /\ p \in Nodes(t) /\ Covers(a, col, row)
      BY <1>2, TreeNodes
    <3> QED BY <3>1, PathAt
  <2>2. a \in Box
    BY <2>1, AreasNest
  <2>3. s \in SplitData
    BY <1>2, TreeHolds DEF SplitData
  <2>4. \A side \in {1, 2} : AreaOf(t, Child(p, side), sz) = ChildArea(a, s, side)
    BY <2>1, AreaOfChild
  <2>5. \A side \in {1, 2} : Child(p, side) \in Nodes(t)
    BY <1>2, TreeNodes
  <2> HIDE DEF a, s
  <2>6. Covers(ChildArea(a, s, 1), col, row) \/ Covers(ChildArea(a, s, 2), col, row)
    <3>1. col \in Int /\ row \in Int
      OBVIOUS
    <3> QED BY <2>1, <2>2, <2>3, <3>1, ChildrenDivide
  <2> QED BY <2>4, <2>5, <2>6
<1>3. N \in SUBSET Nodes(t)
  OBVIOUS
<1>4. \E p \in N : p \in DOMAIN t.leaf
  <2> HIDE DEF N
  <2> QED BY <1>1, <1>2, <1>3, Descent
<1> QED BY <1>4

(* Where the panes are, as areas of leaves. *)
LEMMA PlacedAre ==
  ASSUME NEW t, NEW p, NEW sz
  PROVE  /\ Placed(t, sz, p).col = AreaOf(t, p, sz).col
         /\ Placed(t, sz, p).row = AreaOf(t, p, sz).row
         /\ Placed(t, sz, p).cols = AreaOf(t, p, sz).cols
         /\ Placed(t, sz, p).rows = AreaOf(t, p, sz).rows
         /\ Placed(t, sz, p).id = t.leaf[p]
BY DEF Placed, PanePosition

(* The panes tile the terminal: every cell belongs to one, none reaches     *)
(* over the edge, no two overlap (layout.rs:111).                           *)
Tiled(t, sz) ==
  /\ \A col \in 0..sz[1] - 1, row \in 0..sz[2] - 1 :
       \E p \in DOMAIN t.leaf : Covers(AreaOf(t, p, sz), col, row)
  /\ \A p \in DOMAIN t.leaf :
       /\ AreaOf(t, p, sz) \in Box
       /\ AreaOf(t, p, sz).col + AreaOf(t, p, sz).cols <= sz[1]
       /\ AreaOf(t, p, sz).row + AreaOf(t, p, sz).rows <= sz[2]
  /\ \A p, q \in DOMAIN t.leaf :
       p # q => ~(/\ ColsOverlap(AreaOf(t, p, sz), AreaOf(t, q, sz))
                  /\ RowsOverlap(AreaOf(t, p, sz), AreaOf(t, q, sz)))

(* They do so for every tree at every size. *)
LEMMA TreeTiles ==
  ASSUME NEW t, IsTree(t), NEW sz, sz[1] \in Nat, sz[2] \in Nat
  PROVE  Tiled(t, sz)
<1>1. ASSUME NEW p \in DOMAIN t.leaf
      PROVE  /\ AreaOf(t, p, sz) \in Box
             /\ AreaOf(t, p, sz).col + AreaOf(t, p, sz).cols <= sz[1]
             /\ AreaOf(t, p, sz).row + AreaOf(t, p, sz).rows <= sz[2]
  <2>1. p \in Nodes(t) /\ Len(p) \in Nat /\ 0 \in 0..Len(p) /\ p \in Path
    <3>1. p \in Nodes(t) /\ p \in Path
      BY TreeNodes
    <3> QED BY <3>1, PathAt
  <2>2. SubSeq(p, 1, 0) = <<>>
    <3>1. SubSeq(p, 1, 0) \in Path /\ Len(SubSeq(p, 1, 0)) = 0
      BY <2>1, CutIs
    <3> QED BY <3>1, RootIs
  <2>3. /\ AreaOf(t, p, sz) \in Box
        /\ Within(AreaOf(t, p, sz), [col |-> 0, row |-> 0, cols |-> sz[1], rows |-> sz[2]])
    BY <2>1, <2>2, AreasNest, AreaOfRoot
  <2> QED BY <2>3 DEF Within
<1>2. \A p, q \in DOMAIN t.leaf :
       p # q => ~(/\ ColsOverlap(AreaOf(t, p, sz), AreaOf(t, q, sz))
                  /\ RowsOverlap(AreaOf(t, p, sz), AreaOf(t, q, sz)))
  BY PanesApart
<1>3. \A col \in 0..sz[1] - 1, row \in 0..sz[2] - 1 :
       \E p \in DOMAIN t.leaf : Covers(AreaOf(t, p, sz), col, row)
  BY CellsCovered
<1> QED BY <1>1, <1>2, <1>3 DEF Tiled

(* The same for the positions of the panes in their order. *)
LEMMA TreeInvTiles ==
  ASSUME TreeInv
  PROVE  PanesTileTheTerminal
<1> DEFINE ps == Positions
           s == leaf_paths(root)
<1>1. IsTree(root) /\ size[1] \in Nat /\ size[2] \in Nat
  BY SizeIs DEF TreeInv
<1>2. Tiled(root, size)
  BY <1>1, TreeTiles
<1>3. /\ DOMAIN ps = 1..Len(s)
      /\ \A i \in 1..Len(s) : s[i] \in DOMAIN root.leaf /\ ps[i] = Placed(root, size, s[i])
  BY <1>1, PositionsAre DEF Positions
<1>4. /\ \A i, j \in 1..Len(s) : s[i] = s[j] => i = j
      /\ \A p \in DOMAIN root.leaf : \E i \in 1..Len(s) : s[i] = p
  BY <1>1, PaneIdsAre
<1> HIDE DEF ps, s
<1>5. \A i \in DOMAIN ps :
        /\ ps[i].col = AreaOf(root, s[i], size).col /\ ps[i].cols = AreaOf(root, s[i], size).cols
        /\ ps[i].row = AreaOf(root, s[i], size).row /\ ps[i].rows = AreaOf(root, s[i], size).rows
  BY <1>3, PlacedAre
<1>6. ASSUME NEW col \in 0 .. size[1] - 1, NEW row \in 0 .. size[2] - 1
      PROVE  \E i \in DOMAIN ps : Covers(ps[i], col, row)
  <2>1. PICK p \in DOMAIN root.leaf : Covers(AreaOf(root, p, size), col, row)
    BY <1>2 DEF Tiled
  <2>2. PICK i \in DOMAIN ps : s[i] = p
    BY <1>3, <1>4
  <2>3. Covers(ps[i], col, row)
    BY <1>5, <2>1, <2>2 DEF Covers
  <2> QED BY <2>3
<1>7. ASSUME NEW i \in DOMAIN ps
      PROVE  /\ ps[i].cols >= 0 /\ ps[i].col + ps[i].cols <= size[1]
             /\ ps[i].rows >= 0 /\ ps[i].row + ps[i].rows <= size[2]
  <2>1. s[i] \in DOMAIN root.leaf
    BY <1>3
  <2>2. /\ AreaOf(root, s[i], size) \in Box
        /\ AreaOf(root, s[i], size).col + AreaOf(root, s[i], size).cols <= size[1]
        /\ AreaOf(root, s[i], size).row + AreaOf(root, s[i], size).rows <= size[2]
    BY <1>2, <2>1 DEF Tiled
  <2>3. AreaOf(root, s[i], size).cols >= 0 /\ AreaOf(root, s[i], size).rows >= 0
    BY <2>2 DEF Box
  <2> QED BY <1>5, <2>2, <2>3
<1>8. ASSUME NEW i \in DOMAIN ps, NEW j \in DOMAIN ps, i # j
      PROVE  ~(ColsOverlap(ps[i], ps[j]) /\ RowsOverlap(ps[i], ps[j]))
  <2>1. s[i] \in DOMAIN root.leaf /\ s[j] \in DOMAIN root.leaf /\ s[i] # s[j]
    BY <1>3, <1>4, <1>8
  <2>2. ~(/\ ColsOverlap(AreaOf(root, s[i], size), AreaOf(root, s[j], size))
          /\ RowsOverlap(AreaOf(root, s[i], size), AreaOf(root, s[j], size)))
    BY <1>2, <2>1 DEF Tiled
  <2> QED BY <1>5, <2>2 DEF ColsOverlap, RowsOverlap
<1> QED BY <1>6, <1>7, <1>8 DEF PanesTileTheTerminal, ps

(* In every reachable tree, at every size, the panes tile the terminal      *)
(* (layout.rs:111).                                                         *)
THEOREM LayoutPanesTile == Spec => []PanesTileTheTerminal
BY TreeInvTiles, LayoutStaysTree, PTL

-----------------------------------------------------------------------------
(* Moving towards an edge *)

(* A place given in whole cells. *)
Measured(a) == a.col \in Nat /\ a.row \in Nat /\ a.cols \in Nat /\ a.rows \in Nat

(* The cell of a's first row or column just past its edge. *)
PastCol(a, direction) ==
  CASE direction = "Up"    -> a.col
    [] direction = "Down"  -> a.col
    [] direction = "Left"  -> a.col - 1
    [] direction = "Right" -> a.col + a.cols

PastRow(a, direction) ==
  CASE direction = "Up"    -> a.row - 1
    [] direction = "Down"  -> a.row + a.rows
    [] direction = "Left"  -> a.row
    [] direction = "Right" -> a.row

(* Who has that cell and does not overlap with a lies in that direction. *)
LEMMA LiesBeyond ==
  ASSUME NEW a, NEW b, Measured(a), Measured(b), a.cols >= 1, a.rows >= 1,
         NEW direction \in FocusDirection, ~(ColsOverlap(b, a) /\ RowsOverlap(b, a)),
         Covers(b, PastCol(a, direction), PastRow(a, direction))
  PROVE  LiesTowards(b, a, direction)
<1> DEFINE col == PastCol(a, direction)
           row == PastRow(a, direction)
<1>1. /\ a.col \in Nat /\ a.row \in Nat /\ a.cols \in Nat /\ a.rows \in Nat
      /\ b.col \in Nat /\ b.row \in Nat /\ b.cols \in Nat /\ b.rows \in Nat
  BY DEF Measured
<1>2. /\ ColsOverlap(b, a) <=> b.col < a.col + a.cols /\ a.col < b.col + b.cols
      /\ RowsOverlap(b, a) <=> b.row < a.row + a.rows /\ a.row < b.row + b.rows
  BY DEF ColsOverlap, RowsOverlap, ranges_overlap
<1>3. /\ col \in Int /\ row \in Int
      /\ direction = "Up" => col = a.col /\ row = a.row - 1
      /\ direction = "Down" => col = a.col /\ row = a.row + a.rows
      /\ direction = "Left" => col = a.col - 1 /\ row = a.row
      /\ direction = "Right" => col = a.col + a.cols /\ row = a.row
  BY <1>1 DEF PastCol, PastRow, FocusDirection
<1> HIDE DEF col, row
<1>4. b.col <= col /\ col < b.col + b.cols /\ b.row <= row /\ row < b.row + b.rows
  <2>1. col \in b.col .. b.col + b.cols - 1 /\ row \in b.row .. b.row + b.rows - 1
    BY DEF Covers, col, row
  <2> QED BY <1>1, <1>3, <2>1
<1>5. CASE direction = "Up"
  <2>1. ColsOverlap(b, a)
    BY <1>1, <1>2, <1>3, <1>4, <1>5
  <2>2. b.row + b.rows <= a.row
    BY <1>1, <1>2, <1>3, <1>4, <1>5, <2>1
  <2> QED BY <1>5, <2>1, <2>2 DEF LiesTowards
<1>6. CASE direction = "Down"
  <2>1. ColsOverlap(b, a)
    BY <1>1, <1>2, <1>3, <1>4, <1>6
  <2>2. b.row >= a.row + a.rows
    BY <1>1, <1>2, <1>3, <1>4, <1>6, <2>1
  <2> QED BY <1>6, <2>1, <2>2 DEF LiesTowards
<1>7. CASE direction = "Left"
  <2>1. RowsOverlap(b, a)
    BY <1>1, <1>2, <1>3, <1>4, <1>7
  <2>2. b.col + b.cols <= a.col
    BY <1>1, <1>2, <1>3, <1>4, <1>7, <2>1
  <2> QED BY <1>7, <2>1, <2>2 DEF LiesTowards
<1>8. CASE direction = "Right"
  <2>1. RowsOverlap(b, a)
    BY <1>1, <1>2, <1>3, <1>4, <1>8
  <2>2. b.col >= a.col + a.cols
    BY <1>1, <1>2, <1>3, <1>4, <1>8, <2>1
  <2> QED BY <1>8, <2>1, <2>2 DEF LiesTowards
<1> QED BY <1>5, <1>6, <1>7, <1>8 DEF FocusDirection

(* Nothing lies past the edge of the terminal. *)
LEMMA NothingBeyond ==
  ASSUME NEW a, NEW b, Measured(a), Measured(b), b.cols >= 1, b.rows >= 1,
         size[1] \in Nat, size[2] \in Nat,
         b.col + b.cols <= size[1], b.row + b.rows <= size[2],
         NEW direction \in FocusDirection, AtEdge(a, direction)
  PROVE  ~LiesTowards(b, a, direction)
<1>1. /\ a.col \in Nat /\ a.row \in Nat /\ a.cols \in Nat /\ a.rows \in Nat
      /\ b.col \in Nat /\ b.row \in Nat /\ b.cols \in Nat /\ b.rows \in Nat
  BY DEF Measured
<1>2. CASE direction = "Up"
  <2>1. LiesTowards(b, a, direction) => b.row + b.rows <= a.row
    BY <1>2 DEF LiesTowards
  <2>2. a.row = 0
    BY <1>2 DEF AtEdge
  <2> QED BY <1>1, <2>1, <2>2
<1>3. CASE direction = "Down"
  <2>1. LiesTowards(b, a, direction) => b.row >= a.row + a.rows
    BY <1>3 DEF LiesTowards
  <2>2. a.row + a.rows = size[2]
    BY <1>3 DEF AtEdge
  <2> QED BY <1>1, <2>1, <2>2
<1>4. CASE direction = "Left"
  <2>1. LiesTowards(b, a, direction) => b.col + b.cols <= a.col
    BY <1>4 DEF LiesTowards
  <2>2. a.col = 0
    BY <1>4 DEF AtEdge
  <2> QED BY <1>1, <2>1, <2>2
<1>5. CASE direction = "Right"
  <2>1. LiesTowards(b, a, direction) => b.col >= a.col + a.cols
    BY <1>5 DEF LiesTowards
  <2>2. a.col + a.cols = size[1]
    BY <1>5 DEF AtEdge
  <2> QED BY <1>1, <2>1, <2>2
<1> QED BY <1>2, <1>3, <1>4, <1>5 DEF FocusDirection

(* Not at the edge, the cell past it is one of the terminal's and not a's. *)
LEMMA PastIsInside ==
  ASSUME NEW a, Measured(a), a.cols >= 1, a.rows >= 1, size[1] \in Nat, size[2] \in Nat,
         a.col + a.cols <= size[1], a.row + a.rows <= size[2],
         NEW direction \in FocusDirection, ~AtEdge(a, direction)
  PROVE  /\ PastCol(a, direction) \in 0..size[1] - 1
         /\ PastRow(a, direction) \in 0..size[2] - 1
         /\ ~Covers(a, PastCol(a, direction), PastRow(a, direction))
<1> DEFINE col == PastCol(a, direction)
           row == PastRow(a, direction)
<1>1. a.col \in Nat /\ a.row \in Nat /\ a.cols \in Nat /\ a.rows \in Nat
  BY DEF Measured
<1>2. /\ direction = "Up" => col = a.col /\ row = a.row - 1 /\ a.row # 0
      /\ direction = "Down" => col = a.col /\ row = a.row + a.rows /\ a.row + a.rows # size[2]
      /\ direction = "Left" => col = a.col - 1 /\ row = a.row /\ a.col # 0
      /\ direction = "Right" => col = a.col + a.cols /\ row = a.row /\ a.col + a.cols # size[1]
  BY DEF PastCol, PastRow, AtEdge
<1> HIDE DEF col, row
<1>3. /\ col \in 0..size[1] - 1 /\ row \in 0..size[2] - 1
      /\ ~(col \in a.col .. a.col + a.cols - 1 /\ row \in a.row .. a.row + a.rows - 1)
  <2>1. CASE direction = "Up"
    BY <1>1, <1>2, <2>1
  <2>2. CASE direction = "Down"
    BY <1>1, <1>2, <2>2
  <2>3. CASE direction = "Left"
    BY <1>1, <1>2, <2>3
  <2>4. CASE direction = "Right"
    BY <1>1, <1>2, <2>4
  <2> QED BY <2>1, <2>2, <2>3, <2>4 DEF FocusDirection
<1>4. ~Covers(a, col, row)
  BY <1>3 DEF Covers
<1> QED BY <1>3, <1>4 DEF col, row

(* Among candidates there is a nearest, among the nearest a first. *)
LEMMA NearestExists ==
  ASSUME NEW C \in SUBSET Nat, C # {}, NEW d \in [C -> Nat]
  PROVE  \E k \in C : \A m \in C : d[k] < d[m] \/ (d[k] = d[m] /\ k <= m)
<1> DEFINE D == {d[k] : k \in C}
<1>1. D \in SUBSET Nat /\ D # {}
  OBVIOUS
<1>2. PICK n \in D : \A j \in D : n <= j
  <2> HIDE DEF D
  <2> QED BY <1>1, LeastNumber
<1> DEFINE K == {k \in C : d[k] = n}
<1>3. K \in SUBSET Nat /\ K # {}
  BY <1>2
<1>4. PICK k \in K : \A j \in K : k <= j
  <2> HIDE DEF K
  <2> QED BY <1>3, LeastNumber
<1>5. ASSUME NEW m \in C PROVE d[k] < d[m] \/ (d[k] = d[m] /\ k <= m)
  <2>1. d[m] \in Nat /\ n \in Nat /\ n <= d[m] /\ d[k] = n
    BY <1>1, <1>2, <1>4
  <2>2. CASE d[m] = n
    BY <1>4, <2>1, <2>2
  <2>3. CASE d[m] # n
    BY <2>1, <2>3
  <2> QED BY <2>2, <2>3
<1> QED BY <1>4, <1>5

(* A distance is a number of half cells. *)
LEMMA DistanceIs ==
  ASSUME NEW a, NEW b, Measured(a), Measured(b)
  PROVE  Distance(b, a) \in Nat
<1>1. /\ a.col \in Nat /\ a.row \in Nat /\ a.cols \in Nat /\ a.rows \in Nat
      /\ b.col \in Nat /\ b.row \in Nat /\ b.cols \in Nat /\ b.rows \in Nat
  BY DEF Measured
<1>2. \A m, n \in Nat : AbsDiff(m, n) \in Nat
  BY DEF AbsDiff
<1>3. /\ 2 * a.col + a.cols \in Nat /\ 2 * b.col + b.cols \in Nat
      /\ 2 * a.row + a.rows \in Nat /\ 2 * b.row + b.rows \in Nat
  BY <1>1
<1>4. /\ AbsDiff(2 * b.col + b.cols, 2 * a.col + a.cols) \in Nat
      /\ AbsDiff(2 * b.row + b.rows, 2 * a.row + a.rows) \in Nat
  BY <1>2, <1>3
<1> QED BY <1>4 DEF Distance

(* The panes' places in numbers. *)
LEMMA PositionsMeasured ==
  ASSUME TreeInv
  PROVE  /\ \A i \in DOMAIN Positions :
              /\ i \in Nat /\ Measured(Positions[i])
              /\ Positions[i].col + Positions[i].cols <= size[1]
              /\ Positions[i].row + Positions[i].rows <= size[2]
         /\ \A i, j \in DOMAIN Positions :
              Positions[i].id # Positions[j].id =>
                ~(ColsOverlap(Positions[i], Positions[j]) /\ RowsOverlap(Positions[i], Positions[j]))
         /\ \A id \in Leaves(root) :
              \E i \in DOMAIN Positions :
                /\ Positions[i] = PositionOf(root, size, id)
                /\ \A j \in DOMAIN Positions : j # i <=> Positions[j].id # id
<1> DEFINE ps == Positions
           s == leaf_paths(root)
<1>1. IsTree(root) /\ size[1] \in Nat /\ size[2] \in Nat
  BY SizeIs DEF TreeInv
<1>2. Tiled(root, size)
  BY <1>1, TreeTiles
<1>3. /\ DOMAIN ps = 1..Len(s) /\ Len(s) \in Nat
      /\ \A i \in 1..Len(s) : s[i] \in DOMAIN root.leaf /\ ps[i] = Placed(root, size, s[i])
  BY <1>1, PositionsAre, PaneIdsAre DEF Positions
<1>4. /\ \A i, j \in 1..Len(s) : s[i] = s[j] => i = j
      /\ \A p \in DOMAIN root.leaf : \E i \in 1..Len(s) : s[i] = p
  BY <1>1, PaneIdsAre
<1> HIDE DEF ps, s
<1>5. \A i \in DOMAIN ps :
        /\ ps[i].col = AreaOf(root, s[i], size).col /\ ps[i].cols = AreaOf(root, s[i], size).cols
        /\ ps[i].row = AreaOf(root, s[i], size).row /\ ps[i].rows = AreaOf(root, s[i], size).rows
        /\ ps[i].id = root.leaf[s[i]]
  BY <1>3, PlacedAre
<1>6. ASSUME NEW i \in DOMAIN ps
      PROVE  /\ i \in Nat /\ Measured(ps[i])
             /\ ps[i].col + ps[i].cols <= size[1] /\ ps[i].row + ps[i].rows <= size[2]
  <2>1. s[i] \in DOMAIN root.leaf
    BY <1>3
  <2>2. /\ AreaOf(root, s[i], size) \in Box
        /\ AreaOf(root, s[i], size).col + AreaOf(root, s[i], size).cols <= size[1]
        /\ AreaOf(root, s[i], size).row + AreaOf(root, s[i], size).rows <= size[2]
    BY <1>2, <2>1 DEF Tiled
  <2>3. Measured(AreaOf(root, s[i], size))
    BY <2>2 DEF Measured, Box
  <2>4. i \in Nat
    BY <1>3
  <2> QED BY <1>5, <2>2, <2>3, <2>4 DEF Measured
<1>7. ASSUME NEW i \in DOMAIN ps, NEW j \in DOMAIN ps, ps[i].id # ps[j].id
      PROVE  ~(ColsOverlap(ps[i], ps[j]) /\ RowsOverlap(ps[i], ps[j]))
  <2>1. s[i] \in DOMAIN root.leaf /\ s[j] \in DOMAIN root.leaf /\ s[i] # s[j]
    BY <1>3, <1>5, <1>7
  <2>2. ~(/\ ColsOverlap(AreaOf(root, s[i], size), AreaOf(root, s[j], size))
          /\ RowsOverlap(AreaOf(root, s[i], size), AreaOf(root, s[j], size)))
    BY <1>2, <2>1 DEF Tiled
  <2> QED BY <1>5, <2>2 DEF ColsOverlap, RowsOverlap
<1>8. ASSUME NEW id \in Leaves(root)
      PROVE  \E i \in DOMAIN ps :
               /\ ps[i] = PositionOf(root, size, id)
               /\ \A j \in DOMAIN ps : j # i <=> ps[j].id # id
  <2> DEFINE p == PathOf(root, id)
  <2>1. p \in DOMAIN root.leaf /\ root.leaf[p] = id
    BY <1>1, PathOfIs
  <2>2. PICK i \in DOMAIN ps : s[i] = p
    BY <1>3, <1>4, <2>1
  <2>3. ps[i] = PositionOf(root, size, id)
    BY <1>3, <2>2 DEF PositionOf
  <2>4. \A j \in DOMAIN ps : ps[j].id = id => j = i
    <3>1. ASSUME NEW j \in DOMAIN ps, ps[j].id = id PROVE j = i
      <4>1. s[j] \in DOMAIN root.leaf /\ root.leaf[s[j]] = id
        BY <1>3, <1>5, <3>1
      <4>2. s[j] = p
        BY <1>1, <2>1, <4>1, TreeHolds
      <4> QED BY <1>3, <1>4, <2>2, <4>2
    <3> QED BY <3>1
  <2>5. ps[i].id = id
    BY <1>5, <2>1, <2>2
  <2> QED BY <2>3, <2>4, <2>5
<1> QED BY <1>6, <1>7, <1>8 DEF ps

(* While every pane shows a cell, a directional move fails exactly for the  *)
(* panes along that edge of the terminal (tab.rs:450).                      *)
THEOREM LayoutMovesFailOnlyAtEdge == Spec => []MovesFailOnlyAtEdge
<1>1. TreeInv => MovesFailOnlyAtEdge
  <2> SUFFICES ASSUME TreeInv,
                      \A i \in DOMAIN Positions : Positions[i].cols >= 1 /\ Positions[i].rows >= 1,
                      NEW id \in Leaves(root), NEW direction \in FocusDirection
               PROVE  find_neighbor_in_direction(root, size, id, direction) = {}
                        <=> AtEdge(PositionOf(root, size, id), direction)
    BY DEF MovesFailOnlyAtEdge
  <2> DEFINE ps == Positions
             a == PositionOf(root, size, id)
             C == {i \in DOMAIN ps : ps[i].id # id /\ LiesTowards(ps[i], a, direction)}
             found == find_neighbor_in_direction(root, size, id, direction)
  <2>1. found = {ps[i].id : i \in {k \in C : \A m \in C :
                    \/ Distance(ps[k], a) < Distance(ps[m], a)
                    \/ Distance(ps[k], a) = Distance(ps[m], a) /\ k <= m}}
    BY DEF find_neighbor_in_direction, Positions
  <2>2. \A i \in DOMAIN ps : /\ i \in Nat /\ Measured(ps[i])
                             /\ ps[i].col + ps[i].cols <= size[1] /\ ps[i].row + ps[i].rows <= size[2]
                             /\ ps[i].cols >= 1 /\ ps[i].rows >= 1
    BY PositionsMeasured
  <2>3. \A i, j \in DOMAIN ps :
          ps[i].id # ps[j].id => ~(ColsOverlap(ps[i], ps[j]) /\ RowsOverlap(ps[i], ps[j]))
    BY PositionsMeasured
  <2>4. PICK o \in DOMAIN ps : ps[o] = a /\ \A j \in DOMAIN ps : j # o <=> ps[j].id # id
    BY PositionsMeasured
  <2>5. size[1] \in Nat /\ size[2] \in Nat
    BY SizeIs
  <2>6. PanesTileTheTerminal
    BY TreeInvTiles
  <2> HIDE DEF ps, a, found
  <2>7. /\ Measured(a) /\ a.cols >= 1 /\ a.rows >= 1
        /\ a.col + a.cols <= size[1] /\ a.row + a.rows <= size[2]
    BY <2>2, <2>4
  <2>8. C \in SUBSET Nat /\ \A i \in C : Distance(ps[i], a) \in Nat
    <3>1. \A i \in DOMAIN ps : Distance(ps[i], a) \in Nat
      BY <2>2, <2>7, DistanceIs
    <3> QED BY <2>2, <3>1
  <2>9. found = {} <=> C = {}
    <3>1. ASSUME C # {} PROVE found # {}
      <4> DEFINE d == [i \in C |-> Distance(ps[i], a)]
      <4> HIDE DEF C
      <4>1. d \in [C -> Nat] /\ \A i \in C : d[i] = Distance(ps[i], a)
        BY <2>8
      <4> HIDE DEF d
      <4>2. PICK k \in C : \A m \in C : d[k] < d[m] \/ (d[k] = d[m] /\ k <= m)
        BY <2>8, <3>1, <4>1, NearestExists
      <4>3. \A m \in C : \/ Distance(ps[k], a) < Distance(ps[m], a)
                         \/ Distance(ps[k], a) = Distance(ps[m], a) /\ k <= m
        BY <4>1, <4>2
      <4>4. ps[k].id \in found
        BY <2>1, <4>3
      <4> QED BY <4>4
    <3> QED BY <2>1, <3>1
  <2>10. ASSUME AtEdge(a, direction) PROVE C = {}
    <3>1. ASSUME NEW i \in DOMAIN ps PROVE ~LiesTowards(ps[i], a, direction)
      BY <2>2, <2>5, <2>7, <2>10, NothingBeyond
    <3> QED BY <3>1
  <2>11. ASSUME ~AtEdge(a, direction) PROVE C # {}
    <3> DEFINE col == PastCol(a, direction)
               row == PastRow(a, direction)
    <3>1. col \in 0..size[1] - 1 /\ row \in 0..size[2] - 1 /\ ~Covers(a, col, row)
      BY <2>5, <2>7, <2>11, PastIsInside
    <3> HIDE DEF col, row
    <3>2. PICK i \in DOMAIN ps : Covers(ps[i], col, row)
      BY <2>6, <3>1 DEF PanesTileTheTerminal, ps
    <3>3. i # o
      BY <2>4, <3>1, <3>2
    <3>4. ps[i].id # id /\ ps[i].id # ps[o].id
      BY <2>4, <3>3
    <3>5. ~(ColsOverlap(ps[i], a) /\ RowsOverlap(ps[i], a))
      BY <2>3, <2>4, <3>4
    <3>6. LiesTowards(ps[i], a, direction)
      BY <2>2, <2>7, <3>2, <3>5, LiesBeyond DEF col, row
    <3> QED BY <3>4, <3>6
  <2>12. found = {} <=> AtEdge(a, direction)
    BY <2>9, <2>10, <2>11
  <2> QED BY <2>12 DEF found, a
<1> QED BY <1>1, LayoutStaysTree, PTL

-----------------------------------------------------------------------------
(* Growing *)

(* The ratio in cells, before the limits. *)
LEMMA RoundedGrows ==
  ASSUME NEW n \in Nat, NEW m \in Nat, n <= m,
         NEW r \in MinRatio..MaxRatio, NEW s \in MinRatio..MaxRatio, r <= s
  PROVE  LET a == (2 * n * r + RatioUnit) \div (2 * RatioUnit)
             b == (2 * n * s + RatioUnit) \div (2 * RatioUnit)
             c == (2 * m * r + RatioUnit) \div (2 * RatioUnit)
         IN  a \in Int /\ b \in Int /\ c \in Int /\ a <= b /\ a <= c /\ c <= a + (m - n)
<1> DEFINE x == n * r
           y == n * s
           z == m * r
<1>1. r \in Int /\ s \in Int /\ 10 <= r /\ r <= 90 /\ 10 <= s /\ s <= 90
  BY DEF MinRatio, MaxRatio
<1>2. x \in Int /\ y \in Int /\ z \in Int
  BY <1>1
<1>3. x <= y
  <2> DEFINE k == s - r
  <2>1. k \in Nat /\ s = r + k
    BY <1>1
  <2> HIDE DEF k
  <2>2. n * k \in Nat
    BY <2>1
  <2>3. n * (r + k) = n * r + n * k
    BY <1>1, <2>1
  <2> DEFINE v == n * k
  <2>4. y = x + v
    BY <2>1, <2>3
  <2> HIDE DEF x, y, v
  <2>5. v \in Nat
    BY <2>2 DEF v
  <2> QED BY <1>2, <2>4, <2>5
<1>4. x <= z /\ z <= x + 100 * (m - n)
  <2> DEFINE k == m - n
  <2>1. k \in Nat /\ m = n + k
    OBVIOUS
  <2> HIDE DEF k
  <2>2. k * r \in Int /\ 0 <= k * r /\ k * r <= 100 * k
    BY <1>1, <2>1
  <2>3. (n + k) * r = n * r + k * r
    BY <1>1, <2>1
  <2> DEFINE v == k * r
  <2>4. z = x + v
    BY <2>1, <2>3
  <2>5. m - n = k
    BY <2>1
  <2> HIDE DEF x, z, v
  <2>6. v \in Int /\ 0 <= v /\ v <= 100 * k
    BY <2>2 DEF v
  <2> QED BY <1>2, <2>1, <2>4, <2>5, <2>6
<1>5. 2 * n * r = 2 * x /\ 2 * n * s = 2 * y /\ 2 * m * r = 2 * z
  BY <1>1
<1> HIDE DEF x, y, z
<1> DEFINE a == (2 * x + 100) \div 200
           b == (2 * y + 100) \div 200
           c == (2 * z + 100) \div 200
<1>6. a \in Int /\ b \in Int /\ c \in Int
  BY <1>2
<1>7. a <= b /\ a <= c
  BY <1>2, <1>3, <1>4
<1>8. c <= a + (m - n)
  BY <1>2, <1>4
<1>9. 2 * RatioUnit = 200 /\ RatioUnit = 100
  BY DEF RatioUnit
<1> HIDE DEF a, b, c
<1> QED BY <1>5, <1>6, <1>7, <1>8, <1>9 DEF a, b, c

(* More cells or a higher ratio never give the first child fewer cells, and *)
(* more cells never give the second fewer.                                  *)
LEMMA FirstCellsGrows ==
  ASSUME NEW n \in Nat, NEW m \in Nat, n <= m,
         NEW r \in MinRatio..MaxRatio, NEW s \in MinRatio..MaxRatio, r <= s
  PROVE  /\ FirstCells(n, r) <= FirstCells(n, s)
         /\ FirstCells(n, r) <= FirstCells(m, r)
         /\ n - FirstCells(n, r) <= m - FirstCells(m, r)
<1> DEFINE a == (2 * n * r + RatioUnit) \div (2 * RatioUnit)
           b == (2 * n * s + RatioUnit) \div (2 * RatioUnit)
           c == (2 * m * r + RatioUnit) \div (2 * RatioUnit)
           Limited(k, x) == LET atLeast == IF x < 1 THEN 1 ELSE x
                                most == IF k = 0 THEN 0 ELSE k - 1
                            IN  IF atLeast > most THEN most ELSE atLeast
<1>1. a \in Int /\ b \in Int /\ c \in Int /\ a <= b /\ a <= c /\ c <= a + (m - n)
  BY RoundedGrows
<1>2. /\ FirstCells(n, r) = Limited(n, a) /\ FirstCells(n, s) = Limited(n, b)
      /\ FirstCells(m, r) = Limited(m, c)
  BY DEF FirstCells
<1> HIDE DEF a, b, c
<1>3. Limited(n, a) <= Limited(n, b)
  BY <1>1
<1>4. Limited(n, a) <= Limited(m, c)
  BY <1>1
<1>5. n - Limited(n, a) <= m - Limited(m, c)
  BY <1>1
<1> HIDE DEF Limited
<1> QED BY <1>2, <1>3, <1>4, <1>5

(* It is a number of cells. *)
LEMMA FirstCellsWhole == \A n \in Nat, ratio \in Int : FirstCells(n, ratio) \in Int
<1>1. ASSUME NEW n \in Nat, NEW ratio \in Int PROVE FirstCells(n, ratio) \in Int
  <2>1. FirstCells(n, ratio) \in 0..n
    BY FirstCellsIs
  <2> QED BY <2>1
<1> QED BY <1>1

(* How far an area reaches along an axis. *)
Extent(a, axis) == IF axis = "Vertical" THEN a.cols ELSE a.rows

(* How far a child reaches, of a parent that reaches over n cells. *)
ChildExtent(n, s, side, axis) ==
  IF s.direction # axis THEN n
  ELSE IF side = 1 THEN FirstCells(n, s.ratio) ELSE n - FirstCells(n, s.ratio)

(* A child's area reaches that far. *)
LEMMA ChildExtentIs ==
  ASSUME NEW a \in Box, NEW s \in SplitData, NEW side \in {1, 2}, NEW axis \in Direction
  PROVE  Extent(ChildArea(a, s, side), axis) = ChildExtent(Extent(a, axis), s, side, axis)
<1> DEFINE h == FirstCells(a.rows, s.ratio)
           w == FirstCells(a.cols, s.ratio)
           c == ChildArea(a, s, side)
<1>1. /\ s.direction = "Horizontal" =>
                  /\ c.cols = a.cols
                  /\ side = 1 => c.rows = h
                  /\ side = 2 => c.rows = a.rows - h
      /\ s.direction = "Vertical" =>
                  /\ c.rows = a.rows
                  /\ side = 1 => c.cols = w
                  /\ side = 2 => c.cols = a.cols - w
  BY ChildAreaIs
<1>2. s.direction \in {"Horizontal", "Vertical"} /\ axis \in {"Horizontal", "Vertical"}
  BY DEF SplitData, Direction
<1> HIDE DEF c
<1>3. Extent(c, axis) = ChildExtent(Extent(a, axis), s, side, axis)
  <2>1. CASE axis = "Vertical"
    BY <1>1, <1>2, <2>1 DEF Extent, ChildExtent
  <2>2. CASE axis = "Horizontal"
    BY <1>1, <1>2, <2>2 DEF Extent, ChildExtent
  <2> QED BY <1>2, <2>1, <2>2
<1> QED BY <1>3 DEF c

(* Where the parent reaches no less, the child reaches no less. *)
LEMMA ExtentGrows ==
  ASSUME NEW n \in Nat, NEW m \in Nat, n <= m, NEW s, s.ratio \in MinRatio..MaxRatio,
         NEW side \in {1, 2}, NEW axis
  PROVE  ChildExtent(n, s, side, axis) <= ChildExtent(m, s, side, axis)
<1>1. s.ratio <= s.ratio
  BY DEF MinRatio, MaxRatio
<1>2. /\ FirstCells(n, s.ratio) <= FirstCells(m, s.ratio)
      /\ n - FirstCells(n, s.ratio) <= m - FirstCells(m, s.ratio)
  BY <1>1, FirstCellsGrows
<1> QED BY <1>2 DEF ChildExtent

(* Growing a child moves the border away from it. *)
LEMMA RatioGrows ==
  ASSUME NEW n \in Nat, NEW axis, NEW s, s.ratio \in MinRatio..MaxRatio,
         s.direction = axis, NEW side \in {1, 2}, NEW delta \in Nat, NEW u,
         u = [direction |-> axis, ratio |-> NewRatio(s.ratio, side, delta)]
  PROVE  ChildExtent(n, s, side, axis) <= ChildExtent(n, u, side, axis)
<1> DEFINE r == s.ratio
           v == NewRatio(r, side, delta)
<1>1. r \in MinRatio..MaxRatio /\ r \in Int /\ v \in MinRatio..MaxRatio
  BY NewRatioIs DEF MinRatio, MaxRatio
<1>2. u.direction = axis /\ u.ratio = v
  OBVIOUS
<1> HIDE DEF r, v
<1>3. CASE side = 1
  <2>1. r <= v
    BY <1>1, <1>3 DEF v, NewRatio, Clamp, MinRatio, MaxRatio
  <2>2. FirstCells(n, r) <= FirstCells(n, v)
    BY <1>1, <2>1, FirstCellsGrows
  <2> QED BY <1>2, <1>3, <2>2 DEF ChildExtent, r
<1>4. CASE side = 2
  <2>1. v <= r
    BY <1>1, <1>4 DEF v, NewRatio, Clamp, MinRatio, MaxRatio
  <2>2. FirstCells(n, v) <= FirstCells(n, r)
    BY <1>1, <2>1, FirstCellsGrows
  <2>3. FirstCells(n, v) \in Int /\ FirstCells(n, r) \in Int
    <3>1. v \in Int
      BY <1>1 DEF MinRatio, MaxRatio
    <3> QED BY <1>1, <3>1, FirstCellsWhole
  <2>4. n - FirstCells(n, r) <= n - FirstCells(n, v)
    BY <2>2, <2>3
  <2> QED BY <1>2, <1>4, <2>4 DEF ChildExtent, r
<1> QED BY <1>3, <1>4

(* adjust_ratio never takes cells from the pane that asks for more. *)
LEMMA AdjustGrows ==
  ASSUME NEW t, IsTree(t), \A p \in DOMAIN t.split : t.split[p].ratio \in MinRatio..MaxRatio,
         NEW id \in Leaves(t), NEW axis \in Direction, NEW delta \in Nat,
         NEW sz, sz[1] \in Nat, sz[2] \in Nat
  PROVE  Extent(AreaOf(t, PathOf(t, id), sz), axis)
           <= Extent(AreaOf(adjust_ratio(t, id, axis, delta),
                            PathOf(adjust_ratio(t, id, axis, delta), id), sz), axis)
<1> DEFINE p == PathOf(t, id)
           u == adjust_ratio(t, id, axis, delta)
           n == Len(p)
<1>1. delta \in Int
  OBVIOUS
<1>2. IsTree(u) /\ PathOf(u, id) = p
  BY <1>1, AdjustIs
<1>3. p \in DOMAIN t.leaf /\ p \in Path /\ p \in Nodes(t) /\ n \in Nat
  <2>1. p \in DOMAIN t.leaf
    BY PathOfIs
  <2>2. p \in Path /\ p \in Nodes(t)
    BY <2>1, TreeNodes
  <2> QED BY <2>1, <2>2, PathAt
<1>4. CASE u = t
  <2>1. AreaOf(t, p, sz) \in Box
    <3>1. 0 \in 0..n
      BY <1>3
    <3> HIDE DEF p, u
    <3> QED BY <1>3, <3>1, AreasNest
  <2>2. Extent(AreaOf(t, p, sz), axis) \in Nat
    BY <2>1 DEF Box, Extent
  <2> HIDE DEF u, p
  <2>3. Extent(AreaOf(t, p, sz), axis) <= Extent(AreaOf(u, PathOf(u, id), sz), axis)
    BY <1>2, <1>4, <2>2
  <2> QED BY <2>3 DEF u, p
<1>5. CASE u # t
  <2>1. PICK q \in DOMAIN t.split : Adjusted(t, p, u, q, axis, delta)
    <3> DEFINE pp == p
               uu == u
    <3>1. pp = PathOf(t, id) /\ uu = adjust_ratio(t, id, axis, delta) /\ uu # t
      BY <1>5
    <3> HIDE DEF pp, uu
    <3>2. \E q \in DOMAIN t.split : Adjusted(t, pp, uu, q, axis, delta)
      BY <1>1, <3>1, AdjustHolds
    <3> QED BY <3>2 DEF pp, uu
  <2> HIDE DEF p, u
  <2>2. /\ q \in Path /\ Len(q) \in Nat /\ Len(q) < Len(p) /\ q = SubSeq(p, 1, Len(q))
        /\ t.split[q].direction = axis
        /\ u.leaf = t.leaf /\ DOMAIN u.split = DOMAIN t.split
        /\ u.split[q] = [direction |-> axis, ratio |-> NewRatio(t.split[q].ratio, p[Len(q) + 1], delta)]
        /\ \A r \in DOMAIN t.split : r # q => u.split[r] = t.split[r]
    BY <2>1 DEF Adjusted
  <2>3. PICK f : AreaOf(t, p, sz) = f[Len(p)] /\ Divides(f, t, p, sz)
    BY <1>3, AreaSteps
  <2>4. PICK g : AreaOf(u, p, sz) = g[Len(p)] /\ Divides(g, u, p, sz)
    BY <1>3, AreaSteps
  <2>5. p \in Nodes(u)
    BY <1>3, <2>2 DEF Nodes
  <2>6. \A i \in 0..n : f[i] \in Box /\ g[i] \in Box
    <3>1. ASSUME NEW i \in 0..n PROVE f[i] \in Box /\ g[i] \in Box
      <4>1. i \in 0..Len(p)
        OBVIOUS
      <4>2. AreaOf(t, SubSeq(p, 1, i), sz) = f[i]
        BY <1>3, <2>3, <4>1, AreaOnTheWay
      <4>3. AreaOf(u, SubSeq(p, 1, i), sz) = g[i]
        BY <1>3, <2>4, <4>1, AreaOnTheWay
      <4>4. AreaOf(t, SubSeq(p, 1, i), sz) \in Box
        BY <1>3, <4>1, AreasNest
      <4>5. AreaOf(u, SubSeq(p, 1, i), sz) \in Box
        BY <1>2, <2>5, <4>1, AreasNest
      <4> QED BY <4>2, <4>3, <4>4, <4>5
    <3> QED BY <3>1
  <2> DEFINE S == {i \in 0..n : Extent(f[i], axis) <= Extent(g[i], axis)}
  <2>7. 0 \in S
    <3>1. f[0] = g[0] /\ 0 \in 0..n
      BY <1>3, <2>3, <2>4 DEF Divides
    <3>2. Extent(f[0], axis) \in Nat
      BY <2>6, <3>1 DEF Box, Extent
    <3> QED BY <3>1, <3>2
  <2>8. ASSUME NEW i \in 0 + 1..n, i - 1 \in S PROVE i \in S
    <3> DEFINE k == i - 1
               r == SubSeq(p, 1, k)
               s == t.split[r]
               v == u.split[r]
               side == p[i]
               a == f[k]
               b == g[k]
               x == Extent(a, axis)
               y == Extent(b, axis)
    <3>1. /\ i \in 1..Len(p) /\ i \in 0..n /\ k \in Nat /\ k < Len(p) /\ k \in 0..n
          /\ k \in 0..Len(p) /\ i = k + 1
      BY <1>3
    <3>2. side \in {1, 2}
      BY <1>3, <3>1, PathAt
    <3>3. r \in DOMAIN t.split /\ r \in DOMAIN u.split
      <4> HIDE DEF k
      <4> QED BY <1>3, <2>2, <3>1, AncestorsSplit
    <3>4. s \in SplitData /\ v \in SplitData /\ s.ratio \in MinRatio..MaxRatio
      BY <1>2, <3>3, TreeHolds DEF SplitData
    <3>5. f[i] = ChildArea(a, s, side)
      BY <2>3, <3>1 DEF Divides
    <3>6. g[i] = ChildArea(b, v, side)
      BY <2>4, <3>1 DEF Divides
    <3>7. a \in Box /\ b \in Box
      BY <2>6, <3>1
    <3>8. x \in Nat /\ y \in Nat /\ x <= y
      <4>1. x \in Nat /\ y \in Nat
        BY <3>7 DEF Box, Extent
      <4> QED BY <2>8, <4>1
    <3>9. r = q => /\ s.direction = axis
                   /\ v = [direction |-> axis, ratio |-> NewRatio(s.ratio, side, delta)]
      <4>1. ASSUME r = q PROVE k = Len(q)
        <5>1. Len(SubSeq(p, 1, k)) = k
          <6> HIDE DEF k
          <6> QED BY <1>3, <3>1, CutIs
        <5> QED BY <4>1, <5>1
      <4> QED BY <2>2, <3>1, <4>1
    <3>10. r # q => v = s
      BY <2>2, <3>3
    <3> HIDE DEF r, s, v, side, a, b
    <3>11. /\ Extent(ChildArea(a, s, side), axis) = ChildExtent(x, s, side, axis)
           /\ Extent(ChildArea(b, v, side), axis) = ChildExtent(y, v, side, axis)
      BY <3>2, <3>4, <3>7, ChildExtentIs
    <3> HIDE DEF x, y
    <3>12. ChildExtent(x, s, side, axis) <= ChildExtent(y, s, side, axis)
      BY <3>2, <3>4, <3>8, ExtentGrows
    <3>13. ChildExtent(x, s, side, axis) <= ChildExtent(y, v, side, axis)
      <4>1. CASE r = q
        <5>1. ChildExtent(y, s, side, axis) <= ChildExtent(y, v, side, axis)
          BY <3>2, <3>4, <3>8, <3>9, <4>1, RatioGrows
        <5>2. \A c \in SplitData : ChildExtent(x, c, side, axis) \in Int /\ ChildExtent(y, c, side, axis) \in Int
          <6>1. ASSUME NEW c \in SplitData
                PROVE  ChildExtent(x, c, side, axis) \in Int /\ ChildExtent(y, c, side, axis) \in Int
            <7>1. c.ratio \in Int
              BY DEF SplitData
            <7>2. FirstCells(x, c.ratio) \in Int /\ FirstCells(y, c.ratio) \in Int
              BY <3>8, <7>1, FirstCellsWhole
            <7> QED BY <3>8, <7>2 DEF ChildExtent
          <6> QED BY <6>1
        <5> DEFINE e1 == ChildExtent(x, s, side, axis)
                   e2 == ChildExtent(y, s, side, axis)
                   e3 == ChildExtent(y, v, side, axis)
        <5>3. e1 \in Int /\ e2 \in Int /\ e3 \in Int /\ e1 <= e2 /\ e2 <= e3
          BY <3>4, <3>12, <5>1, <5>2
        <5> HIDE DEF e1, e2, e3
        <5>4. e1 <= e3
          BY <5>3
        <5> QED BY <5>4 DEF e1, e3
      <4>2. CASE r # q
        BY <3>10, <3>12, <4>2
      <4> QED BY <4>1, <4>2
    <3>14. Extent(f[i], axis) <= Extent(g[i], axis)
      BY <3>5, <3>6, <3>11, <3>13
    <3> QED BY <3>1, <3>14
  <2>9. n \in S
    <3> HIDE DEF S, n
    <3>1. 0..n \subseteq S
      BY <1>3, <2>7, <2>8, Climb
    <3> QED BY <1>3, <3>1
  <2>10. Extent(AreaOf(t, p, sz), axis) <= Extent(AreaOf(u, PathOf(u, id), sz), axis)
    BY <1>2, <2>3, <2>4, <2>9
  <2> QED BY <2>10 DEF u, p
<1> QED BY <1>4, <1>5

(* Asking for more cells never costs a pane any, in any nesting, while the  *)
(* ratios are within their limits (tab.rs:483).                             *)
THEOREM LayoutGrowNeverShrinks == Spec => []GrowNeverShrinks
<1>1. TreeInv => GrowNeverShrinks
  <2> SUFFICES ASSUME TreeInv, RatiosClamped, NEW id \in Leaves(root),
                      NEW amount \in {a \in Amounts : a > 0}
               PROVE  LET p == PositionOf(root, size, id)
                          After(axis, total) ==
                            PositionOf(adjust_ratio(root, id, axis, RatioDelta(amount, total)), size, id)
                      IN  /\ size[1] > 0 => After("Vertical", size[1]).cols >= p.cols
                          /\ size[2] > 0 => After("Horizontal", size[2]).rows >= p.rows
    BY DEF GrowNeverShrinks
  <2>1. IsTree(root) /\ size[1] \in Nat /\ size[2] \in Nat
    BY SizeIs DEF TreeInv
  <2>2. \A p \in DOMAIN root.split : root.split[p].ratio \in MinRatio..MaxRatio
    BY DEF RatiosClamped
  <2>3. amount \in Int /\ amount > 0
    BY LayoutAssumption
  <2>4. ASSUME NEW axis \in Direction, NEW total \in Nat, total > 0
        PROVE  Extent(PositionOf(root, size, id), axis) <=
                 Extent(PositionOf(adjust_ratio(root, id, axis, RatioDelta(amount, total)), size, id), axis)
    <3> DEFINE delta == RatioDelta(amount, total)
               u == adjust_ratio(root, id, axis, delta)
    <3>1. delta \in Nat
      BY <2>3, <2>4, RatioDeltaIs
    <3> HIDE DEF delta
    <3>2. Extent(AreaOf(root, PathOf(root, id), size), axis)
            <= Extent(AreaOf(adjust_ratio(root, id, axis, delta),
                             PathOf(adjust_ratio(root, id, axis, delta), id), size), axis)
      BY <2>1, <2>2, <3>1, AdjustGrows
    <3>3. \A t : Extent(PositionOf(t, size, id), axis) = Extent(AreaOf(t, PathOf(t, id), size), axis)
      BY PlacedAre DEF PositionOf, Extent
    <3>4. Extent(PositionOf(root, size, id), axis) <= Extent(PositionOf(u, size, id), axis)
      BY <3>2, <3>3
    <3> QED BY <3>4 DEF u, delta
  <2>5. "Vertical" \in Direction /\ "Horizontal" \in Direction
    BY DEF Direction
  <2>6. ASSUME size[1] > 0
        PROVE  PositionOf(adjust_ratio(root, id, "Vertical", RatioDelta(amount, size[1])), size, id).cols
                 >= PositionOf(root, size, id).cols
    BY <2>1, <2>4, <2>5, <2>6 DEF Extent
  <2>7. ASSUME size[2] > 0
        PROVE  PositionOf(adjust_ratio(root, id, "Horizontal", RatioDelta(amount, size[2])), size, id).rows
                 >= PositionOf(root, size, id).rows
    BY <2>1, <2>4, <2>5, <2>7 DEF Extent
  <2> QED BY <2>6, <2>7
<1> QED BY <1>1, LayoutStaysTree, PTL
=============================================================================
