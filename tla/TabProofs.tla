----------------------------- MODULE TabProofs -----------------------------
(* The safety of a tab, and of a session's list of tabs: both are lists of  *)
(* distinct ids below a counter, and the same lemmas about them serve both. *)
(*                                                                          *)
(* The safety of a tab for any number of panes.  The conjuncts of TabInv    *)
(* need each other: that closing a pane keeps the layout and the panes map  *)
(* equal rests on the layout having no repeated leaf, that a split keeps it *)
(* free of repetitions on the counter lying above every id in use, and the  *)
(* focus fallback `first leaf` on the layout never being empty.             *)
EXTENDS Tab, Session, SequenceTheorems, TLAPS

-----------------------------------------------------------------------------
(* Lists of panes: what the operations on them preserve, for lists of any   *)
(* length over any set of ids.                                              *)

(* IndexOf (Iterator::position) finds an id that is in the list. *)
LEMMA IndexOfFinds ==
  ASSUME NEW S, NEW s \in Seq(S), NEW id \in ToSet(s)
  PROVE  IndexOf(s, id) \in 1 .. Len(s) /\ s[IndexOf(s, id)] = id
  BY DEF IndexOf, ToSet

(* In a list without repetition that position is the only one. *)
LEMMA IndexOfUnique ==
  ASSUME NEW S, NEW s \in Seq(S), Distinct(s), NEW i \in 1 .. Len(s)
  PROVE  IndexOf(s, s[i]) = i
  BY DEF IndexOf, Distinct

(* Distinct by positions. *)
LEMMA DistinctAt ==
  ASSUME NEW S, NEW s \in Seq(S)
  PROVE  Distinct(s) <=> \A i, j \in 1 .. Len(s) : s[i] = s[j] => i = j
  BY DEF Distinct

(* The members of a list are the ids at its positions. *)
LEMMA Members ==
  ASSUME NEW S, NEW s \in Seq(S)
  PROVE  /\ \A i \in 1 .. Len(s) : s[i] \in ToSet(s) /\ s[i] \in S
         /\ \A x \in ToSet(s) : \E i \in 1 .. Len(s) : s[i] = x
         /\ ToSet(s) \subseteq S
  BY DEF ToSet

(* RemoveAt (Vec::remove) by positions. *)
LEMMA RemoveAtShape ==
  ASSUME NEW S, NEW s \in Seq(S), NEW k \in 1 .. Len(s)
  PROVE  /\ RemoveAt(s, k) \in Seq(S)
         /\ Len(RemoveAt(s, k)) = Len(s) - 1
         /\ \A i \in 1 .. Len(s) - 1 :
              RemoveAt(s, k)[i] = IF i < k THEN s[i] ELSE s[i + 1]
<1> DEFINE a == SubSeq(s, 1, k - 1)
           b == SubSeq(s, k + 1, Len(s))
<1>1. /\ a \in Seq(S)
      /\ Len(a) = k - 1
      /\ \A i \in 1 .. k - 1 : a[i] = s[i]
  BY SubSeqProperties
<1>2. /\ b \in Seq(S)
      /\ Len(b) = Len(s) - k
      /\ \A i \in 1 .. Len(s) - k : b[i] = s[k + i]
  <2>1. \A i \in k + 1 .. Len(s) : s[i] \in S
    OBVIOUS
  <2>2. k + 1 \in Int /\ Len(s) \in Int
    OBVIOUS
  <2>3. /\ b \in Seq(S)
        /\ Len(b) = IF k + 1 <= Len(s) THEN Len(s) - (k + 1) + 1 ELSE 0
        /\ \A i \in 1 .. Len(s) - (k + 1) + 1 : b[i] = s[(k + 1) + i - 1]
    BY <2>1, <2>2, SubSeqProperties
  <2> HIDE DEF b
  <2>4. QED BY <2>3
<1> HIDE DEF a, b
<1>3. /\ a \o b \in Seq(S)
      /\ Len(a \o b) = Len(a) + Len(b)
      /\ \A i \in 1 .. Len(a) + Len(b) :
           (a \o b)[i] = IF i <= Len(a) THEN a[i] ELSE b[i - Len(a)]
  BY <1>1, <1>2, ConcatProperties
<1>4. RemoveAt(s, k) = a \o b
  BY DEF RemoveAt, a, b
<1>5. ASSUME NEW i \in 1 .. Len(s) - 1
      PROVE  (a \o b)[i] = IF i < k THEN s[i] ELSE s[i + 1]
  <2>1. CASE i < k
    BY <2>1, <1>1, <1>2, <1>3
  <2>2. CASE ~(i < k)
    <3>1. i - (k - 1) \in 1 .. Len(s) - k /\ k + (i - (k - 1)) = i + 1
      BY <2>2
    <3>2. (a \o b)[i] = b[i - (k - 1)]
      BY <2>2, <1>1, <1>2, <1>3
    <3>3. QED BY <2>2, <3>1, <3>2, <1>2
  <2>3. QED BY <2>1, <2>2
<1>6. Len(a \o b) = Len(s) - 1
  BY <1>1, <1>2, <1>3
<1>7. QED BY <1>3, <1>4, <1>5, <1>6

(* InsertAt (the leaf order after a split) by positions. *)
LEMMA InsertAtShape ==
  ASSUME NEW S, NEW s \in Seq(S), NEW k \in 1 .. Len(s) + 1, NEW e \in S
  PROVE  /\ InsertAt(s, k, e) \in Seq(S)
         /\ Len(InsertAt(s, k, e)) = Len(s) + 1
         /\ \A i \in 1 .. Len(s) + 1 :
              InsertAt(s, k, e)[i] = IF i < k THEN s[i]
                                     ELSE IF i = k THEN e ELSE s[i - 1]
<1> DEFINE a == SubSeq(s, 1, k - 1)
           b == SubSeq(s, k, Len(s))
           c == a \o <<e>>
<1>1. /\ a \in Seq(S)
      /\ Len(a) = k - 1
      /\ \A i \in 1 .. k - 1 : a[i] = s[i]
  BY SubSeqProperties
<1>2. /\ b \in Seq(S)
      /\ Len(b) = Len(s) - k + 1
      /\ \A i \in 1 .. Len(s) - k + 1 : b[i] = s[k + i - 1]
  <2>1. \A i \in k .. Len(s) : s[i] \in S
    OBVIOUS
  <2>2. /\ b \in Seq(S)
        /\ Len(b) = IF k <= Len(s) THEN Len(s) - k + 1 ELSE 0
        /\ \A i \in 1 .. Len(s) - k + 1 : b[i] = s[k + i - 1]
    BY <2>1, SubSeqProperties
  <2> HIDE DEF b
  <2>3. QED BY <2>2
<1> HIDE DEF a, b
<1>3. <<e>> \in Seq(S) /\ Len(<<e>>) = 1 /\ <<e>>[1] = e
  OBVIOUS
<1>4. /\ c \in Seq(S)
      /\ Len(c) = k
      /\ \A i \in 1 .. k : c[i] = IF i <= k - 1 THEN s[i] ELSE e
  <2>1. /\ c \in Seq(S)
        /\ Len(c) = Len(a) + 1
        /\ \A i \in 1 .. Len(a) + 1 :
             c[i] = IF i <= Len(a) THEN a[i] ELSE <<e>>[i - Len(a)]
    BY <1>1, <1>3, ConcatProperties
  <2>2. \A i \in 1 .. k : ~(i <= k - 1) => i - Len(a) = 1
    BY <1>1
  <2> HIDE DEF c
  <2>3. Len(a) + 1 = k
    BY <1>1
  <2>4. ASSUME NEW i \in 1 .. k PROVE c[i] = IF i <= k - 1 THEN s[i] ELSE e
    <3>1. CASE i <= k - 1
      BY <1>1, <2>1, <3>1
    <3>2. CASE ~(i <= k - 1)
      <4>1. i - Len(a) = 1 /\ ~(i <= Len(a)) /\ i \in 1 .. Len(a) + 1
        BY <1>1, <2>2, <3>2
      <4>2. QED BY <1>3, <2>1, <3>2, <4>1
    <3>3. QED BY <3>1, <3>2
  <2>5. QED BY <2>1, <2>3, <2>4
<1> HIDE DEF c
<1>5. /\ c \o b \in Seq(S)
      /\ Len(c \o b) = Len(c) + Len(b)
      /\ \A i \in 1 .. Len(c) + Len(b) :
           (c \o b)[i] = IF i <= Len(c) THEN c[i] ELSE b[i - Len(c)]
  BY <1>2, <1>4, ConcatProperties
<1>6. InsertAt(s, k, e) = c \o b
  BY DEF InsertAt, a, b, c
<1>7. ASSUME NEW i \in 1 .. Len(s) + 1
      PROVE  (c \o b)[i] = IF i < k THEN s[i] ELSE IF i = k THEN e ELSE s[i - 1]
  <2>1. CASE i <= k
    BY <2>1, <1>2, <1>4, <1>5
  <2>2. CASE ~(i <= k)
    <3>1. i - k \in 1 .. Len(s) - k + 1 /\ k + (i - k) - 1 = i - 1
      BY <2>2
    <3>2. (c \o b)[i] = b[i - k]
      BY <2>2, <1>2, <1>4, <1>5
    <3>3. QED BY <2>2, <3>1, <3>2, <1>2
  <2>3. QED BY <2>1, <2>2
<1>8. QED BY <1>2, <1>4, <1>5, <1>6, <1>7

(* Without: the id goes, the others stay, once each, in the same order. *)
LEMMA WithoutProps ==
  ASSUME NEW S, NEW s \in Seq(S), Distinct(s), NEW id
  PROVE  /\ Without(s, id) \in Seq(S)
         /\ Distinct(Without(s, id))
         /\ ToSet(Without(s, id)) = ToSet(s) \ {id}
         /\ \A i, j \in 1 .. Len(s) :
              i < j /\ s[i] # id /\ s[j] # id
                => IndexOf(Without(s, id), s[i]) < IndexOf(Without(s, id), s[j])
<1>1. CASE id \notin ToSet(s)
  <2>1. Without(s, id) = s
    BY <1>1 DEF Without
  <2>2. QED
    BY <1>1, <2>1, IndexOfUnique
<1>2. CASE id \in ToSet(s)
  <2> DEFINE k == IndexOf(s, id)
             t == RemoveAt(s, k)
  <2>1. k \in 1 .. Len(s) /\ s[k] = id
    BY <1>2, IndexOfFinds
  <2>2. Without(s, id) = t
    BY <1>2 DEF Without
  <2> HIDE DEF k
  <2>3. /\ t \in Seq(S)
        /\ Len(t) = Len(s) - 1
        /\ \A i \in 1 .. Len(s) - 1 : t[i] = IF i < k THEN s[i] ELSE s[i + 1]
    BY <2>1, RemoveAtShape
  <2> HIDE DEF t
  <2>4. Distinct(t)
    <3>1. ASSUME NEW i \in 1 .. Len(t), NEW j \in 1 .. Len(t), t[i] = t[j]
          PROVE  i = j
      <4> DEFINE m(n) == IF n < k THEN n ELSE n + 1
      <4>1. /\ m(i) \in 1 .. Len(s) /\ t[i] = s[m(i)]
            /\ m(j) \in 1 .. Len(s) /\ t[j] = s[m(j)]
        BY <2>1, <2>3
      <4>2. m(i) = m(j)
        BY <3>1, <4>1, DistinctAt
      <4>3. QED BY <2>1, <2>3, <4>2
    <3>2. QED BY <2>3, <3>1, DistinctAt
  <2>5. ASSUME NEW i \in 1 .. Len(s), s[i] # id
        PROVE  LET n == IF i < k THEN i ELSE i - 1
               IN  n \in 1 .. Len(t) /\ t[n] = s[i] /\ IndexOf(t, s[i]) = n
    <3> DEFINE n == IF i < k THEN i ELSE i - 1
    <3>1. n \in 1 .. Len(t) /\ t[n] = s[i]
      BY <2>1, <2>3, <2>5
    <3>2. QED BY <2>3, <2>4, <3>1, IndexOfUnique
  <2>6. ToSet(t) = ToSet(s) \ {id}
    <3>1. ASSUME NEW x \in ToSet(t) PROVE x \in ToSet(s) \ {id}
      <4>1. PICK i \in 1 .. Len(t) : t[i] = x
        BY <2>3, Members
      <4>2. PICK m \in 1 .. Len(s) : m # k /\ s[m] = x
        BY <2>1, <2>3, <4>1
      <4>3. QED BY <2>1, <4>2, Members DEF Distinct
    <3>2. ASSUME NEW x \in ToSet(s), x # id PROVE x \in ToSet(t)
      <4>1. PICK i \in 1 .. Len(s) : s[i] = x
        BY Members
      <4>2. \E n \in 1 .. Len(t) : t[n] = x
        BY <2>5, <3>2, <4>1
      <4>3. QED BY <2>3, <4>2, Members
    <3>3. QED BY <3>1, <3>2
  <2>7. ASSUME NEW i \in 1 .. Len(s), NEW j \in 1 .. Len(s),
               i < j, s[i] # id, s[j] # id
        PROVE  IndexOf(t, s[i]) < IndexOf(t, s[j])
    BY <2>1, <2>5, <2>7
  <2>8. QED BY <2>2, <2>3, <2>4, <2>6, <2>7
<1>3. QED BY <1>1, <1>2

(* InsertAfter: a new id comes in, the others keep their order. *)
LEMMA InsertAfterProps ==
  ASSUME NEW S, NEW s \in Seq(S), Distinct(s),
         NEW target \in ToSet(s), NEW id \in S, id \notin ToSet(s)
  PROVE  /\ InsertAfter(s, target, id) \in Seq(S)
         /\ Distinct(InsertAfter(s, target, id))
         /\ ToSet(InsertAfter(s, target, id)) = ToSet(s) \cup {id}
         /\ \A i, j \in 1 .. Len(s) :
              i < j => IndexOf(InsertAfter(s, target, id), s[i])
                         < IndexOf(InsertAfter(s, target, id), s[j])
<1> DEFINE k == IndexOf(s, target) + 1
           t == InsertAt(s, k, id)
<1>1. k \in 1 .. Len(s) + 1
  BY IndexOfFinds
<1>2. InsertAfter(s, target, id) = t
  BY DEF InsertAfter
<1> HIDE DEF k
<1>3. /\ t \in Seq(S)
      /\ Len(t) = Len(s) + 1
      /\ \A i \in 1 .. Len(s) + 1 :
           t[i] = IF i < k THEN s[i] ELSE IF i = k THEN id ELSE s[i - 1]
  BY <1>1, InsertAtShape
<1> HIDE DEF t
<1>4. \A i \in 1 .. Len(s) : s[i] # id
  BY Members
<1>5. Distinct(t)
  <2>1. ASSUME NEW i \in 1 .. Len(t), NEW j \in 1 .. Len(t), t[i] = t[j]
        PROVE  i = j
    <3> DEFINE m(n) == IF n < k THEN n ELSE n - 1
    <3>1. \A n \in 1 .. Len(t) : n # k => m(n) \in 1 .. Len(s) /\ t[n] = s[m(n)]
      BY <1>1, <1>3
    <3>2. t[k] = id /\ k \in 1 .. Len(t)
      BY <1>1, <1>3
    <3>3. CASE i = k \/ j = k
      <4>1. \A n \in 1 .. Len(t) : n # k => t[n] # id
        BY <1>4, <3>1
      <4>2. QED BY <2>1, <3>2, <3>3, <4>1
    <3>4. CASE i # k /\ j # k
      <4>1. m(i) \in 1 .. Len(s) /\ m(j) \in 1 .. Len(s) /\ s[m(i)] = s[m(j)]
        BY <2>1, <3>1, <3>4
      <4>2. m(i) = m(j)
        BY <4>1, DistinctAt
      <4>3. QED BY <1>1, <1>3, <3>4, <4>2
    <3>5. QED BY <3>3, <3>4
  <2>2. QED BY <1>3, <2>1, DistinctAt
<1>6. ASSUME NEW i \in 1 .. Len(s)
      PROVE  LET n == IF i < k THEN i ELSE i + 1
             IN  n \in 1 .. Len(t) /\ t[n] = s[i] /\ IndexOf(t, s[i]) = n
  <2> DEFINE n == IF i < k THEN i ELSE i + 1
  <2>1. n \in 1 .. Len(t) /\ t[n] = s[i]
    BY <1>1, <1>3
  <2>2. QED BY <1>3, <1>5, <2>1, IndexOfUnique
<1>7. ToSet(t) = ToSet(s) \cup {id}
  <2>1. ASSUME NEW x \in ToSet(t) PROVE x \in ToSet(s) \cup {id}
    <3>1. PICK i \in 1 .. Len(t) : t[i] = x
      BY <1>3, Members
    <3>2. x = id \/ \E m \in 1 .. Len(s) : s[m] = x
      BY <1>1, <1>3, <3>1
    <3>3. QED BY <3>2, Members
  <2>2. ASSUME NEW x \in ToSet(s) PROVE x \in ToSet(t)
    <3>1. PICK i \in 1 .. Len(s) : s[i] = x
      BY Members
    <3>2. PICK n \in 1 .. Len(t) : t[n] = x
      BY <1>6, <3>1
    <3>3. t[n] \in ToSet(t)
      BY <1>3, Members
    <3>4. QED BY <3>2, <3>3
  <2>3. id \in ToSet(t)
    BY <1>1, <1>3, Members
  <2>4. QED BY <2>1, <2>2, <2>3
<1>8. \A i, j \in 1 .. Len(s) : i < j => IndexOf(t, s[i]) < IndexOf(t, s[j])
  BY <1>1, <1>6
<1>9. QED BY <1>2, <1>3, <1>5, <1>7, <1>8

(* Append of an id that is not in the list (Vec::push, add_pane). *)
LEMMA AppendProps ==
  ASSUME NEW S, NEW s \in Seq(S), Distinct(s), NEW id \in S, id \notin ToSet(s)
  PROVE  /\ Append(s, id) \in Seq(S)
         /\ Distinct(Append(s, id))
         /\ ToSet(Append(s, id)) = ToSet(s) \cup {id}
         /\ \A i \in 1 .. Len(s) : IndexOf(Append(s, id), s[i]) = i
<1> DEFINE t == Append(s, id)
<1>1. /\ t \in Seq(S)
      /\ Len(t) = Len(s) + 1
      /\ \A i \in 1 .. Len(s) : t[i] = s[i]
      /\ t[Len(s) + 1] = id
  BY AppendProperties
<1> HIDE DEF t
<1>2. \A i \in 1 .. Len(s) : s[i] # id
  BY Members
<1>3. Distinct(t)
  <2>1. ASSUME NEW i \in 1 .. Len(t), NEW j \in 1 .. Len(t), t[i] = t[j]
        PROVE  i = j
    <3>1. CASE i \in 1 .. Len(s) /\ j \in 1 .. Len(s)
      BY <1>1, <2>1, <3>1, DistinctAt
    <3>2. CASE i = Len(s) + 1 \/ j = Len(s) + 1
      BY <1>1, <1>2, <2>1, <3>2
    <3>3. QED BY <1>1, <3>1, <3>2
  <2>2. QED BY <1>1, <2>1, DistinctAt
<1>4. ToSet(t) = ToSet(s) \cup {id}
  <2>1. ASSUME NEW x \in ToSet(t) PROVE x \in ToSet(s) \cup {id}
    <3>1. PICK i \in 1 .. Len(t) : t[i] = x
      BY <1>1, Members
    <3>2. x = id \/ \E m \in 1 .. Len(s) : s[m] = x
      BY <1>1, <3>1
    <3>3. QED BY <3>2, Members
  <2>2. ASSUME NEW x \in ToSet(s) PROVE x \in ToSet(t)
    <3>1. PICK i \in 1 .. Len(s) : s[i] = x
      BY Members
    <3>2. i \in 1 .. Len(t) /\ t[i] = x
      BY <1>1, <3>1
    <3>3. t[i] \in ToSet(t)
      BY <1>1, <3>2, Members
    <3>4. QED BY <3>2, <3>3
  <2>3. id \in ToSet(t)
    <3>1. Len(s) + 1 \in 1 .. Len(t)
      BY <1>1
    <3>2. QED BY <1>1, <3>1, Members
  <2>4. QED BY <2>1, <2>2, <2>3
<1>5. \A i \in 1 .. Len(s) : IndexOf(t, s[i]) = i
  <2>1. TAKE i \in 1 .. Len(s)
  <2>2. i \in 1 .. Len(t) /\ t[i] = s[i]
    BY <1>1
  <2>3. IndexOf(t, t[i]) = i
    BY <1>1, <1>3, <2>2, IndexOfUnique
  <2>4. QED BY <2>2, <2>3
<1>6. QED BY <1>1, <1>3, <1>4, <1>5 DEF t

(* MovedToEnd (bring_floating_to_front): the same ids, once each. *)
LEMMA MovedToEndProps ==
  ASSUME NEW S, NEW s \in Seq(S), Distinct(s), NEW id \in ToSet(s)
  PROVE  /\ MovedToEnd(s, id) \in Seq(S)
         /\ Distinct(MovedToEnd(s, id))
         /\ ToSet(MovedToEnd(s, id)) = ToSet(s)
<1> DEFINE t == Without(s, id)
<1>1. t \in Seq(S) /\ Distinct(t) /\ ToSet(t) = ToSet(s) \ {id}
  BY WithoutProps
<1>2. id \in S
  BY Members
<1> HIDE DEF t
<1>3. Append(t, id) \in Seq(S) /\ Distinct(Append(t, id))
      /\ ToSet(Append(t, id)) = ToSet(t) \cup {id}
  BY <1>1, <1>2, AppendProps
<1>4. QED BY <1>1, <1>3 DEF MovedToEnd, t

(* Inserting at the front (send_floating_to_back) an id not in the list. *)
LEMMA PrependProps ==
  ASSUME NEW S, NEW s \in Seq(S), Distinct(s), NEW id \in S, id \notin ToSet(s)
  PROVE  /\ <<id>> \o s \in Seq(S)
         /\ Distinct(<<id>> \o s)
         /\ ToSet(<<id>> \o s) = ToSet(s) \cup {id}
<1> DEFINE t == <<id>> \o s
<1>1. /\ t \in Seq(S)
      /\ Len(t) = Len(s) + 1
      /\ t[1] = id
      /\ \A i \in 2 .. Len(t) : t[i] = s[i - 1]
  <2>1. <<id>> \in Seq(S) /\ Len(<<id>>) = 1 /\ <<id>>[1] = id
    OBVIOUS
  <2>2. /\ t \in Seq(S)
        /\ Len(t) = 1 + Len(s)
        /\ \A i \in 1 .. 1 + Len(s) : t[i] = IF i <= 1 THEN <<id>>[i] ELSE s[i - 1]
    BY <2>1, ConcatProperties
  <2> HIDE DEF t
  <2>3. QED BY <2>1, <2>2
<1> HIDE DEF t
<1>2. \A i \in 1 .. Len(s) : s[i] # id
  BY Members
<1>3. Distinct(t)
  <2>1. ASSUME NEW i \in 1 .. Len(t), NEW j \in 1 .. Len(t), t[i] = t[j]
        PROVE  i = j
    <3>1. \A n \in 2 .. Len(t) : n - 1 \in 1 .. Len(s)
      BY <1>1
    <3>2. CASE i # 1 /\ j # 1
      <4>1. s[i - 1] = s[j - 1] /\ i - 1 \in 1 .. Len(s) /\ j - 1 \in 1 .. Len(s)
        BY <1>1, <2>1, <3>1, <3>2
      <4>2. i - 1 = j - 1
        BY <4>1, DistinctAt
      <4>3. QED BY <4>2
    <3>3. CASE i = 1 \/ j = 1
      BY <1>1, <1>2, <2>1, <3>1, <3>3
    <3>4. QED BY <3>2, <3>3
  <2>2. QED BY <1>1, <2>1, DistinctAt
<1>4. ToSet(t) = ToSet(s) \cup {id}
  <2>1. ASSUME NEW x \in ToSet(t) PROVE x \in ToSet(s) \cup {id}
    <3>1. PICK i \in 1 .. Len(t) : t[i] = x
      BY <1>1, Members
    <3>2. x = id \/ \E m \in 1 .. Len(s) : s[m] = x
      BY <1>1, <3>1
    <3>3. QED BY <3>2, Members
  <2>2. ASSUME NEW x \in ToSet(s) PROVE x \in ToSet(t)
    <3>1. PICK i \in 1 .. Len(s) : s[i] = x
      BY Members
    <3>2. i + 1 \in 1 .. Len(t) /\ t[i + 1] = x
      BY <1>1, <3>1
    <3>3. t[i + 1] \in ToSet(t)
      BY <1>1, <3>2, Members
    <3>4. QED BY <3>2, <3>3
  <2>3. id \in ToSet(t)
    <3>1. 1 \in 1 .. Len(t)
      BY <1>1
    <3>2. QED BY <1>1, <3>1, Members
  <2>4. QED BY <2>1, <2>2, <2>3
<1>5. QED BY <1>1, <1>3, <1>4 DEF t

(* Swapped (swap_leaves, swap_floating_z_order): the same ids, once each. *)
LEMMA SwappedProps ==
  ASSUME NEW S, NEW s \in Seq(S), Distinct(s),
         NEW a \in ToSet(s), NEW b \in ToSet(s)
  PROVE  /\ Swapped(s, a, b) \in Seq(S)
         /\ Distinct(Swapped(s, a, b))
         /\ ToSet(Swapped(s, a, b)) = ToSet(s)
<1> DEFINE i == IndexOf(s, a)
           j == IndexOf(s, b)
           t == Swapped(s, a, b)
<1>1. i \in 1 .. Len(s) /\ s[i] = a /\ j \in 1 .. Len(s) /\ s[j] = b
  BY IndexOfFinds
<1>2. a \in S /\ b \in S
  BY Members
<1>3. t = [[s EXCEPT ![i] = b] EXCEPT ![j] = a]
  BY DEF Swapped
<1> HIDE DEF i, j, t
<1>4. /\ t \in Seq(S)
      /\ Len(t) = Len(s)
      /\ \A n \in 1 .. Len(s) : t[n] = IF n = j THEN a ELSE IF n = i THEN b ELSE s[n]
  <2> DEFINE u == [s EXCEPT ![i] = b]
  <2>1. /\ u \in Seq(S) /\ Len(u) = Len(s)
        /\ \A n \in 1 .. Len(s) : u[n] = IF n = i THEN b ELSE s[n]
    BY <1>1, <1>2, ExceptSeq
  <2> HIDE DEF u
  <2>2. t = [u EXCEPT ![j] = a]
    BY <1>3 DEF u
  <2>3. /\ t \in Seq(S) /\ Len(t) = Len(u)
        /\ \A n \in 1 .. Len(u) : t[n] = IF n = j THEN a ELSE u[n]
    BY <1>1, <1>2, <2>1, <2>2, ExceptSeq
  <2>4. QED BY <2>1, <2>3
<1> DEFINE m(n) == IF n = j THEN i ELSE IF n = i THEN j ELSE n
<1>5. \A n \in 1 .. Len(s) : m(n) \in 1 .. Len(s) /\ t[n] = s[m(n)] /\ m(m(n)) = n
  BY <1>1, <1>4
<1>6. Distinct(t)
  <2>1. ASSUME NEW x \in 1 .. Len(t), NEW y \in 1 .. Len(t), t[x] = t[y]
        PROVE  x = y
    <3>1. s[m(x)] = s[m(y)] /\ m(x) \in 1 .. Len(s) /\ m(y) \in 1 .. Len(s)
      BY <1>4, <1>5, <2>1
    <3>2. m(x) = m(y)
      BY <3>1, DistinctAt
    <3>3. QED BY <1>4, <3>2
  <2>2. QED BY <1>4, <2>1, DistinctAt
<1>7. ToSet(t) = ToSet(s)
  <2>1. ASSUME NEW x \in ToSet(t) PROVE x \in ToSet(s)
    <3>1. PICK n \in 1 .. Len(t) : t[n] = x
      BY <1>4, Members
    <3>2. m(n) \in 1 .. Len(s) /\ s[m(n)] = x
      BY <1>4, <1>5, <3>1
    <3>3. QED BY <3>2, Members
  <2>2. ASSUME NEW x \in ToSet(s) PROVE x \in ToSet(t)
    <3>1. PICK n \in 1 .. Len(s) : s[n] = x
      BY Members
    <3>2. m(n) \in 1 .. Len(t) /\ t[m(n)] = x
      BY <1>4, <1>5, <3>1
    <3>3. QED BY <1>4, <3>2, Members
  <2>3. QED BY <2>1, <2>2
<1>8. QED BY <1>4, <1>6, <1>7 DEF t

-----------------------------------------------------------------------------

(* A fresh id is not in use, and handing it out leaves room for the next. *)
LEMMA FreshId ==
  ASSUME TabInv, AllocateId
  PROVE  /\ next_pane_id \in PaneId
         /\ next_pane_id \notin panes
         /\ next_pane_id \notin ToSet(floating)
         /\ next_pane_id' = next_pane_id + 1
         /\ next_pane_id' \in 1 .. MaxPaneId
  BY MaxPaneIdAssumption DEF TabInv, TypeOK, AllocateId, PaneId, IdsAllocated, Live

(* The layout list is never empty, and its ends are tiled panes. *)
LEMMA LayoutEnds ==
  ASSUME TabInv
  PROVE  /\ Len(order) >= 1
         /\ order[1] \in panes
         /\ order[Len(order)] \in panes
<1>1. order \in Seq(PaneId) /\ ToSet(order) = panes /\ panes # {}
  BY DEF TabInv, TypeOK, LayoutMatchesPanes
<1>2. Len(order) >= 1
  BY <1>1, Members
<1>3. QED BY <1>1, <1>2, Members

(* The conjuncts of TabInv that speak of the focus alone. *)
LEMMA FocusMoves ==
  ASSUME TabInv, active_pane' \in Live,
         fullscreen_pane' \in PaneId \cup {NoPane},
         UNCHANGED <<order, panes, floating, next_pane_id>>,
         show_floating' \in BOOLEAN
  PROVE  TabInv'
<1>1. Live \subseteq PaneId
  BY Members DEF TabInv, TypeOK, Live
<1>2. QED
  BY <1>1 DEF TabInv, TypeOK, LayoutMatchesPanes, OneHome, FocusNeverDangles,
              IdsAllocated, Live, PaneId

(* A step that only permutes the floating panes, and perhaps moves the      *)
(* focus.                                                                   *)
LEMMA FloatingPermuted ==
  ASSUME TabInv, active_pane' \in Live,
         fullscreen_pane' \in PaneId \cup {NoPane},
         floating' \in Seq(PaneId), Distinct(floating'),
         ToSet(floating') = ToSet(floating),
         UNCHANGED <<order, panes, show_floating, next_pane_id>>
  PROVE  TabInv'
<1>1. Live \subseteq PaneId /\ Live' = Live
  BY Members DEF TabInv, TypeOK, Live
<1>2. QED
  BY <1>1 DEF TabInv, TypeOK, LayoutMatchesPanes, OneHome, FocusNeverDangles,
              IdsAllocated, PaneId

(* A step that only permutes the layout, and perhaps moves the focus. *)
LEMMA LayoutPermuted ==
  ASSUME TabInv, active_pane' \in Live,
         order' \in Seq(PaneId), Distinct(order'), ToSet(order') = ToSet(order),
         UNCHANGED <<panes, floating, show_floating, fullscreen_pane, next_pane_id>>
  PROVE  TabInv'
<1>1. Live \subseteq PaneId /\ Live' = Live
  BY Members DEF TabInv, TypeOK, Live
<1>2. QED
  BY <1>1 DEF TabInv, TypeOK, LayoutMatchesPanes, OneHome, FocusNeverDangles,
              IdsAllocated, PaneId

(* Raising a floating pane permutes the floating panes. *)
LEMMA Raised ==
  ASSUME TabInv, NEW id \in ToSet(floating)
  PROVE  /\ MovedToEnd(floating, id) \in Seq(PaneId)
         /\ Distinct(MovedToEnd(floating, id))
         /\ ToSet(MovedToEnd(floating, id)) = ToSet(floating)
  BY MovedToEndProps DEF TabInv, TypeOK, OneHome

(* The focus cycle is a non-empty list of panes of the tab. *)
LEMMA CycleOfPanes ==
  ASSUME TabInv
  PROVE  /\ focus_cycle_ids \in Seq(PaneId)
         /\ Len(focus_cycle_ids) >= 1
         /\ \A i \in 1 .. Len(focus_cycle_ids) : focus_cycle_ids[i] \in Live
<1> DEFINE f == IF show_floating THEN floating ELSE <<>>
<1>1. order \in Seq(PaneId) /\ f \in Seq(PaneId)
  BY DEF TabInv, TypeOK
<1>2. \A i \in 1 .. Len(order) : order[i] \in Live
  BY <1>1, Members DEF TabInv, LayoutMatchesPanes, Live
<1>3. \A i \in 1 .. Len(f) : f[i] \in Live
  <2>1. CASE show_floating
    BY <2>1, <1>1, Members DEF Live
  <2>2. CASE ~show_floating
    BY <2>2
  <2>3. QED BY <2>1, <2>2
<1> HIDE DEF f
<1>4. /\ order \o f \in Seq(PaneId)
      /\ Len(order \o f) = Len(order) + Len(f)
      /\ \A i \in 1 .. Len(order) + Len(f) :
           (order \o f)[i] = IF i <= Len(order) THEN order[i] ELSE f[i - Len(order)]
  BY <1>1, ConcatProperties
<1>5. ASSUME NEW i \in 1 .. Len(order) + Len(f)
      PROVE  (order \o f)[i] \in Live
  <2>1. CASE i <= Len(order)
    BY <2>1, <1>1, <1>2, <1>4
  <2>2. CASE ~(i <= Len(order))
    <3>1. i - Len(order) \in 1 .. Len(f)
      BY <2>2, <1>1
    <3>2. QED BY <2>2, <3>1, <1>3, <1>4
  <2>3. QED BY <2>1, <2>2
<1>6. Len(order) >= 1
  BY LayoutEnds
<1>7. focus_cycle_ids = order \o f
  BY DEF focus_cycle_ids, f
<1>8. QED BY <1>1, <1>4, <1>5, <1>6, <1>7

(* Moving the focus along the cycle. *)
LEMMA FocusInCycleInv ==
  ASSUME TabInv, NEW id \in Live, FocusInCycle(id)
  PROVE  TabInv'
<1>1. /\ active_pane' = id /\ fullscreen_pane' = NoPane
      /\ UNCHANGED <<order, panes, show_floating, next_pane_id>>
  BY DEF FocusInCycle
<1>2. CASE id \in ToSet(floating)
  <2>1. floating' = MovedToEnd(floating, id)
    BY <1>2 DEF FocusInCycle
  <2>2. QED BY <1>1, <1>2, <2>1, Raised, FloatingPermuted
<1>3. CASE id \notin ToSet(floating)
  <2>1. floating' = floating
    BY <1>3 DEF FocusInCycle
  <2>2. show_floating' \in BOOLEAN
    BY <1>1 DEF TabInv, TypeOK
  <2>3. QED BY <1>1, <2>1, <2>2, FocusMoves
<1>4. QED BY <1>2, <1>3

(* Putting the focus on an end of the cycle. *)
LEMMA FocusCycleEndInv ==
  ASSUME TabInv, NEW id \in Live, FocusCycleEnd(id)
  PROVE  TabInv'
<1>1. show_floating' \in BOOLEAN
  BY DEF TabInv, TypeOK, FocusCycleEnd
<1>2. QED BY <1>1, FocusMoves DEF FocusCycleEnd

(* A step that adds a pane to the layout. *)
LEMMA TiledAdded ==
  ASSUME TabInv, NEW id \in PaneId,
         order' \in Seq(PaneId), Distinct(order'),
         ToSet(order') = ToSet(order) \cup {id},
         panes' = panes \cup {id},
         floating' \in Seq(PaneId), Distinct(floating'),
         ToSet(floating') = ToSet(floating) \ {id},
         next_pane_id' \in 1 .. MaxPaneId, next_pane_id' >= next_pane_id,
         id < next_pane_id', active_pane' = id,
         fullscreen_pane' \in PaneId \cup {NoPane},
         UNCHANGED show_floating
  PROVE  TabInv'
<1>1. TypeOK'
  BY MaxPaneIdAssumption DEF TabInv, TypeOK
<1>2. LayoutMatchesPanes'
  BY DEF TabInv, LayoutMatchesPanes
<1>3. OneHome'
  BY DEF TabInv, OneHome
<1>4. FocusNeverDangles'
  BY DEF FocusNeverDangles, Live
<1>5. IdsAllocated'
  <2>1. Live' \subseteq Live \cup {id} /\ Live \subseteq PaneId
    BY Members DEF Live, TabInv, TypeOK
  <2>2. QED
    BY <2>1, MaxPaneIdAssumption DEF TabInv, TypeOK, IdsAllocated, PaneId
<1>6. QED BY <1>1, <1>2, <1>3, <1>4, <1>5 DEF TabInv

(* A successful split, of the active or of the largest pane. *)
LEMMA SplitAtInv ==
  ASSUME TabInv, NEW target, SplitAt(target)
  PROVE  TabInv'
<1>1. AllocateId /\ target \in ToSet(order)
  BY DEF SplitAt
<1>2. /\ next_pane_id \in PaneId
      /\ next_pane_id \notin panes
      /\ next_pane_id \notin ToSet(floating)
      /\ next_pane_id' = next_pane_id + 1
      /\ next_pane_id' \in 1 .. MaxPaneId
  BY <1>1, FreshId
<1>3. /\ order \in Seq(PaneId) /\ Distinct(order) /\ next_pane_id \notin ToSet(order)
      /\ floating \in Seq(PaneId) /\ Distinct(floating) /\ next_pane_id \in Nat
  BY <1>2, MaxPaneIdAssumption DEF TabInv, TypeOK, LayoutMatchesPanes, OneHome, PaneId
<1>4. /\ order' \in Seq(PaneId)
      /\ Distinct(order')
      /\ ToSet(order') = ToSet(order) \cup {next_pane_id}
  BY <1>1, <1>2, <1>3, InsertAfterProps DEF SplitAt
<1>5. ToSet(floating') = ToSet(floating) \ {next_pane_id}
  BY <1>2 DEF SplitAt
<1>6. next_pane_id < next_pane_id' /\ next_pane_id' >= next_pane_id
  BY <1>2, <1>3
<1>7. QED
  BY <1>2, <1>3, <1>4, <1>5, <1>6, TiledAdded DEF SplitAt

(* A refused split only leaves the fullscreen mode. *)
LEMMA SplitRefusedInv ==
  ASSUME TabInv, split_refused
  PROVE  TabInv'
<1>1. active_pane' \in Live /\ show_floating' \in BOOLEAN
  BY DEF TabInv, TypeOK, FocusNeverDangles, split_refused
<1>2. QED BY <1>1, FocusMoves DEF split_refused

(* What is left of the layout when one of several panes leaves it. *)
LEMMA TiledRemoved ==
  ASSUME TabInv, NEW id \in panes, panes # {id}
  PROVE  LET o == Without(order, id)
         IN  /\ o \in Seq(PaneId)
             /\ Distinct(o)
             /\ ToSet(o) = panes \ {id}
             /\ o[1] \in panes \ {id}
<1> DEFINE o == Without(order, id)
<1>1. order \in Seq(PaneId) /\ Distinct(order) /\ ToSet(order) = panes
  BY DEF TabInv, TypeOK, LayoutMatchesPanes
<1>2. o \in Seq(PaneId) /\ Distinct(o) /\ ToSet(o) = ToSet(order) \ {id}
  BY <1>1, WithoutProps
<1> HIDE DEF o
<1>3. ToSet(o) # {}
  BY <1>1, <1>2
<1>4. Len(o) >= 1
  BY <1>2, <1>3, Members
<1>5. o[1] \in ToSet(o)
  BY <1>2, <1>4, Members
<1>6. QED BY <1>1, <1>2, <1>5 DEF o

(* Closing a tiled pane that is not the last one. *)
LEMMA ClosePaneInv ==
  ASSUME TabInv, NEW id \in PaneId, close_pane(id)
  PROVE  TabInv'
<1>1. /\ id \in panes /\ panes # {id} /\ order' = Without(order, id)
      /\ panes' = panes \ {id}
      /\ fullscreen_pane' = IF fullscreen_pane = id THEN NoPane ELSE fullscreen_pane
      /\ active_pane' = IF active_pane = id THEN order'[1] ELSE active_pane
      /\ UNCHANGED <<floating, show_floating, next_pane_id>>
  BY DEF close_pane
<1>2. /\ order' \in Seq(PaneId) /\ Distinct(order')
      /\ ToSet(order') = panes' /\ order'[1] \in panes'
  BY <1>1, TiledRemoved
<1>3. active_pane' \in Live'
  BY <1>1, <1>2 DEF TabInv, FocusNeverDangles, Live
<1>4. Live' \subseteq Live /\ Live \subseteq PaneId
  BY <1>1, Members DEF TabInv, TypeOK, Live
<1>5. TypeOK'
  BY <1>1, <1>2, <1>3, <1>4 DEF TabInv, TypeOK
<1>6. LayoutMatchesPanes' /\ OneHome' /\ FocusNeverDangles'
  BY <1>1, <1>2, <1>3 DEF TabInv, LayoutMatchesPanes, OneHome, FocusNeverDangles
<1>7. IdsAllocated'
  BY <1>1, <1>4 DEF TabInv, IdsAllocated
<1>8. QED BY <1>5, <1>6, <1>7 DEF TabInv

(* Focusing a pane by id. *)
LEMMA FocusPaneInv ==
  ASSUME TabInv, NEW id \in PaneId, focus_pane(id)
  PROVE  TabInv'
<1>1. /\ active_pane' = id
      /\ UNCHANGED <<order, panes, show_floating, next_pane_id>>
      /\ show_floating' \in BOOLEAN
  BY DEF focus_pane, TabInv, TypeOK
<1>2. CASE id \in panes
  <2>1. fullscreen_pane' \in PaneId \cup {NoPane} /\ floating' = floating
    BY <1>2 DEF focus_pane
  <2>2. id \in Live
    BY <1>2 DEF Live
  <2>3. QED BY <1>1, <2>1, <2>2, FocusMoves
<1>3. CASE id \notin panes
  <2>1. /\ id \in ToSet(floating) /\ floating' = MovedToEnd(floating, id)
        /\ fullscreen_pane' \in PaneId \cup {NoPane}
    BY <1>3 DEF focus_pane, TabInv, TypeOK
  <2>2. id \in Live
    BY <2>1 DEF Live
  <2>3. QED BY <1>1, <2>1, <2>2, Raised, FloatingPermuted
<1>4. QED BY <1>2, <1>3

(* focus_next: the index after the active pane's stays inside the cycle. *)
LEMMA FocusNextInv ==
  ASSUME TabInv, focus_next
  PROVE  TabInv'
<1> DEFINE ids == focus_cycle_ids
           n == NextIndex(IndexOf(ids, active_pane), Len(ids))
<1>1. /\ ids \in Seq(PaneId) /\ Len(ids) >= 1
      /\ \A i \in 1 .. Len(ids) : ids[i] \in Live
  BY CycleOfPanes
<1>2. CASE active_pane \in ToSet(ids)
  <2>1. IndexOf(ids, active_pane) \in 1 .. Len(ids)
    BY <1>1, <1>2, IndexOfFinds
  <2>2. n \in 1 .. Len(ids)
    BY <1>1, <2>1 DEF NextIndex
  <2>3. FocusInCycle(ids[n])
    BY <1>2 DEF focus_next
  <2>4. QED BY <1>1, <2>2, <2>3, FocusInCycleInv
<1>3. CASE active_pane \notin ToSet(ids)
  <2>1. FocusCycleEnd(ids[1])
    BY <1>3 DEF focus_next
  <2>2. QED BY <1>1, <2>1, FocusCycleEndInv
<1>4. QED BY <1>2, <1>3

(* focus_prev: the same for the index before it. *)
LEMMA FocusPrevInv ==
  ASSUME TabInv, focus_prev
  PROVE  TabInv'
<1> DEFINE ids == focus_cycle_ids
           n == PrevIndex(IndexOf(ids, active_pane), Len(ids))
<1>1. /\ ids \in Seq(PaneId) /\ Len(ids) >= 1
      /\ \A i \in 1 .. Len(ids) : ids[i] \in Live
  BY CycleOfPanes
<1>2. CASE active_pane \in ToSet(ids)
  <2>1. IndexOf(ids, active_pane) \in 1 .. Len(ids)
    BY <1>1, <1>2, IndexOfFinds
  <2>2. n \in 1 .. Len(ids)
    BY <1>1, <2>1 DEF PrevIndex
  <2>3. FocusInCycle(ids[n])
    BY <1>2 DEF focus_prev
  <2>4. QED BY <1>1, <2>2, <2>3, FocusInCycleInv
<1>3. CASE active_pane \notin ToSet(ids)
  <2>1. FocusCycleEnd(ids[Len(ids)])
    BY <1>3 DEF focus_prev
  <2>2. QED BY <1>1, <2>1, FocusCycleEndInv
<1>4. QED BY <1>2, <1>3

(* The operations that only move the focus or the fullscreen pane. *)
LEMMA FocusOnlyInv ==
  ASSUME TabInv,
         \/ toggle_fullscreen
         \/ toggle_floating_panes
         \/ \E id \in PaneId : focus_direction(id) \/ toggle_fullscreen_by_id(id)
  PROVE  TabInv'
<1>1. /\ active_pane \in PaneId /\ active_pane \in Live
      /\ fullscreen_pane \in PaneId \cup {NoPane} /\ show_floating \in BOOLEAN
      /\ order[1] \in Live /\ ToSet(order) \subseteq Live
  BY LayoutEnds DEF TabInv, TypeOK, FocusNeverDangles, LayoutMatchesPanes, Live
<1>2. floating # <<>> => Last(floating) \in Live
  <2>1. floating \in Seq(PaneId)
    BY DEF TabInv, TypeOK
  <2>2. floating # <<>> => Len(floating) \in 1 .. Len(floating)
    BY <2>1, EmptySeq
  <2>3. QED BY <2>1, <2>2, Members DEF Last, Live
<1>3. /\ active_pane' \in Live
      /\ fullscreen_pane' \in PaneId \cup {NoPane}
      /\ show_floating' \in BOOLEAN
      /\ UNCHANGED <<order, panes, floating, next_pane_id>>
  <2>1. CASE toggle_fullscreen
    BY <2>1, <1>1 DEF toggle_fullscreen
  <2>2. CASE toggle_floating_panes
    BY <2>2, <1>1, <1>2 DEF toggle_floating_panes
  <2>3. CASE \E id \in PaneId : focus_direction(id)
    BY <2>3, <1>1 DEF focus_direction, Neighbour
  <2>4. CASE \E id \in PaneId : toggle_fullscreen_by_id(id)
    BY <2>4, <1>1 DEF toggle_fullscreen_by_id, Live
  <2>5. QED BY <2>1, <2>2, <2>3, <2>4
<1>4. QED BY <1>3, FocusMoves

(* Opening a floating pane. *)
LEMMA NewFloatingInv ==
  ASSUME TabInv, new_floating_pane
  PROVE  TabInv'
<1>1. /\ AllocateId /\ floating' = Append(floating, next_pane_id)
      /\ show_floating' = TRUE /\ active_pane' = next_pane_id
      /\ UNCHANGED <<order, panes, fullscreen_pane>>
  BY DEF new_floating_pane
<1>2. /\ next_pane_id \in PaneId /\ next_pane_id \in Nat
      /\ next_pane_id \notin panes /\ next_pane_id \notin ToSet(floating)
      /\ next_pane_id' = next_pane_id + 1 /\ next_pane_id' \in 1 .. MaxPaneId
  BY <1>1, FreshId DEF TabInv, TypeOK
<1>3. /\ floating' \in Seq(PaneId) /\ Distinct(floating')
      /\ ToSet(floating') = ToSet(floating) \cup {next_pane_id}
  BY <1>1, <1>2, AppendProps DEF TabInv, TypeOK, OneHome
<1>4. Live' = Live \cup {next_pane_id} /\ Live \subseteq PaneId
  BY <1>1, <1>3, Members DEF Live, TabInv, TypeOK
<1>5. TypeOK' /\ LayoutMatchesPanes' /\ FocusNeverDangles'
  BY <1>1, <1>2, <1>3, <1>4
     DEF TabInv, TypeOK, LayoutMatchesPanes, FocusNeverDangles
<1>6. OneHome'
  BY <1>1, <1>2, <1>3 DEF TabInv, OneHome
<1>7. IdsAllocated'
  BY <1>2, <1>4, MaxPaneIdAssumption DEF TabInv, IdsAllocated, PaneId
<1>8. QED BY <1>5, <1>6, <1>7 DEF TabInv

(* Closing a floating pane. *)
LEMMA CloseFloatingInv ==
  ASSUME TabInv, NEW id \in PaneId, close_floating_pane(id)
  PROVE  TabInv'
<1>1. /\ id \in ToSet(floating) /\ floating' = Without(floating, id)
      /\ UNCHANGED <<order, panes, show_floating, fullscreen_pane, next_pane_id>>
  BY DEF close_floating_pane
<1>2. /\ floating' \in Seq(PaneId) /\ Distinct(floating')
      /\ ToSet(floating') = ToSet(floating) \ {id}
  BY <1>1, WithoutProps DEF TabInv, TypeOK, OneHome
<1>3. floating' # <<>> => Last(floating') \in ToSet(floating')
  <2>1. floating' # <<>> => Len(floating') \in 1 .. Len(floating')
    BY <1>2, EmptySeq
  <2>2. QED BY <1>2, <2>1, Members DEF Last
<1>4. order[1] \in panes
  BY LayoutEnds
<1>5. active_pane' \in Live'
  <2>1. CASE active_pane # id
    BY <2>1, <1>1, <1>2 DEF close_floating_pane, TabInv, FocusNeverDangles, Live
  <2>2. CASE active_pane = id
    BY <2>2, <1>1, <1>3, <1>4 DEF close_floating_pane, Live
  <2>3. QED BY <2>1, <2>2
<1>6. Live' \subseteq Live /\ Live \subseteq PaneId
  BY <1>1, <1>2, Members DEF Live, TabInv, TypeOK
<1>7. TypeOK' /\ LayoutMatchesPanes' /\ FocusNeverDangles'
  BY <1>1, <1>2, <1>5, <1>6
     DEF TabInv, TypeOK, LayoutMatchesPanes, FocusNeverDangles
<1>8. OneHome'
  BY <1>1, <1>2 DEF TabInv, OneHome
<1>9. IdsAllocated'
  BY <1>1, <1>6 DEF TabInv, IdsAllocated
<1>10. QED BY <1>7, <1>8, <1>9 DEF TabInv

(* Embedding a floating pane into the layout. *)
LEMMA EmbedInv ==
  ASSUME TabInv, NEW id \in PaneId, embed_floating_pane(id)
  PROVE  TabInv'
<1>1. /\ id \in ToSet(floating) /\ floating' = Without(floating, id)
      /\ panes' = panes \cup {id} /\ order' = Append(order, id)
      /\ active_pane' = id
      /\ UNCHANGED <<show_floating, fullscreen_pane, next_pane_id>>
  BY DEF embed_floating_pane
<1>2. /\ floating' \in Seq(PaneId) /\ Distinct(floating')
      /\ ToSet(floating') = ToSet(floating) \ {id}
  BY <1>1, WithoutProps DEF TabInv, TypeOK, OneHome
<1>3. id \notin ToSet(order) /\ order \in Seq(PaneId) /\ Distinct(order)
  BY <1>1 DEF TabInv, TypeOK, OneHome, LayoutMatchesPanes
<1>4. /\ order' \in Seq(PaneId) /\ Distinct(order')
      /\ ToSet(order') = ToSet(order) \cup {id}
  BY <1>1, <1>3, AppendProps
<1>5. /\ next_pane_id' \in 1 .. MaxPaneId /\ next_pane_id' >= next_pane_id
      /\ id < next_pane_id' /\ fullscreen_pane' \in PaneId \cup {NoPane}
  BY <1>1, MaxPaneIdAssumption DEF TabInv, TypeOK, IdsAllocated, Live
<1>6. QED BY <1>1, <1>2, <1>4, <1>5, TiledAdded

(* Floating a tiled pane that is not the last one. *)
LEMMA FloatInv ==
  ASSUME TabInv, NEW id \in PaneId, float_pane(id)
  PROVE  TabInv'
<1>1. /\ id \in panes /\ panes # {id} /\ panes' = panes \ {id}
      /\ order' = Without(order, id) /\ floating' = Append(floating, id)
      /\ show_floating' = TRUE /\ active_pane' = id
      /\ UNCHANGED <<fullscreen_pane, next_pane_id>>
  BY DEF float_pane
<1>2. order' \in Seq(PaneId) /\ Distinct(order') /\ ToSet(order') = panes'
  BY <1>1, TiledRemoved
<1>3. id \notin ToSet(floating) /\ floating \in Seq(PaneId) /\ Distinct(floating)
  BY <1>1 DEF TabInv, TypeOK, OneHome
<1>4. /\ floating' \in Seq(PaneId) /\ Distinct(floating')
      /\ ToSet(floating') = ToSet(floating) \cup {id}
  BY <1>1, <1>3, AppendProps
<1>5. Live' = Live
  BY <1>1, <1>4 DEF Live
<1>6. TypeOK' /\ LayoutMatchesPanes'
  BY <1>1, <1>2, <1>4 DEF TabInv, TypeOK, LayoutMatchesPanes
<1>7. OneHome' /\ FocusNeverDangles'
  BY <1>1, <1>4 DEF TabInv, OneHome, FocusNeverDangles, Live
<1>8. IdsAllocated'
  BY <1>1, <1>5 DEF TabInv, IdsAllocated
<1>9. QED BY <1>6, <1>7, <1>8 DEF TabInv

(* Reordering the floating panes. *)
LEMMA ReorderInv ==
  ASSUME TabInv, NEW a \in PaneId, NEW b \in PaneId,
         \/ bring_floating_to_front(a)
         \/ send_floating_to_back(a)
         \/ swap_floating_z_order(a, b)
  PROVE  TabInv'
<1>1. floating \in Seq(PaneId) /\ Distinct(floating)
  BY DEF TabInv, TypeOK, OneHome
<1>2. /\ active_pane' \in Live /\ fullscreen_pane' \in PaneId \cup {NoPane}
      /\ UNCHANGED <<order, panes, show_floating, next_pane_id>>
  BY DEF bring_floating_to_front, send_floating_to_back, swap_floating_z_order,
         ReorderFloating, TabInv, TypeOK, FocusNeverDangles
<1>3. /\ floating' \in Seq(PaneId) /\ Distinct(floating')
      /\ ToSet(floating') = ToSet(floating)
  <2>1. CASE bring_floating_to_front(a)
    BY <2>1, Raised DEF bring_floating_to_front, ReorderFloating
  <2>2. CASE send_floating_to_back(a)
    <3>1. a \in ToSet(floating) /\ floating' = <<a>> \o Without(floating, a)
      BY <2>2 DEF send_floating_to_back, ReorderFloating
    <3> DEFINE w == Without(floating, a)
    <3>2. w \in Seq(PaneId) /\ Distinct(w) /\ ToSet(w) = ToSet(floating) \ {a}
      BY <1>1, WithoutProps
    <3> HIDE DEF w
    <3>3. /\ <<a>> \o w \in Seq(PaneId) /\ Distinct(<<a>> \o w)
          /\ ToSet(<<a>> \o w) = ToSet(w) \cup {a}
      BY <3>2, PrependProps
    <3>4. floating' = <<a>> \o w
      BY <3>1 DEF w
    <3>5. QED BY <3>1, <3>2, <3>3, <3>4
  <2>3. CASE swap_floating_z_order(a, b)
    BY <2>3, <1>1, SwappedProps DEF swap_floating_z_order, ReorderFloating
  <2>4. QED BY <2>1, <2>2, <2>3
<1>4. QED BY <1>2, <1>3, FloatingPermuted

(* Moving a tiled pane. *)
LEMMA MoveInv ==
  ASSUME TabInv, NEW a, NEW b \in PaneId,
         MovePane(a, b) \/ move_pane_backwards(b)
  PROVE  TabInv'
<1>1. order \in Seq(PaneId) /\ Distinct(order) /\ ToSet(order) \subseteq Live
  BY DEF TabInv, TypeOK, LayoutMatchesPanes, Live
<1>2. CASE MovePane(a, b)
  <2>1. a \in ToSet(order) /\ b \in ToSet(order) /\ order' = Swapped(order, a, b)
    BY <1>2 DEF MovePane, Neighbour
  <2>2. QED BY <1>1, <1>2, <2>1, SwappedProps, LayoutPermuted DEF MovePane
<1>3. CASE move_pane_backwards(b)
  <2> DEFINE k == IndexOf(order, b)
  <2>1. b \in ToSet(order) /\ order' = Swapped(order, b, order[k - 1]) /\ b # order[1]
    BY <1>3 DEF move_pane_backwards
  <2>2. k \in 1 .. Len(order) /\ order[k] = b
    BY <1>1, <2>1, IndexOfFinds
  <2>3. k - 1 \in 1 .. Len(order)
    BY <2>1, <2>2
  <2>4. order[k - 1] \in ToSet(order)
    BY <1>1, <2>3, Members
  <2>5. order' \in Seq(PaneId) /\ Distinct(order') /\ ToSet(order') = ToSet(order)
    BY <1>1, <2>1, <2>4, SwappedProps
  <2>6. active_pane' \in Live
    BY <1>3 DEF move_pane_backwards, TabInv, FocusNeverDangles
  <2>7. QED BY <1>3, <2>5, <2>6, LayoutPermuted DEF move_pane_backwards
<1>4. QED BY <1>2, <1>3

(* Every step of the tab keeps the invariant. *)
LEMMA TabStep == TabInv /\ [Next]_vars => TabInv'
<1> SUFFICES ASSUME TabInv, [Next]_vars PROVE TabInv'
  OBVIOUS
<1>1. CASE split_pane \/ split_largest_pane
  BY <1>1, SplitAtInv DEF split_pane, split_largest_pane
<1>2. CASE split_refused
  BY <1>2, SplitRefusedInv
<1>3. CASE focus_next \/ focus_prev
  BY <1>3, FocusNextInv, FocusPrevInv
<1>4. CASE \/ toggle_fullscreen
           \/ toggle_floating_panes
           \/ \E id \in PaneId : focus_direction(id) \/ toggle_fullscreen_by_id(id)
  BY <1>4, FocusOnlyInv
<1>5. CASE \E id \in PaneId : close_pane(id) \/ focus_pane(id)
  BY <1>5, ClosePaneInv, FocusPaneInv
<1>6. CASE new_floating_pane
  BY <1>6, NewFloatingInv
<1>7. CASE \E id \in PaneId :
             close_floating_pane(id) \/ embed_floating_pane(id) \/ float_pane(id)
  BY <1>7, CloseFloatingInv, EmbedInv, FloatInv
<1>8. CASE \E a, b \in PaneId :
             \/ bring_floating_to_front(a)
             \/ send_floating_to_back(a)
             \/ swap_floating_z_order(a, b)
  BY <1>8, ReorderInv
<1>9. CASE \E a, b \in PaneId :
             move_active_pane(b) \/ move_pane_by_id(a, b) \/ move_pane_backwards(b)
  BY <1>9, MoveInv DEF move_active_pane, move_pane_by_id
<1>10. CASE UNCHANGED vars
  BY <1>10 DEF vars, TabInv, TypeOK, LayoutMatchesPanes, OneHome,
               FocusNeverDangles, IdsAllocated, Live
<1>11. QED
  BY <1>1, <1>2, <1>3, <1>4, <1>5, <1>6, <1>7, <1>8, <1>9, <1>10
     DEF Next, AppNext, ApiNext

(* The initial tab satisfies the invariant. *)
LEMMA TabInitInv == Init => TabInv
<1> SUFFICES ASSUME Init PROVE TabInv
  OBVIOUS
<1>1. 0 \in PaneId
  BY MaxPaneIdAssumption DEF PaneId
<1>2. ToSet(order) = {0} /\ ToSet(floating) = {} /\ Distinct(order) /\ Distinct(floating)
  BY DEF Init, ToSet, Distinct
<1>3. TypeOK
  BY <1>1, MaxPaneIdAssumption DEF Init, TypeOK
<1>4. QED
  BY <1>2, <1>3 DEF Init, TabInv, LayoutMatchesPanes, OneHome, FocusNeverDangles,
                    IdsAllocated, Live

(* However long a tab is driven through its whole interface, and however    *)
(* many panes it opens, TabInv holds.                                       *)
THEOREM TabSafe == Spec => []TabInv
  BY TabInitInv, TabStep, PTL DEF Spec

(* The layout tree and the panes map never disagree. *)
THEOREM TabLayoutMatchesPanes == Spec => []LayoutMatchesPanes
<1>1. TabInv => LayoutMatchesPanes
  BY DEF TabInv
<1>2. QED BY <1>1, TabSafe, PTL

(* The focus is always on a pane of the tab. *)
THEOREM TabFocusNeverDangles == Spec => []FocusNeverDangles
<1>1. TabInv => FocusNeverDangles
  BY DEF TabInv
<1>2. QED BY <1>1, TabSafe, PTL

(* How the set of panes and the counter move in one step. *)
LEMMA LiveStep ==
  ASSUME TabInv, TabInv', Next
  PROVE  /\ next_pane_id' >= next_pane_id
         /\ \A id \in Live' \ Live : next_pane_id <= id /\ id < next_pane_id'
<1>1. next_pane_id \in Nat
  BY DEF TabInv, TypeOK
<1>2. CASE \/ split_pane
           \/ split_largest_pane
           \/ new_floating_pane
  <2>1. next_pane_id' = next_pane_id + 1
    BY <1>2 DEF split_pane, split_largest_pane, SplitAt, new_floating_pane, AllocateId
  <2>2. Live' \subseteq Live \cup {next_pane_id}
    <3>1. CASE new_floating_pane
      <4>1. AllocateId /\ floating' = Append(floating, next_pane_id) /\ panes' = panes
        BY <3>1 DEF new_floating_pane
      <4>2. /\ next_pane_id \in PaneId /\ next_pane_id \notin ToSet(floating)
            /\ floating \in Seq(PaneId) /\ Distinct(floating)
        BY <4>1, FreshId DEF TabInv, TypeOK, OneHome
      <4>3. ToSet(floating') = ToSet(floating) \cup {next_pane_id}
        BY <4>1, <4>2, AppendProps
      <4>4. QED BY <4>1, <4>3 DEF Live
    <3>2. CASE split_pane \/ split_largest_pane
      BY <3>2 DEF split_pane, split_largest_pane, SplitAt, Live
    <3>3. QED BY <1>2, <3>1, <3>2
  <2>3. QED BY <1>1, <2>1, <2>2
<1>3. CASE ~(split_pane \/ split_largest_pane \/ new_floating_pane)
  <2>1. next_pane_id' = next_pane_id
    BY <1>3 DEF Next, AppNext, ApiNext, split_refused, close_pane, focus_pane,
      focus_next, focus_prev, FocusInCycle, FocusCycleEnd, focus_direction,
      toggle_fullscreen, toggle_fullscreen_by_id, toggle_floating_panes,
      close_floating_pane, embed_floating_pane, float_pane, ReorderFloating,
      bring_floating_to_front, send_floating_to_back, swap_floating_z_order,
      MovePane, move_active_pane, move_pane_by_id, move_pane_backwards
  <2>2. Live' \subseteq Live
    <3>1. floating \in Seq(PaneId) /\ Distinct(floating)
      BY DEF TabInv, TypeOK, OneHome
    <3>2. \A id : ToSet(Without(floating, id)) = ToSet(floating) \ {id}
      BY <3>1, WithoutProps
    <3>3. \A id \in ToSet(floating) : ToSet(MovedToEnd(floating, id)) = ToSet(floating)
      BY Raised
    <3>4. CASE split_refused \/ toggle_fullscreen \/ toggle_floating_panes
      BY <3>4 DEF split_refused, toggle_fullscreen, toggle_floating_panes, Live
    <3>5. CASE focus_next \/ focus_prev
      BY <3>5, <3>3 DEF focus_next, focus_prev, FocusInCycle, FocusCycleEnd, Live
    <3>6. ASSUME NEW id \in PaneId,
                 \/ close_pane(id)
                 \/ focus_pane(id)
                 \/ focus_direction(id)
                 \/ toggle_fullscreen_by_id(id)
          PROVE  Live' \subseteq Live
      BY <3>3, <3>6 DEF close_pane, focus_pane, focus_direction,
                        toggle_fullscreen_by_id, Live
    <3>7. ASSUME NEW id \in PaneId, close_floating_pane(id) \/ embed_floating_pane(id)
          PROVE  Live' \subseteq Live
      BY <3>2, <3>7 DEF close_floating_pane, embed_floating_pane, Live
    <3>8. ASSUME NEW id \in PaneId, float_pane(id)
          PROVE  Live' \subseteq Live
      <4>1. id \in panes /\ floating' = Append(floating, id) /\ panes' = panes \ {id}
        BY <3>8 DEF float_pane
      <4>2. ToSet(floating') = ToSet(floating) \cup {id}
        BY <3>1, <4>1, AppendProps DEF TabInv, OneHome
      <4>3. QED BY <4>1, <4>2 DEF Live
    <3>9. ASSUME NEW a \in PaneId, NEW b \in PaneId,
                 \/ bring_floating_to_front(a)
                 \/ send_floating_to_back(a)
                 \/ swap_floating_z_order(a, b)
          PROVE  Live' \subseteq Live
      <4>1. panes' = panes
        BY <3>9 DEF bring_floating_to_front, send_floating_to_back,
                    swap_floating_z_order, ReorderFloating
      <4>2. CASE bring_floating_to_front(a)
        BY <3>3, <4>1, <4>2 DEF bring_floating_to_front, ReorderFloating, Live
      <4>3. CASE send_floating_to_back(a)
        <5> DEFINE w == Without(floating, a)
        <5>1. /\ a \in ToSet(floating) /\ floating' = <<a>> \o w
              /\ w \in Seq(PaneId) /\ Distinct(w) /\ ToSet(w) = ToSet(floating) \ {a}
          BY <3>1, <4>3, WithoutProps DEF send_floating_to_back, ReorderFloating
        <5> HIDE DEF w
        <5>2. ToSet(<<a>> \o w) = ToSet(w) \cup {a}
          BY <5>1, PrependProps
        <5>3. QED BY <4>1, <5>1, <5>2 DEF Live
      <4>4. CASE swap_floating_z_order(a, b)
        BY <3>1, <4>1, <4>4, SwappedProps
           DEF swap_floating_z_order, ReorderFloating, Live
      <4>5. QED BY <3>9, <4>2, <4>3, <4>4
    <3>10. ASSUME NEW a, NEW b, MovePane(a, b) \/ move_pane_backwards(b)
           PROVE  Live' \subseteq Live
      BY <3>10 DEF MovePane, move_pane_backwards, Live
    <3>11. QED
      BY <1>3, <3>4, <3>5, <3>6, <3>7, <3>8, <3>9, <3>10
         DEF Next, AppNext, ApiNext, move_active_pane, move_pane_by_id
  <2>3. QED BY <1>1, <2>1, <2>2
<1>4. QED BY <1>2, <1>3

(* An id names the same pane for as long as the tab lives. *)
THEOREM TabIdsNeverReused == Spec => IdsNeverReused
<1> DEFINE A == /\ next_pane_id' >= next_pane_id
                /\ \A id \in Live' \ Live : next_pane_id <= id /\ id < next_pane_id'
<1>1. TabInv /\ TabInv' /\ [Next]_vars => [A]_vars
  BY LiveStep
<1> HIDE DEF A
<1>2. Spec => [][A]_vars
  BY <1>1, TabSafe, PTL DEF Spec
<1>3. QED BY <1>2 DEF A, IdsNeverReused

(* Which steps change the set of tiled panes, and how they change the list. *)
LEMMA SurvivorsStep ==
  ASSUME TabInv, Next, panes' # panes,
         NEW i \in 1 .. Len(order), NEW j \in 1 .. Len(order),
         i < j, order[i] \in panes', order[j] \in panes'
  PROVE  IndexOf(order', order[i]) < IndexOf(order', order[j])
<1>1. order \in Seq(PaneId) /\ Distinct(order) /\ ToSet(order) = panes
  BY DEF TabInv, TypeOK, LayoutMatchesPanes
<1>2. \/ split_pane \/ split_largest_pane
      \/ \E id \in PaneId : close_pane(id) \/ embed_floating_pane(id) \/ float_pane(id)
  BY DEF Next, AppNext, ApiNext, split_refused, focus_pane, new_floating_pane,
      focus_next, focus_prev, FocusInCycle, FocusCycleEnd, focus_direction,
      toggle_fullscreen, toggle_fullscreen_by_id, toggle_floating_panes,
      close_floating_pane, ReorderFloating,
      bring_floating_to_front, send_floating_to_back, swap_floating_z_order,
      MovePane, move_active_pane, move_pane_by_id, move_pane_backwards
<1>3. ASSUME NEW target, SplitAt(target)
      PROVE  IndexOf(order', order[i]) < IndexOf(order', order[j])
  <2>1. /\ target \in ToSet(order) /\ AllocateId
        /\ order' = InsertAfter(order, target, next_pane_id)
    BY <1>3 DEF SplitAt
  <2>2. next_pane_id \in PaneId /\ next_pane_id \notin ToSet(order)
    BY <1>1, <2>1, FreshId
  <2>3. QED BY <1>1, <2>1, <2>2, InsertAfterProps
<1>4. ASSUME NEW id \in PaneId, close_pane(id) \/ float_pane(id)
      PROVE  IndexOf(order', order[i]) < IndexOf(order', order[j])
  <2>1. order' = Without(order, id) /\ panes' = panes \ {id}
    BY <1>4 DEF close_pane, float_pane
  <2>2. order[i] # id /\ order[j] # id
    BY <2>1
  <2>3. QED BY <1>1, <2>1, <2>2, WithoutProps
<1>5. ASSUME NEW id \in PaneId, embed_floating_pane(id)
      PROVE  IndexOf(order', order[i]) < IndexOf(order', order[j])
  <2>1. order' = Append(order, id) /\ id \notin ToSet(order)
    BY <1>1, <1>5 DEF embed_floating_pane, TabInv, OneHome
  <2>2. IndexOf(order', order[i]) = i /\ IndexOf(order', order[j]) = j
    BY <1>1, <2>1, AppendProps
  <2>3. QED BY <2>2
<1>6. QED BY <1>2, <1>3, <1>4, <1>5 DEF split_pane, split_largest_pane

(* Opening and closing panes never permutes the remaining ones. *)
THEOREM TabSurvivorsKeepOrder == Spec => SurvivorsKeepOrder
<1> DEFINE A == panes' # panes =>
                  \A i, j \in DOMAIN order :
                    i < j /\ order[i] \in panes' /\ order[j] \in panes'
                      => IndexOf(order', order[i]) < IndexOf(order', order[j])
<1>1. TabInv /\ [Next]_vars => [A]_vars
  <2> SUFFICES ASSUME TabInv, Next PROVE A
    OBVIOUS
  <2>1. DOMAIN order = 1 .. Len(order)
    BY DEF TabInv, TypeOK
  <2>2. QED BY <2>1, SurvivorsStep
<1> HIDE DEF A
<1>2. Spec => [][A]_vars
  BY <1>1, TabSafe, PTL DEF Spec
<1>3. QED BY <1>2 DEF A, SurvivorsKeepOrder

(* A pane is tiled or floating, never both, and occurs once. *)
THEOREM TabOneHome == Spec => []OneHome
<1>1. TabInv => OneHome
  BY DEF TabInv
<1>2. QED BY <1>1, TabSafe, PTL

(* The steps the program takes keep the fullscreen pane focused. *)
LEMMA AppStep == AppInv /\ [AppNext]_vars => AppInv'
<1> SUFFICES ASSUME AppInv, [AppNext]_vars PROVE AppInv'
  OBVIOUS
<1>1. TabInv /\ floating = <<>> /\ FullscreenHasFocus
  BY DEF AppInv
<1>2. TabInv'
  BY <1>1, TabStep DEF Next
<1>3. ToSet(floating) = {} /\ active_pane # NoPane
  BY <1>1, NoPaneAssumption, MaxPaneIdAssumption DEF ToSet, TabInv, TypeOK, PaneId
<1>4. CASE split_pane \/ split_refused
  BY <1>1, <1>2, <1>4
     DEF split_pane, SplitAt, split_refused, AppInv, FullscreenHasFocus
<1>5. CASE focus_next \/ focus_prev
  <2>1. \A id : id \notin ToSet(floating)
    BY <1>3
  <2>2. floating' = floating /\ fullscreen_pane' = NoPane
    BY <1>5, <2>1 DEF focus_next, focus_prev, FocusInCycle, FocusCycleEnd
  <2>3. QED BY <1>1, <1>2, <2>2 DEF AppInv, FullscreenHasFocus
<1>6. CASE toggle_fullscreen
  BY <1>1, <1>2, <1>6 DEF toggle_fullscreen, AppInv, FullscreenHasFocus
<1>7. CASE toggle_floating_panes
  <2>1. active_pane' = active_pane /\ floating' = floating
        /\ fullscreen_pane' = fullscreen_pane
    BY <1>1, <1>3, <1>7 DEF toggle_floating_panes
  <2>2. QED BY <1>1, <1>2, <2>1 DEF AppInv, FullscreenHasFocus
<1>8. ASSUME NEW id \in PaneId, close_pane(id)
      PROVE  AppInv'
  BY <1>1, <1>2, <1>8 DEF close_pane, AppInv, FullscreenHasFocus
<1>9. ASSUME NEW id \in PaneId, focus_pane(id)
      PROVE  AppInv'
  BY <1>1, <1>2, <1>3, <1>9 DEF focus_pane, AppInv, FullscreenHasFocus
<1>10. ASSUME NEW id \in PaneId, focus_direction(id)
      PROVE  AppInv'
  BY <1>1, <1>2, <1>10 DEF focus_direction, AppInv, FullscreenHasFocus
<1>11. CASE UNCHANGED vars
  BY <1>1, <1>2, <1>11 DEF vars, AppInv, FullscreenHasFocus
<1>12. QED
  BY <1>4, <1>5, <1>6, <1>7, <1>8, <1>9, <1>10, <1>11 DEF AppNext

(* Under the program's own operations no keystroke goes to a pane hidden    *)
(* behind a fullscreen one.                                                 *)
THEOREM AppFullscreenHasFocus == AppSpec => []FullscreenHasFocus
<1>1. Init => AppInv
  BY TabInitInv DEF Init, AppInv, FullscreenHasFocus
<1>2. AppInv => FullscreenHasFocus
  BY DEF AppInv
<1>3. QED BY <1>1, <1>2, AppStep, PTL DEF AppSpec

(* The same of every single step, after any use of the interface. *)
THEOREM TabAppKeepsFocus == Spec => AppKeepsFocus
<1> DEFINE A == AppNext /\ floating = <<>> /\ FullscreenHasFocus => FullscreenHasFocus'
<1>1. TabInv /\ [Next]_vars => [A]_vars
  BY AppStep DEF AppInv
<1>2. Spec => [][A]_vars
  BY <1>1, TabSafe, PTL DEF Spec
<1>3. QED BY <1>2 DEF A, AppKeepsFocus

-----------------------------------------------------------------------------
(* The tabs of a session, for any number of them.  TabIdsUnique carries the *)
(* proof: which tab is under an index after a removal or a move can be told *)
(* from the ids alone only while they are distinct and below the counter    *)
(* the next one comes from.                                                 *)

(* TabIdsUnique by positions. *)
LEMMA UniqueAt ==
  ASSUME NEW s \in Seq(TabId), NEW n
  PROVE  (Distinct(s) /\ \A t \in ToSet(s) : t < n)
           <=> /\ \A i, j \in 1 .. Len(s) : s[i] = s[j] => i = j
               /\ \A i \in 1 .. Len(s) : s[i] < n
  BY DistinctAt, Members

(* What the invariant says of the list of tabs, position by position. *)
LEMMA TabsAt ==
  ASSUME SessionInv
  PROVE  /\ tabs \in Seq(TabId)
         /\ Len(tabs) \in Nat
         /\ active_tab \in 1 .. Len(tabs)
         /\ \A i, j \in 1 .. Len(tabs) : tabs[i] = tabs[j] => i = j
         /\ \A i \in 1 .. Len(tabs) : tabs[i] \in TabId /\ tabs[i] < next_tab_id
<1>1. tabs \in Seq(TabId) /\ Len(tabs) \in Nat /\ active_tab \in 1 .. Len(tabs)
  BY DEF SessionInv, SessionTypeOK, ActiveTabExists
<1>2. QED BY <1>1, UniqueAt, Members DEF SessionInv, TabIdsUnique

(* The invariant from the facts about positions. *)
LEMMA InvFromPositions ==
  ASSUME tabs' \in Seq(TabId),
         active_tab' \in 1 .. Len(tabs'),
         \A i, j \in 1 .. Len(tabs') : tabs'[i] = tabs'[j] => i = j,
         \A i \in 1 .. Len(tabs') : tabs'[i] < next_tab_id',
         previous_tab' \in (Nat \ {0}) \cup {NoTab},
         next_tab_id' \in 1 .. MaxTabId,
         pane_count' \in [TabId -> Nat \ {0}]
  PROVE  SessionInv'
<1>1. Distinct(tabs') /\ \A t \in ToSet(tabs') : t < next_tab_id'
  BY UniqueAt
<1>2. QED BY <1>1 DEF SessionInv, SessionTypeOK, ActiveTabExists, TabIdsUnique

(* A step that leaves the list and the counter alone. *)
LEMMA ListKept ==
  ASSUME SessionInv, UNCHANGED <<tabs, next_tab_id>>,
         active_tab' \in 1 .. Len(tabs),
         previous_tab' \in (Nat \ {0}) \cup {NoTab},
         pane_count' \in [TabId -> Nat \ {0}]
  PROVE  SessionInv'
  BY DEF SessionInv, SessionTypeOK, ActiveTabExists, TabIdsUnique

(* What FocusFollowsTab asks of one step. *)
FocusKept ==
  tabs' # tabs /\ ToSet(tabs') \subseteq ToSet(tabs) /\ ActiveTab \in ToSet(tabs')
    => tabs'[active_tab'] = ActiveTab

(* A fresh id put into the list leaves it without repetition. *)
LEMMA InsertFresh ==
  ASSUME NEW s \in Seq(TabId), NEW k \in 1 .. Len(s) + 1, NEW e \in TabId,
         \A i, j \in 1 .. Len(s) : s[i] = s[j] => i = j,
         \A i \in 1 .. Len(s) : s[i] < e
  PROVE  /\ InsertAt(s, k, e) \in Seq(TabId)
         /\ Len(InsertAt(s, k, e)) = Len(s) + 1
         /\ InsertAt(s, k, e)[k] = e
         /\ \A i, j \in 1 .. Len(s) + 1 :
              InsertAt(s, k, e)[i] = InsertAt(s, k, e)[j] => i = j
         /\ \A i \in 1 .. Len(s) + 1 : InsertAt(s, k, e)[i] < e + 1
<1> DEFINE t == InsertAt(s, k, e)
<1>1. /\ t \in Seq(TabId)
      /\ Len(t) = Len(s) + 1
      /\ \A i \in 1 .. Len(s) + 1 :
           t[i] = IF i < k THEN s[i] ELSE IF i = k THEN e ELSE s[i - 1]
  BY InsertAtShape
<1> HIDE DEF t
<1>2. \A i \in 1 .. Len(s) + 1 : i # k => t[i] < e
  <2>1. SUFFICES ASSUME NEW i \in 1 .. Len(s) + 1, i # k PROVE t[i] < e
    OBVIOUS
  <2>2. CASE i < k
    BY <1>1, <2>2
  <2>3. CASE i > k
    <3>1. i - 1 \in 1 .. Len(s) /\ t[i] = s[i - 1]
      BY <1>1, <2>3
    <3>2. QED BY <3>1
  <2>4. QED BY <2>1, <2>2, <2>3
<1>3. t[k] = e /\ e \in Nat
  BY <1>1 DEF TabId
<1>4. \A i \in 1 .. Len(s) + 1 : t[i] \in Nat
  <2>1. \A i \in 1 .. Len(s) + 1 : t[i] \in TabId
    BY <1>1, Members
  <2>2. QED BY <2>1 DEF TabId
<1>5. \A i \in 1 .. Len(s) + 1 : t[i] < e + 1
  BY <1>2, <1>3, <1>4
<1>6. \A i, j \in 1 .. Len(s) + 1 : t[i] = t[j] => i = j
  <2>1. SUFFICES ASSUME NEW i \in 1 .. Len(s) + 1, NEW j \in 1 .. Len(s) + 1,
                        t[i] = t[j]
                 PROVE  i = j
    OBVIOUS
  <2>2. CASE i = k \/ j = k
    BY <1>2, <1>3, <1>4, <2>1, <2>2
  <2>3. CASE i # k /\ j # k
    <3> DEFINE old(n) == IF n < k THEN n ELSE n - 1
    <3>1. old(i) \in 1 .. Len(s) /\ t[i] = s[old(i)]
      BY <1>1, <2>3
    <3>2. old(j) \in 1 .. Len(s) /\ t[j] = s[old(j)]
      BY <1>1, <2>3
    <3>3. old(i) = old(j)
      <4> HIDE DEF old
      <4> QED BY <2>1, <3>1, <3>2
    <3>4. QED BY <2>3, <3>3
  <2>4. QED BY <2>2, <2>3
<1>7. QED BY <1>1, <1>3, <1>5, <1>6 DEF t

LEMMA NewTab ==
  ASSUME SessionInv, new_tab
  PROVE  SessionInv' /\ FocusKept
<1>1. /\ tabs \in Seq(TabId)
      /\ Len(tabs) \in Nat
      /\ \A i, j \in 1 .. Len(tabs) : tabs[i] = tabs[j] => i = j
      /\ \A i \in 1 .. Len(tabs) : tabs[i] \in TabId /\ tabs[i] < next_tab_id
  BY TabsAt
<1>2. /\ next_tab_id \in TabId
      /\ next_tab_id' = next_tab_id + 1
      /\ next_tab_id' \in 1 .. MaxTabId
  BY MaxTabIdAssumption DEF new_tab, AllocateTabId, SessionInv, SessionTypeOK, TabId
<1>3. /\ tabs' \in Seq(TabId)
      /\ Len(tabs') = Len(tabs) + 1
      /\ \A i \in 1 .. Len(tabs) : tabs'[i] = tabs[i]
      /\ tabs'[Len(tabs) + 1] = next_tab_id
  BY <1>1, <1>2, AppendProperties DEF new_tab
<1>4. active_tab' = Len(tabs')
  BY DEF new_tab
<1>5. SessionInv'
  <2>1. \A i, j \in 1 .. Len(tabs') : tabs'[i] = tabs'[j] => i = j
    BY <1>1, <1>2, <1>3 DEF TabId
  <2>2. \A i \in 1 .. Len(tabs') : tabs'[i] < next_tab_id'
    BY <1>1, <1>2, <1>3 DEF TabId
  <2>3. active_tab' \in 1 .. Len(tabs')
    BY <1>1, <1>3, <1>4
  <2>4. previous_tab' \in (Nat \ {0}) \cup {NoTab} /\ pane_count' \in [TabId -> Nat \ {0}]
    BY DEF new_tab, SessionInv, SessionTypeOK
  <2>5. QED BY <1>2, <1>3, <2>1, <2>2, <2>3, <2>4, InvFromPositions
<1>6. FocusKept
  <2>1. next_tab_id \in ToSet(tabs')
    BY <1>1, <1>3, Members
  <2>2. next_tab_id \notin ToSet(tabs)
    BY <1>1, <1>2, Members DEF TabId
  <2>3. QED BY <2>1, <2>2 DEF FocusKept
<1>7. QED BY <1>5, <1>6

LEMMA CloseTab ==
  ASSUME SessionInv, NEW index \in 1 .. MaxTabId, close_tab(index)
  PROVE  SessionInv' /\ FocusKept
<1>1. /\ tabs \in Seq(TabId)
      /\ Len(tabs) \in Nat
      /\ active_tab \in 1 .. Len(tabs)
      /\ \A i, j \in 1 .. Len(tabs) : tabs[i] = tabs[j] => i = j
      /\ \A i \in 1 .. Len(tabs) : tabs[i] \in TabId /\ tabs[i] < next_tab_id
  BY TabsAt
<1>2. index \in 1 .. Len(tabs) /\ Len(tabs) > 1
  BY <1>1, MaxTabIdAssumption DEF close_tab
<1>3. /\ tabs' \in Seq(TabId)
      /\ Len(tabs') = Len(tabs) - 1
      /\ \A i \in 1 .. Len(tabs) - 1 :
           tabs'[i] = IF i < index THEN tabs[i] ELSE tabs[i + 1]
  BY <1>1, <1>2, RemoveAtShape DEF close_tab
<1>4. active_tab' = IF active_tab > Len(tabs) - 1 THEN Len(tabs) - 1
                    ELSE IF active_tab > index THEN active_tab - 1 ELSE active_tab
  BY DEF close_tab, IndexAfterClose
<1>5. SessionInv'
  <2>1. \A i, j \in 1 .. Len(tabs') : tabs'[i] = tabs'[j] => i = j
    BY <1>1, <1>2, <1>3
  <2>2. \A i \in 1 .. Len(tabs') : tabs'[i] < next_tab_id'
    <3>1. next_tab_id' = next_tab_id
      BY DEF close_tab
    <3>2. QED BY <1>1, <1>2, <1>3, <3>1
  <2>3. active_tab' \in 1 .. Len(tabs')
    BY <1>1, <1>2, <1>3, <1>4
  <2>4. /\ previous_tab' \in (Nat \ {0}) \cup {NoTab} /\ pane_count' \in [TabId -> Nat \ {0}]
        /\ next_tab_id' \in 1 .. MaxTabId
    BY DEF close_tab, SessionInv, SessionTypeOK
  <2>5. QED BY <1>3, <2>1, <2>2, <2>3, <2>4, InvFromPositions
<1>6. FocusKept
  <2>1. SUFFICES ASSUME ActiveTab \in ToSet(tabs')
                 PROVE  tabs'[active_tab'] = ActiveTab
    BY DEF FocusKept
  <2>2. PICK k \in 1 .. Len(tabs') : tabs'[k] = ActiveTab
    BY <1>3, <2>1, Members
  <2>3. active_tab # index
    BY <1>1, <1>2, <1>3, <2>2 DEF ActiveTab
  <2>4. QED BY <1>1, <1>2, <1>3, <1>4, <2>3 DEF ActiveTab
<1>7. QED BY <1>5, <1>6

LEMMA SwapActive ==
  ASSUME SessionInv, NEW index \in 1 .. Len(tabs), SwapActiveWith(index)
  PROVE  SessionInv' /\ FocusKept
<1>1. /\ tabs \in Seq(TabId)
      /\ Len(tabs) \in Nat
      /\ active_tab \in 1 .. Len(tabs)
      /\ \A i, j \in 1 .. Len(tabs) : tabs[i] = tabs[j] => i = j
      /\ \A i \in 1 .. Len(tabs) : tabs[i] \in TabId /\ tabs[i] < next_tab_id
  BY TabsAt
<1>2. /\ tabs' \in Seq(TabId)
      /\ Len(tabs') = Len(tabs)
      /\ \A i \in 1 .. Len(tabs) :
           tabs'[i] = IF i = index THEN tabs[active_tab]
                      ELSE IF i = active_tab THEN tabs[index] ELSE tabs[i]
  <2>1. tabs' = [[tabs EXCEPT ![active_tab] = tabs[index]]
                   EXCEPT ![index] = tabs[active_tab]]
    BY DEF SwapActiveWith
  <2>2. /\ [tabs EXCEPT ![active_tab] = tabs[index]] \in Seq(TabId)
        /\ Len([tabs EXCEPT ![active_tab] = tabs[index]]) = Len(tabs)
        /\ \A i \in 1 .. Len(tabs) :
             [tabs EXCEPT ![active_tab] = tabs[index]][i]
               = IF i = active_tab THEN tabs[index] ELSE tabs[i]
    BY <1>1, ExceptSeq
  <2>3. QED BY <1>1, <2>1, <2>2, ExceptSeq
<1>3. active_tab' = index /\ next_tab_id' = next_tab_id
  BY DEF SwapActiveWith
<1>4. SessionInv'
  <2>1. \A i, j \in 1 .. Len(tabs') : tabs'[i] = tabs'[j] => i = j
    BY <1>1, <1>2
  <2>2. \A i \in 1 .. Len(tabs') : tabs'[i] < next_tab_id'
    BY <1>1, <1>2, <1>3
  <2>3. /\ previous_tab' \in (Nat \ {0}) \cup {NoTab} /\ pane_count' \in [TabId -> Nat \ {0}]
        /\ next_tab_id' \in 1 .. MaxTabId
    BY DEF SwapActiveWith, SessionInv, SessionTypeOK
  <2>4. QED BY <1>2, <1>3, <2>1, <2>2, <2>3, InvFromPositions
<1>5. FocusKept
  BY <1>1, <1>2, <1>3 DEF FocusKept, ActiveTab
<1>6. QED BY <1>4, <1>5

(* The first tab is carried over the right edge. *)
LEMMA WrapLeft ==
  ASSUME SessionInv, Len(tabs) > 1, active_tab = 1,
         tabs' = Append(RemoveAt(tabs, 1), tabs[1]),
         active_tab' = Len(tabs'),
         UNCHANGED <<previous_tab, next_tab_id, pane_count>>
  PROVE  SessionInv' /\ FocusKept
<1> DEFINE r == RemoveAt(tabs, 1)
<1>1. /\ tabs \in Seq(TabId)
      /\ Len(tabs) \in Nat
      /\ \A i, j \in 1 .. Len(tabs) : tabs[i] = tabs[j] => i = j
      /\ \A i \in 1 .. Len(tabs) : tabs[i] \in TabId /\ tabs[i] < next_tab_id
  BY TabsAt
<1>2. /\ r \in Seq(TabId)
      /\ Len(r) = Len(tabs) - 1
      /\ \A i \in 1 .. Len(tabs) - 1 : r[i] = tabs[i + 1]
  BY <1>1, RemoveAtShape
<1> HIDE DEF r
<1>3. /\ tabs' \in Seq(TabId)
      /\ Len(tabs') = Len(tabs)
      /\ \A i \in 1 .. Len(tabs) :
           tabs'[i] = IF i = Len(tabs) THEN tabs[1] ELSE tabs[i + 1]
  <2>1. tabs' = Append(r, tabs[1]) /\ tabs[1] \in TabId
    BY <1>1 DEF r
  <2>2. /\ tabs' \in Seq(TabId)
        /\ Len(tabs') = Len(r) + 1
        /\ \A i \in 1 .. Len(r) : tabs'[i] = r[i]
        /\ tabs'[Len(r) + 1] = tabs[1]
    <3> DEFINE e == tabs[1]
    <3>1. e \in TabId /\ tabs' = Append(r, e)
      BY <2>1
    <3> HIDE DEF e
    <3>2. /\ Append(r, e) \in Seq(TabId)
          /\ Len(Append(r, e)) = Len(r) + 1
          /\ \A i \in 1 .. Len(r) : Append(r, e)[i] = r[i]
          /\ Append(r, e)[Len(r) + 1] = e
      BY <1>2, <3>1, AppendProperties
    <3>3. QED BY <3>1, <3>2, Zenon DEF e
  <2>3. QED BY <1>1, <1>2, <2>2
<1>4. SessionInv'
  <2>1. \A i, j \in 1 .. Len(tabs') : tabs'[i] = tabs'[j] => i = j
    <3> DEFINE old(n) == IF n = Len(tabs) THEN 1 ELSE n + 1
    <3>1. \A i \in 1 .. Len(tabs') :
            old(i) \in 1 .. Len(tabs) /\ tabs'[i] = tabs[old(i)]
      BY <1>1, <1>3
    <3>2. \A i, j \in 1 .. Len(tabs') : old(i) = old(j) => i = j
      BY <1>1, <1>3
    <3> HIDE DEF old
    <3>3. QED BY <1>1, <3>1, <3>2
  <2>2. \A i \in 1 .. Len(tabs') : tabs'[i] < next_tab_id'
    BY <1>1, <1>3
  <2>3. /\ previous_tab' \in (Nat \ {0}) \cup {NoTab} /\ pane_count' \in [TabId -> Nat \ {0}]
        /\ next_tab_id' \in 1 .. MaxTabId
    BY DEF SessionInv, SessionTypeOK
  <2>4. active_tab' \in 1 .. Len(tabs')
    BY <1>1, <1>3
  <2>5. QED BY <1>3, <2>1, <2>2, <2>3, <2>4, InvFromPositions
<1>5. FocusKept
  BY <1>1, <1>3 DEF FocusKept, ActiveTab
<1>6. QED BY <1>4, <1>5

(* The list with its last tab carried to the front, by positions. *)
LEMMA LastToFront ==
  ASSUME NEW s \in Seq(TabId), NEW n \in 1 .. Len(s), n = Len(s)
  PROVE  /\ InsertAt(RemoveAt(s, n), 1, s[n]) \in Seq(TabId)
         /\ Len(InsertAt(RemoveAt(s, n), 1, s[n])) = n
         /\ InsertAt(RemoveAt(s, n), 1, s[n])[1] = s[n]
         /\ \A i \in 2 .. n : InsertAt(RemoveAt(s, n), 1, s[n])[i] = s[i - 1]
<1> DEFINE r == RemoveAt(s, n)
           e == s[n]
           t == InsertAt(r, 1, e)
<1>1. /\ r \in Seq(TabId)
      /\ Len(r) = n - 1
      /\ \A i \in 1 .. n - 1 : r[i] = s[i]
  BY RemoveAtShape
<1>2. e \in TabId
  OBVIOUS
<1> HIDE DEF r, e
<1>3. 1 \in 1 .. Len(r) + 1
  BY <1>1
<1>4. /\ t \in Seq(TabId)
      /\ Len(t) = Len(r) + 1
      /\ \A i \in 1 .. Len(r) + 1 :
           t[i] = IF i < 1 THEN r[i] ELSE IF i = 1 THEN e ELSE r[i - 1]
  BY <1>1, <1>2, <1>3, InsertAtShape
<1> HIDE DEF t
<1>5. t \in Seq(TabId) /\ Len(t) = n /\ t[1] = e
  BY <1>1, <1>4
<1>6. \A i \in 2 .. n : t[i] = s[i - 1]
  BY <1>1, <1>4
<1>7. QED BY <1>5, <1>6 DEF t, r, e

(* The last tab is carried over the left edge. *)
LEMMA WrapRight ==
  ASSUME SessionInv, Len(tabs) > 1, active_tab = Len(tabs),
         tabs' = InsertAt(RemoveAt(tabs, active_tab), 1, tabs[active_tab]),
         active_tab' = 1,
         UNCHANGED <<previous_tab, next_tab_id, pane_count>>
  PROVE  SessionInv' /\ FocusKept
<1>1. /\ tabs \in Seq(TabId)
      /\ Len(tabs) \in Nat
      /\ active_tab \in 1 .. Len(tabs)
      /\ \A i, j \in 1 .. Len(tabs) : tabs[i] = tabs[j] => i = j
      /\ \A i \in 1 .. Len(tabs) : tabs[i] \in TabId /\ tabs[i] < next_tab_id
  BY TabsAt
<1>2. /\ tabs' \in Seq(TabId)
      /\ Len(tabs') = Len(tabs)
      /\ tabs'[1] = tabs[Len(tabs)]
      /\ \A i \in 2 .. Len(tabs) : tabs'[i] = tabs[i - 1]
  BY <1>1, LastToFront
<1>3. SessionInv'
  <2>1. \A i, j \in 1 .. Len(tabs') : tabs'[i] = tabs'[j] => i = j
    <3> DEFINE old(n) == IF n = 1 THEN Len(tabs) ELSE n - 1
    <3>1. \A i \in 1 .. Len(tabs') :
            old(i) \in 1 .. Len(tabs) /\ tabs'[i] = tabs[old(i)]
      BY <1>1, <1>2
    <3>2. \A i, j \in 1 .. Len(tabs') : old(i) = old(j) => i = j
      BY <1>1, <1>2
    <3> HIDE DEF old
    <3>3. QED BY <1>1, <3>1, <3>2
  <2>2. \A i \in 1 .. Len(tabs') : tabs'[i] < next_tab_id'
    BY <1>1, <1>2
  <2>3. /\ previous_tab' \in (Nat \ {0}) \cup {NoTab} /\ pane_count' \in [TabId -> Nat \ {0}]
        /\ next_tab_id' \in 1 .. MaxTabId
    BY DEF SessionInv, SessionTypeOK
  <2>4. active_tab' \in 1 .. Len(tabs')
    BY <1>1, <1>2
  <2>5. QED BY <1>2, <2>1, <2>2, <2>3, <2>4, InvFromPositions
<1>4. FocusKept
  BY <1>1, <1>2 DEF FocusKept, ActiveTab
<1>5. QED BY <1>3, <1>4

LEMMA BreakPane ==
  ASSUME SessionInv, break_pane_to_new_tab
  PROVE  SessionInv' /\ FocusKept
<1>1. /\ tabs \in Seq(TabId)
      /\ Len(tabs) \in Nat
      /\ active_tab \in 1 .. Len(tabs)
      /\ \A i, j \in 1 .. Len(tabs) : tabs[i] = tabs[j] => i = j
      /\ \A i \in 1 .. Len(tabs) : tabs[i] \in TabId /\ tabs[i] < next_tab_id
  BY TabsAt
<1>2. /\ next_tab_id \in TabId
      /\ next_tab_id' = next_tab_id + 1
      /\ next_tab_id' \in 1 .. MaxTabId
  BY MaxTabIdAssumption DEF break_pane_to_new_tab, AllocateTabId, SessionInv, SessionTypeOK, TabId
<1>3. active_tab + 1 \in 1 .. Len(tabs) + 1
  BY <1>1
<1>4. tabs' = InsertAt(tabs, active_tab + 1, next_tab_id)
  BY DEF break_pane_to_new_tab
<1>5. /\ tabs' \in Seq(TabId)
      /\ Len(tabs') = Len(tabs) + 1
      /\ tabs'[active_tab + 1] = next_tab_id
      /\ \A i, j \in 1 .. Len(tabs') : tabs'[i] = tabs'[j] => i = j
      /\ \A i \in 1 .. Len(tabs') : tabs'[i] < next_tab_id + 1
  <2> HIDE DEF TabId
  <2>1. \A k \in 1 .. Len(tabs) + 1 :
          LET t == InsertAt(tabs, k, next_tab_id)
          IN  /\ t \in Seq(TabId)
              /\ Len(t) = Len(tabs) + 1
              /\ t[k] = next_tab_id
              /\ \A i, j \in 1 .. Len(tabs) + 1 : t[i] = t[j] => i = j
              /\ \A i \in 1 .. Len(tabs) + 1 : t[i] < next_tab_id + 1
    BY <1>1, <1>2, InsertFresh, Zenon
  <2>2. QED BY <1>3, <1>4, <2>1, Zenon
<1>6. active_tab' = active_tab + 1 /\ previous_tab' = active_tab
  BY DEF break_pane_to_new_tab
<1>7. SessionInv'
  <2>1. active_tab' \in 1 .. Len(tabs') /\ previous_tab' \in (Nat \ {0}) \cup {NoTab}
    BY <1>1, <1>5, <1>6
  <2>2. pane_count' \in [TabId -> Nat \ {0}]
    <3>1. ActiveTab \in TabId
      BY <1>1 DEF ActiveTab
    <3>2. QED BY <3>1 DEF break_pane_to_new_tab, SessionInv, SessionTypeOK
  <2>3. QED BY <1>2, <1>5, <2>1, <2>2, InvFromPositions
<1>8. FocusKept
  <2>1. next_tab_id \in ToSet(tabs')
    <3>1. active_tab + 1 \in 1 .. Len(tabs')
      BY <1>3, <1>5
    <3>2. QED BY <1>5, <3>1, Members
  <2>2. next_tab_id \notin ToSet(tabs)
    BY <1>1, <1>2, Members DEF TabId
  <2>3. QED BY <2>1, <2>2 DEF FocusKept
<1>9. QED BY <1>7, <1>8

(* Every step keeps the invariant, and the user on the tab. *)
LEMMA SessionStep ==
  ASSUME SessionInv, [SessionNext]_session_vars
  PROVE  SessionInv' /\ [FocusKept]_session_vars
<1> USE DEF SessionInv, SessionTypeOK, ActiveTabExists
<1>0. tabs' = tabs => FocusKept
  BY DEF FocusKept
<1>1. CASE new_tab
  BY <1>1, NewTab
<1>2. ASSUME NEW index \in 1 .. MaxTabId, close_tab(index)
      PROVE  SessionInv' /\ FocusKept
  BY <1>2, CloseTab
<1>3. ASSUME NEW index \in 1 .. MaxTabId, switch_tab(index)
      PROVE  SessionInv' /\ FocusKept
  <2>1. /\ UNCHANGED <<tabs, next_tab_id, pane_count>>
        /\ active_tab' \in 1 .. Len(tabs)
        /\ previous_tab' \in (Nat \ {0}) \cup {NoTab}
    BY <1>3, MaxTabIdAssumption DEF switch_tab
  <2>2. QED BY <1>0, <2>1, ListKept
<1>4. CASE next_tab
  <2>1. /\ UNCHANGED <<tabs, next_tab_id, pane_count, previous_tab>>
        /\ active_tab' \in 1 .. Len(tabs)
    BY <1>4 DEF next_tab
  <2>2. QED BY <1>0, <2>1, ListKept
<1>5. CASE prev_tab
  <2>1. /\ UNCHANGED <<tabs, next_tab_id, pane_count, previous_tab>>
        /\ active_tab' \in 1 .. Len(tabs)
    BY <1>5 DEF prev_tab
  <2>2. QED BY <1>0, <2>1, ListKept
<1>6. CASE toggle_previous_tab
  <2>1. previous_tab \in Nat /\ previous_tab <= Len(tabs)
    BY <1>6 DEF toggle_previous_tab
  <2>2. previous_tab # 0
    BY <1>6 DEF toggle_previous_tab
  <2>3. /\ UNCHANGED <<tabs, next_tab_id, pane_count>>
        /\ active_tab' \in 1 .. Len(tabs)
        /\ previous_tab' \in (Nat \ {0}) \cup {NoTab}
    BY <1>6, <2>1, <2>2 DEF toggle_previous_tab
  <2>4. QED BY <1>0, <2>3, ListKept
<1>7. CASE move_tab_left
  <2>1. active_tab - 1 \in 1 .. Len(tabs)
    BY <1>7 DEF move_tab_left
  <2>2. QED BY <1>7, <2>1, SwapActive DEF move_tab_left
<1>8. CASE move_tab_right
  <2>1. active_tab + 1 \in 1 .. Len(tabs)
    BY <1>8 DEF move_tab_right
  <2>2. QED BY <1>8, <2>1, SwapActive DEF move_tab_right
<1>9. CASE move_tab_left_wrapping
  BY <1>7, <1>9, WrapLeft DEF move_tab_left_wrapping
<1>10. CASE move_tab_right_wrapping
  BY <1>8, <1>10, WrapRight DEF move_tab_right_wrapping
<1>11. CASE break_pane_to_new_tab
  BY <1>11, BreakPane
<1>12. CASE split_active \/ close_active_pane
  <2>1. UNCHANGED <<tabs, active_tab, previous_tab, next_tab_id>>
    BY <1>12 DEF split_active, close_active_pane
  <2>2. pane_count' \in [TabId -> Nat \ {0}]
    <3>1. ActiveTab \in TabId
      BY TabsAt DEF ActiveTab
    <3>2. pane_count[ActiveTab] \in Nat \ {0}
      BY <3>1
    <3>3. QED BY <1>12, <3>1, <3>2 DEF split_active, close_active_pane
  <2>3. QED BY <1>0, <2>1, <2>2, ListKept
<1>13. CASE UNCHANGED session_vars
  BY <1>13, ListKept DEF session_vars
<1>14. QED
  BY <1>1, <1>2, <1>3, <1>4, <1>5, <1>6, <1>7, <1>8, <1>9, <1>10, <1>11, <1>12,
     <1>13 DEF SessionNext

(* The invariant of the session, for any number of tabs: the active index   *)
(* is always inside the list, which holds distinct, allocated ids.          *)
THEOREM SessionSafe == SessionSpec => []SessionInv
<1>1. SessionInit => SessionInv
  <2> SUFFICES ASSUME SessionInit PROVE SessionInv
    OBVIOUS
  <2>1. 0 \in TabId /\ tabs = <<0>> /\ tabs \in Seq(TabId) /\ Len(tabs) = 1
    BY MaxTabIdAssumption DEF SessionInit, TabId
  <2>2. SessionTypeOK /\ ActiveTabExists
    BY <2>1, MaxTabIdAssumption DEF SessionInit, SessionTypeOK, ActiveTabExists
  <2>3. TabIdsUnique
    BY <2>1, UniqueAt DEF SessionInit, TabIdsUnique
  <2>4. QED BY <2>2, <2>3 DEF SessionInv
<1>2. SessionInv /\ [SessionNext]_session_vars => SessionInv'
  BY SessionStep
<1>3. QED BY <1>1, <1>2, PTL DEF SessionSpec

(* active_tab_mut never indexes outside the list. *)
THEOREM SessionActiveTabExists == SessionSpec => []ActiveTabExists
<1>1. SessionInv => ActiveTabExists
  BY DEF SessionInv
<1>2. QED BY <1>1, SessionSafe, PTL

(* close_tab_by_id closes the one tab that has the id. *)
THEOREM SessionTabIdsUnique == SessionSpec => []TabIdsUnique
<1>1. SessionInv => TabIdsUnique
  BY DEF SessionInv
<1>2. QED BY <1>1, SessionSafe, PTL

(* Closing or moving tabs keeps the user on the tab that was active. *)
THEOREM SessionFocusFollowsTab == SessionSpec => FocusFollowsTab
<1>1. SessionInv /\ [SessionNext]_session_vars => [FocusKept]_session_vars
  BY SessionStep
<1>2. QED BY <1>1, SessionSafe, PTL DEF SessionSpec, FocusFollowsTab, FocusKept

=============================================================================
