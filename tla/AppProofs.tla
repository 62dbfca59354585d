----------------------------- MODULE AppProofs -----------------------------
(***************************************************************************)
(* What the program's loop keeps for any number of panes, tabs and         *)
(* processes.                                                              *)
(*                                                                         *)
(* NoStrayProcess rests on the tabs being well formed (a closed pane is    *)
(* gone from its order, and the order never gets empty).  That a pane has  *)
(* its own process while there is one tab rests on the counter of that     *)
(* tab: an id it hands out was never used for a process.  That the program *)
(* quits only when nothing runs rests on DeadHeld: between the reaping and *)
(* the closing nobody takes a dead id's entry away.                        *)
(***************************************************************************)
EXTENDS App, SequenceTheorems, TLAPS

-----------------------------------------------------------------------------
(* Lists of panes *)

(* IndexOf (Iterator::position) finds an id that is in the list. *)
LEMMA IndexOfFinds ==
  ASSUME NEW S, NEW s \in Seq(S), NEW id \in ToSet(s)
  PROVE  IndexOf(s, id) \in 1 .. Len(s) /\ s[IndexOf(s, id)] = id
  BY DEF IndexOf, ToSet

(* Distinct by positions. *)
LEMMA DistinctAt ==
  ASSUME NEW S, NEW s \in Seq(S)
  PROVE  Distinct(s) <=> \A i, j \in 1 .. Len(s) : s[i] = s[j] => i = j
  BY DEF Distinct

(* The members of a list are the ids at its positions. *)
LEMMA Members ==
  ASSUME NEW S, NEW s \in Seq(S)
  PROVE  /\ \A i \in 1 .. Len(s) : s[i] \in ToSet(s) /\ s[i] \in S
         /\ \A x \in ToSet(s) : \E i \in 1 .. Len(s) : s[i] = x
         /\ ToSet(s) \subseteq S
  BY DEF ToSet

(* RemoveAt (Vec::remove) by positions. *)
LEMMA RemoveAtShape ==
  ASSUME NEW S, NEW s \in Seq(S), NEW k \in 1 .. Len(s)
  PROVE  /\ RemoveAt(s, k) \in Seq(S)
         /\ Len(RemoveAt(s, k)) = Len(s) - 1
         /\ \A i \in 1 .. Len(s) - 1 :
              RemoveAt(s, k)[i] = IF i < k THEN s[i] ELSE s[i + 1]
<1> DEFINE a == SubSeq(s, 1, k - 1)
           b == SubSeq(s, k + 1, Len(s))
<1>1. /\ a \in Seq(S)
      /\ Len(a) = k - 1
      /\ \A i \in 1 .. k - 1 : a[i] = s[i]
  BY SubSeqProperties
<1>2. /\ b \in Seq(S)
      /\ Len(b) = Len(s) - k
      /\ \A i \in 1 .. Len(s) - k : b[i] = s[k + i]
  <2>1. \A i \in k + 1 .. Len(s) : s[i] \in S
    OBVIOUS
  <2>2. k + 1 \in Int /\ Len(s) \in Int
    OBVIOUS
  <2>3. /\ b \in Seq(S)
        /\ Len(b) = IF k + 1 <= Len(s) THEN Len(s) - (k + 1) + 1 ELSE 0
        /\ \A i \in 1 .. Len(s) - (k + 1) + 1 : b[i] = s[(k + 1) + i - 1]
    BY <2>1, <2>2, SubSeqProperties
  <2> HIDE DEF b
  <2>4. QED BY <2>3
<1> HIDE DEF a, b
<1>3. /\ a \o b \in Seq(S)
      /\ Len(a \o b) = Len(a) + Len(b)
      /\ \A i \in 1 .. Len(a) + Len(b) :
           (a \o b)[i] = IF i <= Len(a) THEN a[i] ELSE b[i - Len(a)]
  BY <1>1, <1>2, ConcatProperties
<1>4. RemoveAt(s, k) = a \o b
  BY DEF RemoveAt, a, b
<1>5. ASSUME NEW i \in 1 .. Len(s) - 1
      PROVE  (a \o b)[i] = IF i < k THEN s[i] ELSE s[i + 1]
  <2>1. CASE i < k
    BY <2>1, <1>1, <1>2, <1>3
  <2>2. CASE ~(i < k)
    <3>1. i - (k - 1) \in 1 .. Len(s) - k /\ k + (i - (k - 1)) = i + 1
      BY <2>2
    <3>2. (a \o b)[i] = b[i - (k - 1)]
      BY <2>2, <1>1, <1>2, <1>3
    <3>3. QED BY <2>2, <3>1, <3>2, <1>2
  <2>3. QED BY <2>1, <2>2
<1>6. Len(a \o b) = Len(s) - 1
  BY <1>1, <1>2, <1>3
<1>7. QED BY <1>3, <1>4, <1>5, <1>6

(* InsertAt (the leaf order after a split) by positions. *)
LEMMA InsertAtShape ==
  ASSUME NEW S, NEW s \in Seq(S), NEW k \in 1 .. Len(s) + 1, NEW e \in S
  PROVE  /\ InsertAt(s, k, e) \in Seq(S)
         /\ Len(InsertAt(s, k, e)) = Len(s) + 1
         /\ \A i \in 1 .. Len(s) + 1 :
              InsertAt(s, k, e)[i] = IF i < k THEN s[i]
                                     ELSE IF i = k THEN e ELSE s[i - 1]
<1> DEFINE a == SubSeq(s, 1, k - 1)
           b == SubSeq(s, k, Len(s))
           c == a \o <<e>>
<1>1. /\ a \in Seq(S)
      /\ Len(a) = k - 1
      /\ \A i \in 1 .. k - 1 : a[i] = s[i]
  BY SubSeqProperties
<1>2. /\ b \in Seq(S)
      /\ Len(b) = Len(s) - k + 1
      /\ \A i \in 1 .. Len(s) - k + 1 : b[i] = s[k + i - 1]
  <2>1. \A i \in k .. Len(s) : s[i] \in S
    OBVIOUS
  <2>2. /\ b \in Seq(S)
        /\ Len(b) = IF k <= Len(s) THEN Len(s) - k + 1 ELSE 0
        /\ \A i \in 1 .. Len(s) - k + 1 : b[i] = s[k + i - 1]
    BY <2>1, SubSeqProperties
  <2> HIDE DEF b
  <2>3. QED BY <2>2
<1> HIDE DEF a, b
<1>3. <<e>> \in Seq(S) /\ Len(<<e>>) = 1 /\ <<e>>[1] = e
  OBVIOUS
<1>4. /\ c \in Seq(S)
      /\ Len(c) = k
      /\ \A i \in 1 .. k : c[i] = IF i <= k - 1 THEN s[i] ELSE e
  <2>1. /\ c \in Seq(S)
        /\ Len(c) = Len(a) + 1
        /\ \A i \in 1 .. Len(a) + 1 :
             c[i] = IF i <= Len(a) THEN a[i] ELSE <<e>>[i - Len(a)]
    BY <1>1, <1>3, ConcatProperties
  <2>2. \A i \in 1 .. k : ~(i <= k - 1) => i - Len(a) = 1
    BY <1>1
  <2> HIDE DEF c
  <2>3. Len(a) + 1 = k
    BY <1>1
  <2>4. ASSUME NEW i \in 1 .. k PROVE c[i] = IF i <= k - 1 THEN s[i] ELSE e
    <3>1. CASE i <= k - 1
      BY <1>1, <2>1, <3>1
    <3>2. CASE ~(i <= k - 1)
      <4>1. i - Len(a) = 1 /\ ~(i <= Len(a)) /\ i \in 1 .. Len(a) + 1
        BY <1>1, <2>2, <3>2
      <4>2. QED BY <1>3, <2>1, <3>2, <4>1
    <3>3. QED BY <3>1, <3>2
  <2>5. QED BY <2>1, <2>3, <2>4
<1> HIDE DEF c
<1>5. /\ c \o b \in Seq(S)
      /\ Len(c \o b) = Len(c) + Len(b)
      /\ \A i \in 1 .. Len(c) + Len(b) :
           (c \o b)[i] = IF i <= Len(c) THEN c[i] ELSE b[i - Len(c)]
  BY <1>2, <1>4, ConcatProperties
<1>6. InsertAt(s, k, e) = c \o b
  BY DEF InsertAt, a, b, c
<1>7. ASSUME NEW i \in 1 .. Len(s) + 1
      PROVE  (c \o b)[i] = IF i < k THEN s[i] ELSE IF i = k THEN e ELSE s[i - 1]
  <2>1. CASE i <= k
    BY <2>1, <1>2, <1>4, <1>5
  <2>2. CASE ~(i <= k)
    <3>1. i - k \in 1 .. Len(s) - k + 1 /\ k + (i - k) - 1 = i - 1
      BY <2>2
    <3>2. (c \o b)[i] = b[i - k]
      BY <2>2, <1>2, <1>4, <1>5
    <3>3. QED BY <2>2, <3>1, <3>2, <1>2
  <2>3. QED BY <2>1, <2>2
<1>8. QED BY <1>2, <1>4, <1>5, <1>6, <1>7

(* Without: the id goes, the others stay, once each. *)
LEMMA WithoutProps ==
  ASSUME NEW S, NEW s \in Seq(S), Distinct(s), NEW id
  PROVE  /\ Without(s, id) \in Seq(S)
         /\ Distinct(Without(s, id))
         /\ ToSet(Without(s, id)) = ToSet(s) \ {id}
<1>1. CASE id \notin ToSet(s)
  <2>1. Without(s, id) = s
    BY <1>1 DEF Without
  <2>2. QED
    BY <1>1, <2>1
<1>2. CASE id \in ToSet(s)
  <2> DEFINE k == IndexOf(s, id)
             t == RemoveAt(s, k)
  <2>1. k \in 1 .. Len(s) /\ s[k] = id
    BY <1>2, IndexOfFinds
  <2>2. Without(s, id) = t
    BY <1>2 DEF Without
  <2> HIDE DEF k
  <2>3. /\ t \in Seq(S)
        /\ Len(t) = Len(s) - 1
        /\ \A i \in 1 .. Len(s) - 1 : t[i] = IF i < k THEN s[i] ELSE s[i + 1]
    BY <2>1, RemoveAtShape
  <2> HIDE DEF t
  <2>4. Distinct(t)
    <3>1. ASSUME NEW i \in 1 .. Len(t), NEW j \in 1 .. Len(t), t[i] = t[j]
          PROVE  i = j
      <4> DEFINE m(n) == IF n < k THEN n ELSE n + 1
      <4>1. /\ m(i) \in 1 .. Len(s) /\ t[i] = s[m(i)]
            /\ m(j) \in 1 .. Len(s) /\ t[j] = s[m(j)]
        BY <2>1, <2>3
      <4>2. m(i) = m(j)
        BY <3>1, <4>1, DistinctAt
      <4>3. QED BY <2>1, <2>3, <4>2
    <3>2. QED BY <2>3, <3>1, DistinctAt
  <2>5. ASSUME NEW i \in 1 .. Len(s), s[i] # id
        PROVE  LET n == IF i < k THEN i ELSE i - 1
               IN  n \in 1 .. Len(t) /\ t[n] = s[i]
    BY <2>1, <2>3, <2>5
  <2>6. ToSet(t) = ToSet(s) \ {id}
    <3>1. ASSUME NEW x \in ToSet(t) PROVE x \in ToSet(s) \ {id}
      <4>1. PICK i \in 1 .. Len(t) : t[i] = x
        BY <2>3, Members
      <4>2. PICK m \in 1 .. Len(s) : m # k /\ s[m] = x
        BY <2>1, <2>3, <4>1
      <4>3. QED BY <2>1, <4>2, Members DEF Distinct
    <3>2. ASSUME NEW x \in ToSet(s), x # id PROVE x \in ToSet(t)
      <4>1. PICK i \in 1 .. Len(s) : s[i] = x
        BY Members
      <4>2. \E n \in 1 .. Len(t) : t[n] = x
        BY <2>5, <3>2, <4>1
      <4>3. QED BY <2>3, <4>2, Members
    <3>3. QED BY <3>1, <3>2
  <2>7. QED BY <2>2, <2>3, <2>4, <2>6
<1>3. QED BY <1>1, <1>2

(* InsertAfter: a new id comes in. *)
LEMMA InsertAfterProps ==
  ASSUME NEW S, NEW s \in Seq(S), Distinct(s),
         NEW target \in ToSet(s), NEW id \in S, id \notin ToSet(s)
  PROVE  /\ InsertAfter(s, target, id) \in Seq(S)
         /\ Distinct(InsertAfter(s, target, id))
         /\ ToSet(InsertAfter(s, target, id)) = ToSet(s) \cup {id}
<1> DEFINE k == IndexOf(s, target) + 1
           t == InsertAt(s, k, id)
<1>1. k \in 1 .. Len(s) + 1
  BY IndexOfFinds
<1>2. InsertAfter(s, target, id) = t
  BY DEF InsertAfter
<1> HIDE DEF k
<1>3. /\ t \in Seq(S)
      /\ Len(t) = Len(s) + 1
      /\ \A i \in 1 .. Len(s) + 1 :
           t[i] = IF i < k THEN s[i] ELSE IF i = k THEN id ELSE s[i - 1]
  BY <1>1, InsertAtShape
<1> HIDE DEF t
<1>4. \A i \in 1 .. Len(s) : s[i] # id
  BY Members
<1>5. Distinct(t)
  <2>1. ASSUME NEW i \in 1 .. Len(t), NEW j \in 1 .. Len(t), t[i] = t[j]
        PROVE  i = j
    <3> DEFINE m(n) == IF n < k THEN n ELSE n - 1
    <3>1. \A n \in 1 .. Len(t) : n # k => m(n) \in 1 .. Len(s) /\ t[n] = s[m(n)]
      BY <1>1, <1>3
    <3>2. t[k] = id /\ k \in 1 .. Len(t)
      BY <1>1, <1>3
    <3>3. CASE i = k \/ j = k
      <4>1. \A n \in 1 .. Len(t) : n # k => t[n] # id
        BY <1>4, <3>1
      <4>2. QED BY <2>1, <3>2, <3>3, <4>1
    <3>4. CASE i # k /\ j # k
      <4>1. m(i) \in 1 .. Len(s) /\ m(j) \in 1 .. Len(s) /\ s[m(i)] = s[m(j)]
        BY <2>1, <3>1, <3>4
      <4>2. m(i) = m(j)
        BY <4>1, DistinctAt
      <4>3. QED BY <1>1, <1>3, <3>4, <4>2
    <3>5. QED BY <3>3, <3>4
  <2>2. QED BY <1>3, <2>1, DistinctAt
<1>6. ASSUME NEW i \in 1 .. Len(s)
      PROVE  LET n == IF i < k THEN i ELSE i + 1
             IN  n \in 1 .. Len(t) /\ t[n] = s[i]
  BY <1>1, <1>3
<1>7. ToSet(t) = ToSet(s) \cup {id}
  <2>1. ASSUME NEW x \in ToSet(t) PROVE x \in ToSet(s) \cup {id}
    <3>1. PICK i \in 1 .. Len(t) : t[i] = x
      BY <1>3, Members
    <3>2. x = id \/ \E m \in 1 .. Len(s) : s[m] = x
      BY <1>1, <1>3, <3>1
    <3>3. QED BY <3>2, Members
  <2>2. ASSUME NEW x \in ToSet(s) PROVE x \in ToSet(t)
    <3>1. PICK i \in 1 .. Len(s) : s[i] = x
      BY Members
    <3>2. PICK n \in 1 .. Len(t) : t[n] = x
      BY <1>6, <3>1
    <3>3. t[n] \in ToSet(t)
      BY <1>3, Members
    <3>4. QED BY <3>2, <3>3
  <2>3. id \in ToSet(t)
    BY <1>1, <1>3, Members
  <2>4. QED BY <2>1, <2>2, <2>3
<1>8. QED BY <1>2, <1>3, <1>5, <1>7

-----------------------------------------------------------------------------
(* What the loop keeps *)

GoodTab(t) ==
  /\ t \in TabRecord
  /\ t.order # <<>> /\ Distinct(t.order)
  /\ t.active \in ToSet(t.order)
  /\ \A id \in ToSet(t.order) : id < t.next

GoodTabs ==
  /\ tabs \in Seq(TabRecord)
  /\ active_tab \in 1 .. Len(tabs)
  /\ next_tab_id \in 1 .. MaxTabs
  /\ \A i \in 1 .. Len(tabs) : GoodTab(tabs[i])

GoodProcesses ==
  /\ panes \in [PaneId -> Proc \cup {NoProc}]
  /\ alive \subseteq Proc
  /\ spawned_for \in Seq((0 .. MaxTabs - 1) \X PaneId)
  /\ alive \subseteq {panes[id] : id \in Keys}

GoodLoop ==
  /\ phase \in {"reap", "close", "agent", "poll", "exited"}
  /\ dead \subseteq PaneId
  /\ exit \in {"none", "dead", "error", "quit"}

(* Every entry of App::panes is under the id of a pane some tab shows.      *)
Shown == \A id \in Keys : \E i \in 1 .. Len(tabs) : id \in ToSet(tabs[i].order)

(* One tab: an entry is the process started for its id, the panes a process *)
(* was started for have one, and ids to come were never used.               *)
OneTab ==
  NoSecondTab =>
    /\ Len(tabs) = 1 /\ tabs[1].id = 0
    /\ phase # "exited" =>
         /\ \A id \in Keys : panes[id] \in 1 .. Len(spawned_for)
                             /\ spawned_for[panes[id]] = <<0, id>>
         /\ \A k \in 1 .. Len(spawned_for) :
              spawned_for[k][2] \in ToSet(tabs[1].order) => spawned_for[k][2] \in Keys
    /\ \A k \in 1 .. Len(spawned_for) : spawned_for[k][2] < tabs[1].next

(* The ids still to be closed have an entry, whose process is gone.         *)
DeadHeld == phase = "close" => \A id \in dead : id \in Keys /\ panes[id] \notin alive

AppInv == GoodTabs /\ GoodProcesses /\ GoodLoop /\ Shown /\ OneTab /\ DeadHeld

-----------------------------------------------------------------------------
(* What happens to the processes. *)

LEMMA Dropped ==
  ASSUME AppAssumption, GoodProcesses, NEW ids \in SUBSET PaneId, DropPanes(ids)
  PROVE  /\ panes' \in [PaneId -> Proc \cup {NoProc}] /\ alive' \subseteq alive
         /\ Keys' = Keys \ ids
         /\ \A id \in Keys' : panes'[id] = panes[id]
         /\ alive' \subseteq {panes'[id] : id \in Keys'}
  BY DEF DropPanes, GoodProcesses, Keys

LEMMA ExitDrops ==
  ASSUME NEW reason, ExitWith(reason)
  PROVE  /\ panes' \in [PaneId -> Proc \cup {NoProc}] /\ alive' = {} /\ Keys' = {}
         /\ phase' = "exited" /\ exit' = reason
  BY DEF ExitWith, Keys

LEMMA SpawnedInto ==
  ASSUME AppAssumption, GoodProcesses, NEW t \in 0 .. MaxTabs - 1, NEW id \in PaneId,
         SpawnInto(t, id)
  PROVE  /\ panes' \in [PaneId -> Proc \cup {NoProc}] /\ alive' \subseteq Proc
         /\ spawned_for' \in Seq((0 .. MaxTabs - 1) \X PaneId)
         /\ Len(spawned_for') = Len(spawned_for) + 1
         /\ spawned_for'[Len(spawned_for) + 1] = <<t, id>>
         /\ \A k \in 1 .. Len(spawned_for) : spawned_for'[k] = spawned_for[k]
         /\ Keys' = Keys \cup {id} /\ panes'[id] = Len(spawned_for) + 1
         /\ \A j \in Keys \ {id} : panes'[j] = panes[j]
         /\ alive' \subseteq {panes'[j] : j \in Keys'}
<1> DEFINE n == Len(spawned_for) + 1
<1>1. /\ n \in Proc /\ n # NoProc
      /\ spawned_for' = Append(spawned_for, <<t, id>>) /\ Len(spawned_for') = n
      /\ panes' = [panes EXCEPT ![id] = n]
      /\ alive' = (alive \ {panes[id]}) \cup {n}
  BY DEF SpawnInto, Proc, AppAssumption, GoodProcesses
<1>2. /\ spawned_for' \in Seq((0 .. MaxTabs - 1) \X PaneId)
      /\ spawned_for'[n] = <<t, id>>
      /\ \A k \in 1 .. Len(spawned_for) : spawned_for'[k] = spawned_for[k]
  BY <1>1 DEF GoodProcesses
<1> HIDE DEF n
<1>3. panes' \in [PaneId -> Proc \cup {NoProc}] /\ alive' \subseteq Proc
  BY <1>1 DEF GoodProcesses
<1>4. panes'[id] = n /\ \A j \in PaneId \ {id} : panes'[j] = panes[j]
  BY <1>1 DEF GoodProcesses
<1>5. Keys' = Keys \cup {id}
  BY <1>1, <1>4 DEF Keys
<1>6. alive' \subseteq {panes'[j] : j \in Keys'}
  <2>1. SUFFICES ASSUME NEW p \in alive' PROVE \E j \in Keys' : panes'[j] = p
    OBVIOUS
  <2>2. CASE p = n
    BY <1>4, <1>5, <2>2
  <2>3. CASE p \in alive /\ p # panes[id]
    <3>1. PICK j \in Keys : panes[j] = p
      BY <2>3 DEF GoodProcesses
    <3>2. j # id /\ j \in PaneId
      BY <2>3, <3>1 DEF Keys
    <3>3. QED BY <1>4, <1>5, <3>1, <3>2
  <2>4. QED BY <1>1, <2>2, <2>3
<1>7. QED BY <1>1, <1>2, <1>3, <1>4, <1>5, <1>6 DEF n, Keys

-----------------------------------------------------------------------------
(* What happens to the active tab. *)

LEMMA TabReplaced ==
  ASSUME GoodTabs, NEW t, GoodTab(t), tabs' = [tabs EXCEPT ![active_tab] = t],
         UNCHANGED <<active_tab, next_tab_id>>
  PROVE  /\ GoodTabs' /\ Len(tabs') = Len(tabs)
         /\ tabs'[active_tab] = t
         /\ \A i \in 1 .. Len(tabs) : i # active_tab => tabs'[i] = tabs[i]
<1>1. /\ tabs' \in Seq(TabRecord) /\ Len(tabs') = Len(tabs) /\ tabs'[active_tab] = t
      /\ \A i \in 1 .. Len(tabs) : i # active_tab => tabs'[i] = tabs[i]
  BY DEF GoodTabs, GoodTab
<1>2. \A i \in 1 .. Len(tabs') : GoodTab(tabs'[i])
  BY <1>1 DEF GoodTabs
<1>3. QED BY <1>1, <1>2 DEF GoodTabs, GoodTab

LEMMA ActiveGood ==
  ASSUME GoodTabs
  PROVE  /\ GoodTab(Active) /\ Active.order \in Seq(PaneId) /\ Distinct(Active.order)
         /\ Active.active \in ToSet(Active.order) /\ ToSet(Active.order) \subseteq PaneId
         /\ Active.next \in 1 .. MaxPaneId /\ Active.id \in 0 .. MaxTabs - 1
<1>1. GoodTab(Active)
  BY DEF GoodTabs, Active
<1>2. Active.order \in Seq(PaneId)
  BY <1>1 DEF GoodTab, TabRecord
<1>3. ToSet(Active.order) \subseteq PaneId
  BY <1>2, Members
<1>4. QED BY <1>1, <1>2, <1>3 DEF GoodTab, TabRecord

(* The order is not empty when it has a member. *)
LEMMA MemberOfOrder ==
  ASSUME NEW s \in Seq(PaneId), NEW id \in ToSet(s)
  PROVE  s # <<>>
  BY Members

LEMMA NewTabGood ==
  ASSUME AppAssumption, NEW id \in 0 .. MaxTabs - 1
  PROVE  /\ GoodTab(NewTabRecord(id)) /\ NewTabRecord(id).id = id /\ NewTabRecord(id).next = 1
         /\ ToSet(NewTabRecord(id).order) = {0} /\ 0 \in PaneId
<1>1. 0 \in PaneId /\ 1 \in 1 .. MaxPaneId
  BY DEF AppAssumption, PaneId
<1>2. <<0>> \in Seq(PaneId) /\ Len(<<0>>) = 1 /\ <<0>>[1] = 0
  BY <1>1
<1>3. ToSet(<<0>>) = {0} /\ Distinct(<<0>>) /\ <<0>> # <<>>
  BY <1>2 DEF ToSet, Distinct
<1>4. QED BY <1>1, <1>2, <1>3 DEF NewTabRecord, GoodTab, TabRecord

LEMMA SplitGood ==
  ASSUME AppAssumption, GoodTabs, split_pane, UNCHANGED <<active_tab, next_tab_id>>
  PROVE  /\ GoodTabs' /\ Len(tabs') = Len(tabs)
         /\ Active.next \in PaneId /\ Active.next \notin ToSet(Active.order)
         /\ ToSet(tabs'[active_tab].order) = ToSet(Active.order) \cup {Active.next}
         /\ tabs'[active_tab].next = Active.next + 1
         /\ tabs'[active_tab].id = Active.id
         /\ \A i \in 1 .. Len(tabs) : i # active_tab => tabs'[i] = tabs[i]
<1> DEFINE t == [Active EXCEPT !.order = InsertAfter(@, Active.active, Active.next),
                               !.active = Active.next, !.next = @ + 1]
           order == InsertAfter(Active.order, Active.active, Active.next)
<1>1. Active.next < MaxPaneId /\ tabs' = [tabs EXCEPT ![active_tab] = t]
  BY DEF split_pane, Active
<1>2. Active.next \in PaneId /\ Active.next \notin ToSet(Active.order)
  BY <1>1, ActiveGood DEF PaneId, GoodTab, AppAssumption
<1>3. /\ order \in Seq(PaneId) /\ Distinct(order)
      /\ ToSet(order) = ToSet(Active.order) \cup {Active.next}
  BY <1>2, ActiveGood, InsertAfterProps
<1>4. order # <<>>
  BY <1>3, MemberOfOrder
<1>5. /\ t.order = order /\ t.active = Active.next /\ t.next = Active.next + 1
      /\ t.id = Active.id /\ t \in TabRecord
  <2>1. Active \in TabRecord /\ Active.next + 1 \in 1 .. MaxPaneId
    BY <1>1, ActiveGood DEF GoodTab, AppAssumption
  <2>2. t = [Active EXCEPT !.order = order, !.active = Active.next, !.next = Active.next + 1]
    OBVIOUS
  <2>3. order \in Seq(PaneId) /\ Active.next \in PaneId
    BY <1>2, <1>3
  <2> HIDE DEF t, order
  <2>4. QED BY <2>1, <2>2, <2>3 DEF TabRecord
<1> HIDE DEF order
<1> HIDE DEF t
<1>6. GoodTab(t)
  <2>1. \A id \in ToSet(order) : id < Active.next + 1
    BY <1>3, ActiveGood DEF GoodTab, PaneId
  <2>2. QED BY <1>3, <1>4, <1>5, <2>1 DEF GoodTab
<1>7. QED BY <1>1, <1>2, <1>3, <1>5, <1>6, TabReplaced

LEMMA CloseGood ==
  ASSUME GoodTabs, NEW id, CanClose(id), close_pane(id), UNCHANGED <<active_tab, next_tab_id>>
  PROVE  /\ GoodTabs' /\ Len(tabs') = Len(tabs)
         /\ ToSet(tabs'[active_tab].order) = ToSet(Active.order) \ {id}
         /\ tabs'[active_tab].next = Active.next
         /\ tabs'[active_tab].id = Active.id
         /\ \A i \in 1 .. Len(tabs) : i # active_tab => tabs'[i] = tabs[i]
<1> DEFINE t == WithoutPane(Active, id)
           order == Without(Active.order, id)
<1>1. tabs' = [tabs EXCEPT ![active_tab] = t] /\ id \in ToSet(Active.order) /\ Len(Active.order) > 1
  BY DEF close_pane, CanClose, Active
<1>2. /\ order \in Seq(PaneId) /\ Distinct(order) /\ ToSet(order) = ToSet(Active.order) \ {id}
  BY ActiveGood, WithoutProps
<1>3. order # <<>>
  <2>1. Active.order[1] # Active.order[2]
    BY <1>1, ActiveGood, DistinctAt
  <2>2. Active.order[1] \in ToSet(Active.order) /\ Active.order[2] \in ToSet(Active.order)
    BY <1>1, ActiveGood, Members
  <2>3. PICK x \in ToSet(order) : TRUE
    BY <1>2, <2>1, <2>2
  <2>4. QED BY <1>2, <2>3, MemberOfOrder
<1>4. order[1] \in ToSet(order) /\ order[1] \in PaneId
  BY <1>2, <1>3, Members
<1> HIDE DEF order
<1>5. /\ t.order = order /\ t.next = Active.next /\ t.id = Active.id
      /\ t.active = IF Active.active = id THEN order[1] ELSE Active.active
      /\ t \in TabRecord
  BY <1>2, <1>4, ActiveGood DEF WithoutPane, GoodTab, TabRecord, order
<1> HIDE DEF t
<1>6. GoodTab(t)
  BY <1>2, <1>3, <1>4, <1>5, ActiveGood DEF GoodTab
<1>7. QED BY <1>1, <1>2, <1>5, <1>6, TabReplaced

LEMMA FocusGood ==
  ASSUME GoodTabs, NEW id, focus_pane(id), UNCHANGED <<active_tab, next_tab_id>>
  PROVE  /\ GoodTabs' /\ Len(tabs') = Len(tabs)
         /\ \A i \in 1 .. Len(tabs) : /\ tabs'[i].order = tabs[i].order
                                      /\ tabs'[i].next = tabs[i].next
                                      /\ tabs'[i].id = tabs[i].id
<1> DEFINE t == [Active EXCEPT !.active = id]
<1>1. tabs' = [tabs EXCEPT ![active_tab] = t] /\ id \in ToSet(Active.order)
  BY DEF focus_pane, Active
<1>2. /\ t.order = Active.order /\ t.next = Active.next /\ t.id = Active.id /\ t.active = id
      /\ t \in TabRecord
  BY <1>1, ActiveGood DEF GoodTab, TabRecord
<1> HIDE DEF t
<1>3. GoodTab(t)
  BY <1>1, <1>2, ActiveGood DEF GoodTab
<1>4. QED BY <1>1, <1>2, <1>3, TabReplaced DEF Active

-----------------------------------------------------------------------------
(* The parts of AppInv that a step of the tabs or of the processes disturbs. *)

(* With one tab, it is the active one. *)
LEMMA TheTab ==
  ASSUME GoodTabs, OneTab, NoSecondTab
  PROVE  active_tab = 1 /\ Active = tabs[1] /\ Active.id = 0 /\ Len(tabs) = 1
<1>1. Len(tabs) = 1 /\ tabs[1].id = 0
  BY DEF OneTab
<1>2. active_tab = 1
  BY <1>1 DEF GoodTabs
<1>3. QED BY <1>1, <1>2 DEF Active

(* The ids processes were started for are ids. *)
LEMMA StartedFor ==
  ASSUME GoodProcesses
  PROVE  /\ Len(spawned_for) \in Nat
         /\ \A k \in 1 .. Len(spawned_for) :
              spawned_for[k][2] \in PaneId /\ spawned_for[k][2] \in Nat
<1>1. spawned_for \in Seq((0 .. MaxTabs - 1) \X PaneId)
  BY DEF GoodProcesses
<1>2. \A k \in 1 .. Len(spawned_for) : spawned_for[k] \in (0 .. MaxTabs - 1) \X PaneId
  BY <1>1
<1>3. QED BY <1>1, <1>2 DEF PaneId

(* Nothing is opened or closed; a process may have ended. *)
LEMMA SamePanes ==
  ASSUME GoodTabs, GoodProcesses, Shown, OneTab, phase # "exited", GoodTabs',
         Len(tabs') = Len(tabs),
         \A i \in 1 .. Len(tabs) : /\ tabs'[i].order = tabs[i].order
                                   /\ tabs'[i].next = tabs[i].next
                                   /\ tabs'[i].id = tabs[i].id,
         alive' \subseteq alive, UNCHANGED <<next_tab_id, panes, spawned_for>>
  PROVE  GoodProcesses' /\ Shown' /\ OneTab'
<1>1. GoodProcesses' /\ Keys' = Keys
  BY DEF GoodProcesses, Keys
<1>2. Shown'
  BY <1>1 DEF Shown
<1>3. OneTab'
  BY <1>1 DEF OneTab, NoSecondTab, GoodTabs
<1>4. QED BY <1>1, <1>2, <1>3

(* A pane leaves with its process. *)
LEMMA PaneGone ==
  ASSUME AppAssumption, GoodTabs, GoodProcesses, Shown, OneTab, phase # "exited",
         NEW id \in PaneId, DropPanes({id}),
         \/ CanClose(id) /\ close_pane(id)
         \/ id \notin ToSet(Active.order) /\ UNCHANGED tabs,
         UNCHANGED <<active_tab, next_tab_id, spawned_for>>
  PROVE  GoodTabs' /\ GoodProcesses' /\ Shown' /\ OneTab'
<1>1. /\ panes' \in [PaneId -> Proc \cup {NoProc}] /\ alive' \subseteq alive
      /\ Keys' = Keys \ {id} /\ \A j \in Keys' : panes'[j] = panes[j]
      /\ alive' \subseteq {panes'[j] : j \in Keys'}
  BY Dropped
<1>2. GoodProcesses'
  BY <1>1 DEF GoodProcesses
<1>3. /\ GoodTabs' /\ Len(tabs') = Len(tabs)
      /\ \A i \in 1 .. Len(tabs) :
           i # active_tab => tabs'[i] = tabs[i]
      /\ tabs'[active_tab].next = tabs[active_tab].next
      /\ tabs'[active_tab].id = tabs[active_tab].id
      /\ ToSet(tabs'[active_tab].order) = ToSet(tabs[active_tab].order) \ {id}
  <2>1. CASE CanClose(id) /\ close_pane(id)
    BY <2>1, CloseGood DEF Active
  <2>2. CASE id \notin ToSet(Active.order) /\ UNCHANGED tabs
    BY <2>2 DEF GoodTabs, Active
  <2>3. QED BY <2>1, <2>2
<1>4. Shown'
  <2>1. SUFFICES ASSUME NEW j \in Keys' PROVE \E i \in 1 .. Len(tabs') : j \in ToSet(tabs'[i].order)
    BY DEF Shown
  <2>2. PICK i \in 1 .. Len(tabs) : j \in ToSet(tabs[i].order)
    BY <1>1 DEF Shown
  <2>3. j # id
    BY <1>1
  <2>4. QED BY <1>3, <2>2, <2>3
<1>5. OneTab'
  <2>1. SUFFICES ASSUME NoSecondTab' PROVE OneTab'
    BY DEF OneTab
  <2>2. NoSecondTab /\ active_tab = 1 /\ Len(tabs) = 1
    BY <2>1, TheTab DEF NoSecondTab
  <2>3. /\ tabs'[1].id = 0 /\ tabs'[1].next = tabs[1].next
        /\ ToSet(tabs'[1].order) = ToSet(tabs[1].order) \ {id}
    BY <1>3, <2>2 DEF OneTab
  <2>4. \A k \in 1 .. Len(spawned_for) :
          spawned_for[k][2] \in ToSet(tabs'[1].order) => spawned_for[k][2] \in Keys'
    BY <1>1, <2>2, <2>3 DEF OneTab
  <2>5. QED BY <1>1, <1>3, <2>2, <2>3, <2>4 DEF OneTab
<1>6. QED BY <1>2, <1>3, <1>4, <1>5

(* The active tab is split, and the new pane gets a process or not. *)
LEMMA PaneAdded ==
  ASSUME AppAssumption, GoodTabs, GoodProcesses, Shown, OneTab, phase # "exited",
         split_pane, UNCHANGED <<active_tab, next_tab_id>>,
         \/ SpawnInto(Active.id, Active.next)
         \/ UNCHANGED <<panes, alive, spawned_for>>
  PROVE  GoodTabs' /\ GoodProcesses' /\ Shown' /\ OneTab'
<1> DEFINE new == Active.next
<1>1. /\ GoodTabs' /\ Len(tabs') = Len(tabs)
      /\ new \in PaneId /\ new \notin ToSet(tabs[active_tab].order)
      /\ ToSet(tabs'[active_tab].order) = ToSet(tabs[active_tab].order) \cup {new}
      /\ tabs'[active_tab].next = new + 1
      /\ tabs'[active_tab].id = tabs[active_tab].id
      /\ \A i \in 1 .. Len(tabs) : i # active_tab => tabs'[i] = tabs[i]
  BY SplitGood DEF Active
<1>2. active_tab \in 1 .. Len(tabs) /\ new \in Nat /\ Active.id \in 0 .. MaxTabs - 1
  BY <1>1, ActiveGood DEF GoodTabs, PaneId
<1>3. \A j : (\E i \in 1 .. Len(tabs) : j \in ToSet(tabs[i].order)) \/ j = new
         => \E i \in 1 .. Len(tabs') : j \in ToSet(tabs'[i].order)
  BY <1>1, <1>2
<1>4. NoSecondTab => /\ active_tab = 1 /\ Active.id = 0 /\ Len(tabs) = 1
                     /\ new = tabs[1].next
  BY TheTab
<1> HIDE DEF new
<1>5. CASE UNCHANGED <<panes, alive, spawned_for>>
  <2>1. GoodProcesses' /\ Keys' = Keys
    BY <1>5 DEF GoodProcesses, Keys
  <2>2. Shown'
    BY <1>3, <2>1 DEF Shown
  <2>3. OneTab'
    <3>1. SUFFICES ASSUME NoSecondTab' PROVE OneTab'
      BY DEF OneTab
    <3>2. NoSecondTab
      BY <3>1 DEF NoSecondTab
    <3>3. \A k \in 1 .. Len(spawned_for) :
            spawned_for[k][2] < new /\ spawned_for[k][2] \in Nat
      BY <1>4, <3>2, StartedFor DEF OneTab
    <3>4. \A k \in 1 .. Len(spawned_for) :
            spawned_for[k][2] \in ToSet(tabs'[1].order) => spawned_for[k][2] \in Keys
      BY <1>1, <1>2, <1>4, <3>2, <3>3 DEF OneTab
    <3>5. QED BY <1>1, <1>2, <1>4, <1>5, <2>1, <3>2, <3>3, <3>4 DEF OneTab
  <2>4. QED BY <1>1, <2>1, <2>2, <2>3
<1>6. CASE SpawnInto(Active.id, Active.next)
  <2> DEFINE n == Len(spawned_for) + 1
  <2>1. /\ panes' \in [PaneId -> Proc \cup {NoProc}] /\ alive' \subseteq Proc
        /\ spawned_for' \in Seq((0 .. MaxTabs - 1) \X PaneId)
        /\ Len(spawned_for') = n
        /\ spawned_for'[n] = <<Active.id, new>>
        /\ \A k \in 1 .. Len(spawned_for) : spawned_for'[k] = spawned_for[k]
        /\ Keys' = Keys \cup {new} /\ panes'[new] = n
        /\ \A j \in Keys \ {new} : panes'[j] = panes[j]
        /\ alive' \subseteq {panes'[j] : j \in Keys'}
    BY <1>1, <1>2, <1>6, SpawnedInto DEF new
  <2>2. GoodProcesses'
    BY <2>1 DEF GoodProcesses
  <2>3. Shown'
    BY <1>3, <2>1 DEF Shown
  <2>4. Len(spawned_for) \in Nat
    BY DEF GoodProcesses
  <2> HIDE DEF n
  <2>5. OneTab'
    <3>1. SUFFICES ASSUME NoSecondTab' PROVE OneTab'
      BY DEF OneTab
    <3>2. NoSecondTab
      BY <3>1 DEF NoSecondTab
    <3>3. \A k \in 1 .. Len(spawned_for) :
            spawned_for[k][2] < new /\ spawned_for[k][2] \in Nat
      BY <1>4, <3>2, StartedFor DEF OneTab
    <3>4. \A k \in 1 .. n : k \in 1 .. Len(spawned_for) \/ k = n
      BY <2>4 DEF n
    <3>5. n \in 1 .. n /\ \A k \in 1 .. Len(spawned_for) : k \in 1 .. n
      BY <2>4 DEF n
    <3>6. \A k \in 1 .. n : spawned_for'[k][2] < new + 1
      <4>1. spawned_for'[n][2] = new
        BY <2>1
      <4>2. \A k \in 1 .. Len(spawned_for) : spawned_for'[k][2] < new + 1
        BY <1>2, <2>1, <3>3
      <4>3. QED BY <1>2, <3>4, <4>1, <4>2
    <3>7. \A k \in 1 .. n :
            spawned_for'[k][2] \in ToSet(tabs'[1].order) => spawned_for'[k][2] \in Keys'
      <4>1. spawned_for'[n][2] = new
        BY <2>1
      <4>2. \A k \in 1 .. Len(spawned_for) :
              spawned_for[k][2] \in ToSet(tabs'[1].order) => spawned_for[k][2] \in Keys
        BY <1>1, <1>2, <1>4, <3>2, <3>3 DEF OneTab
      <4>3. QED BY <2>1, <3>4, <4>1, <4>2
    <3>8. \A j \in Keys' : panes'[j] \in 1 .. n /\ spawned_for'[panes'[j]] = <<0, j>>
      <4>1. TAKE j \in Keys'
      <4>2. CASE j = new
        BY <1>4, <2>1, <3>2, <3>5, <4>2
      <4>3. CASE j # new
        BY <2>1, <3>2, <3>5, <4>3 DEF OneTab
      <4>4. QED BY <4>2, <4>3
    <3>9. QED BY <1>1, <1>2, <1>4, <2>1, <3>2, <3>6, <3>7, <3>8 DEF OneTab
  <2>6. QED BY <1>1, <2>2, <2>3, <2>5
<1>7. QED BY <1>5, <1>6

(* The program ends, whatever became of the tabs. *)
LEMMA Ended ==
  ASSUME GoodProcesses, GoodLoop, OneTab, NEW reason \in {"dead", "error", "quit"},
         ExitWith(reason), GoodTabs', UNCHANGED <<spawned_for, dead>>,
         NoSecondTab' => /\ NoSecondTab /\ Len(tabs') = 1 /\ tabs'[1].id = 0
                         /\ tabs'[1].next \in Nat
                         /\ \A i \in Nat : i < tabs[1].next => i < tabs'[1].next
  PROVE  AppInv'
<1>1. /\ panes' \in [PaneId -> Proc \cup {NoProc}] /\ alive' = {} /\ Keys' = {}
      /\ phase' = "exited" /\ exit' = reason
  BY ExitDrops
<1>2. GoodProcesses' /\ GoodLoop' /\ Shown' /\ DeadHeld'
  BY <1>1 DEF GoodProcesses, GoodLoop, Shown, DeadHeld
<1>3. \A k \in 1 .. Len(spawned_for) : spawned_for[k][2] \in Nat
  BY StartedFor
<1>4. OneTab'
  BY <1>1, <1>3 DEF OneTab
<1>5. QED BY <1>2, <1>4 DEF AppInv

-----------------------------------------------------------------------------
(* Every step keeps AppInv. *)

LEMMA InitGood == ASSUME AppAssumption, Init PROVE AppInv
<1>1. GoodTab(NewTabRecord(0)) /\ NewTabRecord(0).next = 1 /\ NewTabRecord(0).id = 0
      /\ ToSet(NewTabRecord(0).order) = {0}
  BY NewTabGood DEF AppAssumption
<1>2. GoodTabs /\ Len(tabs) = 1 /\ tabs[1] = NewTabRecord(0)
  BY <1>1 DEF Init, GoodTabs, GoodTab, AppAssumption
<1>3. /\ 0 \in PaneId /\ 1 \in Proc /\ 1 # NoProc
      /\ panes \in [PaneId -> Proc \cup {NoProc}] /\ panes[0] = 1
      /\ Keys = {0}
  BY DEF Init, PaneId, Proc, Keys, AppAssumption
<1>4. /\ spawned_for \in Seq((0 .. MaxTabs - 1) \X PaneId) /\ Len(spawned_for) = 1
      /\ spawned_for[1] = <<0, 0>>
  BY <1>3 DEF Init, AppAssumption
<1>5. GoodProcesses
  BY <1>3, <1>4 DEF Init, GoodProcesses
<1>6. GoodLoop /\ DeadHeld
  BY DEF Init, GoodLoop, DeadHeld
<1>7. Shown
  BY <1>1, <1>2, <1>3 DEF Shown
<1>8. OneTab
  BY <1>1, <1>2, <1>3, <1>4 DEF OneTab
<1>9. QED BY <1>2, <1>5, <1>6, <1>7, <1>8 DEF AppInv

(* The steps that leave tabs and entries alone. *)
LEMMA QuietStep ==
  ASSUME AppInv,
         \/ \E p \in Proc : ProcessExits(p)
         \/ CollectDead \/ AgentsServed \/ PollTimesOut
  PROVE  AppInv'
<1>1. UNCHANGED <<tabs, active_tab, next_tab_id, panes, spawned_for>> /\ alive' \subseteq alive
  BY DEF ProcessExits, CollectDead, AgentsServed, PollTimesOut
<1>2. GoodTabs'
  BY <1>1 DEF AppInv, GoodTabs
<1>3. GoodProcesses' /\ Keys' = Keys /\ Shown'
  BY <1>1 DEF AppInv, GoodProcesses, Keys, Shown
<1>4. GoodLoop'
  BY DEF AppInv, GoodLoop, ProcessExits, CollectDead, AgentsServed, PollTimesOut, Keys
<1>5. phase' # "exited" => phase # "exited"
  BY DEF ProcessExits, CollectDead, AgentsServed, PollTimesOut
<1>6. OneTab'
  BY <1>1, <1>3, <1>5 DEF AppInv, OneTab, NoSecondTab
<1>7. DeadHeld'
  <2>1. CASE \E p \in Proc : ProcessExits(p)
    BY <1>3, <2>1 DEF AppInv, DeadHeld, ProcessExits
  <2>2. CASE CollectDead
    BY <1>3, <2>2 DEF DeadHeld, CollectDead
  <2>3. CASE AgentsServed \/ PollTimesOut
    BY <2>3 DEF DeadHeld, AgentsServed, PollTimesOut
  <2>4. QED BY <2>1, <2>2, <2>3
<1>8. QED BY <1>2, <1>3, <1>4, <1>6, <1>7 DEF AppInv

(* The tabs stay when the program ends at once. *)
LEMMA EndedHere ==
  ASSUME AppInv, NEW reason \in {"dead", "error", "quit"}, ExitWith(reason),
         UNCHANGED <<tabs, active_tab, next_tab_id, spawned_for, dead>>
  PROVE  AppInv'
<1>1. GoodTabs'
  BY DEF AppInv, GoodTabs
<1>2. NoSecondTab' => /\ NoSecondTab /\ Len(tabs') = 1 /\ tabs'[1].id = 0
                      /\ tabs'[1].next \in Nat
                      /\ \A i \in Nat : i < tabs[1].next => i < tabs'[1].next
  BY ActiveGood, TheTab DEF AppInv, OneTab, NoSecondTab
<1>3. QED BY <1>1, <1>2, Ended DEF AppInv

LEMMA CloseDeadKeeps ==
  ASSUME AppAssumption, AppInv, NEW id \in PaneId, CloseDead(id)
  PROVE  AppInv'
<1>1. CASE ExitWith("dead") /\ UNCHANGED <<tabs, dead>>
  BY <1>1, EndedHere DEF CloseDead
<1>2. CASE /\ Len(Active.order) > 1 /\ dead' = dead \ {id} /\ DropPanes({id})
           /\ IF CanClose(id) THEN close_pane(id) ELSE UNCHANGED tabs
           /\ UNCHANGED <<phase, exit>>
  <2>1. phase = "close" /\ UNCHANGED <<active_tab, next_tab_id, spawned_for>>
    BY DEF CloseDead
  <2>2. \/ CanClose(id) /\ close_pane(id)
        \/ id \notin ToSet(Active.order) /\ UNCHANGED tabs
    BY <1>2 DEF CanClose
  <2>3. GoodTabs' /\ GoodProcesses' /\ Shown' /\ OneTab'
    BY <1>2, <2>1, <2>2, PaneGone DEF AppInv
  <2>4. GoodLoop'
    BY <1>2 DEF AppInv, GoodLoop
  <2>5. /\ alive' \subseteq alive /\ Keys' = Keys \ {id}
        /\ \A j \in Keys' : panes'[j] = panes[j]
    BY <1>2, Dropped DEF AppInv
  <2>6. DeadHeld'
    BY <1>2, <2>1, <2>5 DEF AppInv, DeadHeld
  <2>7. QED BY <2>3, <2>4, <2>6 DEF AppInv
<1>3. QED BY <1>1, <1>2 DEF CloseDead

LEMMA DeadClosedKeeps ==
  ASSUME AppInv, DeadClosed
  PROVE  AppInv'
<1>1. CASE ExitWith("dead")
  BY <1>1, EndedHere DEF DeadClosed
<1>2. CASE phase' = "agent" /\ UNCHANGED <<panes, alive, exit>>
  <2>1. UNCHANGED <<tabs, active_tab, next_tab_id, spawned_for, dead>> /\ phase = "close"
    BY DEF DeadClosed
  <2>2. GoodTabs' /\ GoodLoop' /\ DeadHeld'
    BY <1>2, <2>1 DEF AppInv, GoodTabs, GoodLoop, DeadHeld
  <2>3. GoodProcesses' /\ Shown' /\ OneTab'
    BY <1>2, <2>1, <2>2, SamePanes DEF AppInv
  <2>4. QED BY <2>2, <2>3 DEF AppInv
<1>3. QED BY <1>1, <1>2 DEF DeadClosed

(* Not in handle_dead_panes: nothing waits to be closed. *)
LEMMA Otherwise ==
  ASSUME AppInv, phase \in {"agent", "poll"}, phase' \in {"agent", "reap"}, UNCHANGED <<dead, exit>>
  PROVE  GoodLoop' /\ DeadHeld' /\ phase # "exited"
  BY DEF AppInv, GoodLoop, DeadHeld

LEMMA SplitKeeps ==
  ASSUME AppAssumption, AppInv, AgentSplit \/ SplitPane
  PROVE  AppInv'
<1>1. split_pane /\ UNCHANGED <<active_tab, next_tab_id, dead>> /\ phase \in {"agent", "poll"}
  BY DEF AgentSplit, SplitPane
<1>2. CASE /\ SpawnInto(Active.id, Active.next) \/ UNCHANGED <<panes, alive, spawned_for>>
           /\ phase' \in {"agent", "reap"} /\ UNCHANGED exit
  <2>1. GoodLoop' /\ DeadHeld' /\ phase # "exited"
    BY <1>1, <1>2, Otherwise
  <2>2. GoodTabs' /\ GoodProcesses' /\ Shown' /\ OneTab'
    BY <1>1, <1>2, <2>1, PaneAdded DEF AppInv
  <2>3. QED BY <2>1, <2>2 DEF AppInv
<1>3. CASE ExitWith("error") /\ UNCHANGED spawned_for
  <2>1. /\ GoodTabs' /\ Len(tabs') = Len(tabs)
        /\ tabs'[active_tab].next = Active.next + 1 /\ tabs'[active_tab].id = Active.id
    BY <1>1, SplitGood DEF AppInv
  <2>2. NoSecondTab' => /\ NoSecondTab /\ Len(tabs') = 1 /\ tabs'[1].id = 0
                        /\ tabs'[1].next \in Nat
                        /\ \A i \in Nat : i < tabs[1].next => i < tabs'[1].next
    <3>1. SUFFICES ASSUME NoSecondTab'
                   PROVE  /\ NoSecondTab /\ Len(tabs') = 1 /\ tabs'[1].id = 0
                          /\ tabs'[1].next \in Nat
                          /\ \A i \in Nat : i < tabs[1].next => i < tabs'[1].next
      OBVIOUS
    <3>2. NoSecondTab
      BY <1>1, <3>1 DEF NoSecondTab
    <3>3. active_tab = 1 /\ Active = tabs[1] /\ Active.id = 0 /\ Len(tabs) = 1
      BY <3>2, TheTab DEF AppInv
    <3>4. Active.next \in Nat
      BY ActiveGood DEF AppInv
    <3>5. QED BY <2>1, <3>2, <3>3, <3>4
  <2>3. QED BY <1>1, <1>3, <2>1, <2>2, Ended DEF AppInv
<1>4. QED BY <1>2, <1>3 DEF AgentSplit, SplitPane, SpawnOrFail

LEMMA KillKeeps ==
  ASSUME AppAssumption, AppInv, NEW id \in PaneId,
         AgentKillPane(id) \/ (CloseActivePane /\ id = Active.active)
  PROVE  AppInv'
<1>1. /\ CanClose(id) /\ close_pane(id) /\ DropPanes({id})
      /\ UNCHANGED <<active_tab, next_tab_id, spawned_for, dead, exit>>
      /\ phase \in {"agent", "poll"} /\ phase' \in {"agent", "reap"}
  BY DEF AgentKillPane, CloseActivePane
<1>2. GoodLoop' /\ DeadHeld' /\ phase # "exited"
  BY <1>1, Otherwise
<1>3. GoodTabs' /\ GoodProcesses' /\ Shown' /\ OneTab'
  BY <1>1, <1>2, PaneGone DEF AppInv
<1>4. QED BY <1>2, <1>3 DEF AppInv

LEMMA FocusKeeps ==
  ASSUME AppInv, NEW id, AgentFocusPane(id) \/ FocusPane(id)
  PROVE  AppInv'
<1>1. /\ focus_pane(id) /\ phase \in {"agent", "poll"} /\ phase' \in {"agent", "reap"}
      /\ UNCHANGED <<active_tab, next_tab_id, panes, alive, spawned_for, dead, exit>>
  BY DEF AgentFocusPane, FocusPane
<1>2. GoodLoop' /\ DeadHeld' /\ phase # "exited"
  BY <1>1, Otherwise
<1>3. GoodTabs' /\ GoodProcesses' /\ Shown' /\ OneTab'
  BY <1>1, <1>2, FocusGood, SamePanes DEF AppInv
<1>4. QED BY <1>2, <1>3 DEF AppInv

LEMMA NewTabKeeps ==
  ASSUME AppAssumption, AppInv, NewTab
  PROVE  AppInv'
<1>1. /\ phase = "poll" /\ next_tab_id < MaxTabs /\ next_tab_id' = next_tab_id + 1
      /\ tabs' = Append(tabs, NewTabRecord(next_tab_id)) /\ active_tab' = Len(tabs')
      /\ SpawnOrFail(next_tab_id, 0) /\ UNCHANGED dead
  BY DEF NewTab
<1>2. next_tab_id \in 0 .. MaxTabs - 1 /\ next_tab_id' \in 1 .. MaxTabs /\ next_tab_id' # 1
  BY <1>1 DEF AppInv, GoodTabs, AppAssumption
<1>3. ~NoSecondTab'
  BY <1>2 DEF NoSecondTab
<1> DEFINE t == NewTabRecord(next_tab_id)
<1>4. GoodTab(t) /\ t \in TabRecord /\ ToSet(t.order) = {0} /\ 0 \in PaneId
  BY <1>2, NewTabGood DEF GoodTab
<1> HIDE DEF t
<1>5. /\ tabs' = Append(tabs, t) /\ tabs \in Seq(TabRecord)
      /\ \A i \in 1 .. Len(tabs) : GoodTab(tabs[i])
  BY <1>1 DEF AppInv, GoodTabs, t
<1>6. /\ tabs' \in Seq(TabRecord) /\ Len(tabs') = Len(tabs) + 1 /\ Len(tabs) \in Nat
      /\ tabs'[Len(tabs) + 1] = t
      /\ \A i \in 1 .. Len(tabs) : tabs'[i] = tabs[i]
  BY <1>4, <1>5
<1>7. \A i \in 1 .. Len(tabs') : i \in 1 .. Len(tabs) \/ i = Len(tabs) + 1
  BY <1>6
<1>8. /\ Len(tabs) + 1 \in 1 .. Len(tabs')
      /\ \A i \in 1 .. Len(tabs) : i \in 1 .. Len(tabs')
  BY <1>6
<1>9. GoodTabs'
  <2>1. \A i \in 1 .. Len(tabs') : GoodTab(tabs'[i])
    BY <1>4, <1>5, <1>6, <1>7
  <2>2. QED BY <1>1, <1>2, <1>6, <1>8, <2>1 DEF GoodTabs, GoodTab
<1>10. CASE ExitWith("error") /\ UNCHANGED spawned_for
  BY <1>1, <1>3, <1>9, <1>10, Ended DEF AppInv
<1>11. CASE SpawnInto(next_tab_id, 0) /\ phase' = "reap" /\ UNCHANGED exit
  <2>1. /\ panes' \in [PaneId -> Proc \cup {NoProc}] /\ alive' \subseteq Proc
        /\ spawned_for' \in Seq((0 .. MaxTabs - 1) \X PaneId)
        /\ Keys' = Keys \cup {0}
        /\ alive' \subseteq {panes'[j] : j \in Keys'}
    BY <1>2, <1>4, <1>11, SpawnedInto DEF AppInv
  <2>2. GoodProcesses'
    BY <2>1 DEF GoodProcesses
  <2>3. Shown'
    <3>1. SUFFICES ASSUME NEW j \in Keys' PROVE \E i \in 1 .. Len(tabs') : j \in ToSet(tabs'[i].order)
      BY DEF Shown
    <3>2. CASE j = 0
      BY <1>4, <1>6, <1>8, <3>2
    <3>3. CASE j \in Keys
      BY <1>6, <1>8, <3>3 DEF AppInv, Shown
    <3>4. QED BY <2>1, <3>2, <3>3
  <2>4. OneTab'
    BY <1>3 DEF OneTab
  <2>5. GoodLoop' /\ DeadHeld'
    BY <1>1, <1>11, Otherwise
  <2>6. QED BY <1>9, <2>2, <2>3, <2>4, <2>5 DEF AppInv
<1>12. QED BY <1>1, <1>10, <1>11 DEF SpawnOrFail

LEMMA CloseTabKeeps ==
  ASSUME AppAssumption, AppInv, CloseTab
  PROVE  AppInv'
<1> DEFINE n == Len(tabs)
           closed == ToSet(Active.order)
<1>1. /\ phase = "poll" /\ phase' = "reap" /\ n > 1
      /\ tabs' = RemoveAt(tabs, active_tab)
      /\ active_tab' = IF active_tab > n - 1 THEN n - 1 ELSE active_tab
      /\ DropPanes(closed) /\ UNCHANGED <<next_tab_id, spawned_for, dead, exit>>
  BY DEF CloseTab
<1>2. /\ tabs \in Seq(TabRecord) /\ n \in Nat /\ active_tab \in 1 .. n
      /\ \A i \in 1 .. n : GoodTab(tabs[i])
  BY DEF AppInv, GoodTabs
<1>3. ~NoSecondTab'
  <2>1. NoSecondTab => n = 1
    BY TheTab DEF AppInv
  <2>2. NoSecondTab' => NoSecondTab
    BY <1>1 DEF NoSecondTab
  <2>3. ~(n = 1)
    BY <1>1, <1>2
  <2>4. QED BY <2>1, <2>2, <2>3
<1>4. /\ tabs' \in Seq(TabRecord) /\ Len(tabs') = n - 1
      /\ \A i \in 1 .. n - 1 : tabs'[i] = IF i < active_tab THEN tabs[i] ELSE tabs[i + 1]
  BY <1>1, <1>2, RemoveAtShape
<1> HIDE DEF n
<1>5. GoodTabs'
  <2>1. ASSUME NEW i \in 1 .. Len(tabs') PROVE GoodTab(tabs'[i])
    <3>1. i \in 1 .. n /\ i + 1 \in 1 .. n
      BY <1>2, <1>4, <2>1
    <3>2. tabs'[i] = tabs[i] \/ tabs'[i] = tabs[i + 1]
      BY <1>4, <2>1
    <3>3. QED BY <1>2, <3>1, <3>2
  <2>2. active_tab' \in 1 .. Len(tabs')
    BY <1>1, <1>2, <1>4
  <2>3. next_tab_id' \in 1 .. MaxTabs
    BY <1>1 DEF AppInv, GoodTabs
  <2>4. QED BY <1>4, <2>1, <2>2, <2>3 DEF GoodTabs
<1>6. closed \subseteq PaneId
  BY ActiveGood DEF AppInv
<1>7. /\ panes' \in [PaneId -> Proc \cup {NoProc}] /\ alive' \subseteq alive
      /\ Keys' = Keys \ closed /\ alive' \subseteq {panes'[j] : j \in Keys'}
  BY <1>1, <1>6, Dropped DEF AppInv
<1>8. GoodProcesses'
  BY <1>1, <1>7 DEF AppInv, GoodProcesses
<1>9. Shown'
  <2>1. SUFFICES ASSUME NEW j \in Keys' PROVE \E i \in 1 .. Len(tabs') : j \in ToSet(tabs'[i].order)
    BY DEF Shown
  <2>2. PICK i \in 1 .. n : j \in ToSet(tabs[i].order)
    BY <1>7 DEF AppInv, Shown, n
  <2>3. i # active_tab
    BY <1>7, <2>2 DEF Active
  <2>4. CASE i < active_tab
    BY <1>2, <1>4, <2>2, <2>4
  <2>5. CASE i > active_tab
    <3>1. i - 1 \in 1 .. n - 1 /\ ~(i - 1 < active_tab) /\ (i - 1) + 1 = i
      BY <1>2, <2>5
    <3>2. tabs'[i - 1] = tabs[i]
      BY <1>4, <3>1
    <3>3. QED BY <1>4, <2>2, <3>1, <3>2
  <2>6. QED BY <1>2, <2>3, <2>4, <2>5
<1>10. OneTab'
  BY <1>3 DEF OneTab
<1>11. GoodLoop' /\ DeadHeld'
  BY <1>1, Otherwise
<1>12. QED BY <1>5, <1>8, <1>9, <1>10, <1>11 DEF AppInv

LEMMA SwitchTabKeeps ==
  ASSUME AppInv, SwitchTab
  PROVE  AppInv'
<1> DEFINE n == Len(tabs)
<1>1. /\ phase = "poll" /\ phase' = "reap" /\ n > 1
      /\ active_tab' \in {(active_tab % n) + 1, IF active_tab = 1 THEN n ELSE active_tab - 1}
      /\ UNCHANGED <<tabs, next_tab_id, panes, alive, spawned_for, dead, exit>>
  BY DEF SwitchTab
<1>2. n \in Nat /\ active_tab \in 1 .. n
  BY DEF AppInv, GoodTabs
<1>3. active_tab' \in 1 .. n
  <2>1. active_tab % n \in 0 .. n - 1
    BY <1>1, <1>2
  <2> HIDE DEF n
  <2>2. CASE active_tab' = (active_tab % n) + 1
    BY <1>2, <2>1, <2>2
  <2>3. CASE active_tab' = IF active_tab = 1 THEN n ELSE active_tab - 1
    BY <1>1, <1>2, <2>3
  <2>4. QED BY <1>1, <2>2, <2>3
<1>4. GoodTabs'
  BY <1>1, <1>3 DEF AppInv, GoodTabs
<1>5. GoodLoop' /\ DeadHeld' /\ phase # "exited"
  BY <1>1, Otherwise
<1>6. GoodProcesses' /\ Shown' /\ OneTab'
  BY <1>1, <1>4, <1>5, SamePanes DEF AppInv
<1>7. QED BY <1>4, <1>5, <1>6 DEF AppInv

LEMMA NextGood ==
  ASSUME AppAssumption, AppInv, [Next]_vars
  PROVE  AppInv'
<1>1. CASE UNCHANGED vars
  BY <1>1 DEF AppInv, GoodTabs, GoodProcesses, GoodLoop, Shown, OneTab, DeadHeld, Keys,
              NoSecondTab, vars
<1>2. ASSUME NEW id \in PaneId, CloseDead(id) PROVE AppInv'
  BY <1>2, CloseDeadKeeps
<1>3. CASE DeadClosed
  BY <1>3, DeadClosedKeeps
<1>4. CASE CollectDead \/ AgentsServed \/ PollTimesOut \/ \E p \in Proc : ProcessExits(p)
  BY <1>4, QuietStep
<1>5. CASE AgentSplit \/ SplitPane
  BY <1>5, SplitKeeps
<1>6. ASSUME NEW id \in PaneId, AgentKillPane(id) PROVE AppInv'
  BY <1>6, KillKeeps
<1>7. ASSUME NEW id \in PaneId, AgentFocusPane(id) \/ FocusPane(id) PROVE AppInv'
  BY <1>7, FocusKeeps
<1>8. CASE CloseActivePane
  <2>1. Active.active \in PaneId
    BY ActiveGood DEF AppInv
  <2>2. QED BY <1>8, <2>1, KillKeeps
<1>9. CASE NewTab
  BY <1>9, NewTabKeeps
<1>10. CASE CloseTab
  BY <1>10, CloseTabKeeps
<1>11. CASE SwitchTab
  BY <1>11, SwitchTabKeeps
<1>12. CASE Quit
  BY <1>12, EndedHere DEF Quit
<1>13. QED
  BY <1>1, <1>2, <1>3, <1>4, <1>5, <1>6, <1>7, <1>8, <1>9, <1>10, <1>11, <1>12 DEF Next, Loop

-----------------------------------------------------------------------------
(* Whatever the children, the agents and the user do, AppInv stays          *)
(* (event_loop.rs, command.rs, ipc_handler.rs).                             *)
THEOREM AppSafe == Spec => []AppInv
  BY AppAssumption, InitGood, NextGood, PTL DEF Spec

(* The variables keep their kinds; above all the index of the active tab    *)
(* stays within a list of tabs that never gets empty (session.rs).          *)
THEOREM AppTypeOK == Spec => []TypeOK
<1>1. AppInv => TypeOK
  BY DEF AppInv, GoodTabs, GoodProcesses, GoodLoop, TypeOK
<1>2. QED BY <1>1, AppSafe, PTL

(* Closing panes and tabs leaves no shell behind that the user can neither  *)
(* see nor close (close_pane and CloseTab, command.rs; KillPane,            *)
(* ipc_handler.rs).                                                         *)
THEOREM AppNoStrayProcess == Spec => []NoStrayProcess
<1>1. ASSUME AppInv PROVE NoStrayProcess
  <2>1. DOMAIN tabs = 1 .. Len(tabs)
    BY <1>1 DEF AppInv, GoodTabs
  <2>2. QED BY <1>1, <2>1 DEF AppInv, GoodProcesses, Shown, NoStrayProcess
<1>2. QED BY <1>1, AppSafe, PTL

(* Until a second tab is opened every pane a process was started for has    *)
(* that process and no other (App::panes, app.rs).                          *)
THEOREM AppOwnProcessInOneTab == Spec => []OwnProcessInOneTab
<1>1. ASSUME AppInv PROVE OwnProcessInOneTab
  <2>1. SUFFICES ASSUME NoSecondTab, phase = "poll", NEW i \in DOMAIN tabs,
                        NEW id \in ToSet(tabs[i].order),
                        <<tabs[i].id, id>> \in ToSet(spawned_for)
                 PROVE  id \in Keys /\ spawned_for[panes[id]] = <<tabs[i].id, id>>
    BY DEF OwnProcessInOneTab, OwnProcess
  <2>2. i = 1 /\ tabs[1].id = 0
    BY <1>1, <2>1, TheTab DEF AppInv, GoodTabs, OneTab
  <2>3. PICK k \in 1 .. Len(spawned_for) : spawned_for[k] = <<0, id>>
    BY <1>1, <2>1, <2>2, Members DEF AppInv, GoodProcesses
  <2>4. spawned_for[k][2] = id
    BY <2>3
  <2>5. id \in Keys
    BY <1>1, <2>1, <2>2, <2>3, <2>4 DEF AppInv, OneTab
  <2>6. QED BY <1>1, <2>1, <2>2, <2>5 DEF AppInv, OneTab
<1>2. QED BY <1>1, AppSafe, PTL

(* Until then handle_dead_panes ends the program only when no child runs    *)
(* (event_loop.rs).                                                         *)
THEOREM AppQuitsOnlyWhenAllDead == Spec => QuitsOnlyWhenAllDead
<1>1. ASSUME AppInv, Next, NoSecondTab, exit' = "dead", exit = "none" PROVE alive = {}
  <2>1. (\E id \in PaneId : CloseDead(id) /\ ExitWith("dead")) \/ (DeadClosed /\ ExitWith("dead"))
    BY <1>1 DEF Next, Loop, CollectDead, CloseDead, DeadClosed, AgentsServed, PollTimesOut,
                ProcessExits, AgentSplit, AgentKillPane, AgentFocusPane, FocusPane, SplitPane,
                CloseActivePane, NewTab, CloseTab, SwitchTab, Quit, SpawnOrFail, ExitWith
  <2>2. alive \subseteq {panes[id] : id \in Keys}
    BY <1>1 DEF AppInv, GoodProcesses
  <2>3. CASE DeadClosed /\ ExitWith("dead")
    <3>1. Keys = {}
      BY <1>1, <2>3 DEF DeadClosed
    <3>2. QED BY <2>2, <3>1
  <2>4. ASSUME NEW id \in PaneId, CloseDead(id), ExitWith("dead") PROVE alive = {}
    <3>1. phase = "close" /\ id \in dead /\ Len(Active.order) <= 1
      BY <1>1, <2>4 DEF CloseDead
    <3>2. id \in Keys /\ panes[id] \notin alive
      BY <1>1, <3>1 DEF AppInv, DeadHeld
    <3>3. Active = tabs[1] /\ Len(tabs) = 1
      BY <1>1, TheTab DEF AppInv
    <3>4. Keys \subseteq ToSet(Active.order)
      BY <1>1, <3>3 DEF AppInv, Shown
    <3>5. \A j \in ToSet(Active.order) : j = Active.order[1]
      BY <1>1, <3>1, ActiveGood, Members DEF AppInv
    <3>6. Keys = {id}
      BY <3>2, <3>4, <3>5
    <3>7. QED BY <2>2, <3>2, <3>6
  <2>5. QED BY <2>1, <2>3, <2>4
<1>2. AppInv /\ [Next]_vars => [NoSecondTab /\ exit' = "dead" /\ exit = "none" => alive = {}]_vars
  BY <1>1
<1>3. QED BY <1>2, AppSafe, PTL DEF Spec, QuitsOnlyWhenAllDead
=============================================================================
