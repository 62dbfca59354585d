---------------------------- MODULE DaemonProofs ----------------------------
(***************************************************************************)
(* What the daemon's loop keeps, for any number of clients, any output and *)
(* any size of the buffers.                                                *)
(*                                                                         *)
(* MissesOnlyCaptured speaks of the beginning of a pass only.  Within one  *)
(* the attached clients are of three sorts: those that have been sent the  *)
(* pass's output, those that will be, and those marked for removal, and    *)
(* the marks are positions in a list that shrinks (ListInv, Marks).        *)
(***************************************************************************)
EXTENDS Daemon, SequenceTheorems, TLAPS

Phases == {"accept", "poll", "stream", "read", "typing", "writing", "exited"}

TypeInv ==
  /\ request \in [Clients -> AllKinds \cup {"none", "unsent"}]
  /\ sent \in [Clients -> 0 .. 2]
  /\ hung_up \in [Clients -> BOOLEAN]
  /\ replied \in [Clients -> BOOLEAN]
  /\ stream \in [Clients -> Seq(Nat)]
  /\ unread \in [Clients -> 0 .. BufCap]
  /\ produced \in 0 .. MaxChunks
  /\ pending \in Seq(Nat)
  /\ backlog \in Seq(Clients)
  /\ ipc_clients \in Seq(Clients)
  /\ attached_clients \in Seq(Clients)
  /\ taken \in [Clients -> 0 .. 2]
  /\ pty_output \in Seq(Nat)
  /\ i \in Nat \ {0}
  /\ dead_attached \in Seq(Nat)
  /\ to_remove \in Seq(Clients \X BOOLEAN)
  /\ shutdown \in BOOLEAN
  /\ phase \in Phases
  /\ from \in [Clients -> Nat]
  /\ captured \subseteq Nat

(* The chunks in the PTYs and in the pass follow each other. *)
ChunkInv ==
  /\ Len(pending) <= PtyCap
  /\ Len(pending) + Len(pty_output) <= produced
  /\ \A k \in DOMAIN pending : pending[k] = Drained + k
  /\ \A k \in DOMAIN pty_output : pty_output[k] = Drained - Len(pty_output) + k
  /\ captured \subseteq 1 .. Drained - Len(pty_output)
  /\ \A c \in Clients : from[c] <= Drained - Len(pty_output)
  /\ phase # "stream" => pty_output = <<>>

(* A connection is in one place of one list, and in none before it is made. *)
Once(s) == \A j, k \in DOMAIN s : s[j] = s[k] => j = k

ListInv ==
  /\ Once(backlog)
  /\ Once(ipc_clients)
  /\ Once(attached_clients)
  /\ ToSet(backlog) \cap ToSet(ipc_clients) = {}
  /\ ToSet(backlog) \cap ToSet(attached_clients) = {}
  /\ ToSet(ipc_clients) \cap ToSet(attached_clients) = {}
  /\ \A c \in Clients : request[c] = "none" => c \notin Connected

(* What the loop has marked in this pass. *)
Marks ==
  /\ phase # "stream" => dead_attached = <<>>
  /\ \A k \in DOMAIN dead_attached :
       dead_attached[k] \in DOMAIN attached_clients /\ dead_attached[k] < i
  /\ \A j, k \in DOMAIN dead_attached : j < k => dead_attached[j] < dead_attached[k]
  /\ phase \in {"accept", "poll"} => i = 1
  /\ phase \in {"accept", "poll", "stream", "exited"} => to_remove = <<>>
  /\ phase \in {"typing", "writing"} => i \in DOMAIN ipc_clients
  /\ \A k \in DOMAIN to_remove :
       \E m \in DOMAIN ipc_clients : m < i /\ ipc_clients[m] = to_remove[k][1]
  /\ \A j, k \in DOMAIN to_remove : to_remove[j][1] = to_remove[k][1] => j = k

(* What every client has been sent: nothing before it is attached; after    *)
(* that everything due, but for the chunks of the pass it is not yet up to. *)
Fresh ==
  \A c \in Clients :
    (request[c] = "none" \/ c \in ToSet(backlog) \cup ToSet(ipc_clients)) => stream[c] = <<>>

MarkedFresh ==
  \A k \in DOMAIN to_remove :
    to_remove[k][2] => Due(to_remove[k][1], Drained) = {}

AllSent == phase # "stream" => \A c \in ToSet(attached_clients) : Has(c, Drained)

PassSent ==
  phase = "stream" =>
    \A j \in DOMAIN attached_clients :
      IF j < i
      THEN j \in ToSet(dead_attached) \/ Has(attached_clients[j], Drained)
      ELSE Has(attached_clients[j], Drained - Len(pty_output))

StreamInv == Fresh /\ MarkedFresh /\ AllSent /\ PassSent

DaemonInv == TypeInv /\ ChunkInv /\ ListInv /\ Marks /\ StreamInv

-----------------------------------------------------------------------------
(* Sequences.                                                               *)
LEMMA RemoveAtIs ==
  ASSUME NEW S, NEW s \in Seq(S), NEW p \in 1 .. Len(s)
  PROVE  /\ RemoveAt(s, p) \in Seq(S)
         /\ Len(s) \in Nat /\ DOMAIN s = 1 .. Len(s)
         /\ Len(RemoveAt(s, p)) = Len(s) - 1 /\ DOMAIN RemoveAt(s, p) = 1 .. Len(s) - 1
         /\ \A k \in 1 .. Len(s) - 1 : RemoveAt(s, p)[k] = IF k < p THEN s[k] ELSE s[k + 1]
<1> DEFINE a == SubSeq(s, 1, p - 1)
           b == SubSeq(s, p + 1, Len(s))
<1>1. a \in Seq(S) /\ Len(a) = p - 1 /\ \A k \in 1 .. p - 1 : a[k] = s[k]
  BY SubSeqProperties
<1>2. b \in Seq(S) /\ Len(b) = Len(s) - p /\ \A k \in 1 .. Len(s) - p : b[k] = s[p + k]
  <2>1. \A k \in p + 1 .. Len(s) : s[k] \in S
    OBVIOUS
  <2>2. /\ b \in Seq(S)
        /\ Len(b) = IF p + 1 <= Len(s) THEN Len(s) - (p + 1) + 1 ELSE 0
        /\ \A k \in 1 .. Len(s) - (p + 1) + 1 : b[k] = s[(p + 1) + k - 1]
    BY <2>1, SubSeqProperties
  <2> HIDE DEF b
  <2>3. QED BY <2>2
<1> HIDE DEF a, b
<1>3. /\ a \o b \in Seq(S) /\ Len(a \o b) = Len(s) - 1
      /\ \A k \in 1 .. Len(s) - 1 :
           (a \o b)[k] = IF k <= p - 1 THEN a[k] ELSE b[k - (p - 1)]
  BY <1>1, <1>2, ConcatProperties
<1>4. ASSUME NEW k \in 1 .. Len(s) - 1, ~(k < p)
      PROVE  (a \o b)[k] = s[k + 1]
  <2>1. k - (p - 1) \in 1 .. Len(s) - p /\ p + (k - (p - 1)) = k + 1 /\ ~(k <= p - 1)
    BY <1>4
  <2>2. QED BY <2>1, <1>2, <1>3
<1>5. ASSUME NEW k \in 1 .. Len(s) - 1, k < p
      PROVE  (a \o b)[k] = s[k]
  BY <1>1, <1>3, <1>5
<1>6. RemoveAt(s, p) = a \o b
  BY DEF RemoveAt, a, b
<1>7. /\ Len(s) \in Nat /\ DOMAIN s = 1 .. Len(s)
      /\ DOMAIN (a \o b) = 1 .. Len(s) - 1
  BY <1>3
<1>8. QED BY <1>3, <1>4, <1>5, <1>6, <1>7

LEMMA FrontIs ==
  ASSUME NEW S, NEW s \in Seq(S), s # <<>>
  PROVE  /\ Len(s) \in Nat \ {0} /\ Last(s) \in S /\ Last(s) = s[Len(s)]
         /\ DOMAIN s = 1 .. Len(s) /\ DOMAIN Front(s) = 1 .. Len(s) - 1
         /\ Front(s) \in Seq(S) /\ Len(Front(s)) = Len(s) - 1
         /\ \A k \in 1 .. Len(s) - 1 : Front(s)[k] = s[k]
<1>1. Len(s) \in Nat \ {0}
  BY EmptySeq
<1>2. Front(s) \in Seq(S) /\ Len(Front(s)) = Len(s) - 1
      /\ \A k \in 1 .. Len(s) - 1 : Front(s)[k] = s[k]
  <2> DEFINE r == SubSeq(s, 1, Len(s) - 1)
  <2>1. 1 \in Int /\ Len(s) - 1 \in Int /\ \A k \in 1 .. Len(s) - 1 : s[k] \in S
    BY <1>1
  <2>2. /\ r \in Seq(S)
        /\ Len(r) = IF 1 <= Len(s) - 1 THEN (Len(s) - 1) - 1 + 1 ELSE 0
        /\ \A k \in 1 .. (Len(s) - 1) - 1 + 1 : r[k] = s[1 + k - 1]
    BY <2>1, SubSeqProperties
  <2> DEFINE m == Len(s) - 1
  <2>3. m \in Nat /\ m - 1 + 1 = m /\ ~(1 <= m) => m = 0
    BY <1>1
  <2>4. \A k \in 1 .. m : 1 + k - 1 = k
    BY <2>3
  <2> HIDE DEF r, m
  <2>5. r \in Seq(S) /\ Len(r) = m /\ \A k \in 1 .. m : r[k] = s[k]
    BY <2>2, <2>3, <2>4 DEF m
  <2>6. QED BY <2>5 DEF Front, r, m
<1>3. QED BY <1>1, <1>2 DEF Last

LEMMA AppendIs ==
  ASSUME NEW S, NEW s \in Seq(S), NEW e \in S
  PROVE  /\ Append(s, e) \in Seq(S)
         /\ Len(Append(s, e)) = Len(s) + 1
         /\ \A k \in 1 .. Len(s) : Append(s, e)[k] = s[k]
         /\ Append(s, e)[Len(s) + 1] = e
  OBVIOUS

LEMMA TailIs ==
  ASSUME NEW S, NEW s \in Seq(S), s # <<>>
  PROVE  /\ Len(s) \in Nat \ {0} /\ Head(s) \in S /\ Head(s) = s[1]
         /\ Tail(s) \in Seq(S) /\ Len(Tail(s)) = Len(s) - 1
         /\ \A k \in 1 .. Len(s) - 1 : Tail(s)[k] = s[k + 1]
  OBVIOUS

(* The lists of connections.                                                *)
LEMMA RemoveOnce ==
  ASSUME NEW S, NEW s \in Seq(S), Once(s), NEW p \in DOMAIN s
  PROVE  Once(RemoveAt(s, p)) /\ ToSet(RemoveAt(s, p)) = ToSet(s) \ {s[p]}
<1> DEFINE r == RemoveAt(s, p)
<1>1. /\ Len(s) \in Nat /\ p \in 1 .. Len(s) /\ DOMAIN s = 1 .. Len(s)
      /\ DOMAIN r = 1 .. Len(s) - 1
      /\ \A k \in 1 .. Len(s) - 1 : r[k] = IF k < p THEN s[k] ELSE s[k + 1]
  <2>1. p \in 1 .. Len(s)
    OBVIOUS
  <2>2. QED BY <2>1, RemoveAtIs, Zenon
<1>2. \A j, k \in 1 .. Len(s) : s[j] = s[k] => j = k
  BY <1>1 DEF Once
<1> HIDE DEF r
<1>3. Once(r)
  BY <1>1, <1>2 DEF Once
<1>4. ASSUME NEW x \in ToSet(r) PROVE x \in ToSet(s) /\ x # s[p]
  BY <1>1, <1>2 DEF ToSet
<1>5. ASSUME NEW x \in ToSet(s), x # s[p] PROVE x \in ToSet(r)
  <2>1. PICK k \in 1 .. Len(s) : x = s[k] /\ k # p
    BY <1>1, <1>5 DEF ToSet
  <2>2. CASE k < p
    BY <2>1, <2>2, <1>1 DEF ToSet
  <2>3. CASE k > p
    <3>1. k - 1 \in 1 .. Len(s) - 1 /\ ~ (k - 1 < p) /\ (k - 1) + 1 = k
      BY <2>3, <1>1
    <3>2. r[k - 1] = s[k]
      BY <3>1, <1>1
    <3>3. QED BY <3>1, <3>2, <2>1, <1>1 DEF ToSet
  <2>4. QED BY <2>1, <2>2, <2>3, <1>1
<1>6. QED BY <1>3, <1>4, <1>5 DEF r

LEMMA AppendOnce ==
  ASSUME NEW S, NEW s \in Seq(S), NEW e \in S, Once(s), e \notin ToSet(s)
  PROVE  Once(Append(s, e)) /\ ToSet(Append(s, e)) = ToSet(s) \cup {e}
<1> DEFINE r == Append(s, e)
<1>1. /\ Len(s) \in Nat /\ DOMAIN s = 1 .. Len(s) /\ DOMAIN r = 1 .. Len(s) + 1
      /\ \A k \in 1 .. Len(s) : r[k] = s[k]
      /\ r[Len(s) + 1] = e
  BY AppendIs
<1> HIDE DEF r
<1>2. \A k \in 1 .. Len(s) : s[k] # e
  BY <1>1 DEF ToSet
<1>3. \A k \in DOMAIN r : k \in 1 .. Len(s) \/ k = Len(s) + 1
  BY <1>1
<1>4. Once(r)
  BY <1>1, <1>2, <1>3 DEF Once
<1>5. ToSet(r) = ToSet(s) \cup {e}
  <2>1. \A x \in ToSet(r) : x \in ToSet(s) \cup {e}
    BY <1>1, <1>3 DEF ToSet
  <2>2. \A x \in ToSet(s) : x \in ToSet(r)
    BY <1>1 DEF ToSet
  <2>3. e \in ToSet(r)
    BY <1>1 DEF ToSet
  <2>4. QED BY <2>1, <2>2, <2>3
<1>6. QED BY <1>4, <1>5 DEF r

LEMMA TailOnce ==
  ASSUME NEW S, NEW s \in Seq(S), s # <<>>, Once(s)
  PROVE  /\ Head(s) \in ToSet(s)
         /\ Once(Tail(s)) /\ ToSet(Tail(s)) = ToSet(s) \ {Head(s)}
<1> DEFINE r == Tail(s)
<1>1. /\ Len(s) \in Nat \ {0} /\ DOMAIN s = 1 .. Len(s) /\ Head(s) = s[1]
      /\ DOMAIN r = 1 .. Len(s) - 1
      /\ \A k \in 1 .. Len(s) - 1 : r[k] = s[k + 1]
  BY TailIs
<1>2. \A j, k \in 1 .. Len(s) : s[j] = s[k] => j = k
  BY <1>1 DEF Once
<1> HIDE DEF r
<1>3. Once(r)
  BY <1>1, <1>2 DEF Once
<1>4. ASSUME NEW x \in ToSet(r) PROVE x \in ToSet(s) /\ x # s[1]
  BY <1>1, <1>2 DEF ToSet
<1>5. ASSUME NEW x \in ToSet(s), x # s[1] PROVE x \in ToSet(r)
  <2>1. PICK k \in 1 .. Len(s) : x = s[k] /\ k # 1
    BY <1>1, <1>5 DEF ToSet
  <2>2. k - 1 \in 1 .. Len(s) - 1 /\ r[k - 1] = s[k]
    <3>1. k - 1 \in 1 .. Len(s) - 1 /\ (k - 1) + 1 = k
      BY <2>1, <1>1
    <3>2. QED BY <3>1, <1>1
  <2>3. QED BY <2>1, <2>2, <1>1 DEF ToSet
<1>6. s[1] \in ToSet(s)
  BY <1>1 DEF ToSet
<1>7. QED BY <1>1, <1>3, <1>4, <1>5, <1>6 DEF r

-----------------------------------------------------------------------------
(* The values of the variables.                                             *)
LEMMA InitType == Init => TypeInv
<1> SUFFICES ASSUME Init PROVE TypeInv
  OBVIOUS
<1>1. \A S : <<>> \in Seq(S)
  OBVIOUS
<1>2. produced \in 0 .. MaxChunks /\ unread \in [Clients -> 0 .. BufCap]
  BY DaemonAssumption DEF Init
<1>3. /\ request \in [Clients -> AllKinds \cup {"none", "unsent"}]
      /\ sent \in [Clients -> 0 .. 2]
      /\ taken \in [Clients -> 0 .. 2]
      /\ from \in [Clients -> Nat]
      /\ stream \in [Clients -> Seq(Nat)]
  BY <1>1 DEF Init
<1>4. hung_up \in [Clients -> BOOLEAN] /\ replied \in [Clients -> BOOLEAN]
  BY DEF Init
<1>5. i \in Nat \ {0} /\ phase \in Phases /\ shutdown \in BOOLEAN /\ captured \subseteq Nat
  <2>1. i = 1 /\ phase = "accept" /\ captured = {} /\ shutdown = FALSE
    BY DEF Init
  <2>2. i \in Nat \ {0} /\ captured \subseteq Nat
    BY <2>1
  <2>3. phase \in Phases
    BY <2>1 DEF Phases
  <2>4. shutdown \in BOOLEAN
    BY <2>1
  <2>5. QED BY <2>2, <2>3, <2>4
<1>6. pending \in Seq(Nat) /\ pty_output \in Seq(Nat) /\ dead_attached \in Seq(Nat)
  BY <1>1 DEF Init
<1>7. /\ backlog \in Seq(Clients) /\ ipc_clients \in Seq(Clients)
      /\ attached_clients \in Seq(Clients) /\ to_remove \in Seq(Clients \X BOOLEAN)
  BY <1>1 DEF Init
<1>8. QED BY <1>2, <1>3, <1>4, <1>5, <1>6, <1>7 DEF TypeInv

LEMMA Room ==
  ASSUME NEW u \in Nat, NEW cap \in Nat, NEW len \in Nat, NEW free, NEW n,
         u \in 0 .. cap, free = 0 \/ free = cap - u,
         n = IF len > free THEN free ELSE len
  PROVE  free \in Nat /\ n \in Nat /\ n <= len /\ u + n \in 0 .. cap
  OBVIOUS

(* A client put on the list of removals, to move (TRUE) or to drop (FALSE).  *)
LEMMA AppendRemoval ==
  ASSUME NEW r, NEW c \in Clients, NEW b \in BOOLEAN, r \in Seq(Clients \X BOOLEAN)
  PROVE  Append(r, <<c, b>>) \in Seq(Clients \X BOOLEAN)
<1>1. <<c, b>> \in Clients \X BOOLEAN
  OBVIOUS
<1>2. QED BY <1>1, AppendIs

LEMMA NextType ==
  ASSUME TypeInv, ChunkInv, Marks, [Next]_vars
  PROVE  TypeInv'
<1> USE DEF TypeInv, Phases, lists, client_vars
<1>1. ASSUME NEW c \in Clients, Connect(c) PROVE TypeInv'
  BY <1>1, AppendIs DEF Connect
<1>2. ASSUME NEW c \in Clients, SendPart(c) PROVE TypeInv'
  <2>1. sent' \in [Clients -> 0 .. 2]
    BY <1>2 DEF SendPart
  <2>2. QED BY <1>2, <2>1 DEF SendPart
<1>3. ASSUME NEW c \in Clients, NEW k \in Kinds, SendRest(c, k) PROVE TypeInv'
  BY <1>3, DaemonAssumption DEF SendRest
<1>4. ASSUME NEW c \in Clients, Receive(c) PROVE TypeInv'
  <2>1. unread' \in [Clients -> 0 .. BufCap]
    BY <1>4, DaemonAssumption DEF Receive
  <2>2. QED BY <1>4, <2>1 DEF Receive
<1>5. ASSUME NEW c \in Clients, HangUp(c) PROVE TypeInv'
  BY <1>5 DEF HangUp
<1>6. CASE ShellWrites
  <2>1. produced' \in Nat /\ produced' \in 0 .. MaxChunks /\ Append(pending, produced') \in Seq(Nat)
    BY <1>6, DaemonAssumption, AppendIs DEF ShellWrites
  <2>2. QED BY <1>6, <2>1 DEF ShellWrites
<1>7. CASE Accept
  <2>1. CASE backlog = <<>>
    BY <1>7, <2>1 DEF Accept
  <2>2. CASE backlog # <<>>
    <3>1. Tail(backlog) \in Seq(Clients) /\ Head(backlog) \in Clients
      BY <2>2, TailIs
    <3>2. Append(ipc_clients, Head(backlog)) \in Seq(Clients)
      BY <3>1, AppendIs
    <3>3. QED BY <1>7, <2>2, <3>1, <3>2 DEF Accept
  <2>3. QED BY <2>1, <2>2
<1>8. CASE PollPty
  BY <1>8 DEF PollPty
<1>9. CASE StreamToClient
  <2> DEFINE c == attached_clients[i]
             free == IF hung_up[c] THEN 0 ELSE BufCap - unread[c]
             n == IF Len(pty_output) > free THEN free ELSE Len(pty_output)
  <2>1. c \in Clients
    BY <1>9 DEF StreamToClient
  <2>2. free \in Nat /\ n \in Nat /\ n <= Len(pty_output)
        /\ unread[c] + n \in 0 .. BufCap
    <3>1. unread[c] \in Nat /\ unread[c] \in 0 .. BufCap /\ BufCap \in Nat /\ Len(pty_output) \in Nat
      BY <2>1, DaemonAssumption
    <3>2. free = 0 \/ free = BufCap - unread[c]
      OBVIOUS
    <3>3. n = IF Len(pty_output) > free THEN free ELSE Len(pty_output)
      OBVIOUS
    <3> HIDE DEF free, n, c, TypeInv
    <3>4. QED BY <3>1, <3>2, <3>3, Room
  <2>3. SubSeq(pty_output, 1, n) \in Seq(Nat)
    <3> HIDE DEF n
    <3>1. 1 \in Int /\ n \in Int
      BY <2>2
    <3>2. \A k \in 1 .. n : pty_output[k] \in Nat
      <4>1. \A k \in 1 .. Len(pty_output) : pty_output[k] \in Nat
        OBVIOUS
      <4>2. Len(pty_output) \in Nat
        OBVIOUS
      <4>3. \A k \in 1 .. n : k \in 1 .. Len(pty_output)
        BY <2>2, <4>2
      <4>4. QED BY <4>1, <4>3
    <3>3. QED BY <3>1, <3>2, SubSeqProperties
  <2>4. /\ stream' = [stream EXCEPT ![c] = @ \o SubSeq(pty_output, 1, n)]
        /\ unread' = [unread EXCEPT ![c] = @ + n]
        /\ dead_attached' \in {Append(dead_attached, i), dead_attached}
        /\ i' = i + 1
        /\ UNCHANGED <<client_vars, replied, produced, pending, lists, taken, pty_output,
                       to_remove, shutdown, phase, from, captured>>
    BY <1>9 DEF StreamToClient
  <2>5. stream[c] \o SubSeq(pty_output, 1, n) \in Seq(Nat)
    BY <2>1, <2>3, ConcatProperties
  <2>6. Append(dead_attached, i) \in Seq(Nat) /\ i + 1 \in Nat \ {0}
    BY AppendIs
  <2> HIDE DEF c, free, n
  <2>7. QED BY <2>1, <2>2, <2>4, <2>5, <2>6
<1>10. CASE DropDead
  <2>1. Front(dead_attached) \in Seq(Nat)
    BY <1>10, FrontIs DEF DropDead
  <2>2. attached_clients' \in Seq(Clients)
    <3>1. Last(dead_attached) \in DOMAIN attached_clients
      BY <1>10, FrontIs DEF DropDead, Marks
    <3>2. QED BY <1>10, <3>1, RemoveAtIs DEF DropDead
  <2>3. QED BY <1>10, <2>1, <2>2 DEF DropDead
<1>11. CASE StartReading
  BY <1>11 DEF StartReading
<1>12. ASSUME NEW c \in Clients, NEW attach \in BOOLEAN, Answer(c, attach)
       PROVE  /\ replied' \in [Clients -> BOOLEAN] /\ i' \in Nat \ {0} /\ phase' \in Phases
              /\ to_remove' \in Seq(Clients \X BOOLEAN)
  <2>1. Append(to_remove, <<c, attach>>) \in Seq(Clients \X BOOLEAN)
    BY AppendRemoval
  <2>2. QED BY <1>12, <2>1 DEF Answer
<1>13. ASSUME NEW c \in Clients, NEW k, ReadRequest(c, k) PROVE taken' \in [Clients -> 0 .. 2]
  BY <1>13 DEF ReadRequest
<1>14. Drained \in Nat
  BY DEF ChunkInv, Drained
<1>15. ASSUME NEW c \in Clients, HandleAttach(c) PROVE TypeInv'
  BY <1>15, <1>12, <1>13, <1>14 DEF HandleAttach
<1>16. ASSUME NEW c \in Clients, HandleKill(c) PROVE TypeInv'
  BY <1>16, <1>12, <1>13 DEF HandleKill
<1>17. ASSUME NEW c \in Clients, HandleOther(c) PROVE TypeInv'
  BY <1>17, <1>12, <1>13 DEF HandleOther
<1>18. ASSUME NEW c \in Clients, HandleKeys(c) PROVE TypeInv'
  BY <1>18, <1>13 DEF HandleKeys
<1>19. CASE ShellReads
  <2>1. ipc_clients[i] \in Clients
    BY <1>19 DEF ShellReads, Marks
  <2>2. QED BY <1>19, <2>1, <1>12 DEF ShellReads
<1>20. ASSUME NEW c \in Clients, HandleCapture(c) PROVE TypeInv'
  <2>1. ToSet(pending) \subseteq Nat
    BY DEF ToSet
  <2>2. taken' \in [Clients -> 0 .. 2]
    BY <1>20, <1>13 DEF HandleCapture
  <2>3. captured' = captured \cup ToSet(pending) /\ pending' = <<>> /\ phase' = "writing"
    BY <1>20 DEF HandleCapture
  <2>4. captured' \subseteq Nat
    BY <2>1, <2>3
  <2>5. pending' \in Seq(Nat) /\ phase' \in Phases
    BY <2>3
  <2>6. QED BY <1>20, <2>2, <2>4, <2>5 DEF HandleCapture
<1>21. CASE ClientTakesReply
  <2>1. ipc_clients[i] \in Clients
    BY <1>21 DEF ClientTakesReply, Marks
  <2>2. QED BY <1>21, <2>1, <1>12 DEF ClientTakesReply
<1>22. ASSUME NEW c \in Clients, ReadTimesOut(c) PROVE TypeInv'
  BY <1>22 DEF ReadTimesOut
<1>23. ASSUME NEW c \in Clients, ReadFails(c) PROVE TypeInv'
  <2>1. Append(to_remove, <<c, FALSE>>) \in Seq(Clients \X BOOLEAN)
    BY AppendRemoval
  <2>2. to_remove' \in Seq(Clients \X BOOLEAN) /\ i' \in Nat \ {0}
    BY <1>23, <2>1 DEF ReadFails
  <2>3. taken' \in [Clients -> 0 .. 2]
    BY <1>23 DEF ReadFails
  <2>4. QED BY <1>23, <2>2, <2>3 DEF ReadFails
<1>24. CASE MoveClient
  <2>1. /\ Front(to_remove) \in Seq(Clients \X BOOLEAN)
        /\ Last(to_remove) \in Clients \X BOOLEAN
    BY <1>24, FrontIs DEF MoveClient
  <2>2. PICK pos \in DOMAIN ipc_clients : ipc_clients' = RemoveAt(ipc_clients, pos)
    BY <1>24 DEF MoveClient
  <2>3. ipc_clients' \in Seq(Clients)
    BY <2>2, RemoveAtIs
  <2>4. Append(attached_clients, Last(to_remove)[1]) \in Seq(Clients)
    BY <2>1, AppendIs
  <2>5. QED BY <1>24, <2>1, <2>3, <2>4 DEF MoveClient
<1>25. CASE EndPass
  BY <1>25 DEF EndPass
<1>26. CASE Cleanup
  BY <1>26 DEF Cleanup
<1>27. CASE UNCHANGED vars
  BY <1>27 DEF vars
<1>28. QED
  BY <1>1, <1>2, <1>3, <1>4, <1>5, <1>6, <1>7, <1>8, <1>9, <1>10, <1>11, <1>15, <1>16,
     <1>17, <1>18, <1>19, <1>20, <1>21, <1>22, <1>23, <1>24, <1>25, <1>26, <1>27
     DEF Next, Loop

-----------------------------------------------------------------------------
(* The chunks of output.                                                    *)
LEMMA InitChunks == Init => ChunkInv
<1> SUFFICES ASSUME Init PROVE ChunkInv
  OBVIOUS
<1>1. produced = 0 /\ pending = <<>> /\ pty_output = <<>> /\ captured = {} /\ PtyCap \in Nat
  BY DaemonAssumption DEF Init
<1>2. Len(<<>>) = 0 /\ 0 - 0 = 0
  BY EmptySeq
<1>3. Drained = 0 /\ Len(pending) = 0 /\ Len(pty_output) = 0
  BY <1>1, <1>2 DEF Drained
<1>4. \A c \in Clients : from[c] <= Drained - Len(pty_output)
  BY <1>3 DEF Init
<1>5. QED BY <1>1, <1>2, <1>3, <1>4 DEF ChunkInv

LEMMA ChunksSame ==
  ASSUME ChunkInv, UNCHANGED <<from, produced, pending, pty_output, captured>>,
         phase' # "stream" => phase # "stream"
  PROVE  ChunkInv'
  BY DEF ChunkInv, Drained

LEMMA NextChunks ==
  ASSUME TypeInv, ChunkInv, [Next]_vars
  PROVE  ChunkInv'
<1>1. /\ produced \in Nat /\ pending \in Seq(Nat) /\ pty_output \in Seq(Nat)
      /\ Len(pending) \in Nat /\ Len(pty_output) \in Nat /\ PtyCap \in Nat
  BY DaemonAssumption DEF TypeInv
<1>2. ASSUME UNCHANGED <<from, produced, pending, pty_output, captured, phase>> PROVE ChunkInv'
  BY <1>2, ChunksSame
<1>3. ASSUME UNCHANGED <<from, produced, pending, pty_output, captured>>, phase # "stream"
      PROVE  ChunkInv'
  BY <1>3, ChunksSame
<1>4. CASE ShellWrites
  <2>1. /\ Len(pending) < PtyCap /\ produced' = produced + 1
        /\ pending' = Append(pending, produced + 1)
        /\ UNCHANGED <<pty_output, captured, phase, from>>
    BY <1>4 DEF ShellWrites
  <2>2. /\ Len(pending') = Len(pending) + 1 /\ DOMAIN pending = 1 .. Len(pending)
        /\ DOMAIN pending' = 1 .. Len(pending) + 1
        /\ \A k \in 1 .. Len(pending) : pending'[k] = pending[k]
        /\ pending'[Len(pending) + 1] = produced + 1
    BY <2>1, <1>1, AppendIs
  <2>3. Drained' = Drained
    BY <2>1, <2>2, <1>1 DEF Drained
  <2>4. \A k \in DOMAIN pending' : pending'[k] = Drained + k
    <3>1. \A k \in 1 .. Len(pending) : pending'[k] = Drained + k
      BY <2>2 DEF ChunkInv
    <3>2. Drained + (Len(pending) + 1) = produced + 1
      BY <1>1 DEF Drained
    <3>3. \A k \in DOMAIN pending' : k \in 1 .. Len(pending) \/ k = Len(pending) + 1
      BY <2>2, <1>1
    <3>4. QED BY <2>2, <3>1, <3>2, <3>3
  <2>5. Len(pending') <= PtyCap /\ Len(pending') + Len(pty_output') <= produced'
    BY <2>1, <2>2, <1>1 DEF ChunkInv
  <2>6. QED BY <2>1, <2>3, <2>4, <2>5 DEF ChunkInv
<1>5. CASE PollPty
  <2>1. /\ phase = "poll" /\ phase' = "stream" /\ pty_output' = pending /\ pending' = <<>>
        /\ UNCHANGED <<produced, captured, from>>
    BY <1>5 DEF PollPty
  <2>2. pty_output = <<>> /\ Len(pending') = 0
    BY <2>1 DEF ChunkInv
  <2>3. Drained' = produced /\ Drained' - Len(pty_output') = Drained
    BY <2>1, <2>2, <1>1 DEF Drained
  <2>4. captured' \subseteq 1 .. Drained' - Len(pty_output')
    <3>1. Drained - Len(pty_output) = Drained
      BY <2>2, <1>1 DEF Drained
    <3>2. QED BY <2>1, <2>3, <3>1 DEF ChunkInv
  <2>5. \A k \in DOMAIN pty_output' : pty_output'[k] = Drained' - Len(pty_output') + k
    BY <2>1, <2>3 DEF ChunkInv
  <2>6. Len(pending') <= PtyCap /\ Len(pending') + Len(pty_output') <= produced'
    BY <2>1, <2>2, <1>1 DEF ChunkInv
  <2>7. \A k \in DOMAIN pending' : pending'[k] = Drained' + k
    BY <2>1
  <2>8. \A c \in Clients : from'[c] <= Drained' - Len(pty_output')
    <3>1. Drained - Len(pty_output) = Drained
      BY <2>2, <1>1 DEF Drained
    <3>2. QED BY <2>1, <2>3, <3>1 DEF ChunkInv
  <2>9. QED BY <2>1, <2>4, <2>5, <2>6, <2>7, <2>8 DEF ChunkInv
<1>6. CASE StartReading
  <2>1. pty_output' = <<>> /\ UNCHANGED <<produced, pending, captured, from>>
    BY <1>6 DEF StartReading
  <2>2. Drained' = Drained /\ Len(pty_output') = 0 /\ Drained \in Int
    BY <2>1, <1>1 DEF Drained
  <2>3. captured' \subseteq 1 .. Drained' - Len(pty_output')
    <3>1. 1 .. Drained - Len(pty_output) \subseteq 1 .. Drained - 0
      BY <2>2, <1>1
    <3>2. QED BY <2>1, <2>2, <3>1 DEF ChunkInv
  <2>4. Len(pending') + Len(pty_output') <= produced'
    BY <2>1, <2>2, <1>1 DEF ChunkInv
  <2>5. \A c \in Clients : from'[c] <= Drained' - Len(pty_output')
    <3>1. ASSUME NEW c \in Clients PROVE from[c] <= Drained
      <4>1. from[c] \in Nat /\ from[c] <= Drained - Len(pty_output)
        BY DEF ChunkInv, TypeInv
      <4>2. QED BY <4>1, <2>2, <1>1
    <3>2. Drained - 0 = Drained
      BY <2>2
    <3>3. QED BY <2>1, <2>2, <3>1, <3>2
  <2>6. QED BY <2>1, <2>2, <2>3, <2>4, <2>5 DEF ChunkInv
<1>7. ASSUME NEW c \in Clients, HandleCapture(c) PROVE ChunkInv'
  <2>1. /\ phase = "read" /\ phase' = "writing" /\ pending' = <<>>
        /\ captured' = captured \cup ToSet(pending)
        /\ UNCHANGED <<produced, pty_output, from>>
    BY <1>7 DEF HandleCapture, ReadRequest, Reading
  <2>2. pty_output = <<>> /\ Len(pending') = 0 /\ Len(pty_output) = 0
    BY <2>1 DEF ChunkInv
  <2>3. Drained' = produced /\ Drained \in Int /\ Drained + Len(pending) = produced /\ Drained >= 0
    BY <2>1, <2>2, <1>1 DEF Drained, ChunkInv
  <2>4. captured \subseteq 1 .. Drained
    <3>1. Drained - Len(pty_output) = Drained
      BY <2>2, <2>3
    <3>2. QED BY <3>1 DEF ChunkInv
  <2>5. ToSet(pending) \subseteq 1 .. produced
    <3>1. \A k \in 1 .. Len(pending) : pending[k] = Drained + k /\ Drained + k \in 1 .. produced
      BY <2>3, <1>1 DEF ChunkInv
    <3>2. QED BY <3>1 DEF ToSet
  <2>6. 1 .. Drained \subseteq 1 .. produced /\ produced - 0 = produced
    BY <2>3, <1>1
  <2>7. captured' \subseteq 1 .. Drained' - Len(pty_output')
    BY <2>1, <2>2, <2>3, <2>4, <2>5, <2>6
  <2>8. Len(pending') <= PtyCap /\ Len(pending') + Len(pty_output') <= produced'
    BY <2>1, <2>2, <1>1 DEF ChunkInv
  <2>9. \A d \in Clients : from'[d] <= Drained' - Len(pty_output')
    <3>1. ASSUME NEW d \in Clients PROVE from[d] <= produced
      <4>1. from[d] \in Nat /\ from[d] <= Drained - Len(pty_output)
        BY DEF ChunkInv, TypeInv
      <4>2. QED BY <4>1, <2>2, <2>3, <1>1
    <3>2. produced - 0 = produced
      BY <1>1
    <3>3. QED BY <2>1, <2>2, <2>3, <3>1, <3>2
  <2>10. QED BY <2>1, <2>2, <2>7, <2>8, <2>9 DEF ChunkInv
<1>8. ASSUME NEW c \in Clients,
             \/ Connect(c) \/ SendPart(c) \/ (\E k \in Kinds : SendRest(c, k))
             \/ Receive(c) \/ HangUp(c) \/ ReadTimesOut(c) \/ ReadFails(c)
      PROVE  ChunkInv'
  BY <1>8, <1>2 DEF Connect, SendPart, SendRest, Receive, HangUp, ReadTimesOut, ReadFails
<1>9. ASSUME NEW c \in Clients, HandleKill(c) \/ HandleOther(c) \/ HandleKeys(c)
      PROVE  ChunkInv'
  BY <1>9, <1>3 DEF HandleKill, HandleOther, HandleKeys, ReadRequest, Reading
<1>10. CASE StreamToClient \/ DropDead \/ MoveClient \/ UNCHANGED vars
  BY <1>10, <1>2 DEF StreamToClient, DropDead, MoveClient, vars
<1>11. CASE Accept \/ ShellReads \/ ClientTakesReply \/ EndPass \/ Cleanup
  BY <1>11, <1>3 DEF Accept, ShellReads, ClientTakesReply, EndPass, Cleanup
<1>12. ASSUME NEW c \in Clients, HandleAttach(c) PROVE ChunkInv'
  <2>1. /\ phase = "read" /\ from' = [from EXCEPT ![c] = Drained]
        /\ UNCHANGED <<produced, pending, pty_output, captured>>
    BY <1>12 DEF HandleAttach, ReadRequest, Reading
  <2>2. pty_output = <<>> /\ Len(pty_output) = 0 /\ Drained' = Drained
    BY <2>1, EmptySeq DEF ChunkInv, Drained
  <2>3. Drained \in Int /\ Drained - 0 = Drained
    BY <1>1 DEF Drained
  <2>4. \A d \in Clients : from'[d] <= Drained' - Len(pty_output')
    BY <2>1, <2>2, <2>3 DEF ChunkInv, TypeInv
  <2>5. QED BY <2>1, <2>2, <2>4 DEF ChunkInv
<1>13. QED
  BY <1>4, <1>5, <1>6, <1>7, <1>8, <1>9, <1>10, <1>11, <1>12 DEF Next, Loop

-----------------------------------------------------------------------------
(* The connections.                                                         *)
LEMMA InitLists == Init => ListInv
  BY DEF Init, ListInv, Once, Connected, ToSet

LEMMA NextLists ==
  ASSUME TypeInv, ListInv, Marks, [Next]_vars
  PROVE  ListInv'
<1> USE DEF lists, client_vars
<1>1. /\ backlog \in Seq(Clients) /\ ipc_clients \in Seq(Clients)
      /\ attached_clients \in Seq(Clients) /\ request = [c \in Clients |-> request[c]]
  BY DEF TypeInv
<1>2. ASSUME UNCHANGED <<lists, request>> PROVE ListInv'
  BY <1>2 DEF ListInv, Connected, lists
<1>3. ASSUME NEW c \in Clients, Connect(c) PROVE ListInv'
  <2>1. /\ request[c] = "none" /\ request' = [request EXCEPT ![c] = "unsent"]
        /\ backlog' = Append(backlog, c) /\ UNCHANGED <<ipc_clients, attached_clients>>
    BY <1>3 DEF Connect
  <2>2. c \notin Connected
    BY <2>1 DEF ListInv
  <2>3. Once(backlog') /\ ToSet(backlog') = ToSet(backlog) \cup {c}
    BY <2>1, <2>2, <1>1, AppendOnce DEF ListInv, Connected
  <2>4. \A d \in Clients : request'[d] = "none" => d # c /\ request[d] = "none"
    BY <2>1, <1>1
  <2>5. QED BY <2>1, <2>2, <2>3, <2>4 DEF ListInv, Connected
<1>4. ASSUME NEW c \in Clients, NEW k \in Kinds, SendRest(c, k) PROVE ListInv'
  <2>1. c \in Connected /\ request' = [request EXCEPT ![c] = k] /\ UNCHANGED lists
    BY <1>4 DEF SendRest
  <2>2. \A d \in Clients : request'[d] = "none" => d = c \/ request[d] = "none"
    BY <2>1, <1>1
  <2>3. k # "none"
    BY DaemonAssumption DEF AllKinds
  <2>4. \A d \in Clients : request'[d] = "none" => request[d] = "none"
    BY <2>1, <2>3, <1>1
  <2>5. QED BY <2>1, <2>4 DEF ListInv, Connected, lists
<1>5. CASE Accept
  <2>1. CASE backlog = <<>>
    BY <1>5, <2>1, <1>2 DEF Accept, lists, client_vars
  <2>2. CASE backlog # <<>>
    <3>1. /\ backlog' = Tail(backlog) /\ ipc_clients' = Append(ipc_clients, Head(backlog))
          /\ UNCHANGED <<request, attached_clients>>
      BY <1>5, <2>2 DEF Accept, client_vars
    <3>2. /\ Head(backlog) \in Clients /\ Head(backlog) \in ToSet(backlog)
          /\ Once(backlog') /\ ToSet(backlog') = ToSet(backlog) \ {Head(backlog)}
      BY <2>2, <3>1, <1>1, TailIs, TailOnce DEF ListInv
    <3>3. Once(ipc_clients') /\ ToSet(ipc_clients') = ToSet(ipc_clients) \cup {Head(backlog)}
      BY <3>1, <3>2, <1>1, AppendOnce DEF ListInv
    <3>4. QED BY <3>1, <3>2, <3>3 DEF ListInv, Connected
  <2>3. QED BY <2>1, <2>2
<1>6. CASE DropDead
  <2>1. /\ attached_clients' = RemoveAt(attached_clients, Last(dead_attached))
        /\ UNCHANGED <<request, backlog, ipc_clients>>
    BY <1>6 DEF DropDead, client_vars
  <2>2. Last(dead_attached) \in DOMAIN attached_clients
    BY <1>6, FrontIs DEF DropDead, Marks, TypeInv
  <2>3. Once(attached_clients') /\ ToSet(attached_clients') \subseteq ToSet(attached_clients)
    BY <2>1, <2>2, <1>1, RemoveOnce DEF ListInv
  <2>4. QED BY <2>1, <2>3 DEF ListInv, Connected
<1>7. CASE MoveClient
  <2>1. PICK pos \in DOMAIN ipc_clients :
          /\ ipc_clients[pos] = Last(to_remove)[1]
          /\ ipc_clients' = RemoveAt(ipc_clients, pos)
    BY <1>7 DEF MoveClient
  <2> DEFINE c == ipc_clients[pos]
  <2>2. /\ attached_clients' = Append(attached_clients, c) \/ attached_clients' = attached_clients
        /\ UNCHANGED <<request, backlog>>
    BY <1>7, <2>1 DEF MoveClient, client_vars
  <2>3. c \in Clients /\ c \in ToSet(ipc_clients)
    BY <1>1 DEF ToSet
  <2> HIDE DEF c
  <2>4. Once(ipc_clients') /\ ToSet(ipc_clients') = ToSet(ipc_clients) \ {c}
    BY <2>1, <1>1, RemoveOnce DEF ListInv, c
  <2>5. /\ Once(attached_clients') /\ ToSet(attached_clients') \subseteq ToSet(attached_clients) \cup {c}
    <3>1. c \notin ToSet(attached_clients) /\ Once(attached_clients)
      BY <2>3 DEF ListInv
    <3>2. /\ Once(Append(attached_clients, c))
          /\ ToSet(Append(attached_clients, c)) = ToSet(attached_clients) \cup {c}
      BY <2>3, <3>1, <1>1, AppendOnce
    <3>3. QED BY <2>2, <3>1, <3>2
  <2>6. QED BY <2>2, <2>3, <2>4, <2>5 DEF ListInv, Connected
<1>8. CASE Cleanup
  BY <1>8 DEF Cleanup, ListInv, Once, Connected, ToSet
<1>9. ASSUME NEW c \in Clients,
             \/ SendPart(c) \/ Receive(c) \/ HangUp(c) \/ ReadTimesOut(c) \/ ReadFails(c)
             \/ HandleAttach(c) \/ HandleKill(c) \/ HandleOther(c) \/ HandleKeys(c)
             \/ HandleCapture(c)
      PROVE  ListInv'
  BY <1>9, <1>2 DEF SendPart, Receive, HangUp, ReadTimesOut, ReadFails, HandleAttach,
     HandleKill, HandleOther, HandleKeys, HandleCapture
<1>10. CASE ShellWrites \/ ShellReads \/ ClientTakesReply \/ PollPty \/ StreamToClient
            \/ StartReading \/ EndPass \/ UNCHANGED vars
  BY <1>10, <1>2 DEF ShellWrites, ShellReads, ClientTakesReply, PollPty, StreamToClient,
     StartReading, EndPass, vars
<1>11. QED
  BY <1>3, <1>4, <1>5, <1>6, <1>7, <1>8, <1>9, <1>10 DEF Next, Loop

-----------------------------------------------------------------------------
(* The marks.                                                               *)
LEMMA InitMarks == Init => Marks
<1> SUFFICES ASSUME Init PROVE Marks
  OBVIOUS
<1>1. phase = "accept" /\ i = 1 /\ dead_attached = <<>> /\ to_remove = <<>>
  BY DEF Init
<1>2. QED BY <1>1 DEF Marks

LEMMA MarksSame ==
  ASSUME Marks,
         UNCHANGED <<ipc_clients, attached_clients, i, dead_attached, to_remove, phase>>
  PROVE  Marks'
  BY DEF Marks

(* A client is marked when its message has been dealt with.                 *)
MarkOf(c, attach) ==
  /\ phase \in {"read", "typing", "writing"} /\ phase' = "read"
  /\ i \in DOMAIN ipc_clients /\ ipc_clients[i] = c
  /\ to_remove' = Append(to_remove, <<c, attach>>)
  /\ i' = i + 1
  /\ UNCHANGED <<ipc_clients, attached_clients, dead_attached>>

LEMMA MarkedOnce ==
  ASSUME TypeInv, ListInv, Marks, NEW c, NEW attach \in BOOLEAN, MarkOf(c, attach)
  PROVE  Marks'
<1>1. /\ to_remove \in Seq(Clients \X BOOLEAN) /\ i \in Nat /\ c \in Clients
      /\ dead_attached' = <<>>
  BY DEF TypeInv, Marks, MarkOf
<1> DEFINE s == to_remove
           r == Append(to_remove, <<c, attach>>)
<1>2. /\ Len(s) \in Nat /\ DOMAIN s = 1 .. Len(s) /\ DOMAIN r = 1 .. Len(s) + 1
      /\ \A k \in 1 .. Len(s) : r[k] = s[k]
      /\ r[Len(s) + 1] = <<c, attach>>
  <2>1. <<c, attach>> \in Clients \X BOOLEAN
    BY <1>1
  <2>2. QED BY <1>1, <2>1, AppendIs
<1>3. \A k \in DOMAIN s : \E m \in DOMAIN ipc_clients : m < i /\ ipc_clients[m] = s[k][1]
  BY DEF Marks
<1>4. \A j, k \in DOMAIN s : s[j][1] = s[k][1] => j = k
  BY DEF Marks
<1>5. i \in DOMAIN ipc_clients /\ ipc_clients[i] = c /\ Once(ipc_clients)
  BY DEF MarkOf, ListInv
<1> HIDE DEF s, r
<1>6. \A k \in DOMAIN r : k \in DOMAIN s \/ k = Len(s) + 1
  BY <1>2
<1>7. \A k \in DOMAIN s : s[k][1] # c
  <2>1. SUFFICES ASSUME NEW k \in DOMAIN s, s[k][1] = c PROVE FALSE
    OBVIOUS
  <2>2. PICK m \in DOMAIN ipc_clients : m < i /\ ipc_clients[m] = c
    BY <2>1, <1>3
  <2>3. m = i
    BY <2>2, <1>5 DEF Once
  <2>4. QED BY <2>2, <2>3, <1>1
<1>8. r[Len(s) + 1][1] = c
  BY <1>2
<1>9. \A j, k \in DOMAIN r : r[j][1] = r[k][1] => j = k
  BY <1>2, <1>4, <1>6, <1>7, <1>8
<1>10. \A k \in DOMAIN r : \E m \in DOMAIN ipc_clients : m < i + 1 /\ ipc_clients[m] = r[k][1]
  <2>1. ASSUME NEW k \in DOMAIN s
        PROVE  \E m \in DOMAIN ipc_clients : m < i + 1 /\ ipc_clients[m] = r[k][1]
    <3>1. PICK m \in DOMAIN ipc_clients : m < i /\ ipc_clients[m] = s[k][1]
      BY <1>3
    <3>2. m \in Nat
      BY DEF TypeInv
    <3>3. m < i + 1 /\ r[k] = s[k]
      BY <3>1, <3>2, <1>1, <1>2
    <3>4. QED BY <3>1, <3>3
  <2>2. i < i + 1
    BY <1>1
  <2>3. QED BY <2>1, <2>2, <1>5, <1>6, <1>8
<1>11. to_remove' = r /\ i' = i + 1 /\ phase' = "read"
       /\ UNCHANGED <<ipc_clients, attached_clients>>
  BY DEF MarkOf, r
<1>12. QED BY <1>1, <1>9, <1>10, <1>11 DEF Marks

LEMMA NextMarks ==
  ASSUME TypeInv, ListInv, Marks, [Next]_vars
  PROVE  Marks'
<1> USE DEF lists, client_vars
<1>1. /\ to_remove \in Seq(Clients \X BOOLEAN) /\ i \in Nat \ {0}
      /\ dead_attached \in Seq(Nat) /\ ipc_clients \in Seq(Clients)
      /\ attached_clients \in Seq(Clients)
  BY DEF TypeInv
<1>2. ASSUME NEW c \in Clients,
             \/ Connect(c) \/ SendPart(c) \/ (\E k \in Kinds : SendRest(c, k))
             \/ Receive(c) \/ HangUp(c)
      PROVE  Marks'
  BY <1>2, MarksSame DEF Connect, SendPart, SendRest, Receive, HangUp
<1>3. CASE ShellWrites \/ UNCHANGED vars
  BY <1>3, MarksSame DEF ShellWrites, vars
<1>4. ASSUME NEW c \in Clients, HandleAttach(c) PROVE Marks'
  <2>1. MarkOf(c, TRUE)
    BY <1>4 DEF HandleAttach, ReadRequest, Reading, Answer, MarkOf
  <2>2. QED BY <2>1, MarkedOnce
<1>5. ASSUME NEW c \in Clients, HandleKill(c) \/ HandleOther(c) \/ ReadFails(c) PROVE Marks'
  <2>1. MarkOf(c, FALSE)
    BY <1>5 DEF HandleKill, HandleOther, ReadFails, ReadRequest, Reading, Answer, MarkOf
  <2>2. QED BY <2>1, MarkedOnce
<1>6. CASE ShellReads \/ ClientTakesReply
  <2>1. i \in DOMAIN ipc_clients
    BY <1>6 DEF Marks, ShellReads, ClientTakesReply
  <2>2. MarkOf(ipc_clients[i], FALSE)
    BY <1>6, <2>1 DEF ShellReads, ClientTakesReply, Answer, MarkOf
  <2>3. QED BY <2>2, MarkedOnce
<1>7. ASSUME NEW c \in Clients, HandleKeys(c) \/ HandleCapture(c) PROVE Marks'
  <2>1. /\ phase = "read" /\ phase' \in {"typing", "writing"} /\ i \in DOMAIN ipc_clients
        /\ UNCHANGED <<ipc_clients, attached_clients, i, dead_attached, to_remove>>
    BY <1>7 DEF HandleKeys, HandleCapture, ReadRequest, Reading
  <2>2. QED BY <2>1 DEF Marks
<1>8. ASSUME NEW c \in Clients, ReadTimesOut(c) PROVE Marks'
  <2>1. /\ phase = "read" /\ i' = i + 1
        /\ UNCHANGED <<ipc_clients, attached_clients, dead_attached, to_remove, phase>>
    BY <1>8 DEF ReadTimesOut, Reading
  <2>2. ASSUME NEW k \in DOMAIN to_remove
        PROVE  \E m \in DOMAIN ipc_clients : m < i + 1 /\ ipc_clients[m] = to_remove[k][1]
    <3>1. PICK m \in DOMAIN ipc_clients : m < i /\ ipc_clients[m] = to_remove[k][1]
      BY DEF Marks
    <3>2. m \in Nat
      BY <1>1
    <3>3. QED BY <3>1, <3>2, <1>1
  <2>3. QED BY <2>1, <2>2, <1>1 DEF Marks
<1>9. CASE Accept
  <2>1. /\ phase = "accept" /\ phase' = "poll"
        /\ UNCHANGED <<i, attached_clients, dead_attached, to_remove>>
    BY <1>9 DEF Accept
  <2>2. QED BY <2>1 DEF Marks
<1>10. CASE PollPty
  BY <1>10 DEF PollPty, Marks
<1>11. CASE StreamToClient
  <2>1. /\ phase = "stream" /\ phase' = "stream" /\ i \in DOMAIN attached_clients
        /\ i' = i + 1
        /\ dead_attached' \in {Append(dead_attached, i), dead_attached}
        /\ UNCHANGED <<attached_clients, ipc_clients, to_remove>>
    BY <1>11 DEF StreamToClient
  <2>2. to_remove = <<>>
    BY <2>1 DEF Marks
  <2> DEFINE s == dead_attached
             r == dead_attached'
  <2>3. /\ Len(s) \in Nat /\ DOMAIN s = 1 .. Len(s)
        /\ \A k \in DOMAIN s : s[k] \in DOMAIN attached_clients /\ s[k] < i
        /\ \A j, k \in DOMAIN s : j < k => s[j] < s[k]
    BY <1>1 DEF Marks
  <2>4. CASE dead_attached' = dead_attached
    <3>1. \A k \in DOMAIN s : s[k] \in Nat
      BY <1>1
    <3>2. \A k \in DOMAIN s : s[k] < i + 1
      BY <2>3, <3>1, <1>1
    <3>3. QED BY <2>1, <2>2, <2>3, <2>4, <3>2 DEF Marks
  <2>5. CASE dead_attached' = Append(dead_attached, i)
    <3>1. /\ DOMAIN r = 1 .. Len(s) + 1 /\ \A k \in 1 .. Len(s) : r[k] = s[k]
          /\ r[Len(s) + 1] = i
      BY <2>5, <1>1, AppendIs
    <3>2. \A k \in DOMAIN s : s[k] \in Nat
      BY <1>1
    <3> HIDE DEF s, r
    <3>3. \A k \in DOMAIN r : k \in DOMAIN s \/ k = Len(s) + 1
      BY <2>3, <3>1
    <3>4. \A k \in DOMAIN r : r[k] \in DOMAIN attached_clients /\ r[k] < i + 1
      <4>1. \A k \in DOMAIN s : r[k] = s[k] /\ s[k] < i + 1
        BY <2>3, <3>1, <3>2, <1>1
      <4>2. r[Len(s) + 1] = i /\ i < i + 1
        BY <3>1, <1>1
      <4>3. QED BY <4>1, <4>2, <2>1, <2>3, <3>3
    <3>5. \A j, k \in DOMAIN r : j < k => r[j] < r[k]
      BY <2>3, <3>1, <3>3
    <3>6. QED BY <2>1, <2>2, <3>4, <3>5 DEF Marks, r
  <2>6. QED BY <2>1, <2>4, <2>5
<1>12. CASE DropDead
  <2> DEFINE s == dead_attached
             n == Len(s)
             p == s[n]
             r == Front(s)
  <2>1. /\ phase = "stream" /\ phase' = "stream" /\ i > Len(attached_clients)
        /\ s # <<>> /\ dead_attached' = r
        /\ attached_clients' = RemoveAt(attached_clients, p)
        /\ UNCHANGED <<i, ipc_clients, to_remove>>
    BY <1>12 DEF DropDead, Last
  <2>2. /\ n \in Nat \ {0} /\ DOMAIN s = 1 .. n /\ DOMAIN r = 1 .. n - 1
        /\ \A k \in 1 .. n - 1 : r[k] = s[k]
    <3>1. s \in Seq(Nat) /\ s # <<>>
      BY <2>1, <1>1
    <3> HIDE DEF s
    <3>2. QED BY <3>1, FrontIs
  <2>3. /\ \A k \in 1 .. n : s[k] \in 1 .. Len(attached_clients)
        /\ \A j, k \in 1 .. n : j < k => s[j] < s[k]
    <3>1. DOMAIN attached_clients = 1 .. Len(attached_clients)
      BY <1>1
    <3>2. /\ \A k \in DOMAIN s : s[k] \in DOMAIN attached_clients
          /\ \A j, k \in DOMAIN s : j < k => s[j] < s[k]
      BY DEF Marks
    <3> HIDE DEF s
    <3>3. QED BY <3>1, <3>2, <2>2
  <2>4. /\ DOMAIN attached_clients' = 1 .. Len(attached_clients) - 1
        /\ Len(attached_clients) \in Nat
    <3>1. p \in 1 .. Len(attached_clients)
      BY <2>2, <2>3
    <3> HIDE DEF p
    <3>2. QED BY <3>1, <2>1, <1>1, RemoveAtIs
  <2> HIDE DEF s, n, p, r
  <2>5. \A k \in DOMAIN r : r[k] \in 1 .. Len(attached_clients) - 1 /\ r[k] < i
    <3>1. SUFFICES ASSUME NEW k \in 1 .. n - 1
                   PROVE  s[k] \in 1 .. Len(attached_clients) - 1 /\ s[k] < i
      BY <2>2
    <3>2. s[k] < s[n] /\ s[k] \in 1 .. Len(attached_clients) /\ s[n] \in 1 .. Len(attached_clients)
      BY <2>2, <2>3
    <3>3. QED BY <3>2, <2>1, <2>4, <1>1
  <2>6. \A j, k \in DOMAIN r : j < k => r[j] < r[k]
    BY <2>2, <2>3
  <2>7. to_remove = <<>>
    BY <2>1 DEF Marks
  <2>8. QED BY <2>1, <2>4, <2>5, <2>6, <2>7 DEF Marks
<1>13. CASE StartReading
  BY <1>13 DEF StartReading, Marks
<1>14. CASE MoveClient
  <2> DEFINE s == to_remove
             n == Len(s)
             r == Front(s)
             len == Len(ipc_clients)
  <2>1. PICK p \in DOMAIN ipc_clients :
          ipc_clients[p] = s[n][1] /\ ipc_clients' = RemoveAt(ipc_clients, p)
    BY <1>14 DEF MoveClient, Last
  <2>2. /\ phase = "read" /\ i > len /\ s # <<>> /\ to_remove' = r
        /\ UNCHANGED <<i, dead_attached, phase>>
    BY <1>14 DEF MoveClient
  <2>3. /\ n \in Nat \ {0} /\ DOMAIN s = 1 .. n /\ DOMAIN r = 1 .. n - 1
        /\ \A k \in 1 .. n - 1 : r[k] = s[k]
    <3>1. s \in Seq(Clients \X BOOLEAN) /\ s # <<>>
      BY <2>2, <1>1
    <3> HIDE DEF s
    <3>2. QED BY <3>1, FrontIs
  <2>4. /\ len \in Nat /\ DOMAIN ipc_clients = 1 .. len /\ DOMAIN ipc_clients' = 1 .. len - 1
        /\ \A k \in 1 .. len - 1 :
             ipc_clients'[k] = IF k < p THEN ipc_clients[k] ELSE ipc_clients[k + 1]
    <3>1. p \in 1 .. Len(ipc_clients)
      BY <1>1
    <3>2. QED BY <3>1, <2>1, <1>1, RemoveAtIs
  <2>5. \A j, k \in 1 .. n : s[j][1] = s[k][1] => j = k
    BY <2>3 DEF Marks
  <2>6. dead_attached = <<>>
    BY <2>2 DEF Marks
  <2>7. \A k \in 1 .. n : \E m \in 1 .. len : ipc_clients[m] = s[k][1]
    BY <2>3, <2>4 DEF Marks
  <2> HIDE DEF s, n, r, len
  <2>8. \A j, k \in DOMAIN r : r[j][1] = r[k][1] => j = k
    BY <2>3, <2>5
  <2>9. ASSUME NEW k \in DOMAIN r
        PROVE  \E m \in DOMAIN ipc_clients' : m < i /\ ipc_clients'[m] = r[k][1]
    <3>1. k \in 1 .. n /\ k # n /\ n \in 1 .. n /\ r[k] = s[k]
      BY <2>3
    <3>2. PICK m \in 1 .. len : ipc_clients[m] = s[k][1]
      BY <3>1, <2>7
    <3>3. m # p
      BY <3>1, <3>2, <2>1, <2>5
    <3>4. CASE m < p
      BY <3>1, <3>2, <3>4, <2>2, <2>4, <1>1
    <3>5. CASE m > p
      <4>1. m - 1 \in 1 .. len - 1 /\ ~(m - 1 < p) /\ (m - 1) + 1 = m /\ m - 1 < i
        BY <3>5, <2>2, <2>4, <1>1
      <4>2. ipc_clients'[m - 1] = ipc_clients[m]
        BY <4>1, <2>4
      <4>3. QED BY <4>1, <4>2, <3>1, <3>2, <2>4
    <3>6. QED BY <3>3, <3>4, <3>5, <2>4
  <2>10. QED BY <2>2, <2>6, <2>8, <2>9 DEF Marks
<1>15. CASE EndPass
  BY <1>15 DEF EndPass, Marks
<1>16. CASE Cleanup
  BY <1>16 DEF Cleanup, Marks
<1>17. QED
  BY <1>2, <1>3, <1>4, <1>5, <1>6, <1>7, <1>8, <1>9, <1>10, <1>11, <1>12, <1>13, <1>14, <1>15,
     <1>16 DEF Next, Loop

-----------------------------------------------------------------------------
(* What the clients have been sent, of values.                              *)
DueOf(f, cap, n) == {j \in f + 1 .. n : j \notin cap}

SentUpTo(s, f, cap, n) ==
  /\ \A j, k \in DOMAIN s : j < k => s[j] < s[k]
  /\ ToSet(s) = DueOf(f, cap, n)

(* Nothing is due to who is attached now.                                   *)
LEMMA NothingDue ==
  ASSUME NEW n \in Nat, NEW cap PROVE DueOf(n, cap, n) = {}
  BY DEF DueOf

(* Chunks that are taken by a capture are due to nobody.                    *)
LEMMA DueAfterCapture ==
  ASSUME NEW f \in Nat, NEW n \in Nat, NEW m \in Nat, NEW cap, n <= m
  PROVE  DueOf(f, cap \cup (n + 1 .. m), m) = DueOf(f, cap, n)
<1> DEFINE more == n + 1 .. m
<1>1. ASSUME NEW j \in DueOf(f, cap \cup more, m) PROVE j \in DueOf(f, cap, n)
  <2>1. j \in f + 1 .. m /\ j \notin cap /\ j \notin n + 1 .. m
    BY <1>1 DEF DueOf
  <2>2. j \in f + 1 .. n
    BY <2>1
  <2>3. QED BY <2>1, <2>2 DEF DueOf
<1>2. ASSUME NEW j \in DueOf(f, cap, n) PROVE j \in DueOf(f, cap \cup more, m)
  <2>1. j \in f + 1 .. n /\ j \notin cap
    BY <1>2 DEF DueOf
  <2>2. j \in f + 1 .. m /\ j \notin n + 1 .. m
    BY <2>1
  <2>3. QED BY <2>1, <2>2 DEF DueOf
<1>3. QED BY <1>1, <1>2

(* A client that had all up to the pass has all after the whole of it.      *)
LEMMA SentPass ==
  ASSUME NEW s \in Seq(Nat), NEW p \in Seq(Nat), NEW f \in Nat, NEW cap, NEW n \in Nat,
         f <= n, SentUpTo(s, f, cap, n), cap \subseteq 1 .. n,
         \A k \in DOMAIN p : p[k] = n + k
  PROVE  SentUpTo(s \o p, f, cap, n + Len(p))
<1> DEFINE r == s \o p
<1>1. /\ Len(s) \in Nat /\ Len(p) \in Nat /\ DOMAIN s = 1 .. Len(s) /\ DOMAIN p = 1 .. Len(p)
      /\ DOMAIN r = 1 .. Len(s) + Len(p)
      /\ \A k \in 1 .. Len(s) + Len(p) : r[k] = IF k <= Len(s) THEN s[k] ELSE p[k - Len(s)]
  <2>1. /\ r \in Seq(Nat) /\ Len(r) = Len(s) + Len(p)
        /\ \A k \in 1 .. Len(s) + Len(p) : r[k] = IF k <= Len(s) THEN s[k] ELSE p[k - Len(s)]
    BY ConcatProperties
  <2> HIDE DEF r
  <2>2. QED BY <2>1
<1>2. \A k \in 1 .. Len(s) : s[k] \in Nat /\ s[k] <= n /\ r[k] = s[k]
  <2>1. \A k \in 1 .. Len(s) : s[k] \in ToSet(s)
    BY <1>1 DEF ToSet
  <2>2. \A k \in 1 .. Len(s) : s[k] \in f + 1 .. n
    BY <2>1 DEF SentUpTo, DueOf
  <2> HIDE DEF r
  <2>3. QED BY <1>1, <2>2
<1>3. \A k \in 1 .. Len(p) : Len(s) + k \in DOMAIN r /\ r[Len(s) + k] = n + k
  <2> HIDE DEF r
  <2>1. SUFFICES ASSUME NEW k \in 1 .. Len(p)
                 PROVE  Len(s) + k \in DOMAIN r /\ r[Len(s) + k] = n + k
    OBVIOUS
  <2>2. Len(s) + k \in 1 .. Len(s) + Len(p) /\ ~(Len(s) + k <= Len(s)) /\ (Len(s) + k) - Len(s) = k
    BY <1>1
  <2>3. r[Len(s) + k] = p[k]
    BY <2>2, <1>1
  <2>4. QED BY <2>2, <2>3, <1>1
<1>4. ASSUME NEW k \in DOMAIN r
      PROVE  k \in 1 .. Len(s) \/ (k - Len(s) \in 1 .. Len(p) /\ r[k] = n + (k - Len(s)))
  <2> HIDE DEF r
  <2>1. CASE k <= Len(s)
    BY <2>1, <1>1
  <2>2. CASE k > Len(s)
    <3>1. k - Len(s) \in 1 .. Len(p) /\ Len(s) + (k - Len(s)) = k
      BY <2>2, <1>1
    <3>2. QED BY <3>1, <1>3
  <2>3. QED BY <2>1, <2>2, <1>1
<1>5. ASSUME NEW j \in DOMAIN r, NEW k \in DOMAIN r, j < k PROVE r[j] < r[k]
  <2> HIDE DEF r
  <2>1. CASE k \in 1 .. Len(s)
    <3>1. j \in 1 .. Len(s)
      BY <2>1, <1>1, <1>5
    <3>2. s[j] < s[k]
      BY <2>1, <3>1, <1>1, <1>5 DEF SentUpTo
    <3>3. QED BY <2>1, <3>1, <3>2, <1>2
  <2>2. CASE k - Len(s) \in 1 .. Len(p) /\ r[k] = n + (k - Len(s))
    <3>1. CASE j \in 1 .. Len(s)
      BY <2>2, <3>1, <1>2, <1>1
    <3>2. CASE j - Len(s) \in 1 .. Len(p) /\ r[j] = n + (j - Len(s))
      BY <2>2, <3>2, <1>1, <1>5
    <3>3. QED BY <3>1, <3>2, <1>4
  <2>3. QED BY <2>1, <2>2, <1>4
<1>6. ASSUME NEW x \in ToSet(r) PROVE x \in DueOf(f, cap, n + Len(p))
  <2> HIDE DEF r
  <2>1. PICK k \in DOMAIN r : x = r[k]
    BY <1>6 DEF ToSet
  <2>2. CASE k \in 1 .. Len(s)
    <3>1. x \in DueOf(f, cap, n)
      BY <2>1, <2>2, <1>1, <1>2 DEF SentUpTo, ToSet
    <3>2. QED BY <3>1, <1>1 DEF DueOf
  <2>3. CASE k - Len(s) \in 1 .. Len(p) /\ r[k] = n + (k - Len(s))
    <3>1. x \in n + 1 .. n + Len(p)
      BY <2>1, <2>3, <1>1
    <3>2. QED BY <3>1, <1>1 DEF DueOf
  <2>4. QED BY <2>2, <2>3, <1>4
<1>7. ASSUME NEW x \in DueOf(f, cap, n + Len(p)) PROVE x \in ToSet(r)
  <2> HIDE DEF r
  <2>1. x \in f + 1 .. n + Len(p) /\ x \notin cap
    BY <1>7 DEF DueOf
  <2>2. CASE x <= n
    <3>1. x \in DueOf(f, cap, n)
      BY <2>1, <2>2, <1>1 DEF DueOf
    <3>2. PICK k \in 1 .. Len(s) : x = s[k]
      BY <3>1, <1>1 DEF SentUpTo, ToSet
    <3>3. k \in DOMAIN r /\ r[k] = x
      BY <3>2, <1>1, <1>2
    <3>4. QED BY <3>3 DEF ToSet
  <2>3. CASE x > n
    <3>1. x - n \in 1 .. Len(p) /\ n + (x - n) = x
      BY <2>1, <2>3, <1>1
    <3>2. Len(s) + (x - n) \in DOMAIN r /\ r[Len(s) + (x - n)] = x
      BY <3>1, <1>3
    <3>3. QED BY <3>2 DEF ToSet
  <2>4. QED BY <2>1, <2>2, <2>3, <1>1
<1>8. QED BY <1>5, <1>6, <1>7 DEF SentUpTo

-----------------------------------------------------------------------------
(* What the clients have been sent, of the state.                           *)
LEMMA HasIs ==
  /\ \A c : Has(c, Drained) <=> SentUpTo(stream[c], from[c], captured, Drained)
  /\ \A c : Has(c, Drained)' <=> SentUpTo(stream'[c], from'[c], captured', Drained')
  BY DEF Has, Due, SentUpTo, DueOf

LEMMA HasPassIs ==
  /\ \A j : Has(attached_clients[j], Drained)
              <=> SentUpTo(stream[attached_clients[j]], from[attached_clients[j]], captured, Drained)
  /\ \A j : Has(attached_clients[j], Drained)'
              <=> SentUpTo(stream'[attached_clients'[j]], from'[attached_clients'[j]],
                           captured', Drained')
  /\ \A j : Has(attached_clients[j], Drained - Len(pty_output))
              <=> SentUpTo(stream[attached_clients[j]], from[attached_clients[j]], captured,
                           Drained - Len(pty_output))
  /\ \A j : Has(attached_clients[j], Drained - Len(pty_output))'
              <=> SentUpTo(stream'[attached_clients'[j]], from'[attached_clients'[j]],
                           captured', Drained' - Len(pty_output'))
  BY DEF Has, Due, SentUpTo, DueOf

LEMMA InitStreams == Init => StreamInv
<1> SUFFICES ASSUME Init PROVE StreamInv
  OBVIOUS
<1>1. /\ phase = "accept" /\ to_remove = <<>> /\ attached_clients = <<>>
      /\ stream = [c \in Clients |-> <<>>]
  BY DEF Init
<1>2. QED BY <1>1 DEF StreamInv, Fresh, MarkedFresh, AllSent, PassSent, ToSet

(* A client that is not attached has been sent nothing.                     *)
LEMMA NextFresh ==
  ASSUME TypeInv, ListInv, Fresh, [Next]_vars
  PROVE  Fresh'
<1> USE DEF lists, client_vars
<1>1. /\ backlog \in Seq(Clients) /\ ipc_clients \in Seq(Clients)
      /\ attached_clients \in Seq(Clients) /\ request = [c \in Clients |-> request[c]]
      /\ stream = [c \in Clients |-> stream[c]]
  BY DEF TypeInv
<1>2. ASSUME UNCHANGED <<stream, request, backlog, ipc_clients>> PROVE Fresh'
  BY <1>2 DEF Fresh
<1>3. ASSUME NEW c \in Clients, Connect(c) PROVE Fresh'
  <2>1. /\ request[c] = "none" /\ request' = [request EXCEPT ![c] = "unsent"]
        /\ backlog' = Append(backlog, c) /\ UNCHANGED <<ipc_clients, stream>>
    BY <1>3 DEF Connect
  <2>2. \A d \in Clients : d \in ToSet(backlog') => d = c \/ d \in ToSet(backlog)
    <3>1. c \notin ToSet(backlog) /\ Once(backlog)
      BY <2>1 DEF ListInv, Connected
    <3>2. QED BY <2>1, <3>1, <1>1, AppendOnce
  <2>3. \A d \in Clients : request'[d] = "none" => request[d] = "none"
    BY <2>1, <1>1
  <2>4. QED BY <2>1, <2>2, <2>3 DEF Fresh
<1>4. ASSUME NEW c \in Clients, NEW k \in Kinds, SendRest(c, k) PROVE Fresh'
  <2>1. request' = [request EXCEPT ![c] = k] /\ UNCHANGED <<backlog, ipc_clients, stream>>
    BY <1>4 DEF SendRest
  <2>2. k # "none"
    BY DaemonAssumption DEF AllKinds
  <2>3. \A d \in Clients : request'[d] = "none" => request[d] = "none"
    BY <2>1, <2>2, <1>1
  <2>4. QED BY <2>1, <2>3 DEF Fresh
<1>5. CASE Accept
  <2>1. CASE backlog = <<>>
    BY <1>5, <2>1, <1>2 DEF Accept
  <2>2. CASE backlog # <<>>
    <3>1. /\ backlog' = Tail(backlog) /\ ipc_clients' = Append(ipc_clients, Head(backlog))
          /\ UNCHANGED <<request, stream>>
      BY <1>5, <2>2 DEF Accept
    <3>2. /\ Head(backlog) \in Clients /\ Head(backlog) \in ToSet(backlog)
          /\ ToSet(backlog') \subseteq ToSet(backlog)
      BY <2>2, <3>1, <1>1, TailIs, TailOnce DEF ListInv
    <3>3. ToSet(ipc_clients') = ToSet(ipc_clients) \cup {Head(backlog)}
      BY <3>1, <3>2, <1>1, AppendOnce DEF ListInv
    <3>4. QED BY <3>1, <3>2, <3>3 DEF Fresh
  <2>3. QED BY <2>1, <2>2
<1>6. CASE StreamToClient
  <2> DEFINE c == attached_clients[i]
  <2>1. /\ i \in DOMAIN attached_clients /\ UNCHANGED <<request, backlog, ipc_clients>>
        /\ \A d \in Clients : d # c => stream'[d] = stream[d]
    BY <1>6, <1>1 DEF StreamToClient
  <2>2. c \in Clients /\ c \in ToSet(attached_clients)
    BY <2>1, <1>1 DEF ToSet
  <2>3. request[c] # "none" /\ c \notin ToSet(backlog) \cup ToSet(ipc_clients)
    BY <2>2 DEF ListInv, Connected
  <2> HIDE DEF c
  <2>4. QED BY <2>1, <2>3 DEF Fresh
<1>7. CASE MoveClient
  <2>1. PICK p \in DOMAIN ipc_clients : ipc_clients' = RemoveAt(ipc_clients, p)
    BY <1>7 DEF MoveClient
  <2>2. UNCHANGED <<request, stream, backlog>>
    BY <1>7 DEF MoveClient
  <2>3. ToSet(ipc_clients') \subseteq ToSet(ipc_clients)
    BY <2>1, <1>1, RemoveOnce DEF ListInv
  <2>4. QED BY <2>2, <2>3 DEF Fresh
<1>8. CASE Cleanup
  BY <1>8 DEF Cleanup, Fresh, ToSet
<1>9. ASSUME NEW c \in Clients,
             \/ SendPart(c) \/ Receive(c) \/ HangUp(c) \/ ReadTimesOut(c) \/ ReadFails(c)
             \/ HandleAttach(c) \/ HandleKill(c) \/ HandleOther(c) \/ HandleKeys(c)
             \/ HandleCapture(c)
      PROVE  Fresh'
  BY <1>9, <1>2 DEF SendPart, Receive, HangUp, ReadTimesOut, ReadFails, HandleAttach,
     HandleKill, HandleOther, HandleKeys, HandleCapture
<1>10. CASE ShellWrites \/ ShellReads \/ ClientTakesReply \/ PollPty \/ DropDead
            \/ StartReading \/ EndPass \/ UNCHANGED vars
  BY <1>10, <1>2 DEF ShellWrites, ShellReads, ClientTakesReply, PollPty, DropDead,
     StartReading, EndPass, vars
<1>11. QED
  BY <1>3, <1>4, <1>5, <1>6, <1>7, <1>8, <1>9, <1>10 DEF Next, Loop

(* What an action does to the output that was taken.                        *)
LEMMA DrainedNow ==
  ASSUME TypeInv, ChunkInv
  PROVE  /\ Drained \in Nat /\ Len(pending) \in Nat /\ Len(pty_output) \in Nat
         /\ Drained - Len(pty_output) \in Nat /\ produced = Drained + Len(pending)
<1>1. produced \in Nat /\ Len(pending) \in Nat /\ Len(pty_output) \in Nat
  BY DaemonAssumption DEF TypeInv
<1>2. QED BY <1>1 DEF Drained, ChunkInv

LEMMA DrainedSame ==
  ASSUME UNCHANGED <<produced, pending>> PROVE Drained' = Drained
  BY DEF Drained

LEMMA DrainedWrites ==
  ASSUME TypeInv, ShellWrites PROVE Drained' = Drained
<1>1. Len(pending) \in Nat /\ produced \in Nat /\ Len(pending') = Len(pending) + 1
      /\ produced' = produced + 1
  BY DaemonAssumption, AppendIs DEF TypeInv, ShellWrites
<1>2. QED BY <1>1 DEF Drained

(* A capture takes what no pass will.                                       *)
LEMMA DueCaptured ==
  ASSUME TypeInv, ChunkInv, NEW f \in Nat, NEW c \in Clients, HandleCapture(c)
  PROVE  DueOf(f, captured', Drained') = DueOf(f, captured, Drained)
<1>1. /\ pending' = <<>> /\ captured' = captured \cup ToSet(pending) /\ produced' = produced
  BY DEF HandleCapture
<1>2. Drained' = produced
  <2>1. Len(<<>>) = 0
    BY EmptySeq
  <2>2. produced - 0 = produced
    BY DrainedNow
  <2>3. QED BY <1>1, <2>1, <2>2 DEF Drained
<1>3. ToSet(pending) = Drained + 1 .. produced
  <2>1. /\ Drained \in Nat /\ Len(pending) \in Nat /\ produced = Drained + Len(pending)
        /\ DOMAIN pending = 1 .. Len(pending)
    BY DrainedNow DEF TypeInv
  <2>2. \A k \in 1 .. Len(pending) : pending[k] = Drained + k
    BY <2>1 DEF ChunkInv
  <2>3. \A x \in ToSet(pending) : x \in Drained + 1 .. produced
    BY <2>1, <2>2 DEF ToSet
  <2>4. ASSUME NEW x \in Drained + 1 .. produced PROVE x \in ToSet(pending)
    <3>1. x - Drained \in 1 .. Len(pending) /\ Drained + (x - Drained) = x
      BY <2>1
    <3>2. QED BY <3>1, <2>1, <2>2 DEF ToSet
  <2>5. QED BY <2>3, <2>4
<1>4. Drained \in Nat /\ produced \in Nat /\ Drained <= produced
  BY DrainedNow
<1>5. captured' = captured \cup (Drained + 1 .. produced)
  BY <1>1, <1>3
<1>6. DueOf(f, captured \cup (Drained + 1 .. produced), produced) = DueOf(f, captured, Drained)
  BY <1>4, DueAfterCapture
<1>7. QED BY <1>2, <1>5, <1>6

(* A client that is to be attached has missed nothing yet.                  *)
LEMMA MarkedFreshIs ==
  /\ MarkedFresh <=> \A k \in DOMAIN to_remove :
       to_remove[k][2] => DueOf(from[to_remove[k][1]], captured, Drained) = {}
  /\ MarkedFresh' <=> \A k \in DOMAIN to_remove' :
       to_remove'[k][2] => DueOf(from'[to_remove'[k][1]], captured', Drained') = {}
  BY DEF MarkedFresh, Due, DueOf

LEMMA NextMarkedFresh ==
  ASSUME TypeInv, ChunkInv, Marks, MarkedFresh, [Next]_vars, Marks'
  PROVE  MarkedFresh'
<1> USE DEF lists, client_vars
<1>1. /\ to_remove \in Seq(Clients \X BOOLEAN) /\ from \in [Clients -> Nat] /\ Drained \in Nat
      /\ Len(to_remove) \in Nat /\ DOMAIN to_remove = 1 .. Len(to_remove)
  <2>1. to_remove \in Seq(Clients \X BOOLEAN) /\ from \in [Clients -> Nat]
    BY DEF TypeInv
  <2>2. QED BY <2>1, DrainedNow
<1>2. ASSUME UNCHANGED <<to_remove, from, captured>>, Drained' = Drained PROVE MarkedFresh'
  BY <1>2, MarkedFreshIs
<1>3. ASSUME to_remove' = <<>> PROVE MarkedFresh'
  BY <1>3 DEF MarkedFresh
<1>4. ASSUME NEW c \in Clients, NEW attach \in BOOLEAN,
             to_remove' = Append(to_remove, <<c, attach>>), UNCHANGED captured,
             Drained' = Drained,
             from' = IF attach THEN [from EXCEPT ![c] = Drained] ELSE from
      PROVE  MarkedFresh'
  <2> DEFINE s == to_remove
             n == Len(s)
             r == to_remove'
  <2>1. /\ DOMAIN r = 1 .. n + 1 /\ \A k \in 1 .. n : r[k] = s[k]
        /\ r[n + 1] = <<c, attach>>
    <3>1. <<c, attach>> \in Clients \X BOOLEAN
      OBVIOUS
    <3>2. QED BY <3>1, <1>1, <1>4, AppendIs
  <2>2. /\ \A k \in 1 .. n : s[k] \in Clients \X BOOLEAN
        /\ \A j, k \in DOMAIN r : r[j][1] = r[k][1] => j = k
        /\ n \in Nat
    BY <1>1 DEF Marks
  <2>3. \A k \in 1 .. n : s[k][2] => DueOf(from[s[k][1]], captured, Drained) = {}
    BY <1>1, MarkedFreshIs
  <2> HIDE DEF s, n, r
  <2>4. \A k \in 1 .. n : s[k][1] # c /\ s[k][1] \in Clients
    <3>1. n + 1 \in DOMAIN r /\ r[n + 1][1] = c
      BY <2>1, <2>2
    <3>2. \A k \in 1 .. n : k \in DOMAIN r /\ k # n + 1
      BY <2>1, <2>2
    <3>3. QED BY <2>1, <2>2, <3>1, <3>2
  <2>5. \A d \in Clients \ {c} : from'[d] = from[d]
    BY <1>1, <1>4
  <2>6. \A k \in 1 .. n : r[k][2] => DueOf(from'[r[k][1]], captured', Drained') = {}
    BY <2>1, <2>3, <2>4, <2>5, <1>4
  <2>7. r[n + 1][2] => DueOf(from'[r[n + 1][1]], captured', Drained') = {}
    <3>1. CASE attach = TRUE
      <4>1. from'[c] = Drained
        BY <3>1, <1>1, <1>4
      <4>2. QED BY <4>1, <2>1, <1>1, <1>4, NothingDue
    <3>2. CASE attach = FALSE
      BY <3>2, <2>1
    <3>3. QED BY <3>1, <3>2
  <2>8. \A k \in DOMAIN r : k \in 1 .. n \/ k = n + 1
    BY <2>1, <2>2
  <2>9. \A k \in DOMAIN r : r[k][2] => DueOf(from'[r[k][1]], captured', Drained') = {}
    BY <2>6, <2>7, <2>8
  <2>10. QED BY <2>9, MarkedFreshIs DEF r
<1>5. ASSUME NEW c \in Clients, HandleAttach(c) PROVE MarkedFresh'
  <2>1. /\ to_remove' = Append(to_remove, <<c, TRUE>>) /\ from' = [from EXCEPT ![c] = Drained]
        /\ UNCHANGED <<captured, produced, pending>>
    BY <1>5 DEF HandleAttach, Answer
  <2>2. QED BY <2>1, <1>4, DrainedSame
<1>6. ASSUME NEW c \in Clients, HandleKill(c) \/ HandleOther(c) \/ ReadFails(c)
      PROVE  MarkedFresh'
  <2>1. /\ to_remove' = Append(to_remove, <<c, FALSE>>)
        /\ UNCHANGED <<captured, produced, pending, from>>
    BY <1>6 DEF HandleKill, HandleOther, ReadFails, Answer
  <2>2. QED BY <2>1, <1>4, DrainedSame
<1>7. CASE ShellReads \/ ClientTakesReply
  <2>1. /\ to_remove' = Append(to_remove, <<ipc_clients[i], FALSE>>)
        /\ UNCHANGED <<captured, produced, pending, from>>
    BY <1>7 DEF ShellReads, ClientTakesReply, Answer
  <2>2. ipc_clients[i] \in Clients
    <3>1. i \in DOMAIN ipc_clients
      BY <1>7 DEF ShellReads, ClientTakesReply, Marks
    <3>2. QED BY <3>1 DEF TypeInv
  <2>3. QED BY <2>1, <2>2, <1>4, DrainedSame
<1>8. ASSUME NEW c \in Clients, HandleCapture(c) PROVE MarkedFresh'
  <2>1. UNCHANGED <<to_remove, from>>
    BY <1>8 DEF HandleCapture
  <2>2. ASSUME NEW k \in DOMAIN to_remove
        PROVE  DueOf(from[to_remove[k][1]], captured', Drained')
                 = DueOf(from[to_remove[k][1]], captured, Drained)
    <3>1. from[to_remove[k][1]] \in Nat
      BY <1>1
    <3>2. QED BY <3>1, <1>8, DueCaptured
  <2>3. QED BY <2>1, <2>2, MarkedFreshIs
<1>9. CASE MoveClient
  <2>1. to_remove # <<>> /\ to_remove' = Front(to_remove) /\ UNCHANGED <<from, captured, produced, pending>>
    BY <1>9 DEF MoveClient
  <2>2. /\ DOMAIN to_remove' = 1 .. Len(to_remove) - 1
        /\ \A k \in 1 .. Len(to_remove) - 1 : to_remove'[k] = to_remove[k]
    BY <2>1, <1>1, FrontIs
  <2>3. \A k \in DOMAIN to_remove' : k \in DOMAIN to_remove /\ to_remove'[k] = to_remove[k]
    BY <2>2, <1>1
  <2>4. QED BY <2>1, <2>3, MarkedFreshIs, DrainedSame
<1>10. CASE ShellWrites
  BY <1>10, <1>2, DrainedWrites DEF ShellWrites
<1>11. CASE Accept \/ PollPty \/ StreamToClient \/ DropDead \/ StartReading
  <2>1. to_remove = <<>> /\ to_remove' = to_remove
    BY <1>11 DEF Accept, PollPty, StreamToClient, DropDead, StartReading, Marks
  <2>2. QED BY <2>1, <1>3
<1>12. CASE EndPass \/ Cleanup \/ UNCHANGED vars
  BY <1>12, <1>2, DrainedSame DEF EndPass, Cleanup, vars
<1>13. ASSUME NEW c \in Clients,
              \/ Connect(c) \/ SendPart(c) \/ (\E k \in Kinds : SendRest(c, k))
              \/ Receive(c) \/ HangUp(c) \/ HandleKeys(c) \/ ReadTimesOut(c)
       PROVE  MarkedFresh'
  BY <1>13, <1>2, DrainedSame
     DEF Connect, SendPart, SendRest, Receive, HangUp, HandleKeys, ReadTimesOut
<1>14. QED
  BY <1>5, <1>6, <1>7, <1>8, <1>9, <1>10, <1>11, <1>12, <1>13 DEF Next, Loop

(* Between two passes every attached client has been sent all of it.        *)
LEMMA NextAllSent ==
  ASSUME TypeInv, ChunkInv, ListInv, Marks, StreamInv, [Next]_vars
  PROVE  AllSent'
<1> USE DEF lists, client_vars
<1>1. /\ attached_clients \in Seq(Clients) /\ ipc_clients \in Seq(Clients)
      /\ from \in [Clients -> Nat] /\ Drained \in Nat
      /\ to_remove \in Seq(Clients \X BOOLEAN) /\ i \in Nat \ {0}
      /\ ToSet(attached_clients) \subseteq Clients
  <2>1. /\ attached_clients \in Seq(Clients) /\ ipc_clients \in Seq(Clients)
        /\ from \in [Clients -> Nat] /\ to_remove \in Seq(Clients \X BOOLEAN)
        /\ i \in Nat \ {0}
    BY DEF TypeInv
  <2>2. ToSet(attached_clients) \subseteq Clients
    BY <2>1 DEF ToSet
  <2>3. QED BY <2>1, <2>2, DrainedNow
<1>2. ASSUME UNCHANGED <<stream, from, captured>>, Drained' = Drained,
             ToSet(attached_clients') \subseteq ToSet(attached_clients),
             phase' # "stream" => phase # "stream"
      PROVE  AllSent'
  BY <1>2, HasIs DEF AllSent, StreamInv
<1>3. CASE StartReading
  <2>1. /\ phase = "stream" /\ i > Len(attached_clients) /\ dead_attached = <<>>
        /\ UNCHANGED <<stream, from, captured, produced, pending, attached_clients>>
    BY <1>3 DEF StartReading
  <2>2. \A j \in DOMAIN attached_clients : j < i
    BY <2>1, <1>1
  <2>3. \A j \in DOMAIN attached_clients : Has(attached_clients[j], Drained)
    BY <2>1, <2>2 DEF StreamInv, PassSent, ToSet
  <2>4. \A c \in ToSet(attached_clients) : Has(c, Drained)
    BY <2>3 DEF ToSet
  <2>5. QED BY <2>1, <2>4, HasIs, DrainedSame DEF AllSent
<1>4. ASSUME NEW c \in Clients, HandleAttach(c) PROVE AllSent'
  <2>1. /\ phase = "read" /\ from' = [from EXCEPT ![c] = Drained]
        /\ c \in ToSet(ipc_clients)
        /\ UNCHANGED <<stream, captured, produced, pending, attached_clients>>
    BY <1>4 DEF HandleAttach, ReadRequest, Reading, ToSet
  <2>2. c \notin ToSet(attached_clients)
    BY <2>1 DEF ListInv
  <2>3. \A d \in ToSet(attached_clients) : from'[d] = from[d]
    BY <2>1, <2>2, <1>1
  <2>4. QED BY <2>1, <2>3, HasIs, DrainedSame DEF AllSent, StreamInv
<1>5. ASSUME NEW c \in Clients, HandleCapture(c) PROVE AllSent'
  <2>1. phase = "read" /\ UNCHANGED <<stream, from, attached_clients>>
    BY <1>5 DEF HandleCapture, ReadRequest, Reading
  <2>2. \A d \in ToSet(attached_clients) :
          DueOf(from[d], captured', Drained') = DueOf(from[d], captured, Drained)
    BY <1>1, <1>5, DueCaptured
  <2>3. \A d \in ToSet(attached_clients) : SentUpTo(stream[d], from[d], captured, Drained)
    BY <2>1, HasIs DEF AllSent, StreamInv
  <2>4. \A d \in ToSet(attached_clients) : SentUpTo(stream[d], from[d], captured', Drained')
    BY <2>2, <2>3 DEF SentUpTo
  <2>5. QED BY <2>1, <2>4, HasIs DEF AllSent
<1>6. CASE MoveClient
  <2> DEFINE n == Len(to_remove)
             c == to_remove[n][1]
  <2>1. /\ phase = "read" /\ to_remove # <<>>
        /\ attached_clients' = IF to_remove[n][2] THEN Append(attached_clients, c)
                               ELSE attached_clients
        /\ c \in ToSet(ipc_clients)
        /\ UNCHANGED <<stream, from, captured, produced, pending>>
    BY <1>6 DEF MoveClient, Last, ToSet
  <2>2. n \in DOMAIN to_remove /\ to_remove[n] \in Clients \X BOOLEAN /\ c \in Clients
    BY <2>1, <1>1, FrontIs
  <2>3. to_remove[n][2] => DueOf(from[c], captured, Drained) = {}
    BY <2>2, MarkedFreshIs DEF StreamInv
  <2>4. stream[c] = <<>>
    BY <2>1, <2>2 DEF StreamInv, Fresh
  <2>5. c \notin ToSet(attached_clients) /\ Once(attached_clients)
    BY <2>1 DEF ListInv
  <2> HIDE DEF n, c
  <2>6. to_remove[n][2] => SentUpTo(stream[c], from[c], captured, Drained)
    BY <2>3, <2>4 DEF SentUpTo, ToSet
  <2>7. \A d \in ToSet(attached_clients) : SentUpTo(stream[d], from[d], captured, Drained)
    BY <2>1, HasIs DEF AllSent, StreamInv
  <2>8. ToSet(Append(attached_clients, c)) = ToSet(attached_clients) \cup {c}
    BY <2>2, <2>5, <1>1, AppendOnce
  <2>9. \A d \in ToSet(attached_clients') : SentUpTo(stream[d], from[d], captured, Drained)
    <3>1. CASE to_remove[n][2] = TRUE
      BY <3>1, <2>1, <2>6, <2>7, <2>8
    <3>2. CASE to_remove[n][2] = FALSE
      BY <3>2, <2>1, <2>7
    <3>3. QED BY <3>1, <3>2, <2>2
  <2>10. QED BY <2>1, <2>9, HasIs, DrainedSame DEF AllSent
<1>7. CASE Cleanup
  BY <1>7 DEF Cleanup, AllSent, ToSet
<1>8. CASE PollPty \/ StreamToClient \/ DropDead
  BY <1>8 DEF PollPty, StreamToClient, DropDead, AllSent
<1>9. CASE ShellWrites
  BY <1>9, <1>2, DrainedWrites DEF ShellWrites
<1>10. ASSUME NEW c \in Clients,
              \/ Connect(c) \/ SendPart(c) \/ (\E k \in Kinds : SendRest(c, k))
              \/ Receive(c) \/ HangUp(c) \/ ReadTimesOut(c) \/ ReadFails(c)
       PROVE  AllSent'
  BY <1>10, <1>2, DrainedSame
     DEF Connect, SendPart, SendRest, Receive, HangUp, ReadTimesOut, ReadFails
<1>11. ASSUME NEW c \in Clients, HandleKill(c) \/ HandleOther(c) \/ HandleKeys(c) PROVE AllSent'
  BY <1>11, <1>2, DrainedSame DEF HandleKill, HandleOther, HandleKeys, ReadRequest, Reading
<1>12. CASE Accept \/ ShellReads \/ ClientTakesReply \/ EndPass \/ UNCHANGED vars
  BY <1>12, <1>2, DrainedSame DEF Accept, ShellReads, ClientTakesReply, EndPass, vars
<1>13. QED
  BY <1>3, <1>4, <1>5, <1>6, <1>7, <1>8, <1>9, <1>10, <1>11, <1>12 DEF Next, Loop

(* Within the streaming, those the loop has passed and not marked have been *)
(* sent all of it, and the others all up to it.                             *)
LEMMA NextPassSent ==
  ASSUME TypeInv, ChunkInv, ListInv, Marks, StreamInv, [Next]_vars
  PROVE  PassSent'
<1> USE DEF lists, client_vars
<1>1. /\ attached_clients \in Seq(Clients) /\ from \in [Clients -> Nat]
      /\ stream \in [Clients -> Seq(Nat)] /\ pty_output \in Seq(Nat)
      /\ dead_attached \in Seq(Nat) /\ i \in Nat \ {0}
  BY DEF TypeInv
<1>2. ASSUME UNCHANGED <<stream, from, captured, pty_output, attached_clients, i,
                         dead_attached, phase>>, Drained' = Drained
      PROVE  PassSent'
  BY <1>2, HasPassIs DEF PassSent, StreamInv
<1>3. ASSUME phase' # "stream" PROVE PassSent'
  BY <1>3 DEF PassSent
<1>4. CASE PollPty
  <2>1. /\ phase = "poll" /\ pty_output' = pending /\ pending' = <<>>
        /\ UNCHANGED <<stream, from, captured, produced, attached_clients, i, dead_attached>>
    BY <1>4 DEF PollPty
  <2>2. i = 1 /\ phase # "stream"
    BY <2>1 DEF Marks
  <2>3. Drained' - Len(pty_output') = Drained
    <3>1. Len(<<>>) = 0
      BY EmptySeq
    <3>2. Drained' = produced - 0
      BY <2>1, <3>1 DEF Drained
    <3>3. QED BY <2>1, <3>2, DrainedNow
  <2>4. \A j \in DOMAIN attached_clients :
          SentUpTo(stream[attached_clients[j]], from[attached_clients[j]], captured, Drained)
    <3>1. \A j \in DOMAIN attached_clients : attached_clients[j] \in ToSet(attached_clients)
      BY DEF ToSet
    <3>2. QED BY <2>2, <3>1, HasIs DEF AllSent, StreamInv
  <2>5. \A j \in DOMAIN attached_clients : ~(j < 1)
    BY <1>1
  <2>6. QED BY <2>1, <2>2, <2>3, <2>4, <2>5, HasPassIs DEF PassSent
<1>5. CASE StreamToClient
  <2> DEFINE c == attached_clients[i]
             free == IF hung_up[c] THEN 0 ELSE BufCap - unread[c]
             n == IF Len(pty_output) > free THEN free ELSE Len(pty_output)
             p == SubSeq(pty_output, 1, n)
  <2>1. /\ phase = "stream" /\ i \in DOMAIN attached_clients
        /\ stream' = [stream EXCEPT ![c] = @ \o p]
        /\ dead_attached' = IF n < Len(pty_output) THEN Append(dead_attached, i)
                            ELSE dead_attached
        /\ i' = i + 1
        /\ UNCHANGED <<from, captured, produced, pending, pty_output, attached_clients>>
    BY <1>5 DEF StreamToClient
  <2>2. c \in Clients /\ Drained' = Drained
    BY <2>1, <1>1, DrainedSame
  <2>3. \A j \in DOMAIN attached_clients : attached_clients[j] = c => j = i
    BY <2>1 DEF ListInv, Once
  <2>4. n < Len(pty_output) \/ n = Len(pty_output)
    <3>1. unread[c] \in 0 .. BufCap /\ BufCap \in Nat /\ Len(pty_output) \in Nat
      BY <2>2, DaemonAssumption DEF TypeInv
    <3>2. free = 0 \/ free = BufCap - unread[c]
      OBVIOUS
    <3>3. n = IF Len(pty_output) > free THEN free ELSE Len(pty_output)
      OBVIOUS
    <3>4. unread[c] \in Nat
      BY <3>1
    <3> HIDE DEF free, n, c
    <3>5. n <= Len(pty_output) /\ n \in Nat
      BY <3>1, <3>2, <3>3, <3>4, Room
    <3>6. QED BY <3>1, <3>5
  <2>5. n = Len(pty_output) => p = pty_output
    <3> HIDE DEF n
    <3>1. QED BY <1>1, SubSeqProperties
  <2> HIDE DEF c, free, n, p
  <2>6. \A j \in DOMAIN attached_clients : attached_clients[j] # c => stream'[attached_clients[j]] = stream[attached_clients[j]]
    BY <2>1, <1>1
  <2>7. stream'[c] = stream[c] \o p
    BY <2>1, <2>2, <1>1
  <2>8. \A j \in DOMAIN attached_clients :
          IF j < i
          THEN \/ j \in ToSet(dead_attached)
               \/ SentUpTo(stream[attached_clients[j]], from[attached_clients[j]], captured, Drained)
          ELSE SentUpTo(stream[attached_clients[j]], from[attached_clients[j]], captured,
                        Drained - Len(pty_output))
    BY <2>1, HasPassIs DEF PassSent, StreamInv
  <2>9. ToSet(dead_attached) \subseteq ToSet(dead_attached')
    <3>1. CASE dead_attached' = dead_attached
      BY <3>1
    <3>2. CASE dead_attached' = Append(dead_attached, i)
      <4>1. /\ DOMAIN dead_attached = 1 .. Len(dead_attached) /\ Len(dead_attached) \in Nat
            /\ DOMAIN dead_attached' = 1 .. Len(dead_attached) + 1
            /\ \A k \in 1 .. Len(dead_attached) : dead_attached'[k] = dead_attached[k]
        BY <3>2, <1>1, AppendIs
      <4>2. QED BY <4>1 DEF ToSet
    <3>3. QED BY <2>1, <3>1, <3>2
  <2>10. i \in ToSet(dead_attached') \/ SentUpTo(stream'[c], from[c], captured, Drained)
    <3>1. CASE n < Len(pty_output)
      <4>1. /\ dead_attached' = Append(dead_attached, i)
            /\ Len(dead_attached) + 1 \in DOMAIN dead_attached'
            /\ dead_attached'[Len(dead_attached) + 1] = i
        BY <3>1, <2>1, <1>1, AppendIs
      <4>2. QED BY <4>1 DEF ToSet
    <3>2. CASE n = Len(pty_output)
      <4> DEFINE low == Drained - Len(pty_output)
      <4>1. low \in Nat /\ low + Len(pty_output) = Drained
        BY DrainedNow
      <4>2. SentUpTo(stream[c], from[c], captured, low)
        <5>1. ~(i < i)
          BY <1>1
        <5>2. QED BY <5>1, <2>1, <2>8 DEF c
      <4>3. from[c] <= low /\ captured \subseteq 1 .. low
            /\ \A k \in DOMAIN pty_output : pty_output[k] = low + k
        BY <2>2 DEF ChunkInv
      <4>4. stream[c] \in Seq(Nat) /\ from[c] \in Nat
        BY <2>2, <1>1
      <4> HIDE DEF low
      <4>5. SentUpTo(stream[c] \o pty_output, from[c], captured, low + Len(pty_output))
        BY <4>1, <4>2, <4>3, <4>4, <1>1, SentPass
      <4>6. QED BY <4>1, <4>5, <2>5, <2>7, <3>2
    <3>3. QED BY <2>4, <3>1, <3>2
  <2>11. ASSUME NEW j \in DOMAIN attached_clients
         PROVE  IF j < i + 1
                THEN \/ j \in ToSet(dead_attached')
                     \/ SentUpTo(stream'[attached_clients[j]], from[attached_clients[j]], captured, Drained)
                ELSE SentUpTo(stream'[attached_clients[j]], from[attached_clients[j]], captured,
                              Drained - Len(pty_output))
    <3>1. j \in Nat
      BY <1>1
    <3>2. CASE j < i
      <4>1. attached_clients[j] # c /\ j < i + 1
        BY <3>1, <3>2, <2>3, <1>1
      <4>2. QED BY <4>1, <3>2, <2>6, <2>8, <2>9
    <3>3. CASE j = i
      <4>1. j < i + 1 /\ attached_clients[j] = c
        BY <3>3, <1>1 DEF c
      <4>2. QED BY <4>1, <3>3, <2>10
    <3>4. CASE j > i
      <4>1. attached_clients[j] # c /\ ~(j < i + 1) /\ ~(j < i)
        BY <3>1, <3>4, <2>3, <1>1
      <4>2. QED BY <4>1, <2>6, <2>8
    <3>5. QED BY <3>1, <3>2, <3>3, <3>4, <1>1
  <2>12. QED BY <2>1, <2>2, <2>11, HasPassIs DEF PassSent
<1>6. CASE DropDead
  <2> DEFINE s == dead_attached
             n == Len(s)
             p == s[n]
             a == attached_clients
             b == attached_clients'
             Sent(c) == SentUpTo(stream[c], from[c], captured, Drained)
  <2>1. /\ phase = "stream" /\ i > Len(a) /\ s # <<>> /\ dead_attached' = Front(s)
        /\ b = RemoveAt(a, p)
        /\ UNCHANGED <<stream, from, captured, produced, pending, i, pty_output>>
    BY <1>6 DEF DropDead, Last
  <2>2. /\ n \in Nat \ {0} /\ DOMAIN s = 1 .. n /\ DOMAIN dead_attached' = 1 .. n - 1
        /\ \A k \in 1 .. n - 1 : dead_attached'[k] = s[k]
    <3>1. s \in Seq(Nat) /\ s # <<>>
      BY <2>1, <1>1
    <3> HIDE DEF s
    <3>2. QED BY <3>1, <2>1, FrontIs
  <2>3. /\ \A k \in DOMAIN s : s[k] \in DOMAIN a
        /\ \A j, k \in DOMAIN s : j < k => s[j] < s[k]
    BY DEF Marks
  <2>4. p \in DOMAIN a /\ p \in Nat
    <3>1. n \in DOMAIN s
      BY <2>2
    <3>2. p \in DOMAIN a
      BY <2>3, <3>1
    <3>3. DOMAIN a \subseteq Nat
      BY <1>1
    <3>4. QED BY <3>2, <3>3
  <2>5. /\ Len(a) \in Nat /\ DOMAIN a = 1 .. Len(a) /\ DOMAIN b = 1 .. Len(a) - 1
        /\ \A k \in 1 .. Len(a) - 1 : b[k] = IF k < p THEN a[k] ELSE a[k + 1]
    <3>1. p \in 1 .. Len(a)
      BY <2>4, <1>1
    <3> HIDE DEF p
    <3>2. QED BY <3>1, <2>1, <1>1, RemoveAtIs
  <2>6. \A j \in DOMAIN a : j \in ToSet(s) \/ Sent(a[j])
    <3>1. \A j \in DOMAIN a : j < i
      BY <2>1, <2>5, <1>1
    <3>2. QED BY <3>1, <2>1, HasPassIs DEF PassSent, StreamInv
  <2> HIDE DEF s, n, p, a, b, Sent
  <2>7. \A k \in 1 .. n : k = n \/ (k \in 1 .. n - 1 /\ s[k] < p)
    <3>1. SUFFICES ASSUME NEW k \in 1 .. n, k # n PROVE k \in 1 .. n - 1 /\ s[k] < p
      OBVIOUS
    <3>2. k < n /\ n \in 1 .. n /\ k \in 1 .. n - 1
      BY <3>1, <2>2
    <3>3. QED BY <3>2, <2>2, <2>3 DEF p
  <2>8. \A j \in ToSet(s) : j = p \/ (j < p /\ j \in ToSet(dead_attached'))
    BY <2>2, <2>7 DEF ToSet, p
  <2>9. ASSUME NEW j \in DOMAIN b PROVE j \in ToSet(dead_attached') \/ Sent(b[j])
    <3>1. CASE j < p
      <4>1. j \in DOMAIN a /\ b[j] = a[j] /\ j # p
        BY <3>1, <2>4, <2>5
      <4>2. QED BY <4>1, <2>6, <2>8
    <3>2. CASE ~(j < p)
      <4>1. j + 1 \in DOMAIN a /\ b[j] = a[j + 1] /\ j + 1 # p /\ ~(j + 1 < p)
        BY <3>2, <2>4, <2>5
      <4>2. QED BY <4>1, <2>6, <2>8
    <3>3. QED BY <3>1, <3>2
  <2>10. \A j \in DOMAIN b : j < i
    BY <2>1, <2>5, <1>1
  <2>11. \A j \in DOMAIN attached_clients' :
           \/ j \in ToSet(dead_attached')
           \/ SentUpTo(stream'[attached_clients'[j]], from'[attached_clients'[j]], captured', Drained')
    BY <2>1, <2>9, DrainedSame DEF b, Sent
  <2>12. QED BY <2>1, <2>10, <2>11, HasPassIs DEF PassSent, b
<1>7. CASE Accept \/ StartReading \/ ShellReads \/ ClientTakesReply \/ EndPass \/ Cleanup
  BY <1>7, <1>3
     DEF Accept, StartReading, ShellReads, ClientTakesReply, EndPass, Cleanup, Answer
<1>8. ASSUME NEW c \in Clients,
             \/ HandleAttach(c) \/ HandleKill(c) \/ HandleOther(c) \/ HandleKeys(c)
             \/ HandleCapture(c) \/ ReadTimesOut(c) \/ ReadFails(c)
      PROVE  PassSent'
  BY <1>8, <1>3 DEF HandleAttach, HandleKill, HandleOther, HandleKeys, HandleCapture,
     ReadTimesOut, ReadFails, ReadRequest, Reading, Answer
<1>9. ASSUME NEW c \in Clients,
             \/ Connect(c) \/ SendPart(c) \/ (\E k \in Kinds : SendRest(c, k))
             \/ Receive(c) \/ HangUp(c)
      PROVE  PassSent'
  BY <1>9, <1>2, DrainedSame DEF Connect, SendPart, SendRest, Receive, HangUp
<1>10. CASE ShellWrites
  BY <1>10, <1>2, DrainedWrites DEF ShellWrites
<1>11. CASE MoveClient
  BY <1>11, <1>3 DEF MoveClient
<1>12. CASE UNCHANGED vars
  BY <1>12, <1>2, DrainedSame DEF vars
<1>13. QED
  BY <1>4, <1>5, <1>6, <1>7, <1>8, <1>9, <1>10, <1>11, <1>12 DEF Next, Loop

-----------------------------------------------------------------------------
(* Through a whole pass of run_daemon_loop_inner, whatever the clients do   *)
(* meanwhile, the positions and ids it has noted name the clients they were *)
(* noted for, and every attached client has what it should have by then.    *)
THEOREM DaemonSafe == Spec => []DaemonInv
<1>1. Init => DaemonInv
  BY InitType, InitChunks, InitLists, InitMarks, InitStreams DEF DaemonInv
<1>2. DaemonInv /\ [Next]_vars => DaemonInv'
  <2>1. SUFFICES ASSUME DaemonInv, [Next]_vars PROVE DaemonInv'
    OBVIOUS
  <2>2. TypeInv /\ ChunkInv /\ ListInv /\ Marks /\ StreamInv
    BY <2>1 DEF DaemonInv
  <2>3. TypeInv' /\ ChunkInv' /\ ListInv' /\ Marks'
    BY <2>1, <2>2, NextType, NextChunks, NextLists, NextMarks
  <2>4. StreamInv'
    BY <2>1, <2>2, <2>3, NextFresh, NextMarkedFresh, NextAllSent, NextPassSent DEF StreamInv
  <2>5. QED BY <2>3, <2>4 DEF DaemonInv
<1>3. QED BY <1>1, <1>2, PTL DEF Spec

(* A client that stays attached gets all output in order and without a hole *)
(* but for what capture_pane takes, for any number of clients and chunks    *)
(* and any size of buffers (write_all and dead_attached, daemon.rs:276).    *)
THEOREM DaemonMissesOnlyCaptured == Spec => []MissesOnlyCaptured
<1>1. DaemonInv => MissesOnlyCaptured
  BY DEF DaemonInv, StreamInv, AllSent, MissesOnlyCaptured
<1>2. QED BY <1>1, DaemonSafe, PTL

=============================================================================
