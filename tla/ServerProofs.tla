---------------------------- MODULE ServerProofs ----------------------------
(***************************************************************************)
(* What several daemons over one file system keep, for any number of       *)
(* processes, names, panes and steps.                                      *)
(*                                                                         *)
(* Reachable is not inductive: that nobody takes a daemon's socket away    *)
(* rests on knowing who else is about to.  Alone says it: two processes    *)
(* meet on a name only after they were recorded in raced.  SnapshotWhole   *)
(* rests on Alone too, since two processes that save under one name share  *)
(* the temporary file.                                                     *)
(*                                                                         *)
(* OwnTerminal and CleanMeansSaved look at one moment; what keeps them is  *)
(* said of every place the session is copied to: PaneInv of the ids in     *)
(* memory, in snapshots and in half-finished saves, CleanInv of what a     *)
(* save between its write and its rename has written.                      *)
(***************************************************************************)
EXTENDS Server, TLAPS

Rec(r) == r = [x \in DOMAIN r |-> r[x]]

(* The shape of the state: what the fields used below are.                  *)
ProcessShape(r) ==
  /\ Rec(r) /\ "pc" \in DOMAIN r
  /\ r.pc # "off" => "socket" \in DOMAIN r /\ r.socket \in Names
  /\ r.pc \in {"serving", "rename", "shutdown", "close"} =>
       /\ {"path", "session", "dirty", "attached", "closing"} \subseteq DOMAIN r
       /\ r.path = r.socket
       /\ Rec(r.session) /\ {"name", "size", "tabs", "active"} \subseteq DOMAIN r.session
       /\ r.session.name \in NamesUnder(r.path)

OfName(file, n) == file \notin {NoFile, Torn} => file.name \in NamesUnder(n)

Shape ==
  /\ Rec(srv) /\ DOMAIN srv = Servers
  /\ \A d \in Servers : ProcessShape(srv[d])
  /\ Rec(sockets) /\ DOMAIN sockets = Names
  /\ Rec(snapshot) /\ DOMAIN snapshot = Names
  /\ Rec(tmp) /\ DOMAIN tmp = Names

(* Two processes of which one listens under a name, and the other does or   *)
(* is going to remove the socket file, were recorded when they met.         *)
Alone ==
  \A d \in Servers : Listening(d) /\ Overlap(d, srv[d].socket) => srv[d].socket \in raced

(* A save that comes to the rename has a whole file to rename.              *)
TmpWhole ==
  \A d \in Servers : srv[d].pc = "rename" /\ srv[d].path \notin raced => tmp[srv[d].path] # Torn

(* No reader of a snapshot meets half a file.                               *)
SnapshotWhole == \A n \in Names \ raced : snapshot[n] # Torn

FilesOfTheirNames == \A n \in Names : OfName(snapshot[n], n) /\ OfName(tmp[n], n)

ServerInv ==
  /\ Shape /\ Alone /\ Reachable
  /\ TmpWhole /\ SnapshotWhole /\ FilesOfTheirNames

-----------------------------------------------------------------------------
(* One process changes.                                                     *)
LEMMA OneChanges ==
  ASSUME Shape, NEW d \in Servers, NEW r, ProcessShape(r), srv' = [srv EXCEPT ![d] = r]
  PROVE  /\ Rec(srv') /\ DOMAIN srv' = Servers
         /\ srv'[d] = r /\ \A e \in Servers \ {d} : srv'[e] = srv[e]
         /\ \A e \in Servers : ProcessShape(srv'[e])
<1>1. Rec(srv) /\ DOMAIN srv = Servers /\ \A e \in Servers : ProcessShape(srv[e])
  BY DEF Shape
<1>2. srv' = [e \in Servers |-> IF e = d THEN r ELSE srv[e]]
  BY <1>1 DEF Rec
<1>3. Rec(srv') /\ DOMAIN srv' = Servers
  BY <1>2 DEF Rec
<1>4. srv'[d] = r /\ \A e \in Servers \ {d} : srv'[e] = srv[e]
  BY <1>2
<1>5. QED BY <1>1, <1>3, <1>4

(* A field of a record changes. *)
LEMMA FieldChanges ==
  ASSUME NEW r, Rec(r), NEW f \in STRING, NEW v
  PROVE  /\ Rec([r EXCEPT ![f] = v]) /\ DOMAIN [r EXCEPT ![f] = v] = DOMAIN r
         /\ f \in DOMAIN r => [r EXCEPT ![f] = v][f] = v
         /\ \A g \in DOMAIN r \ {f} : [r EXCEPT ![f] = v][g] = r[g]
  BY DEF Rec

(* A file changes. *)
LEMMA FileChanges ==
  ASSUME NEW files1, Rec(files1), DOMAIN files1 = Names, NEW n \in Names, NEW v
  PROVE  /\ Rec([files1 EXCEPT ![n] = v]) /\ DOMAIN [files1 EXCEPT ![n] = v] = Names
         /\ [files1 EXCEPT ![n] = v][n] = v
         /\ \A m \in Names \ {n} : [files1 EXCEPT ![n] = v][m] = files1[m]
  BY DEF Rec

LEMMA PcChanges ==
  ASSUME NEW r, ProcessShape(r), NEW pc, r.pc # "off",
         pc \in {"serving", "rename", "shutdown", "close"} =>
           r.pc \in {"serving", "rename", "shutdown", "close"},
         pc # "off"
  PROVE  /\ ProcessShape([r EXCEPT !.pc = pc])
         /\ [r EXCEPT !.pc = pc].pc = pc
         /\ [r EXCEPT !.pc = pc].socket = r.socket
         /\ r.pc \in {"serving", "rename", "shutdown", "close"} =>
              [r EXCEPT !.pc = pc].path = r.path
  BY DEF ProcessShape, Rec

-----------------------------------------------------------------------------
(* A step of d that takes it under no other name, and neither to listen nor *)
(* to remove where it did not before, keeps Alone.                          *)
LEMMA AloneKept ==
  ASSUME Shape, Alone, NEW d \in Servers,
         \A e \in Servers \ {d} : srv'[e] = srv[e],
         raced \subseteq raced',
         Listening(d)' \/ Removing(d)' => srv'[d].socket = srv[d].socket,
         Listening(d)' => Listening(d),
         Removing(d)' => Listening(d) \/ Removing(d)
  PROVE  Alone'
  BY DEF Alone, Overlap, Listening, Removing

(* It keeps Reachable if it leaves the sockets of the listeners alone.      *)
LEMMA ReachableKept ==
  ASSUME Shape, Reachable, NEW d \in Servers,
         \A e \in Servers \ {d} : srv'[e] = srv[e],
         raced \subseteq raced',
         Listening(d)' => Listening(d) /\ srv'[d].socket = srv[d].socket,
         \A e \in Servers : Listening(e)' /\ srv[e].socket \notin raced'
                              => sockets'[srv[e].socket] = sockets[srv[e].socket]
  PROVE  Reachable'
  BY DEF Reachable, Listening

(* A step that writes no file of a session, and does not come to a rename.  *)
LEMMA FilesKept ==
  ASSUME Shape, TmpWhole, SnapshotWhole, FilesOfTheirNames, NEW d \in Servers,
         \A e \in Servers \ {d} : srv'[e] = srv[e],
         raced \subseteq raced', UNCHANGED <<snapshot, tmp>>,
         srv'[d].pc # "rename"
  PROVE  TmpWhole' /\ SnapshotWhole' /\ FilesOfTheirNames'
  BY DEF TmpWhole, SnapshotWhole, FilesOfTheirNames, OfName

-----------------------------------------------------------------------------
(* start *)

LEMMA ProbeKeeps ==
  ASSUME ServerAssumption, ServerInv, NEW d \in Servers, NEW n \in Names, Probe(d, n)
  PROVE  ServerInv'
<1> DEFINE r == Process(IF sockets[n] = NoFile THEN "bind" ELSE "remove", n)
<1>1. ProcessShape(r) /\ r.pc \in {"bind", "remove"} /\ r.socket = n
  BY DEF Process, ProcessShape, Rec
<1>2. /\ srv' = [srv EXCEPT ![d] = r] /\ UNCHANGED <<files, raced>>
      /\ sockets[n] \notin Servers /\ srv[d] = Off
  BY DEF Probe, Starts
<1> HIDE DEF r
<1>3. /\ Shape' /\ srv'[d] = r /\ \A e \in Servers \ {d} : srv'[e] = srv[e]
  BY <1>1, <1>2, OneChanges DEF ServerInv, Shape, files
<1>4. ASSUME NEW e \in Servers, Listening(e), srv[e].socket = n
      PROVE  n \in raced
  BY <1>2, <1>4 DEF ServerInv, Reachable
<1>5. Alone'
  BY <1>1, <1>2, <1>3, <1>4 DEF ServerInv, Alone, Overlap, Listening, Removing
<1>6. Reachable'
  BY <1>1, <1>2, <1>3, ReachableKept DEF ServerInv, Listening, files
<1>7. TmpWhole' /\ SnapshotWhole' /\ FilesOfTheirNames'
  BY <1>1, <1>2, <1>3, FilesKept DEF ServerInv, files
<1>8. QED BY <1>3, <1>5, <1>6, <1>7 DEF ServerInv

LEMMA RemoveStaleKeeps ==
  ASSUME ServerInv, NEW d \in Servers, RemoveStale(d)
  PROVE  ServerInv'
<1> DEFINE r == [srv[d] EXCEPT !.pc = "bind"]
<1>1. ProcessShape(srv[d]) /\ srv[d].pc = "remove" /\ srv[d].socket \in Names
  BY DEF RemoveStale, ServerInv, Shape, ProcessShape
<1>2. ProcessShape(r) /\ r.pc = "bind"
  BY <1>1, PcChanges
<1>3. /\ srv' = [srv EXCEPT ![d] = r] /\ UNCHANGED <<snapshot, tmp, raced>>
      /\ sockets' = [sockets EXCEPT ![srv[d].socket] = NoFile]
  BY DEF RemoveStale
<1> HIDE DEF r
<1>4. /\ Rec(sockets') /\ DOMAIN sockets' = Names
      /\ \A m \in Names \ {srv[d].socket} : sockets'[m] = sockets[m]
  BY <1>1, <1>3, FileChanges DEF ServerInv, Shape
<1>5. Shape' /\ srv'[d] = r /\ \A e \in Servers \ {d} : srv'[e] = srv[e]
  BY <1>2, <1>3, <1>4, OneChanges DEF ServerInv, Shape
<1>6. Alone'
  BY <1>2, <1>3, <1>5, AloneKept DEF ServerInv, Listening, Removing
<1>7. ASSUME NEW e \in Servers, Listening(e)', srv[e].socket \notin raced'
      PROVE  sockets'[srv[e].socket] = sockets[srv[e].socket]
  <2>1. e # d /\ Listening(e)
    BY <1>2, <1>5, <1>7 DEF Listening
  <2>2. srv[e].socket # srv[d].socket
    BY <2>1, <1>1, <1>3, <1>7 DEF ServerInv, Alone, Overlap, Removing
  <2>3. srv[e].socket \in Names
    BY <2>1 DEF ServerInv, Shape, ProcessShape, Listening
  <2>4. QED BY <2>2, <2>3, <1>4
<1>8. Reachable'
  BY <1>2, <1>3, <1>5, <1>7, ReachableKept DEF ServerInv, Listening
<1>9. TmpWhole' /\ SnapshotWhole' /\ FilesOfTheirNames'
  BY <1>2, <1>3, <1>5, FilesKept DEF ServerInv
<1>10. QED BY <1>5, <1>6, <1>8, <1>9 DEF ServerInv

LEMMA BindKeeps ==
  ASSUME ServerInv, NEW d \in Servers, Bind(d)
  PROVE  ServerInv'
<1> DEFINE n == srv[d].socket
<1>1. ProcessShape(srv[d]) /\ srv[d].pc = "bind" /\ n \in Names
  BY DEF Bind, ServerInv, Shape, ProcessShape
<1>2. UNCHANGED <<snapshot, tmp>>
  BY DEF Bind
<1>3. CASE sockets[n] # NoFile
  <2>1. ProcessShape(Off) /\ Off.pc = "off"
    BY DEF Off, ProcessShape, Rec
  <2>2. srv' = [srv EXCEPT ![d] = Off] /\ UNCHANGED <<sockets, raced>>
    BY <1>3 DEF Bind
  <2>3. Shape' /\ srv'[d] = Off /\ \A e \in Servers \ {d} : srv'[e] = srv[e]
    BY <1>2, <2>1, <2>2, OneChanges DEF ServerInv, Shape
  <2>4. Alone'
    BY <2>1, <2>2, <2>3, AloneKept DEF ServerInv, Listening, Removing
  <2>5. Reachable'
    BY <2>1, <2>2, <2>3, ReachableKept DEF ServerInv, Listening
  <2>6. TmpWhole' /\ SnapshotWhole' /\ FilesOfTheirNames'
    BY <1>2, <2>1, <2>2, <2>3, FilesKept DEF ServerInv
  <2>7. QED BY <2>3, <2>4, <2>5, <2>6 DEF ServerInv
<1>4. CASE sockets[n] = NoFile
  <2> DEFINE r == [srv[d] EXCEPT !.pc = "load"]
  <2>1. ProcessShape(r) /\ r.pc = "load" /\ r.socket = n
    BY <1>1, PcChanges
  <2>2. /\ srv' = [srv EXCEPT ![d] = r] /\ sockets' = [sockets EXCEPT ![n] = d]
        /\ raced' = IF Overlap(d, n) THEN raced \cup {n} ELSE raced
    BY <1>4 DEF Bind
  <2> HIDE DEF r
  <2>3. /\ Rec(sockets') /\ DOMAIN sockets' = Names
        /\ sockets'[n] = d /\ \A m \in Names \ {n} : sockets'[m] = sockets[m]
    BY <1>1, <2>2, FileChanges DEF ServerInv, Shape
  <2>4. Shape' /\ srv'[d] = r /\ \A e \in Servers \ {d} : srv'[e] = srv[e]
    BY <1>2, <2>1, <2>2, <2>3, OneChanges DEF ServerInv, Shape
  <2>5. raced \subseteq raced' /\ (Overlap(d, n) => n \in raced')
    BY <2>2
  <2>6. Alone'
    <3>1. SUFFICES ASSUME NEW e \in Servers, NEW f \in Servers \ {e}, Listening(e)',
                          Listening(f)' \/ Removing(f)', srv'[f].socket = srv'[e].socket
                   PROVE  srv'[e].socket \in raced'
      BY DEF Alone, Overlap, Listening, Removing
    <3>2. CASE e = d \/ f = d
      BY <2>1, <2>4, <2>5, <3>1, <3>2 DEF Overlap, Listening, Removing
    <3>3. CASE e # d /\ f # d
      BY <2>4, <2>5, <3>1, <3>3 DEF ServerInv, Alone, Overlap, Listening, Removing
    <3>4. QED BY <3>2, <3>3
  <2>7. Reachable'
    <3>1. SUFFICES ASSUME NEW e \in Servers \ {d}, Listening(e)', srv'[e].socket \notin raced'
                   PROVE  sockets'[srv'[e].socket] = e
      BY <2>1, <2>3, <2>4 DEF Reachable
    <3>2. Listening(e) /\ srv'[e].socket = srv[e].socket /\ srv[e].socket \in Names
      BY <2>4, <3>1 DEF Listening, ServerInv, Shape, ProcessShape
    <3>3. srv[e].socket # n
      BY <2>5, <3>1, <3>2 DEF Overlap
    <3>4. QED BY <2>3, <2>5, <3>1, <3>2, <3>3 DEF ServerInv, Reachable
  <2>8. TmpWhole' /\ SnapshotWhole' /\ FilesOfTheirNames'
    BY <1>2, <2>1, <2>4, <2>5, FilesKept DEF ServerInv
  <2>9. QED BY <2>4, <2>6, <2>7, <2>8 DEF ServerInv
<1>5. QED BY <1>3, <1>4

(* A step of a listener that stays one, under its name, and not to rename.  *)
LEMMA ListenerKeeps ==
  ASSUME ServerInv, NEW d \in Servers, NEW r, ProcessShape(r),
         srv' = [srv EXCEPT ![d] = r], UNCHANGED <<files, raced>>,
         Listening(d), r.socket = srv[d].socket,
         r.pc \in {"serving", "shutdown", "close"}
  PROVE  ServerInv'
<1>1. Shape' /\ srv'[d] = r /\ \A e \in Servers \ {d} : srv'[e] = srv[e]
  BY OneChanges DEF ServerInv, Shape, files
<1>2. Alone'
  BY <1>1, AloneKept DEF ServerInv, Listening, Removing
<1>3. Reachable'
  BY <1>1, ReachableKept DEF ServerInv, Listening, files
<1>4. TmpWhole' /\ SnapshotWhole' /\ FilesOfTheirNames'
  BY <1>1, FilesKept DEF ServerInv, files
<1>5. QED BY <1>1, <1>2, <1>3, <1>4 DEF ServerInv

LEMMA LoadKeeps ==
  ASSUME ServerInv, NEW d \in Servers, Load(d)
  PROVE  ServerInv'
<1> DEFINE n == srv[d].socket
           s == OnDisk(n)
           r == [pc |-> "serving", socket |-> n, path |-> n, session |-> s,
                 dirty |-> FALSE, attached |-> FALSE, closing |-> FALSE, terminals |-> <<>>]
<1>1. srv[d].pc = "load" /\ n \in Names
  BY DEF Load, ServerInv, Shape, ProcessShape
<1>2. Rec(s) /\ {"name", "size", "tabs", "active"} \subseteq DOMAIN s /\ s.name \in NamesUnder(n)
  <2>1. CASE snapshot[n] \in {NoFile, Torn}
    BY <2>1 DEF OnDisk, NewSession, Rec, NamesUnder
  <2>2. CASE snapshot[n] \notin {NoFile, Torn}
    <3>1. snapshot[n].name \in NamesUnder(n)
      BY <1>1, <2>2 DEF ServerInv, FilesOfTheirNames, OfName
    <3>2. QED BY <2>2, <3>1 DEF OnDisk, session_from_snapshot, Rec
  <2>3. QED BY <2>1, <2>2
<1>3. srv' = [srv EXCEPT ![d] = r] /\ UNCHANGED <<files, raced>>
  BY DEF Load
<1> HIDE DEF s
<1>4. ProcessShape(r) /\ r.pc = "serving" /\ r.socket = n
  BY <1>1, <1>2 DEF ProcessShape, Rec
<1> HIDE DEF r
<1>5. QED BY <1>1, <1>3, <1>4, ListenerKeeps DEF Listening

-----------------------------------------------------------------------------
(* Messages: s is the process as it was but for what no property here names. *)
SameService(r, s) ==
  /\ ProcessShape(s) /\ s.pc = "serving"
  /\ s.socket = r.socket

LEMMA DirtyKeeps ==
  ASSUME NEW r, ProcessShape(r), r.pc = "serving"
  PROVE  SameService(r, Dirty(r))
  BY DEF Dirty, SameService, ProcessShape, Rec

LEMMA WithTabKeeps ==
  ASSUME NEW r, ProcessShape(r), r.pc = "serving", NEW t
  PROVE  SameService(r, WithTab(r, t))
<1> DEFINE s == [r.session EXCEPT !.tabs = [@ EXCEPT ![r.session.active] = t]]
<1>1. Rec(r.session) /\ {"name", "size", "tabs", "active"} \subseteq DOMAIN r.session
  BY DEF ProcessShape
<1>2. /\ Rec(s) /\ {"name", "size", "tabs", "active"} \subseteq DOMAIN s
      /\ s.name = r.session.name
  BY <1>1 DEF Rec
<1>3. WithTab(r, t) = [r EXCEPT !.session = s]
  BY DEF WithTab
<1> HIDE DEF s
<1>4. QED BY <1>2, <1>3 DEF SameService, ProcessShape, Rec

LEMMA SizedKeeps ==
  ASSUME NEW r, ProcessShape(r), r.pc = "serving", NEW size
  PROVE  /\ SameService(r, Sized(r, size))
         /\ SameService(r, [Sized(r, size) EXCEPT !.attached = TRUE])
<1> DEFINE s == [r.session EXCEPT !.size = size]
           q == [r EXCEPT !.session = s]
<1>1. Rec(r.session) /\ {"name", "size", "tabs", "active"} \subseteq DOMAIN r.session
  BY DEF ProcessShape
<1>2. /\ Rec(s) /\ {"name", "size", "tabs", "active"} \subseteq DOMAIN s
      /\ s.name = r.session.name
  BY <1>1 DEF Rec
<1>3. Sized(r, size) = q
  BY DEF Sized
<1> HIDE DEF s
<1>4. SameService(r, q)
  BY <1>2 DEF SameService, ProcessShape, Rec
<1> HIDE DEF q
<1>5. SameService(r, [q EXCEPT !.attached = TRUE])
  BY <1>4 DEF SameService, ProcessShape, Rec
<1>6. QED BY <1>3, <1>4, <1>5

LEMMA WithTerminalKeeps ==
  ASSUME NEW r, ProcessShape(r), r.pc = "serving", NEW id, NEW born
  PROVE  SameService(r, WithTerminal(r, id, born))
  BY DEF WithTerminal, SameService, ProcessShape, Rec

LEMMA LeaveKeeps ==
  ASSUME ServerInv, NEW d \in Servers, NEW s, Leave(d, s), SameService(srv[d], s)
  PROVE  ServerInv'
  BY ListenerKeeps DEF Leave, SameService, Serving, Listening

LEMMA MessageKeeps ==
  ASSUME ServerInv, NEW d \in Servers, Message(d)
  PROVE  ServerInv'
<1> DEFINE r == srv[d]
<1>1. ProcessShape(r) /\ r.pc = "serving"
  <2>1. Serving(d)
    BY DEF Message, KillPane, ResizePane, Resize, Attach, spawn_terminal_for_pane, SetPaneTitle,
           SpawnPane, SplitPane, CanSplit
  <2>2. QED BY <2>1 DEF Serving, ServerInv, Shape
<1>2. \A s : SameService(r, s) /\ Leave(d, s) => ServerInv'
  BY LeaveKeeps
<1>3. \A s : Answer(d, s) => Leave(d, s)
  BY DEF Answer
<1>4. SameService(r, Dirty(r))
  BY <1>1, DirtyKeeps
<1>5. \A t : SameService(r, WithTab(r, t))
  BY <1>1, WithTabKeeps
<1>6. \A t : SameService(r, Dirty(WithTab(r, t)))
  BY <1>5, DirtyKeeps DEF SameService
<1>7. \A id, born : SameService(r, WithTerminal(r, id, born))
  BY <1>1, WithTerminalKeeps
<1>8. \A t, id, born : SameService(r, WithTerminal(Dirty(WithTab(r, t)), id, born))
  BY <1>6, WithTerminalKeeps DEF SameService
<1>17. \A size : /\ SameService(r, Dirty(Sized(r, size)))
                 /\ SameService(r, [Sized(r, size) EXCEPT !.attached = TRUE])
  BY <1>1, SizedKeeps, DirtyKeeps DEF SameService
<1> HIDE DEF r
<1>9. ASSUME NEW size, Resize(d, size) \/ Attach(d, size) PROVE ServerInv'
  <2>1. \/ Answer(d, Dirty(Sized(r, size)))
        \/ Answer(d, [Sized(r, size) EXCEPT !.attached = TRUE])
    BY <1>9 DEF Resize, Attach, r
  <2>2. QED BY <1>2, <1>3, <1>17, <2>1
<1>10. CASE SpawnPane(d)
  <2>1. Answer(d, Dirty(WithTab(r, Split(Tab(d)))))
    BY <1>10 DEF SpawnPane, r
  <2>2. QED BY <1>2, <1>3, <1>6, <2>1
<1>11. CASE SplitPane(d)
  <2>1. \/ Answer(d, WithTerminal(Dirty(WithTab(r, Split(Tab(d)))), AllocateId(Tab(d)), Tab(d).made))
        \/ Answer(d, Dirty(WithTab(r, Split(Tab(d)))))
    BY <1>11 DEF SplitPane, r
  <2>2. QED BY <1>2, <1>3, <1>6, <1>8, <2>1
<1>12. ASSUME NEW id, KillPane(d, id) PROVE ServerInv'
  <2>1. PICK t : Leave(d, Dirty(WithTab(r, t)))
    BY <1>12 DEF KillPane, r
  <2>2. QED BY <1>2, <1>6, <2>1
<1>13. ASSUME NEW id, ResizePane(d, id) PROVE ServerInv'
  BY <1>2, <1>3, <1>4, <1>13 DEF ResizePane, r
<1>14. ASSUME NEW id, spawn_terminal_for_pane(d, id) PROVE ServerInv'
  <2>1. PICK born : Answer(d, WithTerminal(r, id, born))
    BY <1>14 DEF spawn_terminal_for_pane, r
  <2>2. QED BY <1>2, <1>3, <1>7, <2>1
<1>15. ASSUME NEW id, NEW title, SetPaneTitle(d, id, title) PROVE ServerInv'
  <2>1. PICK t : Answer(d, Dirty(WithTab(r, t)))
    BY <1>15 DEF SetPaneTitle, r
  <2>2. QED BY <1>2, <1>3, <1>6, <2>1
<1>16. QED BY <1>9, <1>10, <1>11, <1>12, <1>13, <1>14, <1>15 DEF Message

-----------------------------------------------------------------------------
(* Saving, renaming and ending *)

HasSession(r) == r.pc \in {"serving", "rename", "shutdown", "close"}

(* What a save writes is a snapshot of its name, and whole.                 *)
LEMMA WrittenIsWhole ==
  ASSUME NEW r, ProcessShape(r), HasSession(r)
  PROVE  /\ snapshot_from_session(r.session) # Torn
         /\ snapshot_from_session(r.session).name \in NamesUnder(r.path)
  BY DEF HasSession, ProcessShape, snapshot_from_session, Torn

LEMMA SaveKeeps ==
  ASSUME ServerInv, NEW d \in Servers, Save(d), srv[d].pc \in {"serving", "shutdown"}
  PROVE  ServerInv'
<1> DEFINE n == srv[d].path
<1>1. ProcessShape(srv[d]) /\ n \in Names /\ n = srv[d].socket
  BY DEF ServerInv, Shape, ProcessShape
<1>2. PICK pc \in {"rename", "serving", "close"},
           file \in {snapshot_from_session(srv[d].session), Torn} :
        /\ srv' = [srv EXCEPT ![d] = [srv[d] EXCEPT !.pc = pc]]
        /\ tmp' = [tmp EXCEPT ![n] = file]
        /\ OfName(file, n) /\ (pc = "rename" => file # Torn)
  <2>1. /\ snapshot_from_session(srv[d].session) # Torn
        /\ snapshot_from_session(srv[d].session).name \in NamesUnder(n)
    BY <1>1, WrittenIsWhole DEF HasSession
  <2>2. CASE /\ tmp' = [tmp EXCEPT ![n] = snapshot_from_session(srv[d].session)]
             /\ srv' = [srv EXCEPT ![d].pc = "rename"]
    BY <2>1, <2>2 DEF OfName
  <2>3. CASE /\ tmp' = [tmp EXCEPT ![n] = Torn]
             /\ srv' = [srv EXCEPT ![d].pc = Return(d)]
    BY <2>3 DEF OfName, Return
  <2>4. QED BY <2>2, <2>3 DEF Save, WriteTmp
<1> DEFINE r == [srv[d] EXCEPT !.pc = pc]
<1>3. ProcessShape(r) /\ r.pc = pc /\ r.socket = srv[d].socket /\ r.path = n
  BY <1>1, PcChanges
<1>4. UNCHANGED <<sockets, snapshot, raced>>
  BY DEF Save, WriteTmp
<1>5. /\ Rec(tmp') /\ DOMAIN tmp' = Names
      /\ tmp'[n] = file /\ \A m \in Names \ {n} : tmp'[m] = tmp[m]
  <2>1. Rec(tmp) /\ DOMAIN tmp = Names
    BY DEF ServerInv, Shape
  <2>2. n \in Names /\ tmp' = [tmp EXCEPT ![n] = file]
    BY <1>1, <1>2
  <2> HIDE DEF n
  <2>3. QED BY <2>1, <2>2, FileChanges
<1> HIDE DEF r
<1>6. Shape' /\ srv'[d] = r /\ \A e \in Servers \ {d} : srv'[e] = srv[e]
  BY <1>2, <1>3, <1>4, <1>5, OneChanges DEF ServerInv, Shape, r
<1>7. Alone'
  BY <1>3, <1>4, <1>6, AloneKept DEF ServerInv, Listening, Removing
<1>8. Reachable'
  BY <1>3, <1>4, <1>6, ReachableKept DEF ServerInv, Listening
<1>9. TmpWhole'
  <2>1. SUFFICES ASSUME NEW e \in Servers, srv'[e].pc = "rename", srv'[e].path \notin raced'
                 PROVE  tmp'[srv'[e].path] # Torn
    BY DEF TmpWhole
  <2>2. CASE e = d
    BY <1>2, <1>3, <1>5, <1>6, <2>1, <2>2
  <2>3. CASE e # d
    <3>1. srv'[e] = srv[e] /\ srv[e].path = srv[e].socket /\ srv[e].path \in Names
      BY <1>6, <2>1, <2>3 DEF ServerInv, Shape, ProcessShape
    <3>2. srv[e].path # n
      BY <1>1, <1>4, <2>1, <2>3, <3>1 DEF ServerInv, Alone, Overlap, Listening
    <3>3. QED BY <1>4, <1>5, <2>1, <3>1, <3>2 DEF ServerInv, TmpWhole
  <2>4. QED BY <2>2, <2>3
<1>10. SnapshotWhole' /\ FilesOfTheirNames'
  BY <1>1, <1>2, <1>4, <1>5 DEF ServerInv, SnapshotWhole, FilesOfTheirNames, OfName
<1>11. QED BY <1>6, <1>7, <1>8, <1>9, <1>10 DEF ServerInv

LEMMA RenameTmpKeeps ==
  ASSUME ServerInv, ServerAssumption, NEW d \in Servers, RenameTmp(d)
  PROVE  ServerInv'
<1> DEFINE n == srv[d].path
           r == [srv[d] EXCEPT !.pc = Return(d)]
           q == [[r EXCEPT !.dirty = FALSE] EXCEPT !.attached = FALSE]
<1>1. /\ ProcessShape(srv[d]) /\ n \in Names /\ n = srv[d].socket
      /\ srv[d].pc = "rename"
  BY DEF RenameTmp, ServerInv, Shape, ProcessShape
<1>2. Return(d) \in {"serving", "close"}
  BY DEF Return
<1>3. /\ ProcessShape(r) /\ r.pc = Return(d) /\ r.socket = srv[d].socket
  BY <1>1, <1>2, PcChanges
<1>4. ProcessShape(q) /\ q.pc = r.pc /\ q.socket = r.socket
  <2> HIDE DEF r
  <2>1. QED BY <1>2, <1>3 DEF ProcessShape, Rec
<1>5. UNCHANGED <<sockets, raced>>
  BY DEF RenameTmp
<1>6. CASE srv' = [srv EXCEPT ![d] = r] /\ UNCHANGED <<snapshot, tmp>>
  <2> HIDE DEF r
  <2>1. QED BY <1>1, <1>2, <1>3, <1>5, <1>6, ListenerKeeps DEF Listening, files
<1>7. CASE /\ snapshot' = [snapshot EXCEPT ![n] = tmp[n]]
           /\ tmp' = [tmp EXCEPT ![n] = NoFile]
           /\ srv' = [srv EXCEPT ![d] = q]
  <2> HIDE DEF r, q
  <2>1. /\ Rec(tmp') /\ DOMAIN tmp' = Names
        /\ tmp'[n] = NoFile /\ \A m \in Names \ {n} : tmp'[m] = tmp[m]
    <3> HIDE DEF n
    <3>1. Rec(tmp) /\ DOMAIN tmp = Names
      BY DEF ServerInv, Shape
    <3>2. n \in Names /\ tmp' = [tmp EXCEPT ![n] = NoFile]
      BY <1>1, <1>7
    <3>3. QED BY <3>1, <3>2, FileChanges
  <2>2. /\ Rec(snapshot') /\ DOMAIN snapshot' = Names
        /\ snapshot'[n] = tmp[n] /\ \A m \in Names \ {n} : snapshot'[m] = snapshot[m]
    <3> HIDE DEF n
    <3>1. Rec(snapshot) /\ DOMAIN snapshot = Names
      BY DEF ServerInv, Shape
    <3>2. n \in Names /\ snapshot' = [snapshot EXCEPT ![n] = tmp[n]]
      BY <1>1, <1>7
    <3>3. QED BY <3>1, <3>2, FileChanges
  <2>3. Shape' /\ srv'[d] = q /\ \A e \in Servers \ {d} : srv'[e] = srv[e]
    BY <1>4, <1>5, <1>7, <2>1, <2>2, OneChanges DEF ServerInv, Shape
  <2>4. Alone'
    BY <1>1, <1>2, <1>3, <1>4, <1>5, <2>3, AloneKept DEF ServerInv, Listening, Removing
  <2>5. Reachable'
    BY <1>1, <1>2, <1>3, <1>4, <1>5, <2>3, ReachableKept DEF ServerInv, Listening
  <2>6. TmpWhole'
    <3>1. SUFFICES ASSUME NEW e \in Servers, srv'[e].pc = "rename", srv'[e].path \notin raced'
                   PROVE  tmp'[srv'[e].path] # Torn
      BY DEF TmpWhole
    <3>2. e # d
      BY <1>2, <1>3, <1>4, <2>3, <3>1
    <3>3. srv'[e] = srv[e] /\ srv[e].path \in Names
      BY <2>3, <3>1, <3>2 DEF ServerInv, Shape, ProcessShape
    <3>4. QED BY <1>5, <2>1, <3>1, <3>3 DEF ServerInv, TmpWhole, ServerAssumption
  <2>7. SnapshotWhole'
    BY <1>1, <1>5, <2>2 DEF ServerInv, SnapshotWhole, TmpWhole
  <2>8. FilesOfTheirNames'
    BY <1>1, <2>1, <2>2 DEF ServerInv, FilesOfTheirNames, OfName
  <2>9. QED BY <2>3, <2>4, <2>5, <2>6, <2>7, <2>8 DEF ServerInv
<1>8. QED BY <1>6, <1>7 DEF RenameTmp

LEMMA RenameSessionKeeps ==
  ASSUME ServerInv, NEW d \in Servers, NEW n \in Names, rename_session(d, n)
  PROVE  ServerInv'
<1> DEFINE old == srv[d].socket
           r == Renamed(srv[d], n)
<1>1. /\ ProcessShape(srv[d]) /\ srv[d].pc = "serving" /\ old \in Names /\ n # old
  BY DEF rename_session, Serving, ServerInv, Shape, ProcessShape
<1>2. ProcessShape(r) /\ r.pc = "serving" /\ r.socket = n
  <2> DEFINE s == [srv[d].session EXCEPT !.name = n]
  <2>1. Rec(srv[d].session) /\ {"name", "size", "tabs", "active"} \subseteq DOMAIN srv[d].session
    BY <1>1 DEF ProcessShape
  <2>2. Rec(s) /\ {"name", "size", "tabs", "active"} \subseteq DOMAIN s /\ s.name \in NamesUnder(n)
    BY <2>1 DEF Rec, NamesUnder
  <2>3. r = [[[[srv[d] EXCEPT !.session = s] EXCEPT !.socket = n] EXCEPT !.path = n]
               EXCEPT !.dirty = TRUE]
    BY DEF Renamed, Dirty
  <2> HIDE DEF s, r
  <2>4. QED BY <1>1, <2>2, <2>3 DEF ProcessShape, Rec
<1>3. /\ srv' = [srv EXCEPT ![d] = r] /\ UNCHANGED <<snapshot, tmp>>
      /\ sockets' = [sockets EXCEPT ![n] = sockets[old], ![old] = NoFile]
      /\ raced' = IF Overlap(d, n) \/ old \in raced THEN raced \cup {n} ELSE raced
  BY DEF rename_session
<1> HIDE DEF r
<1>4. /\ Rec(sockets') /\ DOMAIN sockets' = Names /\ sockets'[n] = sockets[old]
      /\ \A m \in Names \ {n, old} : sockets'[m] = sockets[m]
  <2> HIDE DEF old
  <2>1. QED BY <1>1, <1>3 DEF ServerInv, Shape, Rec
<1>5. Shape' /\ srv'[d] = r /\ \A e \in Servers \ {d} : srv'[e] = srv[e]
  BY <1>2, <1>3, <1>4, OneChanges DEF ServerInv, Shape
<1>6. raced \subseteq raced' /\ (Overlap(d, n) \/ old \in raced => n \in raced')
  BY <1>3
<1>7. Alone'
  <2>1. SUFFICES ASSUME NEW e \in Servers, NEW f \in Servers \ {e}, Listening(e)',
                        Listening(f)' \/ Removing(f)', srv'[f].socket = srv'[e].socket
                 PROVE  srv'[e].socket \in raced'
    BY DEF Alone, Overlap, Listening, Removing
  <2>2. CASE e = d \/ f = d
    BY <1>2, <1>5, <1>6, <2>1, <2>2 DEF Overlap, Listening, Removing
  <2>3. CASE e # d /\ f # d
    BY <1>5, <1>6, <2>1, <2>3 DEF ServerInv, Alone, Overlap, Listening, Removing
  <2>4. QED BY <2>2, <2>3
<1>8. Reachable'
  <2>1. SUFFICES ASSUME NEW e \in Servers, Listening(e)', srv'[e].socket \notin raced'
                 PROVE  sockets'[srv'[e].socket] = e
    BY DEF Reachable
  <2>2. CASE e = d
    <3>1. old \notin raced
      BY <1>2, <1>5, <1>6, <2>1, <2>2
    <3>2. sockets[old] = d
      BY <1>1, <3>1 DEF ServerInv, Reachable, Listening
    <3>3. QED BY <1>2, <1>4, <1>5, <2>2, <3>2
  <2>3. CASE e # d
    <3>1. srv'[e] = srv[e] /\ Listening(e) /\ srv[e].socket \in Names
      BY <1>5, <2>1, <2>3 DEF Listening, ServerInv, Shape, ProcessShape
    <3>2. srv[e].socket # n
      BY <1>6, <2>1, <2>3, <3>1 DEF Overlap
    <3>3. srv[e].socket # old
      BY <1>1, <1>6, <2>1, <2>3, <3>1 DEF ServerInv, Alone, Overlap, Listening
    <3>4. QED BY <1>4, <1>6, <2>1, <3>1, <3>2, <3>3 DEF ServerInv, Reachable
  <2>4. QED BY <2>2, <2>3
<1>9. TmpWhole' /\ SnapshotWhole' /\ FilesOfTheirNames'
  BY <1>2, <1>3, <1>5, <1>6, FilesKept DEF ServerInv
<1>10. QED BY <1>5, <1>7, <1>8, <1>9 DEF ServerInv

LEMMA ShutdownKeeps ==
  ASSUME ServerInv, NEW d \in Servers, Shutdown(d)
  PROVE  ServerInv'
<1> DEFINE r == [[srv[d] EXCEPT !.pc = "shutdown"] EXCEPT !.closing = TRUE]
<1>1. ProcessShape(srv[d]) /\ srv[d].pc = "serving"
  BY DEF Shutdown, Serving, ServerInv, Shape
<1>2. ProcessShape(r) /\ r.pc = "shutdown" /\ r.socket = srv[d].socket
  BY <1>1 DEF ProcessShape, Rec
<1>3. srv' = [srv EXCEPT ![d] = r] /\ UNCHANGED <<files, raced>>
  BY DEF Shutdown, ServerInv, Shape, Rec
<1> HIDE DEF r
<1>4. QED BY <1>1, <1>2, <1>3, ListenerKeeps DEF Listening

(* The end of a listener leaves the other sockets alone.                    *)
LEMMA ClosedKeeps ==
  ASSUME Shape, Reachable, NEW d \in Servers
  PROVE  /\ Rec(Closed(d)) /\ DOMAIN Closed(d) = Names
         /\ \A e \in Servers \ {d} :
              Listening(e) /\ srv[e].socket \notin raced
                => Closed(d)[srv[e].socket] = sockets[srv[e].socket]
<1>1. Rec(Closed(d)) /\ DOMAIN Closed(d) = Names
  BY DEF Closed, Rec
<1>2. ASSUME NEW e \in Servers \ {d}, Listening(e), srv[e].socket \notin raced
      PROVE  Closed(d)[srv[e].socket] = sockets[srv[e].socket]
  <2>1. srv[e].socket \in Names /\ sockets[srv[e].socket] = e
    BY <1>2 DEF Shape, ProcessShape, Listening, Reachable
  <2>2. QED BY <2>1 DEF Closed
<1>3. QED BY <1>1, <1>2

(* A process stops listening, or ends, and its sockets turn stale.          *)
LEMMA EndKeeps ==
  ASSUME ServerInv, NEW d \in Servers, NEW r, ProcessShape(r),
         srv' = [srv EXCEPT ![d] = r], sockets' = Closed(d),
         UNCHANGED <<snapshot, tmp, raced>>,
         \/ r.pc = "off"
         \/ r.pc = "unlink" /\ Listening(d) /\ r.socket = srv[d].socket
  PROVE  ServerInv'
<1>1. Shape' /\ srv'[d] = r /\ \A e \in Servers \ {d} : srv'[e] = srv[e]
  BY OneChanges, ClosedKeeps DEF ServerInv, Shape
<1>2. Alone'
  BY <1>1, AloneKept DEF ServerInv, Listening, Removing
<1>3. ~Listening(d)'
  BY <1>1 DEF Listening
<1>4. ASSUME NEW e \in Servers, Listening(e)', srv[e].socket \notin raced'
      PROVE  sockets'[srv[e].socket] = sockets[srv[e].socket]
  <2>1. e # d /\ Listening(e)
    BY <1>1, <1>3, <1>4 DEF Listening
  <2>2. QED BY <1>4, <2>1, ClosedKeeps DEF ServerInv
<1>5. Reachable'
  BY <1>1, <1>3, <1>4, ReachableKept DEF ServerInv
<1>6. TmpWhole' /\ SnapshotWhole' /\ FilesOfTheirNames'
  BY <1>1, FilesKept DEF ServerInv
<1>7. QED BY <1>1, <1>2, <1>5, <1>6 DEF ServerInv

LEMMA OffShape == ProcessShape(Off) /\ Off.pc = "off"
  BY DEF Off, ProcessShape, Rec

LEMMA DropListenerKeeps ==
  ASSUME ServerInv, NEW d \in Servers, DropListener(d)
  PROVE  ServerInv'
<1> DEFINE r == Process("unlink", srv[d].socket)
<1>1. srv[d].pc = "close" /\ srv[d].socket \in Names
  BY DEF DropListener, ServerInv, Shape, ProcessShape
<1>2. ProcessShape(r) /\ r.pc = "unlink" /\ r.socket = srv[d].socket
  BY <1>1 DEF Process, ProcessShape, Rec
<1>3. /\ srv' = [srv EXCEPT ![d] = r] /\ sockets' = Closed(d)
      /\ UNCHANGED <<snapshot, tmp, raced>>
  BY DEF DropListener
<1> HIDE DEF r
<1>4. QED BY <1>1, <1>2, <1>3, EndKeeps DEF Listening

LEMMA CrashKeeps ==
  ASSUME ServerInv, NEW d \in Servers, Crash(d)
  PROVE  ServerInv'
  BY OffShape, EndKeeps DEF Crash

LEMMA UnlinkKeeps ==
  ASSUME ServerInv, NEW d \in Servers, Unlink(d)
  PROVE  ServerInv'
<1>1. srv[d].pc = "unlink" /\ srv[d].socket \in Names
  BY DEF Unlink, ServerInv, Shape, ProcessShape
<1>2. /\ srv' = [srv EXCEPT ![d] = Off] /\ UNCHANGED <<snapshot, tmp, raced>>
      /\ sockets' = [sockets EXCEPT ![srv[d].socket] = NoFile]
  BY DEF Unlink
<1>3. /\ Rec(sockets') /\ DOMAIN sockets' = Names
      /\ \A m \in Names \ {srv[d].socket} : sockets'[m] = sockets[m]
  BY <1>1, <1>2, FileChanges DEF ServerInv, Shape
<1>4. Shape' /\ srv'[d] = Off /\ \A e \in Servers \ {d} : srv'[e] = srv[e]
  BY <1>2, <1>3, OffShape, OneChanges DEF ServerInv, Shape
<1>5. Alone'
  BY <1>2, <1>4, OffShape, AloneKept DEF ServerInv, Listening, Removing
<1>6. ASSUME NEW e \in Servers, Listening(e)', srv[e].socket \notin raced'
      PROVE  sockets'[srv[e].socket] = sockets[srv[e].socket]
  <2>1. e # d /\ Listening(e)
    BY <1>4, <1>6, OffShape DEF Listening
  <2>2. srv[e].socket # srv[d].socket
    BY <2>1, <1>1, <1>2, <1>6 DEF ServerInv, Alone, Overlap, Removing
  <2>3. srv[e].socket \in Names
    BY <2>1 DEF ServerInv, Shape, ProcessShape, Listening
  <2>4. QED BY <2>2, <2>3, <1>3
<1>7. Reachable'
  BY <1>2, <1>4, <1>6, OffShape, ReachableKept DEF ServerInv, Listening
<1>8. TmpWhole' /\ SnapshotWhole' /\ FilesOfTheirNames'
  BY <1>2, <1>4, OffShape, FilesKept DEF ServerInv
<1>9. QED BY <1>4, <1>5, <1>7, <1>8 DEF ServerInv

-----------------------------------------------------------------------------
LEMMA InitSafe == ASSUME ServerAssumption, Init PROVE ServerInv
<1>1. \A d \in Servers : srv[d] = Off
  BY DEF Init
<1>2. /\ Rec(srv) /\ DOMAIN srv = Servers
      /\ Rec(sockets) /\ DOMAIN sockets = Names /\ Rec(tmp) /\ DOMAIN tmp = Names
      /\ Rec(snapshot) /\ DOMAIN snapshot = Names
  BY DEF Init, Rec
<1>3. Shape
  BY <1>1, <1>2, OffShape DEF Shape
<1>4. Alone /\ Reachable /\ TmpWhole
  BY <1>1, OffShape DEF Alone, Reachable, TmpWhole, Listening
<1>5. SnapshotWhole /\ FilesOfTheirNames
  <2>1. \A n \in Names : tmp[n] = NoFile /\ snapshot[n] = Saved[n]
    BY DEF Init
  <2>2. QED BY <2>1 DEF ServerAssumption, SnapshotWhole, FilesOfTheirNames, OfName, NamesUnder
<1>6. QED BY <1>3, <1>4, <1>5 DEF ServerInv

LEMMA NextSafe == ASSUME ServerAssumption, ServerInv, [Next]_vars PROVE ServerInv'
<1>1. CASE UNCHANGED vars
  BY <1>1 DEF vars, files, ServerInv, Shape, Alone, Overlap, Listening, Removing, Reachable,
              TmpWhole, SnapshotWhole, FilesOfTheirNames
<1>2. ASSUME NEW d \in Servers, NEW n \in Names, Probe(d, n) \/ rename_session(d, n)
      PROVE  ServerInv'
  BY <1>2, ProbeKeeps, RenameSessionKeeps
<1>3. ASSUME NEW d \in Servers, RemoveStale(d) \/ Bind(d) \/ Load(d)
      PROVE  ServerInv'
  BY <1>3, RemoveStaleKeeps, BindKeeps, LoadKeeps
<1>4. ASSUME NEW d \in Servers, save_now(d) \/ maybe_auto_save(d) \/ SaveLast(d)
      PROVE  ServerInv'
  BY <1>4, SaveKeeps DEF save_now, maybe_auto_save, SaveLast, Serving
<1>5. ASSUME NEW d \in Servers, RenameTmp(d) \/ Shutdown(d) \/ DropListener(d)
                                  \/ Unlink(d) \/ Crash(d)
      PROVE  ServerInv'
  BY <1>5, RenameTmpKeeps, ShutdownKeeps, DropListenerKeeps, UnlinkKeeps, CrashKeeps
<1>6. ASSUME NEW d \in Servers, Message(d) PROVE ServerInv'
  BY <1>6, MessageKeeps
<1>7. QED BY <1>1, <1>2, <1>3, <1>4, <1>5, <1>6 DEF Next

(* Starting, answering, saving, renaming, ending and crashing in any order  *)
(* keep ServerInv (server.rs).                                              *)
THEOREM ServerSafe == Spec => []ServerInv
  BY ServerAssumption, InitSafe, NextSafe, PTL DEF Spec

(* A daemon that runs can be reached at its socket, unless processes met on *)
(* its name: start refuses a name in use (server.rs:85) and only the owner  *)
(* removes a socket.                                                        *)
THEOREM ServerReachable == Spec => []Reachable
  BY ServerSafe, PTL DEF ServerInv

(* A save that is cut short anywhere leaves the old snapshot whole          *)
(* (save_session, persistence.rs:166), whatever others save under other     *)
(* names, and through any number of renames (rename_session, server.rs:528) *)
(* a session is kept under its own name, or under the one its snapshot was  *)
(* found under, whatever that was called.                                   *)
THEOREM ServerSnapshotSound == Spec => []SnapshotSound
<1>1. ServerInv => SnapshotSound
  BY DEF ServerInv, SnapshotWhole, FilesOfTheirNames, OfName, SnapshotSound
<1>2. QED BY <1>1, ServerSafe, PTL
-----------------------------------------------------------------------------
(* A pane and the terminal it finds.  Ids of panes and of terminals, those  *)
(* of killed panes too, lie below the next id of the tab, so that a new     *)
(* pane finds none of them.                                                 *)

TabWhole(t) ==
  /\ Rec(t) /\ {"name", "panes", "next", "made"} \subseteq DOMAIN t
  /\ t.next \in Nat /\ Rec(t.panes)
  /\ \A id \in DOMAIN t.panes : id \in Nat /\ id < t.next
  /\ \A id \in DOMAIN t.panes : Rec(t.panes[id]) /\ {"title", "born"} \subseteq DOMAIN t.panes[id]

SessionWhole(s) ==
  /\ Rec(s) /\ {"name", "size", "tabs", "active"} \subseteq DOMAIN s
  /\ Rec(s.tabs) /\ s.active \in DOMAIN s.tabs
  /\ TabWhole(s.tabs[s.active])

OwnTerminals(t, terminals) ==
  /\ Rec(terminals)
  /\ \A id \in DOMAIN terminals : terminals[id] # Nobody => id \in Nat /\ id < t.next
  /\ \A id \in DOMAIN terminals \cap DOMAIN t.panes :
       terminals[id] \in {t.panes[id].born, Nobody}

ActiveTab(s) == s.tabs[s.active]

PanesWhole(r) ==
  /\ Rec(r) /\ {"session", "terminals", "dirty"} \subseteq DOMAIN r
  /\ SessionWhole(r.session)
  /\ OwnTerminals(ActiveTab(r.session), r.terminals)

Restorable(file) == file \notin {NoFile, Torn} => file.active \in DOMAIN file.tabs

PaneInv ==
  /\ \A d \in Servers : HasSession(srv[d]) => PanesWhole(srv[d])
  /\ \A n \in Names : Restorable(snapshot[n]) /\ Restorable(tmp[n])

(* One process changes. *)
LEMMA PanesAndFiles ==
  ASSUME Shape, PaneInv, NEW d \in Servers, NEW r, srv' = [srv EXCEPT ![d] = r],
         HasSession(r) => PanesWhole(r),
         \A n \in Names : Restorable(snapshot[n])' /\ Restorable(tmp[n])'
  PROVE  PaneInv'
<1>1. srv' = [e \in Servers |-> IF e = d THEN r ELSE srv[e]]
  BY DEF Shape, Rec
<1>2. ASSUME NEW e \in Servers, HasSession(srv'[e]) PROVE PanesWhole(srv'[e])
  BY <1>1, <1>2 DEF PaneInv
<1>3. \A e \in Servers : HasSession(srv[e])' => PanesWhole(srv[e])'
  BY <1>2 DEF HasSession, PanesWhole, SessionWhole, ActiveTab, OwnTerminals, TabWhole, Rec
<1>4. QED BY <1>3 DEF PaneInv

LEMMA PanesKept ==
  ASSUME Shape, PaneInv, NEW d \in Servers, NEW r, srv' = [srv EXCEPT ![d] = r],
         HasSession(r) => PanesWhole(r), UNCHANGED <<snapshot, tmp>>
  PROVE  PaneInv'
<1>1. \A n \in Names : Restorable(snapshot[n])' /\ Restorable(tmp[n])'
  BY DEF PaneInv, Restorable
<1>2. QED BY <1>1, PanesAndFiles

LEMMA NewTabWhole == ASSUME NEW name PROVE TabWhole(NewTab(name))
<1> DEFINE pane == [title |-> Untitled, born |-> 0]
           panes == [id \in {0} |-> pane]
           t == [name |-> name, panes |-> panes, next |-> 1, made |-> 1]
<1>1. Rec(pane) /\ {"title", "born"} \subseteq DOMAIN pane
  BY DEF Rec
<1> HIDE DEF pane
<1>2. Rec(panes) /\ DOMAIN panes = {0} /\ panes[0] = pane
  BY DEF Rec
<1> HIDE DEF panes
<1>3. /\ Rec(t) /\ {"name", "panes", "next", "made"} \subseteq DOMAIN t
      /\ t.panes = panes /\ t.next = 1
  BY DEF Rec
<1> HIDE DEF t
<1>4. TabWhole(t)
  BY <1>1, <1>2, <1>3 DEF TabWhole
<1>5. QED BY <1>4 DEF NewTab, t, panes, pane

LEMMA RestoredTabWhole == ASSUME NEW t PROVE TabWhole(RestoredTab(t))
<1> DEFINE new == NewTab(t.name)
           title == t.titles[0]
<1>1. TabWhole(new) /\ 0 \in DOMAIN new.panes
  BY NewTabWhole DEF NewTab
<1> HIDE DEF new, title
<1>2. TabWhole([new EXCEPT !.panes[0].title = title])
  <2> DEFINE pane == [new.panes[0] EXCEPT !.title = title]
             panes == [new.panes EXCEPT ![0] = pane]
  <2>1. Rec(pane) /\ {"title", "born"} \subseteq DOMAIN pane
    BY <1>1 DEF TabWhole, Rec
  <2> HIDE DEF pane
  <2>2. /\ Rec(panes) /\ DOMAIN panes = DOMAIN new.panes
        /\ \A id \in DOMAIN panes : panes[id] = IF id = 0 THEN pane ELSE new.panes[id]
    BY <1>1 DEF TabWhole, Rec
  <2> HIDE DEF panes
  <2>3. TabWhole([new EXCEPT !.panes = panes])
    BY <1>1, <2>1, <2>2 DEF TabWhole, Rec
  <2>4. QED BY <2>3 DEF panes, pane
<1>3. QED BY <1>1, <1>2 DEF RestoredTab, new, title

LEMMA LoadOwn ==
  ASSUME ServerInv, PaneInv, NEW d \in Servers, Load(d)
  PROVE  PaneInv'
<1> DEFINE n == srv[d].socket
           s == OnDisk(n)
           r == [pc |-> "serving", socket |-> n, path |-> n, session |-> s,
                 dirty |-> FALSE, attached |-> FALSE, closing |-> FALSE, terminals |-> <<>>]
<1>1. n \in Names /\ srv' = [srv EXCEPT ![d] = r] /\ UNCHANGED <<snapshot, tmp>>
  BY DEF Load, ServerInv, Shape, ProcessShape, files
<1>2. SessionWhole(s)
  <2>1. CASE snapshot[n] \in {NoFile, Torn}
    <3>1. s = [name |-> n, size |-> DefaultSize, tabs |-> <<NewTab("Tab 1")>>, active |-> 1]
      BY <2>1 DEF OnDisk, NewSession
    <3>2. TabWhole(NewTab("Tab 1"))
      BY NewTabWhole
    <3> DEFINE tabs == <<NewTab("Tab 1")>>
    <3>3. Rec(tabs) /\ 1 \in DOMAIN tabs /\ tabs[1] = NewTab("Tab 1")
      BY DEF Rec
    <3> HIDE DEF s, tabs
    <3>4. s = [name |-> n, size |-> DefaultSize, tabs |-> tabs, active |-> 1]
      BY <3>1 DEF tabs
    <3>5. QED BY <3>2, <3>3, <3>4 DEF SessionWhole, Rec
  <2>2. CASE snapshot[n] \notin {NoFile, Torn}
    <3>1. snapshot[n].active \in DOMAIN snapshot[n].tabs
      BY <1>1, <2>2 DEF PaneInv, Restorable
    <3>2. s = session_from_snapshot(snapshot[n])
      BY <2>2 DEF OnDisk
    <3>3. TabWhole(RestoredTab(snapshot[n].tabs[snapshot[n].active]))
      BY RestoredTabWhole
    <3> HIDE DEF s
    <3>4. QED BY <3>1, <3>2, <3>3 DEF session_from_snapshot, SessionWhole, Rec
  <2>3. QED BY <2>1, <2>2
<1>3. PanesWhole(r)
  <2> HIDE DEF s, n
  <2> DEFINE none == <<>>
  <2>1. OwnTerminals(ActiveTab(s), none)
    BY DEF OwnTerminals, Rec
  <2> HIDE DEF none
  <2>2. r = [pc |-> "serving", socket |-> n, path |-> n, session |-> s,
             dirty |-> FALSE, attached |-> FALSE, closing |-> FALSE, terminals |-> none]
    BY DEF none
  <2> HIDE DEF r
  <2>3. Rec(r) /\ {"session", "terminals", "dirty"} \subseteq DOMAIN r
        /\ r.session = s /\ r.terminals = none
    BY <2>2 DEF Rec
  <2>4. QED BY <1>2, <2>1, <2>3 DEF PanesWhole
<1> HIDE DEF r
<1>4. QED BY <1>1, <1>3, PanesKept DEF ServerInv

(* The changes a message makes. *)
LEMMA DirtyOwn ==
  ASSUME NEW r, PanesWhole(r)
  PROVE  PanesWhole(Dirty(r)) /\ Dirty(r).session = r.session
         /\ Dirty(r).terminals = r.terminals
  BY DEF Dirty, PanesWhole, Rec

LEMMA WithTabOwn ==
  ASSUME NEW r, PanesWhole(r), NEW t, TabWhole(t), OwnTerminals(t, r.terminals)
  PROVE  /\ PanesWhole(WithTab(r, t)) /\ ActiveTab(WithTab(r, t).session) = t
         /\ WithTab(r, t).terminals = r.terminals
<1> DEFINE tabs == [r.session.tabs EXCEPT ![r.session.active] = t]
           s == [r.session EXCEPT !.tabs = tabs]
<1>1. SessionWhole(r.session)
  BY DEF PanesWhole
<1>2. Rec(tabs) /\ DOMAIN tabs = DOMAIN r.session.tabs /\ tabs[r.session.active] = t
  BY <1>1 DEF SessionWhole, Rec
<1> HIDE DEF tabs
<1>3. SessionWhole(s) /\ ActiveTab(s) = t
  BY <1>1, <1>2 DEF SessionWhole, ActiveTab, Rec
<1> HIDE DEF s
<1>4. WithTab(r, t) = [r EXCEPT !.session = s]
  BY DEF WithTab, s, tabs
<1>5. QED BY <1>3, <1>4 DEF PanesWhole, Rec

LEMMA SizedOwn ==
  ASSUME NEW r, PanesWhole(r), NEW size
  PROVE  PanesWhole(Sized(r, size)) /\ PanesWhole([Sized(r, size) EXCEPT !.attached = TRUE])
<1> DEFINE s == [r.session EXCEPT !.size = size]
           q == [r EXCEPT !.session = s]
<1>1. SessionWhole(s) /\ ActiveTab(s) = ActiveTab(r.session)
  BY DEF PanesWhole, SessionWhole, ActiveTab, Rec
<1> HIDE DEF s
<1>2. PanesWhole(q)
  BY <1>1 DEF PanesWhole, Rec
<1>3. Sized(r, size) = q
  BY DEF Sized, s
<1> HIDE DEF q
<1>4. PanesWhole([q EXCEPT !.attached = TRUE])
  BY <1>2 DEF PanesWhole, Rec
<1>5. QED BY <1>2, <1>3, <1>4

LEMMA WithTerminalOwn ==
  ASSUME NEW r, PanesWhole(r), NEW id, NEW born,
         \/ born = Nobody
         \/ /\ id \in Nat /\ id < ActiveTab(r.session).next
            /\ id \in DOMAIN ActiveTab(r.session).panes
                 => born = ActiveTab(r.session).panes[id].born
  PROVE  PanesWhole(WithTerminal(r, id, born))
<1> DEFINE terminals == Insert(r.terminals, id, born)
<1>1. /\ Rec(terminals) /\ DOMAIN terminals = DOMAIN r.terminals \cup {id}
      /\ terminals[id] = born
      /\ \A k \in DOMAIN r.terminals \ {id} : terminals[k] = r.terminals[k]
  BY DEF Insert, Rec
<1> HIDE DEF terminals
<1>2. OwnTerminals(ActiveTab(r.session), terminals)
  BY <1>1 DEF PanesWhole, OwnTerminals
<1>3. WithTerminal(r, id, born) = [r EXCEPT !.terminals = terminals]
  BY DEF WithTerminal, terminals
<1>4. QED BY <1>2, <1>3 DEF PanesWhole, Rec

(* The id of a new pane is none that a pane or a terminal has.              *)
LEMMA SplitOwn ==
  ASSUME NEW t, TabWhole(t), NEW terminals, OwnTerminals(t, terminals)
  PROVE  /\ TabWhole(Split(t)) /\ OwnTerminals(Split(t), terminals)
         /\ AllocateId(t) \in Nat /\ AllocateId(t) < Split(t).next
         /\ Split(t).panes[AllocateId(t)].born = t.made
<1> DEFINE pane == [title |-> Untitled, born |-> t.made]
           panes == Insert(t.panes, t.next, pane)
           next == t.next + 1
           made == t.made + 1
           new == [[[t EXCEPT !.panes = panes] EXCEPT !.next = next] EXCEPT !.made = made]
<1>1. /\ Rec(panes) /\ DOMAIN panes = DOMAIN t.panes \cup {t.next}
      /\ panes[t.next] = pane
      /\ \A k \in DOMAIN t.panes \ {t.next} : panes[k] = t.panes[k]
  BY DEF Insert, Rec
<1>2. Rec(pane) /\ {"title", "born"} \subseteq DOMAIN pane /\ pane.born = t.made
  BY DEF Rec
<1>3. t.next \in Nat /\ next \in Nat /\ t.next < next /\ \A i \in Nat : i < t.next => i < next
  BY DEF TabWhole
<1> HIDE DEF panes, pane, next, made
<1>4. /\ Rec(new) /\ DOMAIN new = DOMAIN t /\ new.panes = panes /\ new.next = next
  BY DEF TabWhole, Rec
<1>5. Split(t) = new
  BY DEF Split, AllocateId, panes, pane, next, made, TabWhole, Rec
<1> HIDE DEF new
<1>6. TabWhole(new)
  BY <1>1, <1>2, <1>3, <1>4 DEF TabWhole
<1>7. OwnTerminals(new, terminals)
  BY <1>1, <1>3, <1>4 DEF OwnTerminals
<1>8. QED BY <1>1, <1>2, <1>3, <1>4, <1>5, <1>6, <1>7 DEF AllocateId

LEMMA KillOwn ==
  ASSUME NEW t, TabWhole(t), NEW terminals, OwnTerminals(t, terminals), NEW id
  PROVE  LET new == [t EXCEPT !.panes = [i \in DOMAIN @ \ {id} |-> @[i]]]
         IN  TabWhole(new) /\ OwnTerminals(new, terminals)
<1> DEFINE panes == [i \in DOMAIN t.panes \ {id} |-> t.panes[i]]
           new == [t EXCEPT !.panes = panes]
<1>1. /\ Rec(panes) /\ DOMAIN panes = DOMAIN t.panes \ {id}
      /\ \A i \in DOMAIN panes : panes[i] = t.panes[i]
  BY DEF Rec
<1> HIDE DEF panes
<1>2. Rec(new) /\ DOMAIN new = DOMAIN t /\ new.panes = panes /\ new.next = t.next
  BY DEF TabWhole, Rec
<1> HIDE DEF new
<1>3. TabWhole(new) /\ OwnTerminals(new, terminals)
  BY <1>1, <1>2 DEF TabWhole, OwnTerminals
<1>4. QED BY <1>3 DEF new, panes

LEMMA TitleOwn ==
  ASSUME NEW t, TabWhole(t), NEW terminals, OwnTerminals(t, terminals),
         NEW id \in DOMAIN t.panes, NEW title
  PROVE  LET new == [t EXCEPT !.panes[id].title = title]
         IN  TabWhole(new) /\ OwnTerminals(new, terminals)
<1> DEFINE pane == [t.panes[id] EXCEPT !.title = title]
           panes == [t.panes EXCEPT ![id] = pane]
           new == [t EXCEPT !.panes = panes]
<1>1. Rec(pane) /\ {"title", "born"} \subseteq DOMAIN pane /\ pane.born = t.panes[id].born
  BY DEF TabWhole, Rec
<1> HIDE DEF pane
<1>2. /\ Rec(panes) /\ DOMAIN panes = DOMAIN t.panes /\ panes[id] = pane
      /\ \A i \in DOMAIN t.panes \ {id} : panes[i] = t.panes[i]
  BY DEF TabWhole, Rec
<1> HIDE DEF panes
<1>3. Rec(new) /\ DOMAIN new = DOMAIN t /\ new.panes = panes /\ new.next = t.next
  BY DEF TabWhole, Rec
<1> HIDE DEF new
<1>4. TabWhole(new)
  BY <1>1, <1>2, <1>3 DEF TabWhole
<1>5. OwnTerminals(new, terminals)
  BY <1>1, <1>2, <1>3 DEF OwnTerminals
<1>6. QED BY <1>4, <1>5 DEF new, panes, pane

LEMMA LeaveOwn ==
  ASSUME ServerInv, PaneInv, NEW d \in Servers, NEW s, Leave(d, s), PanesWhole(s)
  PROVE  PaneInv'
  BY PanesKept DEF Leave, ServerInv, files

LEMMA MessageOwn ==
  ASSUME ServerInv, PaneInv, NEW d \in Servers, Message(d)
  PROVE  PaneInv'
<1> DEFINE r == srv[d]
           t == Tab(d)
<1>1. Serving(d)
  BY DEF Message, KillPane, ResizePane, Resize, Attach, spawn_terminal_for_pane, SetPaneTitle,
         SpawnPane, SplitPane, CanSplit
<1>2. PanesWhole(r) /\ t = ActiveTab(r.session)
  BY <1>1 DEF Serving, HasSession, PaneInv, Tab, ActiveTab
<1>3. TabWhole(t) /\ OwnTerminals(t, r.terminals)
  BY <1>2 DEF PanesWhole, SessionWhole, ActiveTab
<1>4. \A s : PanesWhole(s) /\ Leave(d, s) => PaneInv'
  BY LeaveOwn
<1>5. \A s : Answer(d, s) => Leave(d, s)
  BY DEF Answer
<1> HIDE DEF r, t
<1>6. PanesWhole(Dirty(r))
  BY <1>2, DirtyOwn
<1>7. ASSUME NEW u, TabWhole(u), OwnTerminals(u, r.terminals)
      PROVE  /\ PanesWhole(Dirty(WithTab(r, u)))
             /\ ActiveTab(Dirty(WithTab(r, u)).session) = u
  BY <1>2, <1>7, WithTabOwn, DirtyOwn
<1>8. ASSUME NEW size, Resize(d, size) \/ Attach(d, size) PROVE PaneInv'
  <2>1. \/ Answer(d, Dirty(Sized(r, size)))
        \/ Answer(d, [Sized(r, size) EXCEPT !.attached = TRUE])
    BY <1>8 DEF Resize, Attach, r
  <2>2. /\ PanesWhole(Dirty(Sized(r, size)))
        /\ PanesWhole([Sized(r, size) EXCEPT !.attached = TRUE])
    BY <1>2, SizedOwn, DirtyOwn
  <2>3. QED BY <1>4, <1>5, <2>1, <2>2
<1>9. TabWhole(Split(t)) /\ OwnTerminals(Split(t), r.terminals)
  BY <1>3, SplitOwn
<1>10. CASE SpawnPane(d)
  <2>1. Answer(d, Dirty(WithTab(r, Split(t))))
    BY <1>10 DEF SpawnPane, r, t
  <2>2. QED BY <1>4, <1>5, <1>7, <1>9, <2>1
<1>11. CASE SplitPane(d)
  <2> DEFINE s == Dirty(WithTab(r, Split(t)))
  <2>1. Answer(d, WithTerminal(s, AllocateId(t), t.made)) \/ Answer(d, s)
    BY <1>11 DEF SplitPane, r, t
  <2>2. PanesWhole(s) /\ ActiveTab(s.session) = Split(t)
    BY <1>7, <1>9
  <2>3. /\ AllocateId(t) \in Nat /\ AllocateId(t) < Split(t).next
        /\ Split(t).panes[AllocateId(t)].born = t.made
    BY <1>3, SplitOwn
  <2> HIDE DEF s
  <2>4. PanesWhole(WithTerminal(s, AllocateId(t), t.made))
    BY <2>2, <2>3, WithTerminalOwn
  <2>5. QED BY <1>4, <1>5, <2>1, <2>2, <2>4
<1>12. ASSUME NEW id, KillPane(d, id) PROVE PaneInv'
  <2> DEFINE u == [t EXCEPT !.panes = [i \in DOMAIN @ \ {id} |-> @[i]]]
  <2>1. Leave(d, Dirty(WithTab(r, u)))
    BY <1>12 DEF KillPane, r, t
  <2>2. TabWhole(u) /\ OwnTerminals(u, r.terminals)
    BY <1>3, KillOwn
  <2> HIDE DEF u
  <2>3. QED BY <1>4, <1>7, <2>1, <2>2
<1>13. ASSUME NEW id, ResizePane(d, id) PROVE PaneInv'
  BY <1>4, <1>5, <1>6, <1>13 DEF ResizePane, r
<1>14. ASSUME NEW id, spawn_terminal_for_pane(d, id) PROVE PaneInv'
  <2> DEFINE born == IF id \in DOMAIN t.panes THEN t.panes[id].born ELSE Nobody
  <2>1. Answer(d, WithTerminal(r, id, born))
    BY <1>14 DEF spawn_terminal_for_pane, r, t
  <2>2. id \in DOMAIN t.panes => id \in Nat /\ id < t.next
    BY <1>3 DEF TabWhole
  <2>3. PanesWhole(WithTerminal(r, id, born))
    BY <1>2, <2>2, WithTerminalOwn
  <2>4. QED BY <1>4, <1>5, <2>1, <2>3
<1>15. ASSUME NEW id, NEW title, SetPaneTitle(d, id, title) PROVE PaneInv'
  <2> DEFINE u == [t EXCEPT !.panes[id].title = title]
  <2>1. id \in DOMAIN t.panes /\ Answer(d, Dirty(WithTab(r, u)))
    BY <1>15 DEF SetPaneTitle, r, t
  <2>2. TabWhole(u) /\ OwnTerminals(u, r.terminals)
    BY <1>3, <2>1, TitleOwn
  <2> HIDE DEF u
  <2>3. QED BY <1>4, <1>5, <1>7, <2>1, <2>2
<1>16. QED BY <1>8, <1>10, <1>11, <1>12, <1>13, <1>14, <1>15 DEF Message

(* A step of d that leaves its session and terminals as they are, or ends   *)
(* the process, and writes at most one file of a session it had.            *)
LEMMA SaveOwn ==
  ASSUME ServerInv, PaneInv, NEW d \in Servers, Save(d), HasSession(srv[d])
  PROVE  PaneInv'
<1> DEFINE n == srv[d].path
           file == snapshot_from_session(srv[d].session)
<1>1. Restorable(file)
  <2>1. SessionWhole(srv[d].session)
    BY DEF PaneInv, PanesWhole
  <2>2. QED BY <2>1 DEF SessionWhole, snapshot_from_session, Restorable
<1>2. \A m \in Names : tmp'[m] \in {tmp[m], file, Torn}
  BY DEF Save, WriteTmp, ServerInv, Shape, Rec
<1>3. \A m \in Names : Restorable(snapshot[m])' /\ Restorable(tmp[m])'
  <2> HIDE DEF file
  <2>1. UNCHANGED snapshot /\ \A m \in Names : Restorable(snapshot[m]) /\ Restorable(tmp[m])
    BY DEF Save, WriteTmp, PaneInv
  <2>2. QED BY <1>1, <1>2, <2>1 DEF Restorable
<1>4. PICK pc : srv' = [srv EXCEPT ![d] = [srv[d] EXCEPT !.pc = pc]]
  BY DEF Save, WriteTmp
<1>5. PanesWhole([srv[d] EXCEPT !.pc = pc])
  BY DEF PaneInv, PanesWhole, Rec
<1>6. QED BY <1>3, <1>4, <1>5, PanesAndFiles DEF ServerInv

LEMMA RenameTmpOwn ==
  ASSUME ServerInv, PaneInv, NEW d \in Servers, RenameTmp(d)
  PROVE  PaneInv'
<1> DEFINE n == srv[d].path
           r == [srv[d] EXCEPT !.pc = Return(d)]
           q == [[r EXCEPT !.dirty = FALSE] EXCEPT !.attached = FALSE]
<1>1. HasSession(srv[d]) /\ n \in Names
  BY DEF RenameTmp, HasSession, ServerInv, Shape, ProcessShape
<1>2. PanesWhole(r) /\ PanesWhole(q)
  BY <1>1 DEF PaneInv, PanesWhole, Rec
<1>3. srv' = [srv EXCEPT ![d] = r] \/ srv' = [srv EXCEPT ![d] = q]
  BY DEF RenameTmp
<1>4. \A m \in Names : snapshot'[m] \in {snapshot[m], tmp[m]} /\ tmp'[m] \in {tmp[m], NoFile}
  BY <1>1 DEF RenameTmp, ServerInv, Shape, Rec
<1>5. \A m \in Names : Restorable(snapshot[m])' /\ Restorable(tmp[m])'
  BY <1>4 DEF PaneInv, Restorable
<1> HIDE DEF r, q
<1>6. QED BY <1>2, <1>3, <1>5, PanesAndFiles DEF ServerInv

LEMMA RenameSessionOwn ==
  ASSUME ServerInv, PaneInv, NEW d \in Servers, NEW n \in Names, rename_session(d, n)
  PROVE  PaneInv'
<1> DEFINE s == [srv[d].session EXCEPT !.name = n]
           r == [[[[srv[d] EXCEPT !.session = s] EXCEPT !.socket = n] EXCEPT !.path = n]
                   EXCEPT !.dirty = TRUE]
<1>1. PanesWhole(srv[d])
  BY DEF rename_session, Serving, HasSession, PaneInv
<1>2. SessionWhole(s) /\ ActiveTab(s) = ActiveTab(srv[d].session)
  BY <1>1 DEF PanesWhole, SessionWhole, ActiveTab, Rec
<1> HIDE DEF s
<1>3. PanesWhole(r)
  BY <1>1, <1>2 DEF PanesWhole, Rec
<1>4. srv' = [srv EXCEPT ![d] = r] /\ UNCHANGED <<snapshot, tmp>>
  BY DEF rename_session, Renamed, Dirty, s
<1> HIDE DEF r
<1>5. QED BY <1>3, <1>4, PanesKept DEF ServerInv

LEMMA ShutdownOwn ==
  ASSUME ServerInv, PaneInv, NEW d \in Servers, Shutdown(d)
  PROVE  PaneInv'
<1> DEFINE r == [[srv[d] EXCEPT !.pc = "shutdown"] EXCEPT !.closing = TRUE]
<1>1. PanesWhole(srv[d])
  BY DEF Shutdown, Serving, HasSession, PaneInv
<1>2. PanesWhole(r)
  BY <1>1 DEF PanesWhole, Rec
<1>3. srv' = [srv EXCEPT ![d] = r] /\ UNCHANGED <<snapshot, tmp>>
  BY DEF Shutdown, ServerInv, Shape, Rec, files
<1> HIDE DEF r
<1>4. QED BY <1>2, <1>3, PanesKept DEF ServerInv

(* The steps of a process without a session, or that ends one.              *)
LEMMA WithoutSession ==
  ASSUME ServerInv, NEW d \in Servers,
         \/ \E n \in Names : Probe(d, n)
         \/ RemoveStale(d) \/ Bind(d) \/ DropListener(d) \/ Unlink(d) \/ Crash(d)
  PROVE  \E r : /\ srv' = [srv EXCEPT ![d] = r] /\ ~HasSession(r)
                /\ UNCHANGED <<snapshot, tmp>>
<1>1. CASE \E n \in Names : Probe(d, n)
  <2>1. PICK n \in Names : Probe(d, n)
    BY <1>1
  <2> DEFINE r == Process(IF sockets[n] = NoFile THEN "bind" ELSE "remove", n)
  <2>2. ~HasSession(r)
    BY DEF Process, HasSession
  <2>3. srv' = [srv EXCEPT ![d] = r] /\ UNCHANGED <<snapshot, tmp>>
    BY <2>1 DEF Probe, Starts, files
  <2> HIDE DEF r
  <2>4. QED BY <2>2, <2>3
<1>2. CASE RemoveStale(d) \/ Bind(d)
  <2>1. Rec(srv[d]) /\ "pc" \in DOMAIN srv[d]
    BY DEF ServerInv, Shape, ProcessShape
  <2>2. ~HasSession(Off) /\ \A pc \in {"bind", "load"} : ~HasSession([srv[d] EXCEPT !.pc = pc])
    BY <2>1 DEF HasSession, Off, Rec
  <2> DEFINE bind == [srv[d] EXCEPT !.pc = "bind"]
             load == [srv[d] EXCEPT !.pc = "load"]
  <2>3. CASE RemoveStale(d)
    <3>1. srv' = [srv EXCEPT ![d] = bind] /\ UNCHANGED <<snapshot, tmp>>
      BY <2>3 DEF RemoveStale
    <3>2. QED BY <2>2, <3>1
  <2>4. CASE Bind(d)
    <3>1. /\ srv' = [srv EXCEPT ![d] = Off] \/ srv' = [srv EXCEPT ![d] = load]
          /\ UNCHANGED <<snapshot, tmp>>
      BY <2>4 DEF Bind
    <3>2. QED BY <2>2, <3>1
  <2>5. QED BY <1>2, <2>3, <2>4
<1>3. CASE DropListener(d) \/ Unlink(d) \/ Crash(d)
  <2>1. ~HasSession(Off) /\ ~HasSession(Process("unlink", srv[d].socket))
    BY DEF HasSession, Off, Process
  <2>2. QED BY <1>3, <2>1 DEF DropListener, Unlink, Crash
<1>4. QED BY <1>1, <1>2, <1>3

LEMMA WithoutSessionOwn ==
  ASSUME ServerInv, PaneInv, NEW d \in Servers,
         \/ \E n \in Names : Probe(d, n)
         \/ RemoveStale(d) \/ Bind(d) \/ DropListener(d) \/ Unlink(d) \/ Crash(d)
  PROVE  PaneInv'
  BY WithoutSession, PanesKept DEF ServerInv

LEMMA InitOwn == ASSUME ServerAssumption, Init PROVE PaneInv
<1>1. \A d \in Servers : ~HasSession(srv[d])
  BY DEF Init, Off, HasSession
<1>2. \A n \in Names : Restorable(snapshot[n]) /\ Restorable(tmp[n])
  BY DEF ServerAssumption, Init, Restorable
<1>3. QED BY <1>1, <1>2 DEF PaneInv

LEMMA NextOwn == ASSUME ServerInv, PaneInv, [Next]_vars PROVE PaneInv'
<1>1. CASE UNCHANGED vars
  <2>1. UNCHANGED <<srv, snapshot, tmp>>
    BY <1>1 DEF vars, files
  <2>2. CASE Servers = {}
    BY <2>1, <2>2 DEF PaneInv, Restorable
  <2>3. ASSUME NEW d \in Servers PROVE PaneInv'
    <3>1. srv' = [srv EXCEPT ![d] = srv[d]]
      BY <2>1 DEF ServerInv, Shape, Rec
    <3>2. HasSession(srv[d]) => PanesWhole(srv[d])
      BY DEF PaneInv
    <3>3. QED BY <2>1, <3>1, <3>2, PanesKept DEF ServerInv
  <2>4. QED BY <2>2, <2>3
<1>2. ASSUME NEW d \in Servers, NEW n \in Names, Probe(d, n) \/ rename_session(d, n)
      PROVE  PaneInv'
  BY <1>2, WithoutSessionOwn, RenameSessionOwn
<1>3. ASSUME NEW d \in Servers, RemoveStale(d) \/ Bind(d) \/ Load(d)
      PROVE  PaneInv'
  BY <1>3, WithoutSessionOwn, LoadOwn
<1>4. ASSUME NEW d \in Servers, save_now(d) \/ maybe_auto_save(d) \/ SaveLast(d)
      PROVE  PaneInv'
  BY <1>4, SaveOwn DEF save_now, maybe_auto_save, SaveLast, Serving, HasSession
<1>5. ASSUME NEW d \in Servers, RenameTmp(d) \/ Shutdown(d) \/ DropListener(d)
                                  \/ Unlink(d) \/ Crash(d)
      PROVE  PaneInv'
  BY <1>5, RenameTmpOwn, ShutdownOwn, WithoutSessionOwn
<1>6. ASSUME NEW d \in Servers, Message(d) PROVE PaneInv'
  BY <1>6, MessageOwn
<1>7. QED BY <1>1, <1>2, <1>3, <1>4, <1>5, <1>6 DEF Next

(* Whatever is asked of a daemon, and whatever is killed or restored, the   *)
(* ids of its panes and of the terminals it keeps lie below the next id.    *)
THEOREM ServerPanes == Spec => []PaneInv
<1>1. Init /\ ServerInv => PaneInv
  BY ServerAssumption, InitOwn
<1>2. PaneInv /\ ServerInv /\ [Next]_vars => PaneInv'
  BY NextOwn
<1>3. QED BY <1>1, <1>2, ServerSafe, PTL DEF Spec

(* A pane never finds the terminal of another: pane_terminals still has     *)
(* that of a killed pane (server.rs:317), and no later pane has its id.     *)
THEOREM ServerOwnTerminal == Spec => []OwnTerminal
<1>1. PaneInv => OwnTerminal
  <2>1. SUFFICES ASSUME PaneInv, NEW d \in Servers, Running(d)
                 PROVE  \A id \in DOMAIN srv[d].terminals \cap DOMAIN Tab(d).panes :
                          srv[d].terminals[id] \in {Tab(d).panes[id].born, Nobody}
    BY DEF OwnTerminal
  <2>2. PanesWhole(srv[d])
    BY <2>1 DEF Running, Listening, HasSession, PaneInv
  <2>3. QED BY <2>2 DEF PanesWhole, OwnTerminals, ActiveTab, Tab
<1>2. QED BY <1>1, ServerPanes, PTL

-----------------------------------------------------------------------------
(* A session that is not marked dirty and what is on disk.  What a save is  *)
(* about to rename is the session as it still is.                           *)
TmpIsSaved ==
  \A d \in Servers :
    srv[d].pc = "rename" /\ srv[d].path \notin raced
      => tmp[srv[d].path] = snapshot_from_session(srv[d].session)

CleanInv == TmpIsSaved /\ CleanMeansSaved

(* What is restored is saved and restored as it is. *)
RestoredAs(name, title) ==
  [name |-> name, panes |-> [id \in {0} |-> [title |-> title, born |-> 0]],
   next |-> 1, made |-> 1]

LEMMA RestoredIs ==
  ASSUME NEW t
  PROVE  /\ NewTab(t.name) = RestoredAs(t.name, Untitled)
         /\ \E title : RestoredTab(t) = RestoredAs(t.name, title)
<1> DEFINE new == NewTab(t.name)
           title == t.titles[0]
<1>1. new = RestoredAs(t.name, Untitled)
  BY DEF NewTab, RestoredAs
<1>2. [new EXCEPT !.panes[0].title = title] = RestoredAs(t.name, title)
  <2> HIDE DEF title
  <2>1. [new.panes[0] EXCEPT !.title = title] = [title |-> title, born |-> 0]
    BY <1>1 DEF RestoredAs
  <2>2. [new.panes EXCEPT ![0] = [title |-> title, born |-> 0]]
          = [id \in {0} |-> [title |-> title, born |-> 0]]
    BY <1>1 DEF RestoredAs
  <2>3. [new EXCEPT !.panes = [id \in {0} |-> [title |-> title, born |-> 0]]]
          = RestoredAs(t.name, title)
    BY <1>1 DEF RestoredAs
  <2>4. QED BY <2>1, <2>2, <2>3
<1>3. RestoredTab(t) = new \/ RestoredTab(t) = [new EXCEPT !.panes[0].title = title]
  BY DEF RestoredTab
<1> HIDE DEF new, title
<1>4. QED BY <1>1, <1>2, <1>3 DEF new

LEMMA TabRoundTrip ==
  ASSUME NEW name, NEW title
  PROVE  RestoredTab(TabSnapshot(RestoredAs(name, title))) = RestoredAs(name, title)
<1> DEFINE panes == [id \in {0} |-> [title |-> title, born |-> 0]]
           titles == [id \in DOMAIN panes |-> panes[id].title]
           snap == [name |-> name, titles |-> titles]
           new == [name |-> name, panes |-> [id \in {0} |-> [title |-> Untitled, born |-> 0]],
                   next |-> 1, made |-> 1]
<1>1. TabSnapshot(RestoredAs(name, title)) = snap
  BY DEF TabSnapshot, RestoredAs
<1>2. 0 \in DOMAIN titles /\ titles[0] = title
  OBVIOUS
<1>3. NewTab(name) = new
  BY DEF NewTab
<1> HIDE DEF titles
<1>4. snap.name = name /\ snap.titles = titles
  OBVIOUS
<1> HIDE DEF snap
<1>5. RestoredTab(snap) = [NewTab(name) EXCEPT !.panes[0].title = title]
  BY <1>2, <1>4 DEF RestoredTab
<1>6. [new EXCEPT !.panes[0].title = title] = RestoredAs(name, title)
  <2>1. [new.panes[0] EXCEPT !.title = title] = [title |-> title, born |-> 0]
    OBVIOUS
  <2>2. [new.panes EXCEPT ![0] = [title |-> title, born |-> 0]] = panes
    OBVIOUS
  <2>3. [new EXCEPT !.panes = panes] = RestoredAs(name, title)
    BY DEF RestoredAs
  <2>4. QED BY <2>1, <2>2, <2>3
<1>7. QED BY <1>1, <1>3, <1>5, <1>6

LEMMA SessionRoundTrip ==
  ASSUME NEW name, NEW size, NEW active, NEW tabs, Rec(tabs),
         \A i \in DOMAIN tabs : \E n, title : tabs[i] = RestoredAs(n, title)
  PROVE  LET s == [name |-> name, size |-> size, active |-> active, tabs |-> tabs]
         IN  session_from_snapshot(snapshot_from_session(s)) = s
<1> DEFINE saved == [i \in DOMAIN tabs |-> TabSnapshot(tabs[i])]
           restored == [i \in DOMAIN saved |-> RestoredTab(saved[i])]
           s == [name |-> name, size |-> size, active |-> active, tabs |-> tabs]
<1>1. \A i \in DOMAIN tabs : RestoredTab(TabSnapshot(tabs[i])) = tabs[i]
  BY TabRoundTrip
<1>2. DOMAIN saved = DOMAIN tabs /\ \A i \in DOMAIN tabs : saved[i] = TabSnapshot(tabs[i])
  OBVIOUS
<1> HIDE DEF saved
<1>3. restored = [i \in DOMAIN tabs |-> tabs[i]]
  BY <1>1, <1>2
<1>4. restored = tabs
  BY <1>3 DEF Rec
<1>5. snapshot_from_session(s) = [name |-> name, size |-> size, active |-> active, tabs |-> saved]
  BY DEF snapshot_from_session, saved
<1>6. session_from_snapshot([name |-> name, size |-> size, active |-> active, tabs |-> saved])
        = [name |-> name, size |-> size, active |-> active, tabs |-> restored]
  BY DEF session_from_snapshot
<1>7. QED BY <1>4, <1>5, <1>6

LEMMA RoundTrip ==
  ASSUME NEW n
  PROVE  session_from_snapshot(snapshot_from_session(OnDisk(n))) = OnDisk(n)
<1>1. CASE snapshot[n] \in {NoFile, Torn}
  <2> DEFINE tabs == <<NewTab("Tab 1")>>
  <2>1. OnDisk(n) = [name |-> n, size |-> DefaultSize, active |-> 1, tabs |-> tabs]
    BY <1>1 DEF OnDisk, NewSession
  <2>2. NewTab("Tab 1") = RestoredAs("Tab 1", Untitled)
    BY DEF NewTab, RestoredAs
  <2> DEFINE tab == NewTab("Tab 1")
  <2>3. Rec(<<tab>>) /\ \A i \in DOMAIN <<tab>> : <<tab>>[i] = tab
    <3> HIDE DEF tab
    <3>1. QED BY DEF Rec
  <2> HIDE DEF tabs
  <2>4. Rec(tabs) /\ \A i \in DOMAIN tabs : \E m, title : tabs[i] = RestoredAs(m, title)
    BY <2>2, <2>3 DEF tabs
  <2>5. QED BY <2>1, <2>4, SessionRoundTrip
<1>2. CASE snapshot[n] \notin {NoFile, Torn}
  <2> DEFINE s == snapshot[n]
             tabs == [i \in DOMAIN s.tabs |-> RestoredTab(s.tabs[i])]
  <2>1. OnDisk(n) = [name |-> s.name, size |-> s.size, active |-> s.active, tabs |-> tabs]
    BY <1>2 DEF OnDisk, session_from_snapshot
  <2>2. Rec(tabs) /\ DOMAIN tabs = DOMAIN s.tabs
        /\ \A i \in DOMAIN tabs : tabs[i] = RestoredTab(s.tabs[i])
    BY DEF Rec
  <2> HIDE DEF tabs, s
  <2>3. \A i \in DOMAIN tabs : \E m, title : tabs[i] = RestoredAs(m, title)
    BY <2>2, RestoredIs
  <2>4. QED BY <2>1, <2>2, <2>3, SessionRoundTrip
<1>3. QED BY <1>1, <1>2

(* The size is all an attach changes, and what it marks is that.            *)
LEMMA AttachAsSaved ==
  ASSUME NEW r, ProcessShape(r), r.pc = "serving", NEW size, NEW found, AsSaved(r, found)
  PROVE  AsSaved([Sized(r, size) EXCEPT !.attached = TRUE], found)
<1> DEFINE s == [r.session EXCEPT !.size = size]
           q == [[r EXCEPT !.session = s] EXCEPT !.attached = TRUE]
           tabs == [i \in DOMAIN r.session.tabs |-> TabSnapshot(r.session.tabs[i])]
           restored == [i \in DOMAIN tabs |-> RestoredTab(tabs[i])]
<1>1. Rec(r.session) /\ {"name", "size", "tabs", "active"} \subseteq DOMAIN r.session
  BY DEF ProcessShape
<1>2. /\ s.name = r.session.name /\ s.size = size /\ s.tabs = r.session.tabs
      /\ s.active = r.session.active
  BY <1>1 DEF Rec
<1>3. session_from_snapshot(snapshot_from_session(r.session))
        = [name |-> r.session.name, size |-> r.session.size, active |-> r.session.active,
           tabs |-> restored]
  BY DEF session_from_snapshot, snapshot_from_session
<1>4. session_from_snapshot(snapshot_from_session(s))
        = [name |-> r.session.name, size |-> size, active |-> r.session.active,
           tabs |-> restored]
  BY <1>2 DEF session_from_snapshot, snapshot_from_session
<1> HIDE DEF s, restored
<1>5. q.session = s /\ q.attached = TRUE
  BY DEF ProcessShape, Rec
<1>6. [Sized(r, size) EXCEPT !.attached = TRUE] = q
  BY DEF Sized, s
<1> HIDE DEF q
<1>7. \/ found = [name |-> r.session.name, size |-> r.session.size,
                  active |-> r.session.active, tabs |-> restored]
      \/ found = [name |-> r.session.name, size |-> found.size,
                  active |-> r.session.active, tabs |-> restored]
  BY <1>3 DEF AsSaved
<1>8. found = [name |-> r.session.name, size |-> found.size,
               active |-> r.session.active, tabs |-> restored]
  BY <1>7
<1>9. [session_from_snapshot(snapshot_from_session(s)) EXCEPT !.size = found.size] = found
  BY <1>4, <1>8
<1>10. QED BY <1>5, <1>6, <1>9 DEF AsSaved

(* Whose session is clean after a step of d was so before, if d writes no   *)
(* file of a session and changed of its session nothing unmarked but the    *)
(* size on attaching.                                                       *)
LEMMA CleanKept ==
  ASSUME ServerInv, CleanInv, NEW d \in Servers,
         \A e \in Servers \ {d} : srv'[e] = srv[e],
         raced \subseteq raced', UNCHANGED <<snapshot, tmp>>,
         srv'[d].pc # "rename",
         Running(d)' /\ ~srv'[d].dirty =>
           /\ Running(d) /\ ~srv[d].dirty
           /\ srv'[d].path = srv[d].path
           /\ \A found : AsSaved(srv[d], found) => AsSaved(srv'[d], found)
  PROVE  CleanInv'
<1>1. TmpIsSaved'
  BY DEF CleanInv, TmpIsSaved
<1>2. SUFFICES ASSUME NEW e \in Servers, Running(e)', ~srv'[e].dirty, srv'[e].path \notin raced'
               PROVE  AsSaved(srv'[e], OnDisk(srv[e].path)')
  <2>1. \A e \in Servers : AsSaved(srv[e], OnDisk(srv[e].path))'
                           <=> AsSaved(srv'[e], OnDisk(srv[e].path)')
    BY DEF AsSaved
  <2>2. QED BY <1>1, <2>1 DEF CleanInv, CleanMeansSaved
<1>3. /\ Running(e) /\ ~srv[e].dirty /\ srv[e].path \notin raced
      /\ srv'[e].path = srv[e].path
      /\ \A found : AsSaved(srv[e], found) => AsSaved(srv'[e], found)
  BY <1>2 DEF Running, Listening
<1>4. AsSaved(srv[e], OnDisk(srv[e].path))
  BY <1>3 DEF CleanInv, CleanMeansSaved
<1>5. OnDisk(srv[e].path)' = OnDisk(srv[e].path)
  BY <1>3 DEF OnDisk
<1>6. QED BY <1>3, <1>4, <1>5

(* No other process saves under the name of d, unless that was recorded.    *)
LEMMA OwnFiles ==
  ASSUME ServerInv, NEW d \in Servers, HasSession(srv[d]),
         NEW e \in Servers \ {d}, Running(e), srv[e].path \notin raced
  PROVE  srv[e].path # srv[d].path
<1>1. Listening(d) /\ srv[d].path = srv[d].socket /\ srv[e].path = srv[e].socket
  BY DEF HasSession, Running, Listening, ServerInv, Shape, ProcessShape
<1>2. QED BY <1>1 DEF ServerInv, Alone, Overlap, Running

LEMMA LoadClean ==
  ASSUME ServerInv, CleanInv, NEW d \in Servers, Load(d)
  PROVE  CleanInv'
<1> DEFINE n == srv[d].socket
           s == OnDisk(n)
           r == [pc |-> "serving", socket |-> n, path |-> n, session |-> s,
                 dirty |-> FALSE, attached |-> FALSE, closing |-> FALSE, terminals |-> <<>>]
<1>1. srv' = [srv EXCEPT ![d] = r] /\ UNCHANGED <<snapshot, tmp, raced>>
  BY DEF Load, files
<1>2. session_from_snapshot(snapshot_from_session(s)) = s
  BY RoundTrip
<1> HIDE DEF s
<1>3. r.pc = "serving" /\ r.path = n /\ r.session = s /\ r.attached = FALSE
  OBVIOUS
<1> HIDE DEF r
<1>4. srv'[d] = r /\ \A e \in Servers \ {d} : srv'[e] = srv[e]
  BY <1>1 DEF ServerInv, Shape, Rec
<1>5. TmpIsSaved'
  BY <1>1, <1>3, <1>4 DEF CleanInv, TmpIsSaved
<1>6. ASSUME NEW e \in Servers, Running(e)', ~srv'[e].dirty, srv'[e].path \notin raced'
      PROVE  AsSaved(srv'[e], OnDisk(srv[e].path)')
  <2>1. OnDisk(srv[e].path)' = OnDisk(srv'[e].path)
    BY <1>1 DEF OnDisk
  <2>2. CASE e = d
    BY <1>2, <1>3, <1>4, <2>1, <2>2 DEF s, AsSaved
  <2>3. CASE e # d
    BY <1>1, <1>4, <1>6, <2>1, <2>3 DEF CleanInv, CleanMeansSaved, Running, Listening
  <2>4. QED BY <2>2, <2>3
<1>7. QED BY <1>5, <1>6 DEF CleanInv, CleanMeansSaved, AsSaved

LEMMA MessageClean ==
  ASSUME ServerInv, CleanInv, NEW d \in Servers, Message(d)
  PROVE  CleanInv'
<1> DEFINE r == srv[d]
<1>1. ProcessShape(r) /\ r.pc = "serving"
  <2>1. Serving(d)
    BY DEF Message, KillPane, ResizePane, Resize, Attach, spawn_terminal_for_pane, SetPaneTitle,
           SpawnPane, SplitPane, CanSplit
  <2>2. QED BY <2>1 DEF Serving, ServerInv, Shape
<1>2. ASSUME NEW s, Leave(d, s), SameService(r, s),
             \/ s.dirty = TRUE
             \/ /\ s.dirty = r.dirty /\ s.path = r.path
                /\ \A found : AsSaved(r, found) => AsSaved(s, found)
      PROVE  CleanInv'
  <2>1. srv'[d] = s /\ \A e \in Servers \ {d} : srv'[e] = srv[e]
    BY <1>2 DEF Leave, ServerInv, Shape, Rec
  <2>2. UNCHANGED <<snapshot, tmp, raced>>
    BY <1>2 DEF Leave, files
  <2>3. s.pc = "serving" /\ Running(d)
    BY <1>1, <1>2 DEF SameService, Running, Listening
  <2>4. QED BY <1>2, <2>1, <2>2, <2>3, CleanKept
<1>3. \A s : Answer(d, s) => Leave(d, s)
  BY DEF Answer
<1>4. ASSUME NEW s, SameService(r, s) PROVE SameService(r, Dirty(s)) /\ Dirty(s).dirty = TRUE
  <2>1. SameService(s, Dirty(s)) /\ SameService(r, s)
    BY <1>4, DirtyKeeps DEF SameService
  <2>2. "dirty" \in DOMAIN s
    BY <1>4 DEF SameService, ProcessShape
  <2>3. QED BY <2>1, <2>2 DEF SameService, Dirty
<1>5. \A t : SameService(r, WithTab(r, t))
  BY <1>1, WithTabKeeps
<1>6. ASSUME NEW s, Leave(d, Dirty(s)), SameService(r, s) PROVE CleanInv'
  <2>1. SameService(r, Dirty(s)) /\ Dirty(s).dirty = TRUE
    BY <1>4, <1>6
  <2>2. QED BY <1>2, <1>6, <2>1
<1>7. ASSUME NEW s, SameService(r, s), NEW id, NEW born
      PROVE  /\ SameService(r, WithTerminal(s, id, born))
             /\ WithTerminal(s, id, born).dirty = s.dirty
             /\ WithTerminal(s, id, born).path = s.path
             /\ \A found : AsSaved(s, found) => AsSaved(WithTerminal(s, id, born), found)
  <2>1. SameService(s, WithTerminal(s, id, born))
    BY <1>7, WithTerminalKeeps DEF SameService
  <2>2. /\ WithTerminal(s, id, born).session = s.session
        /\ WithTerminal(s, id, born).attached = s.attached
    BY <1>7, <2>1 DEF SameService, WithTerminal, ProcessShape
  <2>3. QED BY <1>7, <2>1, <2>2 DEF SameService, WithTerminal, AsSaved
<1>8. SameService(r, r)
  BY <1>1 DEF SameService
<1>17. ASSUME NEW size
       PROVE  /\ SameService(r, Sized(r, size))
              /\ SameService(r, [Sized(r, size) EXCEPT !.attached = TRUE])
              /\ [Sized(r, size) EXCEPT !.attached = TRUE].dirty = r.dirty
              /\ [Sized(r, size) EXCEPT !.attached = TRUE].path = r.path
              /\ \A found : AsSaved(r, found)
                            => AsSaved([Sized(r, size) EXCEPT !.attached = TRUE], found)
  <2>1. /\ [Sized(r, size) EXCEPT !.attached = TRUE].dirty = r.dirty
        /\ [Sized(r, size) EXCEPT !.attached = TRUE].path = r.path
    BY <1>1 DEF Sized, ProcessShape, Rec
  <2>2. QED BY <1>1, <2>1, SizedKeeps, AttachAsSaved
<1> HIDE DEF r
<1>9. ASSUME NEW size, Resize(d, size) PROVE CleanInv'
  <2>1. Answer(d, Dirty(Sized(r, size)))
    BY <1>9 DEF Resize, r
  <2>2. QED BY <1>3, <1>6, <1>17, <2>1
<1>18. ASSUME NEW size, Attach(d, size) PROVE CleanInv'
  <2>1. Answer(d, [Sized(r, size) EXCEPT !.attached = TRUE])
    BY <1>18 DEF Attach, r
  <2>2. QED BY <1>2, <1>3, <1>17, <2>1
<1>10. CASE SpawnPane(d)
  <2>1. Answer(d, Dirty(WithTab(r, Split(Tab(d)))))
    BY <1>10 DEF SpawnPane, r
  <2>2. QED BY <1>3, <1>5, <1>6, <2>1
<1>11. CASE SplitPane(d)
  <2> DEFINE s == Dirty(WithTab(r, Split(Tab(d))))
             u == WithTerminal(s, AllocateId(Tab(d)), Tab(d).made)
  <2>1. Answer(d, u) \/ Answer(d, s)
    BY <1>11 DEF SplitPane, r
  <2>2. SameService(r, s) /\ s.dirty = TRUE
    BY <1>4, <1>5
  <2> HIDE DEF s
  <2>3. SameService(r, u) /\ u.dirty = TRUE
    BY <1>7, <2>2
  <2> HIDE DEF u
  <2>4. QED BY <1>2, <1>3, <2>1, <2>2, <2>3
<1>12. ASSUME NEW id, KillPane(d, id) PROVE CleanInv'
  <2>1. PICK t : Leave(d, Dirty(WithTab(r, t)))
    BY <1>12 DEF KillPane, r
  <2>2. QED BY <1>5, <1>6, <2>1
<1>13. ASSUME NEW id, ResizePane(d, id) PROVE CleanInv'
  BY <1>3, <1>6, <1>8, <1>13 DEF ResizePane, r
<1>14. ASSUME NEW id, spawn_terminal_for_pane(d, id) PROVE CleanInv'
  <2>1. PICK born : Answer(d, WithTerminal(r, id, born))
    BY <1>14 DEF spawn_terminal_for_pane, r
  <2> DEFINE u == WithTerminal(r, id, born)
  <2>2. /\ SameService(r, u) /\ u.dirty = r.dirty /\ u.path = r.path
        /\ \A found : AsSaved(r, found) => AsSaved(u, found)
    BY <1>7, <1>8
  <2> HIDE DEF u
  <2>3. Leave(d, u)
    BY <1>3, <2>1 DEF u
  <2>4. QED BY <1>2, <2>2, <2>3
<1>15. ASSUME NEW id, NEW title, SetPaneTitle(d, id, title) PROVE CleanInv'
  <2>1. PICK t : Answer(d, Dirty(WithTab(r, t)))
    BY <1>15 DEF SetPaneTitle, r
  <2>2. QED BY <1>3, <1>5, <1>6, <2>1
<1>16. QED BY <1>9, <1>18, <1>10, <1>11, <1>12, <1>13, <1>14, <1>15 DEF Message

LEMMA SaveClean ==
  ASSUME ServerInv, CleanInv, NEW d \in Servers, Save(d), srv[d].pc \in {"serving", "shutdown"}
  PROVE  CleanInv'
<1> DEFINE n == srv[d].path
           file == snapshot_from_session(srv[d].session)
<1>1. HasSession(srv[d]) /\ Running(d) /\ n \in Names /\ ProcessShape(srv[d])
  BY DEF HasSession, Running, Listening, ServerInv, Shape, ProcessShape
<1>2. PICK pc : /\ srv' = [srv EXCEPT ![d] = [srv[d] EXCEPT !.pc = pc]]
                /\ pc = "rename" => tmp' = [tmp EXCEPT ![n] = file]
  BY DEF Save, WriteTmp, Return
<1> DEFINE r == [srv[d] EXCEPT !.pc = pc]
<1>3. /\ r.pc = pc /\ r.path = n /\ r.session = srv[d].session /\ r.dirty = srv[d].dirty
      /\ r.attached = srv[d].attached
  BY <1>1 DEF HasSession, ProcessShape, Rec
<1> HIDE DEF r
<1>4. srv'[d] = r /\ \A e \in Servers \ {d} : srv'[e] = srv[e]
  BY <1>2 DEF r, ServerInv, Shape, Rec
<1>5. /\ UNCHANGED <<snapshot, raced>>
      /\ \A m \in Names \ {n} : tmp'[m] = tmp[m]
      /\ pc = "rename" => tmp'[n] = file
  <2>1. /\ UNCHANGED <<snapshot, raced>>
        /\ \A m \in Names \ {n} : tmp'[m] = tmp[m]
    BY DEF Save, WriteTmp, ServerInv, Shape, Rec
  <2> HIDE DEF n, file
  <2>2. QED BY <1>1, <1>2, <2>1 DEF ServerInv, Shape, Rec
<1> HIDE DEF n, file
<1>6. ASSUME NEW e \in Servers, srv'[e].pc = "rename", srv'[e].path \notin raced'
      PROVE  tmp'[srv'[e].path] = snapshot_from_session(srv'[e].session)
  <2>1. CASE e = d
    BY <1>3, <1>4, <1>5, <1>6, <2>1 DEF file
  <2>2. CASE e # d
    <3>1. srv'[e] = srv[e] /\ Running(e) /\ srv[e].path \in Names
      BY <1>4, <1>6, <2>2 DEF Running, Listening, ServerInv, Shape, ProcessShape
    <3>2. srv[e].path # n
      BY <1>1, <1>5, <1>6, <2>2, <3>1, OwnFiles DEF n
    <3>3. QED BY <1>5, <1>6, <3>1, <3>2 DEF CleanInv, TmpIsSaved
  <2>3. QED BY <2>1, <2>2
<1>7. ASSUME NEW e \in Servers, Running(e)', ~srv'[e].dirty, srv'[e].path \notin raced'
      PROVE  AsSaved(srv'[e], OnDisk(srv[e].path)')
  <2>1. /\ Running(e) /\ ~srv[e].dirty /\ srv[e].path \notin raced
        /\ srv'[e].path = srv[e].path /\ srv'[e].session = srv[e].session
        /\ srv'[e].attached = srv[e].attached
    BY <1>1, <1>3, <1>4, <1>5, <1>7 DEF Running, Listening, n
  <2>2. AsSaved(srv[e], OnDisk(srv[e].path))
    BY <2>1 DEF CleanInv, CleanMeansSaved
  <2>3. OnDisk(srv[e].path)' = OnDisk(srv[e].path)
    BY <1>5, <2>1 DEF OnDisk
  <2>4. QED BY <2>1, <2>2, <2>3 DEF AsSaved
<1>8. QED BY <1>6, <1>7 DEF CleanInv, TmpIsSaved, CleanMeansSaved, AsSaved

LEMMA RenameTmpClean ==
  ASSUME ServerInv, CleanInv, NEW d \in Servers, RenameTmp(d)
  PROVE  CleanInv'
<1> DEFINE n == srv[d].path
           r == [srv[d] EXCEPT !.pc = Return(d)]
           q == [[r EXCEPT !.dirty = FALSE] EXCEPT !.attached = FALSE]
<1>1. /\ srv[d].pc = "rename" /\ n \in Names /\ ProcessShape(srv[d])
      /\ HasSession(srv[d]) /\ Running(d)
  BY DEF RenameTmp, HasSession, Running, Listening, ServerInv, Shape, ProcessShape
<1>2. /\ r.pc \in {"serving", "close"} /\ r.path = n /\ r.session = srv[d].session
      /\ r.dirty = srv[d].dirty /\ r.attached = srv[d].attached
      /\ Rec(r) /\ {"pc", "path", "session", "dirty", "attached"} \subseteq DOMAIN r
  BY <1>1 DEF ProcessShape, Rec, Return
<1> HIDE DEF r
<1>3. /\ q.pc \in {"serving", "close"} /\ q.path = n /\ q.session = srv[d].session
      /\ q.dirty = FALSE /\ q.attached = FALSE
  BY <1>2 DEF Rec
<1> HIDE DEF q
<1>4. UNCHANGED raced
  BY DEF RenameTmp
<1>5. CASE srv' = [srv EXCEPT ![d] = r] /\ UNCHANGED <<snapshot, tmp>>
  <2>1. srv'[d] = r /\ \A e \in Servers \ {d} : srv'[e] = srv[e]
    BY <1>5 DEF ServerInv, Shape, Rec
  <2>2. \A found : AsSaved(srv[d], found) => AsSaved(srv'[d], found)
    BY <1>2, <2>1 DEF AsSaved
  <2>3. QED BY <1>1, <1>2, <1>4, <1>5, <2>1, <2>2, CleanKept DEF n
<1>6. CASE /\ tmp[n] # NoFile
           /\ snapshot' = [snapshot EXCEPT ![n] = tmp[n]]
           /\ tmp' = [tmp EXCEPT ![n] = NoFile]
           /\ srv' = [srv EXCEPT ![d] = q]
  <2>1. srv'[d] = q /\ \A e \in Servers \ {d} : srv'[e] = srv[e]
    BY <1>6 DEF ServerInv, Shape, Rec
  <2>2. /\ snapshot'[n] = tmp[n] /\ \A m \in Names \ {n} : snapshot'[m] = snapshot[m]
        /\ \A m \in Names \ {n} : tmp'[m] = tmp[m]
    <3> HIDE DEF n
    <3>1. QED BY <1>1, <1>6 DEF ServerInv, Shape, Rec
  <2>3. ASSUME NEW e \in Servers \ {d}, Running(e), srv[e].path \notin raced
        PROVE  srv[e].path # n /\ srv[e].path \in Names
    BY <1>1, <2>3, OwnFiles DEF Running, Listening, ServerInv, Shape, ProcessShape
  <2>4. n \notin raced => OnDisk(srv[d].path)' = session_from_snapshot(snapshot_from_session(srv[d].session))
    <3>1. SUFFICES ASSUME n \notin raced
                   PROVE  OnDisk(srv[d].path)' = session_from_snapshot(tmp[n])
      BY <1>1 DEF CleanInv, TmpIsSaved
    <3>2. tmp[n] \notin {NoFile, Torn}
      BY <1>1, <1>6, <3>1 DEF ServerInv, TmpWhole
    <3>3. snapshot'[n] = tmp[n] /\ srv'[d].path = n
      BY <1>3, <2>1, <2>2
    <3> HIDE DEF n
    <3>4. QED BY <3>2, <3>3 DEF OnDisk
  <2> HIDE DEF n
  <2>5. ASSUME NEW e \in Servers, srv'[e].pc = "rename", srv'[e].path \notin raced'
        PROVE  tmp'[srv'[e].path] = snapshot_from_session(srv'[e].session)
    <3>1. e # d /\ srv'[e] = srv[e] /\ Running(e)
      BY <1>3, <2>1, <2>5 DEF Running, Listening
    <3>2. QED BY <1>4, <2>2, <2>3, <2>5, <3>1 DEF CleanInv, TmpIsSaved
  <2>6. ASSUME NEW e \in Servers, Running(e)', ~srv'[e].dirty, srv'[e].path \notin raced'
        PROVE  AsSaved(srv'[e], OnDisk(srv[e].path)')
    <3>1. CASE e = d
      <4>1. /\ srv'[e].path = n /\ srv'[e].session = srv[d].session /\ n \notin raced
            /\ srv'[e].attached = FALSE
        BY <1>3, <1>4, <2>1, <2>6, <3>1
      <4>2. QED BY <2>4, <3>1, <4>1 DEF AsSaved
    <3>2. CASE e # d
      <4>1. /\ srv'[e] = srv[e] /\ Running(e) /\ ~srv[e].dirty /\ srv[e].path \notin raced
        BY <1>4, <2>1, <2>6, <3>2 DEF Running, Listening
      <4>2. AsSaved(srv[e], OnDisk(srv[e].path))
        BY <4>1 DEF CleanInv, CleanMeansSaved
      <4>3. OnDisk(srv[e].path)' = OnDisk(srv[e].path)
        BY <2>2, <2>3, <3>2, <4>1 DEF OnDisk
      <4>4. QED BY <4>1, <4>2, <4>3
    <3>3. QED BY <3>1, <3>2
  <2>7. QED BY <2>5, <2>6 DEF CleanInv, TmpIsSaved, CleanMeansSaved, AsSaved
<1>7. QED BY <1>5, <1>6 DEF RenameTmp, r, q, n

LEMMA RenameSessionClean ==
  ASSUME ServerInv, CleanInv, NEW d \in Servers, NEW n \in Names, rename_session(d, n)
  PROVE  CleanInv'
<1> DEFINE s == [srv[d].session EXCEPT !.name = n]
           q == [[[srv[d] EXCEPT !.session = s] EXCEPT !.socket = n] EXCEPT !.path = n]
           r == [q EXCEPT !.dirty = TRUE]
<1>1. srv[d].pc = "serving" /\ ProcessShape(srv[d])
  BY DEF rename_session, Serving, ServerInv, Shape
<1>2. /\ srv' = [srv EXCEPT ![d] = r] /\ UNCHANGED <<snapshot, tmp>>
      /\ raced \subseteq raced'
  BY DEF rename_session, Renamed, Dirty
<1> HIDE DEF s
<1>3. r.pc = "serving" /\ r.dirty = TRUE
  BY <1>1 DEF ProcessShape, Rec
<1> HIDE DEF r
<1>4. srv'[d] = r /\ \A e \in Servers \ {d} : srv'[e] = srv[e]
  BY <1>2 DEF ServerInv, Shape, Rec
<1>5. QED BY <1>2, <1>3, <1>4, CleanKept

LEMMA ShutdownClean ==
  ASSUME ServerInv, CleanInv, NEW d \in Servers, Shutdown(d)
  PROVE  CleanInv'
<1> DEFINE r == [[srv[d] EXCEPT !.pc = "shutdown"] EXCEPT !.closing = TRUE]
<1>1. srv[d].pc = "serving" /\ ProcessShape(srv[d])
  BY DEF Shutdown, Serving, ServerInv, Shape
<1>2. /\ r.pc = "shutdown" /\ r.dirty = srv[d].dirty /\ r.path = srv[d].path
      /\ r.session = srv[d].session /\ r.attached = srv[d].attached
  BY <1>1 DEF ProcessShape, Rec
<1>3. srv' = [srv EXCEPT ![d] = r] /\ UNCHANGED <<snapshot, tmp, raced>>
  BY DEF Shutdown, ServerInv, Shape, Rec, files
<1> HIDE DEF r
<1>4. srv'[d] = r /\ \A e \in Servers \ {d} : srv'[e] = srv[e]
  BY <1>3 DEF ServerInv, Shape, Rec
<1>5. \A found : AsSaved(srv[d], found) => AsSaved(srv'[d], found)
  BY <1>2, <1>4 DEF AsSaved
<1>6. QED BY <1>1, <1>2, <1>3, <1>4, <1>5, CleanKept DEF Running, Listening

LEMMA WithoutSessionClean ==
  ASSUME ServerInv, CleanInv, NEW d \in Servers,
         \/ \E n \in Names : Probe(d, n)
         \/ RemoveStale(d) \/ Bind(d) \/ DropListener(d) \/ Unlink(d) \/ Crash(d)
  PROVE  CleanInv'
<1>1. PICK r : srv' = [srv EXCEPT ![d] = r] /\ ~HasSession(r)
  BY WithoutSession
<1>2. UNCHANGED <<snapshot, tmp>> /\ raced \subseteq raced'
  BY DEF Probe, Starts, files, RemoveStale, Bind, DropListener, Unlink, Crash
<1>3. srv'[d] = r /\ \A e \in Servers \ {d} : srv'[e] = srv[e]
  BY <1>1 DEF ServerInv, Shape, Rec
<1>4. srv'[d].pc # "rename" /\ ~Running(d)'
  BY <1>1, <1>3 DEF HasSession, Running, Listening
<1>5. QED BY <1>2, <1>3, <1>4, CleanKept

LEMMA NextClean == ASSUME ServerInv, CleanInv, [Next]_vars PROVE CleanInv'
<1>1. CASE UNCHANGED vars
  BY <1>1 DEF vars, files, CleanInv, TmpIsSaved, CleanMeansSaved, Running, Listening, OnDisk,
              AsSaved
<1>2. ASSUME NEW d \in Servers, NEW n \in Names, Probe(d, n) \/ rename_session(d, n)
      PROVE  CleanInv'
  BY <1>2, WithoutSessionClean, RenameSessionClean
<1>3. ASSUME NEW d \in Servers, RemoveStale(d) \/ Bind(d) \/ Load(d)
      PROVE  CleanInv'
  BY <1>3, WithoutSessionClean, LoadClean
<1>4. ASSUME NEW d \in Servers, save_now(d) \/ maybe_auto_save(d) \/ SaveLast(d)
      PROVE  CleanInv'
  BY <1>4, SaveClean DEF save_now, maybe_auto_save, SaveLast, Serving
<1>5. ASSUME NEW d \in Servers, RenameTmp(d) \/ Shutdown(d) \/ DropListener(d)
                                  \/ Unlink(d) \/ Crash(d)
      PROVE  CleanInv'
  BY <1>5, RenameTmpClean, ShutdownClean, WithoutSessionClean
<1>6. ASSUME NEW d \in Servers, Message(d) PROVE CleanInv'
  BY <1>6, MessageClean
<1>7. QED BY <1>1, <1>2, <1>3, <1>4, <1>5, <1>6 DEF Next

(* A session that is not marked dirty is on disk as a save made now would   *)
(* leave it, after any interleaving of requests, torn or failed saves,      *)
(* renames and crashes (dirty is reset only by save_now, server.rs).        *)
THEOREM ServerCleanMeansSaved == Spec => []CleanMeansSaved
<1>1. Init => CleanInv
  BY DEF Init, Off, CleanInv, TmpIsSaved, CleanMeansSaved, Running, Listening
<1>2. ServerInv /\ CleanInv /\ [Next]_vars => CleanInv'
  BY NextClean
<1>3. CleanInv => CleanMeansSaved
  BY DEF CleanInv
<1>4. QED BY <1>1, <1>2, <1>3, ServerSafe, PTL DEF Spec
=============================================================================
