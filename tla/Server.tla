-------------------------------- MODULE Server --------------------------------
(***************************************************************************)
(* DaemonServer (crates/emux-daemon/src/server.rs): processes that start   *)
(* for a session name, bind its socket, restore its snapshot, answer       *)
(* messages, save, rename the session, shut down or crash.  They share the *)
(* file system: per name a socket file, a snapshot and the temporary file  *)
(* a save writes first.                                                    *)
(*                                                                         *)
(* Every system call that another process can see is a step.  Messages     *)
(* that only read are left out; layout, focus (saved, never restored) and  *)
(* the terminals' contents too.  A split may be refused for want of room.  *)
(* HOME is set, so that there is a path to save to.                        *)
(***************************************************************************)
EXTENDS Persistence, Integers, FiniteSets

CONSTANTS Servers,        \* processes
          Names,          \* session names
          Titles,
          Sizes, DefaultSize,   \* of a session; 80x24
          Saved,          \* name -> NoFile or the snapshot found there at the start
          Crashed,        \* names whose last process crashed
          NoFile, Stale,
          MaxStarts,      \* bound: processes started
          MaxChanges,     \* bound: messages and renames
          MaxKilled,      \* bound: panes killed in a tab
          MaxPaneId       \* bound: pane ids 0 .. MaxPaneId - 1

\* What a write that stopped short leaves: a file no snapshot can be read from.
Torn == [torn |-> TRUE]

ASSUME ServerAssumption ==
  /\ MaxStarts \in Nat /\ MaxChanges \in Nat /\ MaxKilled \in Nat /\ MaxPaneId \in Nat
  /\ \A n \in Names : Saved[n] # NoFile =>
       Saved[n] # Torn /\ Saved[n].active \in DOMAIN Saved[n].tabs
  /\ NoFile # Torn

VARIABLES srv,        \* the processes
          sockets,    \* name -> NoFile, Stale or the process listening on it
          snapshot,   \* name -> NoFile, Torn or a snapshot
          tmp,        \* name -> NoFile, Torn or a snapshot
          starts, changes,
          raced       \* history: names on which two processes got in each other's way

files == <<sockets, snapshot, tmp>>
vars == <<srv, files, starts, changes, raced>>

\* What a session kept under n may be called: n, or as the one that was found
\* there.  (The standalone program saves every session as "main".)
NamesUnder(n) == {n} \cup (IF Saved[n] = NoFile THEN {} ELSE {Saved[n].name})

Off == [pc |-> "off"]
Process(pc, name) == [pc |-> pc, socket |-> name]
Serving(d) == srv[d].pc = "serving"

\* Processes with a listener of their own.
Listening(d) == srv[d].pc \in {"load", "serving", "rename", "shutdown", "close"}
\* Processes that will remove the socket file of their name without looking.
Removing(d) == srv[d].pc \in {"remove", "unlink"}

Overlap(d, n) == \E e \in Servers \ {d} : (Listening(e) \/ Removing(e)) /\ srv[e].socket = n

Init ==
  /\ srv = [d \in Servers |-> Off]
  /\ sockets = [n \in Names |-> IF n \in Crashed THEN Stale ELSE NoFile]
  /\ snapshot = [n \in Names |-> Saved[n]]
  /\ tmp = [n \in Names |-> NoFile]
  /\ starts = 0 /\ changes = 0 /\ raced = {}
----------------------------------------------------------------------------
(* start *)

Starts == starts < MaxStarts /\ starts' = starts + 1 /\ UNCHANGED <<files, changes, raced>>

(* Mutant: nobody is asked whether the socket is alive. *)
Probe_unasked(d, n) ==
  /\ srv[d] = Off /\ Starts
  /\ srv' = [srv EXCEPT ![d] = Process(IF sockets[n] = NoFile THEN "bind" ELSE "remove", n)]

\* socket_path.exists() and UnixStream::connect.  With a live listener, start
\* returns SocketExists.
Probe(d, n) ==
  /\ srv[d] = Off /\ sockets[n] \notin Servers /\ Starts
  /\ srv' = [srv EXCEPT ![d] = Process(IF sockets[n] = NoFile THEN "bind" ELSE "remove", n)]

RemoveStale(d) ==
  /\ srv[d].pc = "remove"
  /\ sockets' = [sockets EXCEPT ![srv[d].socket] = NoFile]
  /\ srv' = [srv EXCEPT ![d].pc = "bind"]
  /\ UNCHANGED <<snapshot, tmp, starts, changes, raced>>

\* UnixListener::bind fails if the file exists.
Bind(d) ==
  /\ srv[d].pc = "bind"
  /\ LET n == srv[d].socket
     IN  IF sockets[n] # NoFile
         THEN srv' = [srv EXCEPT ![d] = Off] /\ UNCHANGED <<sockets, raced>>
         ELSE /\ sockets' = [sockets EXCEPT ![n] = d]
              /\ srv' = [srv EXCEPT ![d].pc = "load"]
              /\ raced' = IF Overlap(d, n) THEN raced \cup {n} ELSE raced
  /\ UNCHANGED <<snapshot, tmp, starts, changes>>

\* What load_session finds under a name, or the new session.
OnDisk(n) ==
  IF snapshot[n] \in {NoFile, Torn} THEN NewSession(n, DefaultSize)
  ELSE session_from_snapshot(snapshot[n])

\* attached is history: a client attached since the session was loaded or saved.
Load(d) ==
  /\ srv[d].pc = "load"
  /\ LET n == srv[d].socket
     IN  srv' = [srv EXCEPT ![d] =
           [pc |-> "serving", socket |-> n, path |-> n, session |-> OnDisk(n),
            dirty |-> FALSE, attached |-> FALSE, closing |-> FALSE, terminals |-> <<>>]]
  /\ UNCHANGED <<files, starts, changes, raced>>
----------------------------------------------------------------------------
(* handle_message *)

Tab(d) == srv[d].session.tabs[srv[d].session.active]
WithTab(s, t) == [s EXCEPT !.session.tabs[s.session.active] = t]
Dirty(s) == [s EXCEPT !.dirty = TRUE]

\* A message that leaves process d as s.  Killing panes is not counted: the
\* panes are.
Leave(d, s) ==
  /\ Serving(d)
  /\ srv' = [srv EXCEPT ![d] = s]
  /\ UNCHANGED <<files, starts, raced>>

\* One that changes nothing is no step.
Answer(d, s) ==
  Leave(d, s) /\ s # srv[d] /\ changes < MaxChanges /\ changes' = changes + 1

Sized(s, size) == [s EXCEPT !.session.size = size]

Resize(d, size) == Serving(d) /\ Answer(d, Dirty(Sized(srv[d], size)))

\* The client's size becomes the session's, which is not marked for it.
Attach(d, size) ==
  Serving(d) /\ Answer(d, [Sized(srv[d], size) EXCEPT !.attached = TRUE])

(* Mutant: the smallest free id is handed out. *)
AllocateId_recycles(t) ==
  CHOOSE id \in 0..t.next : id \notin DOMAIN t.panes /\ \A j \in 0..id-1 : j \in DOMAIN t.panes

AllocateId(t) == t.next

\* HashMap::insert.
Insert(map, key, value) ==
  [k \in DOMAIN map \cup {key} |-> IF k = key THEN value ELSE map[k]]

Split(t) ==
  LET pane == [title |-> Untitled, born |-> t.made]
  IN  [t EXCEPT !.panes = Insert(@, AllocateId(t), pane), !.next = @ + 1, !.made = @ + 1]

CanSplit(d) == Serving(d) /\ Tab(d).next < MaxPaneId

SpawnPane(d) == CanSplit(d) /\ Answer(d, Dirty(WithTab(srv[d], Split(Tab(d)))))

WithTerminal(s, id, born) == [s EXCEPT !.terminals = Insert(@, id, born)]

\* The terminal is spawned after the split; without one the pane stays.
SplitPane(d) ==
  /\ CanSplit(d)
  /\ LET s == Dirty(WithTab(srv[d], Split(Tab(d))))
     IN  \/ Answer(d, WithTerminal(s, AllocateId(Tab(d)), Tab(d).made))
         \/ Answer(d, s)

\* The terminal stays in pane_terminals.
KillPane(d, id) ==
  /\ Serving(d) /\ id \in DOMAIN Tab(d).panes /\ Cardinality(DOMAIN Tab(d).panes) > 1
  /\ Tab(d).made - Cardinality(DOMAIN Tab(d).panes) < MaxKilled
  /\ Leave(d, Dirty(WithTab(srv[d],
       [Tab(d) EXCEPT !.panes = [i \in DOMAIN @ \ {id} |-> @[i]]])))
  /\ UNCHANGED changes

ResizePane(d, id) ==
  Serving(d) /\ id \in DOMAIN Tab(d).panes /\ Answer(d, Dirty(srv[d]))

(* Mutant: the session is not marked. *)
SetPaneTitle_unmarked(d, id, title) ==
  /\ Serving(d) /\ id \in DOMAIN Tab(d).panes
  /\ Answer(d, WithTab(srv[d], [Tab(d) EXCEPT !.panes[id].title = title]))

SetPaneTitle(d, id, title) ==
  /\ Serving(d) /\ id \in DOMAIN Tab(d).panes
  /\ Answer(d, Dirty(WithTab(srv[d], [Tab(d) EXCEPT !.panes[id].title = title])))

\* A terminal started under an id that is no pane's.
Nobody == -1

\* Whether there is such a pane is not asked.
spawn_terminal_for_pane(d, id) ==
  /\ Serving(d)
  /\ Answer(d, WithTerminal(srv[d], id,
       IF id \in DOMAIN Tab(d).panes THEN Tab(d).panes[id].born ELSE Nobody))
----------------------------------------------------------------------------
(* Saving, renaming and ending *)

\* save_session: where it returns to, with or without success.
Return(d) == IF srv[d].closing THEN "close" ELSE "serving"

(* Mutant: the snapshot itself is written. *)
WriteTmp_in_place(d) ==
  /\ \E written \in {snapshot_from_session(srv[d].session), Torn} :
       snapshot' = [snapshot EXCEPT ![srv[d].path] = written]
  /\ srv' = [srv EXCEPT ![d].pc = Return(d)]
  /\ UNCHANGED <<sockets, tmp>>

\* std::fs::write of the temporary file, which may stop short.
WriteTmp(d) ==
  /\ \/ /\ tmp' = [tmp EXCEPT ![srv[d].path] = snapshot_from_session(srv[d].session)]
        /\ srv' = [srv EXCEPT ![d].pc = "rename"]
     \/ /\ tmp' = [tmp EXCEPT ![srv[d].path] = Torn]
        /\ srv' = [srv EXCEPT ![d].pc = Return(d)]
  /\ UNCHANGED <<sockets, snapshot>>

\* std::fs::rename, which may fail; only when it does not is the session clean.
RenameTmp(d) ==
  /\ srv[d].pc = "rename"
  /\ LET n == srv[d].path
     IN  \/ /\ tmp[n] # NoFile
            /\ snapshot' = [snapshot EXCEPT ![n] = tmp[n]]
            /\ tmp' = [tmp EXCEPT ![n] = NoFile]
            /\ srv' = [srv EXCEPT ![d].pc = Return(d), ![d].dirty = FALSE,
                            ![d].attached = FALSE]
         \/ srv' = [srv EXCEPT ![d].pc = Return(d)] /\ UNCHANGED <<snapshot, tmp>>
  /\ UNCHANGED <<sockets, starts, changes, raced>>

Save(d) == WriteTmp(d) /\ UNCHANGED <<starts, changes, raced>>

save_now(d) == Serving(d) /\ Save(d)

\* Called from time to time; the save counts as done even when it failed, but
\* the session stays dirty.
maybe_auto_save(d) == Serving(d) /\ srv[d].dirty /\ Save(d)

Renamed(s, n) == Dirty([s EXCEPT !.session.name = n, !.socket = n, !.path = n])

\* std::fs::rename replaces whatever is there.
rename_session(d, n) ==
  /\ Serving(d) /\ n # srv[d].socket
  /\ changes < MaxChanges /\ changes' = changes + 1
  /\ LET old == srv[d].socket
     IN  /\ sockets[old] # NoFile
         /\ sockets' = [sockets EXCEPT ![n] = sockets[old], ![old] = NoFile]
         /\ srv' = [srv EXCEPT ![d] = Renamed(@, n)]
         /\ raced' = IF Overlap(d, n) \/ old \in raced THEN raced \cup {n} ELSE raced
  /\ UNCHANGED <<snapshot, tmp, starts>>

Shutdown(d) ==
  /\ Serving(d)
  /\ srv' = [srv EXCEPT ![d].pc = "shutdown", ![d].closing = TRUE]
  /\ UNCHANGED <<files, starts, changes, raced>>

SaveLast(d) == srv[d].pc = "shutdown" /\ Save(d)

\* A listener is gone: what it left at any path is stale.
Closed(d) == [n \in Names |-> IF sockets[n] = d THEN Stale ELSE sockets[n]]

DropListener(d) ==
  /\ srv[d].pc = "close"
  /\ sockets' = Closed(d)
  /\ srv' = [srv EXCEPT ![d] = Process("unlink", srv[d].socket)]
  /\ UNCHANGED <<snapshot, tmp, starts, changes, raced>>

Unlink(d) ==
  /\ srv[d].pc = "unlink"
  /\ sockets' = [sockets EXCEPT ![srv[d].socket] = NoFile]
  /\ srv' = [srv EXCEPT ![d] = Off]
  /\ UNCHANGED <<snapshot, tmp, starts, changes, raced>>

\* Killed at any point.
Crash(d) ==
  /\ srv[d] # Off
  /\ sockets' = Closed(d)
  /\ srv' = [srv EXCEPT ![d] = Off]
  /\ UNCHANGED <<snapshot, tmp, starts, changes, raced>>
----------------------------------------------------------------------------
PaneId == 0..MaxPaneId - 1

Message(d) ==
  \/ \E id \in PaneId : KillPane(d, id) \/ ResizePane(d, id)
  \/ Serving(d) /\ \E id \in 0..Tab(d).next : spawn_terminal_for_pane(d, id)
  \/ \E id \in PaneId, t \in Titles : SetPaneTitle(d, id, t)
  \/ \E size \in Sizes : Resize(d, size) \/ Attach(d, size)
  \/ SpawnPane(d) \/ SplitPane(d)

Next ==
  \E d \in Servers :
    \/ \E n \in Names : Probe(d, n) \/ rename_session(d, n)
    \/ RemoveStale(d) \/ Bind(d) \/ Load(d)
    \/ Message(d)
    \/ save_now(d) \/ maybe_auto_save(d) \/ RenameTmp(d)
    \/ Shutdown(d) \/ SaveLast(d) \/ DropListener(d) \/ Unlink(d) \/ Crash(d)

Spec == Init /\ [][Next]_vars
----------------------------------------------------------------------------
(* Properties *)

Running(d) == Listening(d) /\ srv[d].pc # "load"

\* A daemon can be reached at the path of its session as long as it runs, and
\* a second one for the name is refused: unless two processes got in each
\* other's way on that name (one was about to remove the socket file, or ran
\* there, when the other bound or renamed).
Reachable ==
  \A d \in Servers :
    Listening(d) /\ srv[d].socket \notin raced => sockets[srv[d].socket] = d

\* What was found on disk is process r's session as a save would leave it, but
\* for the size if a client attached since the last one.
AsSaved(r, found) ==
  LET saved == session_from_snapshot(snapshot_from_session(r.session))
  IN  found = IF r.attached THEN [saved EXCEPT !.size = found.size] ELSE saved

\* While the session is not marked dirty, a crash loses nothing that a save
\* would have kept, except the size a client attached with, which marks nothing:
\* restoring from disk gives what restoring from a save made now would give.
CleanMeansSaved ==
  \A d \in Servers :
    Running(d) /\ ~srv[d].dirty /\ srv[d].path \notin raced
      => AsSaved(srv[d], OnDisk(srv[d].path))

\* A save cut short, by an error or a crash, never damages the snapshot found
\* under a name, unless two processes shared the temporary file; and no rename
\* puts a session under the name of another: what is found there is called as
\* its name, or as what was found there at the start.
SnapshotSound ==
  \A n \in Names :
    /\ snapshot[n] = Torn => n \in raced
    /\ snapshot[n] \notin {NoFile, Torn} => snapshot[n].name \in NamesUnder(n)

\* A pane never finds the terminal of another: the one a killed pane leaves in
\* pane_terminals is not taken for its own by a later pane.  A terminal that was
\* asked for under an id before there was a pane of it is nobody's.
OwnTerminal ==
  \A d \in Servers :
    Running(d) =>
      \A id \in DOMAIN srv[d].terminals \cap DOMAIN Tab(d).panes :
        srv[d].terminals[id] \in {Tab(d).panes[id].born, Nobody}
=============================================================================
