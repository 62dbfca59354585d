------------------------------- MODULE Daemon -------------------------------
(***************************************************************************)
(* The daemon's loop (bins/emux/src/daemon.rs, run_daemon_loop_inner) and  *)
(* the clients that talk to it over one connection each, in frames of      *)
(* crates/emux-ipc/src/codec.rs.  A pass of the loop accepts one           *)
(* connection, polls the PTYs, streams the output to the attached clients, *)
(* reads a message from every other client under a time limit, and moves   *)
(* or drops the clients it has answered.                                   *)
(*                                                                         *)
(* A request frame reaches the daemon in up to two parts, cut anywhere.    *)
(* The output of all PTYs is one sequence of numbered chunks.  A client's  *)
(* socket buffer holds BufCap frames.  What requests do to the session is  *)
(* the subject of module App.                                              *)
(***************************************************************************)
EXTENDS Naturals, SequencesExt

CONSTANTS
  Clients,
  Kinds,       \* the requests clients make, a subset of AllKinds
  MaxChunks,   \* bound: chunks of output the shells ever write
  PtyCap,      \* chunks a PTY holds before its shell blocks
  BufCap,      \* frames a client's socket holds before a write would block
  ShellEchoes  \* whether a shell blocked on output also stops reading

AllKinds == {"Attach", "Kill", "Keys", "Capture", "Other"}

ASSUME DaemonAssumption ==
  /\ Kinds \subseteq AllKinds
  /\ MaxChunks \in Nat
  /\ PtyCap \in Nat \ {0}
  /\ BufCap \in Nat \ {0}
  /\ ShellEchoes \in BOOLEAN

VARIABLES
  \* the clients' side
  request,   \* what each client asks, "unsent", or "none" before it connects
  sent,      \* parts of its request frame written so far, 0 .. 2
  hung_up,   \* whether it closed its end
  replied,   \* whether it was sent a reply
  stream,    \* the chunks sent to it as PtyOutput frames
  unread,    \* how many of them are still in its socket buffer
  \* the shells' side
  produced,  \* chunks written so far
  pending,   \* chunks in the PTYs
  \* the daemon
  backlog,          \* connections not accepted yet
  ipc_clients,
  attached_clients,
  taken,            \* parts of each frame that read_message has consumed
  pty_output,       \* chunks of this pass
  i,                \* position of the loop over clients, from 1
  dead_attached,    \* indices of attached clients whose write failed
  to_remove,        \* <<client, move to attached>> of this pass
  shutdown,
  phase,
  \* history
  from,             \* last chunk taken from the PTYs before each Attach
  captured          \* chunks that capture_pane took from the PTYs

client_vars == <<request, sent, hung_up>>
lists == <<backlog, ipc_clients, attached_clients>>
vars == <<request, sent, hung_up, replied, stream, unread, produced, pending,
          backlog, ipc_clients, attached_clients, taken, pty_output, i,
          dead_attached, to_remove, shutdown, phase, from, captured>>

(* The chunks the daemon has taken from the PTYs. *)
Drained == produced - Len(pending)

(* The connections the daemon holds open. *)
Connected == ToSet(backlog) \cup ToSet(ipc_clients) \cup ToSet(attached_clients)

-----------------------------------------------------------------------------
Init ==
  /\ request = [c \in Clients |-> "none"]
  /\ sent = [c \in Clients |-> 0]
  /\ hung_up = [c \in Clients |-> FALSE]
  /\ replied = [c \in Clients |-> FALSE]
  /\ stream = [c \in Clients |-> <<>>]
  /\ unread = [c \in Clients |-> 0]
  /\ produced = 0
  /\ pending = <<>>
  /\ backlog = <<>>
  /\ ipc_clients = <<>>
  /\ attached_clients = <<>>
  /\ taken = [c \in Clients |-> 0]
  /\ pty_output = <<>>
  /\ i = 1
  /\ dead_attached = <<>>
  /\ to_remove = <<>>
  /\ shutdown = FALSE
  /\ phase = "accept"
  /\ from = [c \in Clients |-> 0]
  /\ captured = {}


-----------------------------------------------------------------------------
(* Clients: DaemonClient::connect, send (a frame is written in one or two   *)
(* parts), recv and the drop of the connection.                             *)
Connect(c) ==
  /\ phase # "exited"
  /\ request[c] = "none"
  /\ request' = [request EXCEPT ![c] = "unsent"]
  /\ backlog' = Append(backlog, c)
  /\ UNCHANGED <<sent, hung_up, replied, stream, unread, produced, pending, ipc_clients,
                 attached_clients, taken, pty_output, i, dead_attached, to_remove,
                 shutdown, phase, from, captured>>

SendPart(c) ==
  /\ c \in Connected
  /\ ~hung_up[c]
  /\ sent[c] = 0
  /\ sent' = [sent EXCEPT ![c] = 1]
  /\ UNCHANGED <<request, hung_up, replied, stream, unread, produced, pending, lists,
                 taken, pty_output, i, dead_attached, to_remove, shutdown, phase, from,
                 captured>>

SendRest(c, k) ==
  /\ c \in Connected
  /\ ~hung_up[c]
  /\ sent[c] < 2
  /\ sent' = [sent EXCEPT ![c] = 2]
  /\ request' = [request EXCEPT ![c] = k]
  /\ UNCHANGED <<hung_up, replied, stream, unread, produced, pending, lists, taken,
                 pty_output, i, dead_attached, to_remove, shutdown, phase, from, captured>>

Receive(c) ==
  /\ c \in Connected
  /\ unread[c] > 0
  /\ unread' = [unread EXCEPT ![c] = 0]
  /\ UNCHANGED <<client_vars, replied, stream, produced, pending, lists, taken,
                 pty_output, i, dead_attached, to_remove, shutdown, phase, from, captured>>

HangUp(c) ==
  /\ c \in Connected
  /\ ~hung_up[c]
  /\ hung_up' = [hung_up EXCEPT ![c] = TRUE]
  /\ UNCHANGED <<request, sent, replied, stream, unread, produced, pending, lists, taken,
                 pty_output, i, dead_attached, to_remove, shutdown, phase, from, captured>>

(* A shell writes; it blocks while its PTY is full, and goes with the       *)
(* daemon.                                                                  *)
ShellWrites ==
  /\ phase # "exited"
  /\ produced < MaxChunks
  /\ Len(pending) < PtyCap
  /\ produced' = produced + 1
  /\ pending' = Append(pending, produced')
  /\ UNCHANGED <<client_vars, replied, stream, unread, lists, taken, pty_output, i,
                 dead_attached, to_remove, shutdown, phase, from, captured>>

-----------------------------------------------------------------------------
(* listener.try_accept: at most one connection a pass. *)
Accept ==
  /\ phase = "accept"
  /\ phase' = "poll"
  /\ IF backlog = <<>> THEN UNCHANGED <<backlog, ipc_clients>>
     ELSE /\ backlog' = Tail(backlog)
          /\ ipc_clients' = Append(ipc_clients, Head(backlog))
  /\ UNCHANGED <<client_vars, replied, stream, unread, produced, pending,
                 attached_clients, taken, pty_output, i, dead_attached, to_remove,
                 shutdown, from, captured>>

(* Every PTY is read until it is empty. *)
PollPty ==
  /\ phase = "poll"
  /\ phase' = "stream"
  /\ pty_output' = pending
  /\ pending' = <<>>
  /\ UNCHANGED <<client_vars, replied, stream, unread, produced, lists, taken, i,
                 dead_attached, to_remove, shutdown, from, captured>>

(* Mutant: a write that would block is skipped and the client kept. *)
StreamToClient_skips ==
  LET c == attached_clients[i]
      free == IF hung_up[c] THEN 0 ELSE BufCap - unread[c]
      n == IF Len(pty_output) > free THEN free ELSE Len(pty_output)
  IN  /\ phase = "stream"
      /\ i \in DOMAIN attached_clients
      /\ stream' = [stream EXCEPT ![c] = @ \o SubSeq(pty_output, 1, n)]
      /\ unread' = [unread EXCEPT ![c] = @ + n]
      /\ dead_attached' = IF hung_up[c] /\ n < Len(pty_output)
                          THEN Append(dead_attached, i) ELSE dead_attached
      /\ i' = i + 1
      /\ UNCHANGED <<client_vars, replied, produced, pending, lists, taken, pty_output,
                     to_remove, shutdown, phase, from, captured>>

(* write_all of every encoded chunk to a non-blocking stream: the first one *)
(* that fails, since the buffer is full or the client is gone, makes the    *)
(* client dead.                                                             *)
StreamToClient ==
  LET c == attached_clients[i]
      free == IF hung_up[c] THEN 0 ELSE BufCap - unread[c]
      n == IF Len(pty_output) > free THEN free ELSE Len(pty_output)
  IN  /\ phase = "stream"
      /\ i \in DOMAIN attached_clients
      /\ stream' = [stream EXCEPT ![c] = @ \o SubSeq(pty_output, 1, n)]
      /\ unread' = [unread EXCEPT ![c] = @ + n]
      /\ dead_attached' = IF n < Len(pty_output) THEN Append(dead_attached, i)
                          ELSE dead_attached
      /\ i' = i + 1
      /\ UNCHANGED <<client_vars, replied, produced, pending, lists, taken, pty_output,
                     to_remove, shutdown, phase, from, captured>>

(* The dead ones are removed by index, the last one first. *)
DropDead ==
  /\ phase = "stream"
  /\ i > Len(attached_clients)
  /\ dead_attached # <<>>
  /\ attached_clients' = RemoveAt(attached_clients, Last(dead_attached))
  /\ dead_attached' = Front(dead_attached)
  /\ UNCHANGED <<client_vars, replied, stream, unread, produced, pending, backlog,
                 ipc_clients, taken, pty_output, i, to_remove, shutdown, phase, from,
                 captured>>

StartReading ==
  /\ phase = "stream"
  /\ i > Len(attached_clients)
  /\ dead_attached = <<>>
  /\ pty_output' = <<>>
  /\ i' = 1
  /\ phase' = "read"
  /\ UNCHANGED <<client_vars, replied, stream, unread, produced, pending, lists, taken,
                 dead_attached, to_remove, shutdown, from, captured>>

-----------------------------------------------------------------------------
Reading(c) == phase = "read" /\ i \in DOMAIN ipc_clients /\ ipc_clients[i] = c

(* The reply is written and the client marked for the end of the pass. *)
Answer(c, attach) ==
  /\ replied' = [replied EXCEPT ![c] = TRUE]
  /\ to_remove' = Append(to_remove, <<c, attach>>)
  /\ i' = i + 1
  /\ phase' = "read"

(* read_message gets the whole frame. *)
ReadRequest(c, k) ==
  /\ Reading(c)
  /\ request[c] = k
  /\ taken[c] = 0
  /\ sent[c] = 2
  /\ taken' = [taken EXCEPT ![c] = 2]

HandleAttach(c) ==
  /\ ReadRequest(c, "Attach")
  /\ Answer(c, TRUE)
  /\ from' = [from EXCEPT ![c] = Drained]
  /\ UNCHANGED <<client_vars, stream, unread, produced, pending, lists, pty_output,
                 dead_attached, shutdown, captured>>

HandleKill(c) ==
  /\ ReadRequest(c, "Kill")
  /\ shutdown' = TRUE
  /\ Answer(c, FALSE)
  /\ UNCHANGED <<client_vars, stream, unread, produced, pending, lists, pty_output,
                 dead_attached, from, captured>>

(* Every request that neither waits nor touches the streams: Detach,        *)
(* KillSession with another name, and the rest of handle_ipc.               *)
HandleOther(c) ==
  /\ ReadRequest(c, "Other")
  /\ Answer(c, FALSE)
  /\ UNCHANGED <<client_vars, stream, unread, produced, pending, lists, pty_output,
                 dead_attached, shutdown, from, captured>>

(* KeyInput, SendKeys: pty_write_all retries until the shell has read all.  *)
HandleKeys(c) ==
  /\ ReadRequest(c, "Keys")
  /\ phase' = "typing"
  /\ UNCHANGED <<client_vars, replied, stream, unread, produced, pending, lists,
                 pty_output, i, dead_attached, to_remove, shutdown, from, captured>>

(* The shell reads what was typed; one that echoes can do so only while its *)
(* PTY has room for output.                                                 *)
ShellReads ==
  /\ phase = "typing"
  /\ ShellEchoes => Len(pending) < PtyCap
  /\ Answer(ipc_clients[i], FALSE)
  /\ UNCHANGED <<client_vars, stream, unread, produced, pending, lists, taken,
                 pty_output, dead_attached, shutdown, from, captured>>

(* CapturePane: capture_pane empties the PTY into the screen; the reply is  *)
(* large and the stream blocking.                                           *)
HandleCapture(c) ==
  /\ ReadRequest(c, "Capture")
  /\ captured' = captured \cup ToSet(pending)
  /\ pending' = <<>>
  /\ phase' = "writing"
  /\ UNCHANGED <<client_vars, replied, stream, unread, produced, lists, pty_output, i,
                 dead_attached, to_remove, shutdown, from>>

(* The client takes the large reply; or it is gone and the error ignored.   *)
ClientTakesReply ==
  /\ phase = "writing"
  /\ Answer(ipc_clients[i], FALSE)
  /\ UNCHANGED <<client_vars, stream, unread, produced, pending, lists, taken,
                 pty_output, dead_attached, shutdown, from, captured>>

(* Mutant: the loop over the clients ends at the first silent one. *)
ReadTimesOut_breaks(c) ==
  /\ Reading(c)
  /\ ~hung_up[c]
  /\ sent[c] < 2 \/ taken[c] > 0
  /\ taken' = [taken EXCEPT ![c] = sent[c]]
  /\ i' = Len(ipc_clients) + 1
  /\ UNCHANGED <<client_vars, replied, stream, unread, produced, pending, lists,
                 pty_output, dead_attached, to_remove, shutdown, phase, from, captured>>

(* read_exact waits 50 ms and gives up: what it has read is lost.  After    *)
(* that the rest of the frame is misread: it may name a length to wait for. *)
ReadTimesOut(c) ==
  /\ Reading(c)
  /\ ~hung_up[c]
  /\ sent[c] < 2 \/ taken[c] > 0
  /\ taken' = [taken EXCEPT ![c] = sent[c]]
  /\ i' = i + 1
  /\ UNCHANGED <<client_vars, replied, stream, unread, produced, pending, lists,
                 pty_output, dead_attached, to_remove, shutdown, phase, from, captured>>

(* Any other error: the client hung up within a frame, or the rest of a     *)
(* frame makes no sense as a length.                                        *)
ReadFails(c) ==
  /\ Reading(c)
  /\ \/ hung_up[c] /\ (sent[c] < 2 \/ taken[c] > 0)
     \/ taken[c] = 1 /\ sent[c] = 2
  /\ taken' = [taken EXCEPT ![c] = sent[c]]
  /\ to_remove' = Append(to_remove, <<c, FALSE>>)
  /\ i' = i + 1
  /\ UNCHANGED <<client_vars, replied, stream, unread, produced, pending, lists,
                 pty_output, dead_attached, shutdown, phase, from, captured>>

-----------------------------------------------------------------------------
(* The marked clients leave ipc_clients, found by their id, last one first. *)
MoveClient ==
  LET r == Last(to_remove)
  IN  /\ phase = "read"
      /\ i > Len(ipc_clients)
      /\ to_remove # <<>>
      /\ \E pos \in DOMAIN ipc_clients :
           /\ ipc_clients[pos] = r[1]
           /\ ipc_clients' = RemoveAt(ipc_clients, pos)
      /\ attached_clients' = IF r[2] THEN Append(attached_clients, r[1])
                             ELSE attached_clients
      /\ to_remove' = Front(to_remove)
      /\ UNCHANGED <<client_vars, replied, stream, unread, produced, pending, backlog,
                     taken, pty_output, i, dead_attached, shutdown, phase, from, captured>>

EndPass ==
  /\ phase = "read"
  /\ i > Len(ipc_clients)
  /\ to_remove = <<>>
  /\ ~shutdown
  /\ i' = 1
  /\ phase' = "accept"
  /\ UNCHANGED <<client_vars, replied, stream, unread, produced, pending, lists, taken,
                 pty_output, dead_attached, to_remove, shutdown, from, captured>>

(* The end of the last pass: the socket is removed, all streams close. *)
Cleanup ==
  /\ phase = "read"
  /\ i > Len(ipc_clients)
  /\ to_remove = <<>>
  /\ shutdown
  /\ backlog' = <<>>
  /\ ipc_clients' = <<>>
  /\ attached_clients' = <<>>
  /\ i' = 1
  /\ phase' = "exited"
  /\ UNCHANGED <<client_vars, replied, stream, unread, produced, pending, taken,
                 pty_output, dead_attached, to_remove, shutdown, from, captured>>

-----------------------------------------------------------------------------
Loop ==
  \/ Accept \/ PollPty \/ StreamToClient \/ DropDead \/ StartReading
  \/ \E c \in Clients :
       \/ HandleAttach(c) \/ HandleKill(c) \/ HandleOther(c)
       \/ HandleKeys(c) \/ HandleCapture(c)
       \/ ReadTimesOut(c) \/ ReadFails(c)
  \/ MoveClient \/ EndPass \/ Cleanup

Next ==
  \/ Loop
  \/ ShellWrites \/ ShellReads \/ ClientTakesReply
  \/ \E c \in Clients :
       \/ Connect(c) \/ SendPart(c)
       \/ \E k \in Kinds : SendRest(c, k)
       \/ Receive(c) \/ HangUp(c)

Spec == Init /\ [][Next]_vars

(* The loop goes on; a shell reads its input and a client its reply.  A     *)
(* client need not send what it connected for, nor a shell write.           *)
FairSpec == Spec /\ WF_vars(Loop) /\ WF_vars(ShellReads) /\ WF_vars(ClientTakesReply)

-----------------------------------------------------------------------------
(* The chunks up to the n-th that client c should have been sent. *)
Due(c, n) == {j \in from[c] + 1 .. n : j \notin captured}

(* It was sent these, each once and in order. *)
Has(c, n) ==
  /\ \A j, k \in DOMAIN stream[c] : j < k => stream[c][j] < stream[c][k]
  /\ ToSet(stream[c]) = Due(c, n)

(* A client that is still attached has been sent, in order and without a    *)
(* gap, all output the daemon took from the PTYs since it was attached, but *)
(* for what capture_pane took: a client that cannot keep up is dropped, not *)
(* left with holes, and the drop of one does not hit another.               *)
MissesOnlyCaptured ==
  phase = "accept" => \A c \in ToSet(attached_clients) : Has(c, Drained)

(* Whoever writes a whole request gets a reply, or the end of its stream,   *)
(* whatever other clients do: none of them can hold up the loop by staying  *)
(* silent, sending half a frame or not reading its stream.                  *)
EveryoneServed ==
  \A c \in Clients :
    (sent[c] = 2 /\ taken[c] = 0)
      ~> (replied[c] \/ c \notin Connected)

=============================================================================
