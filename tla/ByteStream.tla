------------------------------ MODULE ByteStream ------------------------------
(***************************************************************************)
(* What a terminal's parser promises: its input is one stream of bytes,    *)
(* and each byte, in its turn, moves the machine on and is answered by its *)
(* actions.  How reads cut the stream, and how many bytes are looked at    *)
(* together, makes no difference.                                          *)
(***************************************************************************)
EXTENDS Sequences

CONSTANTS Bytes,
          new,                  \* the machine at the start
          advance_byte(_, _)    \* machine and byte to the next machine, m, and its actions, out

VARIABLES machine,
          performed,    \* the actions of the last byte
          waiting       \* bytes received and not handled

Init == machine = new /\ performed = <<>> /\ waiting = <<>>

Handles(b) ==
  /\ machine' = advance_byte(machine, b).m
  /\ performed' = advance_byte(machine, b).out

Receive ==
  /\ \E b \in Bytes : waiting' = Append(waiting, b)
  /\ UNCHANGED <<machine, performed>>

Take == waiting # <<>> /\ Handles(Head(waiting)) /\ waiting' = Tail(waiting)

ReceiveAndTake == waiting = <<>> /\ (\E b \in Bytes : Handles(b)) /\ waiting' = <<>>

Next == Receive \/ Take \/ ReceiveAndTake

Spec == Init /\ [][Next]_<<machine, performed, waiting>>
=============================================================================
