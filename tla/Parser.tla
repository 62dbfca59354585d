-------------------------------- MODULE Parser --------------------------------
(***************************************************************************)
(* Parser::advance (crates/emux-vt/src/parser.rs) as it is called, once    *)
(* for every read of a pane's output: in the ground state it looks ahead   *)
(* for a run of printable ASCII and prints it, then it handles one byte.   *)
(*                                                                         *)
(* The bytes of a read are chosen when they are looked at, and a read may  *)
(* end before each of them.  MaxRun bounds the look-ahead, MaxSequence and *)
(* MaxString the bytes of one control sequence and one OSC string.         *)
(***************************************************************************)
EXTENDS ParserMachine

CONSTANTS TextBytes,     \* printable ASCII that appears in text
          MaxRun, MaxSequence, MaxString

ASSUME TextAssumption == TextBytes \subseteq PrintableAscii

VARIABLES machine, performed,
          pc,        \* "loop": top of the loop, "scan", "emit", "byte"
          run,       \* printable bytes found and not yet printed
          next,      \* the byte that ended the scan, if the read goes on
          since      \* history: the bytes of the sequence being read

vars == <<machine, performed, pc, run, next, since>>

Init ==
  /\ machine = new /\ performed = <<>>
  /\ pc = "loop" /\ run = <<>> /\ next = <<>> /\ since = <<>>

\* In Ground the loop scans; the end of a read shows nowhere else.
StartScan ==
  /\ pc = "loop" /\ machine.state = "Ground"
  /\ pc' = "scan"
  /\ UNCHANGED <<machine, performed, run, next, since>>

Scan ==
  /\ pc = "scan"
  /\ \/ \E b \in TextBytes : Len(run) < MaxRun /\ run' = Append(run, b) /\ UNCHANGED <<pc, next>>
     \/ \E b \in Bytes \ PrintableAscii : next' = <<b>> /\ pc' = "emit" /\ UNCHANGED run
     \/ pc' = "emit" /\ UNCHANGED <<run, next>>           \* the end of the read
  /\ UNCHANGED <<machine, performed, since>>

Emit ==
  /\ pc = "emit" /\ run # <<>>
  /\ performed' = <<PrintChar(Head(run))>>
  /\ run' = Tail(run)
  /\ UNCHANGED <<machine, pc, next, since>>

(* Mutant: the index moves past the byte that ended the run. *)
EmitDone_skips ==
  /\ pc = "emit" /\ run = <<>>
  /\ pc' = "loop" /\ next' = <<>>
  /\ UNCHANGED <<machine, performed, run, since>>

EmitDone ==
  /\ pc = "emit" /\ run = <<>>
  /\ pc' = IF next = <<>> THEN "loop" ELSE "byte"
  /\ UNCHANGED <<machine, performed, run, next, since>>

InCsi == machine.state \in {"CsiEntry", "CsiParam", "CsiIntermediate"}
InDcs == machine.state \in {"DcsEntry", "DcsParam", "DcsIntermediate"}
InEscape == machine.state \in {"Escape", "EscapeIntermediate"}

Collecting ==
  {"Escape", "EscapeIntermediate", "CsiEntry", "CsiParam", "CsiIntermediate",
   "DcsEntry", "DcsParam", "DcsIntermediate", "OscString"}

\* Bytes that begin anew whatever was read before them.
Restarts(m, b) ==
  /\ m.state # "Utf8"
  /\ \/ b = "ESC" \/ m.state = "Ground"
     \/ m.state = "Escape" /\ b \in {"P", "[", "]", "X"}

Consume(b) ==
  LET s == advance_byte(machine, b)
  IN  /\ machine' = s.m
      /\ performed' = s.out
      /\ since' = IF s.m.state \notin Collecting THEN <<>>
                  ELSE IF Restarts(machine, b) THEN <<>> ELSE Append(since, b)

\* The byte that ended a scan.
HandleNext ==
  /\ pc = "byte"
  /\ Consume(Head(next))
  /\ pc' = "loop" /\ next' = <<>>
  /\ UNCHANGED run

\* Outside Ground every byte is handled by itself.
HandleByte ==
  /\ pc = "loop" /\ machine.state # "Ground"
  /\ Len(since) < IF machine.state = "OscString" THEN MaxString ELSE MaxSequence
  /\ \E b \in Bytes : Consume(b)
  /\ UNCHANGED <<pc, run, next>>

Next == StartScan \/ Scan \/ Emit \/ EmitDone \/ HandleNext \/ HandleByte

Spec == Init /\ [][Next]_vars
----------------------------------------------------------------------------
(* Properties *)

\* However the output is cut into reads, and although runs of text take
\* another path, every byte is handled once, in order, as if it were alone.
Stream == INSTANCE ByteStream WITH waiting <- run \o next
RefinesByteStream == Stream!Spec

\* The bytes of s that are in kinds, in order.
Kept(s, kinds) ==
  LET f[i \in 0..Len(s)] ==
        IF i = 0 THEN <<>>
        ELSE IF s[i] \in kinds THEN Append(f[i - 1], s[i]) ELSE f[i - 1]
  IN  f[Len(s)]

\* The numbers that digits and separators write: a digit extends the last
\* number, a separator begins another, which colon marks if it was one.
Numbers(text) ==
  LET f[i \in 0..Len(text)] ==
        IF i = 0 THEN <<[value |-> 0, colon |-> FALSE]>>
        ELSE IF text[i] \in Separators
        THEN Append(f[i - 1], [value |-> 0, colon |-> text[i] = ":"])
        ELSE [f[i - 1] EXCEPT ![Len(f[i - 1])].value = @ * Base + DigitValue(text[i])]
  IN  f[Len(text)]

Written(s) ==
  LET text == Kept(s, ParamBytes)
      all == Numbers(text)
      n == IF text = <<>> THEN 0 ELSE AtMost(Len(all), MaxParams)
  IN  [k \in 1..n |-> [value |-> AtMost(all[k].value, MaxValue), colon |-> all[k].colon]]

EndsInColon(s) ==
  LET text == Kept(s, ParamBytes)
  IN  text # <<>> /\ Last(text) = ":"

\* What a sequence would hand over if it ended now is what its own bytes say,
\* and nothing of an earlier or abandoned one: the first MaxParams parameters,
\* saturated, empty ones 0, colons marked (what a colon at the very end leaves
\* differs and is excepted).
ParamsAsWritten ==
  (InCsi \/ InDcs) /\ ~EndsInColon(since) =>
    LET p == machine.params
        w == Written(since)
    IN  /\ finished(p) = [k \in DOMAIN w |-> w[k].value]
        /\ finished_subparam_flags(p) = [k \in DOMAIN w |-> w[k].colon]
        /\ \A i \in 0..MaxParams :
             get_or(p, i, 7) = IF i + 1 \in DOMAIN w /\ w[i + 1].value # 0 THEN w[i + 1].value ELSE 7

\* A sequence carries its own intermediates, in order, no others.
IntermediatesAsWritten ==
  InCsi \/ InDcs \/ InEscape =>
    LET own == Kept(since, {"!", "?"})
    IN  machine.intermediates = SubSeq(own, 1, AtMost(Len(own), MaxIntermediates))

\* An OSC string holds what followed its introducer, without control bytes.
OscAsWritten ==
  machine.state = "OscString" =>
    LET own == Kept(since, Bytes \ C0)
    IN  machine.osc_data = [i \in 1..AtMost(Len(own), MaxOscData) |-> Datum(own[i])]

\* What is handed over with a sequence is its own, and all of it that fits.
SequenceAsWritten == ParamsAsWritten /\ IntermediatesAsWritten /\ OscAsWritten

After(m, b) == advance_byte(m, b).m

\* Whatever was sent before, three more bytes and a CAN bring the parser back
\* to text: only a UTF-8 character may swallow a CAN, and only three.
CancelRecovers ==
  \A b \in {"CAN", "A", "CONT"} :
    After(After(After(After(machine, b), b), b), "CAN").state = "Ground"
=============================================================================
