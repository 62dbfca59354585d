---------------------------- MODULE ParserMachine ----------------------------
(***************************************************************************)
(* The state machine of the VT parser (crates/emux-vt/src/parser.rs): what *)
(* one byte does to it and which actions it emits.                         *)
(*                                                                         *)
(* Bytes are represented by classes that no state tells apart.  "A" stands *)
(* for the final bytes without a meaning of their own, "!" for the         *)
(* intermediates, "?" for the private marks, "X" for the three introducers *)
(* SOS, PM and APC.                                                        *)
(***************************************************************************)
EXTENDS Params, SequencesExt

CONSTANTS MaxIntermediates,     \* MAX_INTERMEDIATES, 4
          MaxOscData            \* MAX_OSC_DATA, 65536

ASSUME BufferAssumption == MaxIntermediates \in Nat /\ MaxOscData \in Nat

ParamBytes == Digits \cup Separators
Finals == {"A", "[", "]", "P", "X", "\\"}
PrintableAscii == ParamBytes \cup Finals \cup {"!", "?"}
C0 == {"BEL", "LF"}
Introducers8 == {"DCS", "CSI", "OSC", "SOS"}
C1 == Introducers8 \cup {"ST", "NEL"}           \* 0x80 .. 0x9f
Leads == {"U2", "U3", "U4", "OVERLONG"}          \* OVERLONG: 0xc0 and 0xc1
Bytes == PrintableAscii \cup C0 \cup C1 \cup Leads \cup {"CAN", "ESC", "DEL", "CONT", "BAD"}

States == {"Ground", "Escape", "EscapeIntermediate", "CsiEntry", "CsiParam",
           "CsiIntermediate", "CsiIgnore", "OscString", "DcsEntry", "DcsParam",
           "DcsIntermediate", "DcsPassthrough", "DcsIgnore", "SosPmApcString", "Utf8"}

\* Of utf8_buf the first byte is kept, and whether it can still become a
\* character.
NoUtf8 == [lead |-> "BAD", valid |-> FALSE, idx |-> 0, len |-> 0]

new ==
  [state |-> "Ground", params |-> NoParams, intermediates |-> <<>>, osc_data |-> <<>>,
   utf8 |-> NoUtf8]

PrintChar(c) == [kind |-> "Print", of |-> c]
Execute(b) == [kind |-> "Execute", of |-> b]
CsiDispatch(m, b) ==
  [kind |-> "CsiDispatch", params |-> m.params, intermediates |-> m.intermediates, of |-> b]
EscDispatch(m, b) == [kind |-> "EscDispatch", intermediates |-> m.intermediates, of |-> b]
OscDispatch(parts) == [kind |-> "OscDispatch", of |-> parts]
DcsHook(m, b) ==
  [kind |-> "DcsHook", params |-> m.params, intermediates |-> m.intermediates, of |-> b]
DcsPut(b) == [kind |-> "DcsPut", of |-> b]
DcsUnhook == [kind |-> "DcsUnhook"]

\* A step: the new machine and the actions performed.
Stay(m) == [m |-> m, out |-> <<>>]
Do(m, a) == [m |-> m, out |-> <<a>>]
To(m, s) == [m EXCEPT !.state = s]

(* Mutant: the intermediates of the last sequence are kept. *)
Clear_params_only(m) == [m EXCEPT !.params = NoParams]

Clear(m) == [m EXCEPT !.params = NoParams, !.intermediates = <<>>]

PushIntermediate(m, b) ==
  IF Len(m.intermediates) < MaxIntermediates
  THEN [m EXCEPT !.intermediates = Append(@, b)] ELSE m
PushParam(m, b) == [m EXCEPT !.params = push(@, b)]

\* OSC data are told apart only as far as they are separators.
Datum(b) == IF b = ";" THEN ";" ELSE "data"
PushOsc(m, b) ==
  IF Len(m.osc_data) < MaxOscData THEN [m EXCEPT !.osc_data = Append(@, Datum(b))] ELSE m
----------------------------------------------------------------------------
\* Introducers of strings and sequences, from Ground (8 bit) and Escape (7 bit).
EnterDcs(m) == Stay(To(Clear(m), "DcsEntry"))
EnterCsi(m) == Stay(To(Clear(m), "CsiEntry"))

EnterOsc(m) == Stay([To(m, "OscString") EXCEPT !.osc_data = <<>>])
EnterString(m) == Stay(To(m, "SosPmApcString"))

LeadLength(b) == CASE b = "U3" -> 3 [] b = "U4" -> 4 [] OTHER -> 2

EnterUtf8(m, b) ==
  Stay([To(m, "Utf8") EXCEPT
          !.utf8 = [lead |-> b, valid |-> b # "OVERLONG", idx |-> 1, len |-> LeadLength(b)]])

\* A continuation is taken whatever it is, even ESC or CAN; a character is
\* printed when the last has come and std::str::from_utf8 accepts them.
Continue(m, b) ==
  LET u == [m.utf8 EXCEPT !.idx = @ + 1, !.valid = @ /\ b \in C1 \cup {"CONT"}]
  IN  IF u.idx # u.len THEN Stay([m EXCEPT !.utf8 = u])
      ELSE [m |-> [To(m, "Ground") EXCEPT !.utf8 = NoUtf8],
            out |-> IF u.valid THEN <<PrintChar(u.lead)>> ELSE <<>>]

ground(m, b) ==
  CASE b \in C0 \cup {"NEL"} -> Do(m, Execute(b))
    [] b \in PrintableAscii -> Do(m, PrintChar(b))
    [] b = "DCS" -> EnterDcs(m)
    [] b = "CSI" -> EnterCsi(m)
    [] b = "OSC" -> EnterOsc(m)
    [] b = "SOS" -> EnterString(m)
    [] b \in Leads -> EnterUtf8(m, b)
    [] OTHER -> Stay(m)

escape(m, b) ==
  CASE b \in C0 -> Do(m, Execute(b))
    [] b = "!" -> Stay(To(PushIntermediate(m, b), "EscapeIntermediate"))
    [] b \in ParamBytes \cup {"?", "A", "\\"} -> Do(To(m, "Ground"), EscDispatch(m, b))
    [] b = "P" -> EnterDcs(m)
    [] b = "[" -> EnterCsi(m)
    [] b = "]" -> EnterOsc(m)
    [] b = "X" -> EnterString(m)
    [] b = "DEL" -> Stay(m)
    [] OTHER -> Stay(To(m, "Ground"))

escape_intermediate(m, b) ==
  CASE b \in C0 -> Do(m, Execute(b))
    [] b = "!" -> Stay(PushIntermediate(m, b))
    [] b \in PrintableAscii \ {"!"} -> Do(To(m, "Ground"), EscDispatch(m, b))
    [] b = "DEL" -> Stay(m)
    [] OTHER -> Stay(To(m, "Ground"))

\* What csi_entry, csi_param and csi_intermediate have in common.
CsiCommon(m, b) ==
  CASE b \in C0 -> Do(m, Execute(b))
    [] b = "!" -> Stay(To(PushIntermediate(m, b), "CsiIntermediate"))
    [] b \in Finals -> Do(To(m, "Ground"), CsiDispatch(m, b))
    [] b = "DEL" -> Stay(m)
    [] OTHER -> Stay(To(m, "Ground"))

csi_entry(m, b) ==
  CASE b \in ParamBytes -> Stay(To(PushParam(m, b), "CsiParam"))
    [] b = "?" -> Stay(To(PushIntermediate(m, b), "CsiParam"))
    [] OTHER -> CsiCommon(m, b)

csi_param(m, b) ==
  CASE b \in ParamBytes -> Stay(PushParam(m, b))
    [] b = "?" -> Stay(To(m, "CsiIgnore"))
    [] OTHER -> CsiCommon(m, b)

csi_intermediate(m, b) ==
  IF b \in ParamBytes \cup {"?"} THEN Stay(To(m, "CsiIgnore")) ELSE CsiCommon(m, b)

csi_ignore(m, b) ==
  CASE b \in C0 -> Do(m, Execute(b))
    [] b \in Finals -> Stay(To(m, "Ground"))
    [] OTHER -> Stay(m)

\* The data between semicolons; n semicolons make n + 1 parts.
Split(data) ==
  LET cuts == SelectSeq([i \in DOMAIN data |-> i], LAMBDA i : data[i] = ";")
      all == <<0>> \o cuts \o <<Len(data) + 1>>
  IN  [k \in 1..Len(cuts) + 1 |-> SubSeq(data, all[k] + 1, all[k + 1] - 1)]

osc_string(m, b) ==
  CASE b \in {"BEL", "ST"} -> Do(To(m, "Ground"), OscDispatch(Split(m.osc_data)))
    [] b \in C0 \ {"BEL"} -> Stay(m)
    [] OTHER -> Stay(PushOsc(m, b))

\* A final byte right after the introducer hooks nothing.
dcs_entry(m, b) ==
  CASE b = "!" -> Stay(To(PushIntermediate(m, b), "DcsIntermediate"))
    [] b \in ParamBytes \ {":"} -> Stay(To(PushParam(m, b), "DcsParam"))
    [] b = "?" -> Stay(To(PushIntermediate(m, b), "DcsParam"))
    [] b \in Finals -> Stay(To(m, "DcsPassthrough"))
    [] OTHER -> Stay(To(m, "DcsIgnore"))

dcs_param(m, b) ==
  CASE b \in ParamBytes \ {":"} -> Stay(PushParam(m, b))
    [] b = "!" -> Stay(To(PushIntermediate(m, b), "DcsIntermediate"))
    [] b \in Finals -> Do(To(m, "DcsPassthrough"), DcsHook(m, b))
    [] b \in {":", "?"} -> Stay(To(m, "DcsIgnore"))
    [] OTHER -> Stay(m)

dcs_intermediate(m, b) ==
  CASE b = "!" -> Stay(PushIntermediate(m, b))
    [] b \in Finals -> Do(To(m, "DcsPassthrough"), DcsHook(m, b))
    [] b \in ParamBytes \cup {"?"} -> Stay(To(m, "DcsIgnore"))
    [] OTHER -> Stay(m)

dcs_passthrough(m, b) ==
  CASE b = "ST" -> Do(To(m, "Ground"), DcsUnhook)
    [] b \in C0 \cup PrintableAscii -> Do(m, DcsPut(b))
    [] OTHER -> Stay(m)

\* DcsIgnore and SosPmApcString
ignore_string(m, b) == IF b = "ST" THEN Stay(To(m, "Ground")) ELSE Stay(m)

Handle(m, b) ==
  CASE m.state = "Ground" -> ground(m, b)
    [] m.state = "Escape" -> escape(m, b)
    [] m.state = "EscapeIntermediate" -> escape_intermediate(m, b)
    [] m.state = "CsiEntry" -> csi_entry(m, b)
    [] m.state = "CsiParam" -> csi_param(m, b)
    [] m.state = "CsiIntermediate" -> csi_intermediate(m, b)
    [] m.state = "CsiIgnore" -> csi_ignore(m, b)
    [] m.state = "OscString" -> osc_string(m, b)
    [] m.state = "DcsEntry" -> dcs_entry(m, b)
    [] m.state = "DcsParam" -> dcs_param(m, b)
    [] m.state = "DcsIntermediate" -> dcs_intermediate(m, b)
    [] m.state = "DcsPassthrough" -> dcs_passthrough(m, b)
    [] OTHER -> ignore_string(m, b)

(* Mutant: a string is left by its terminator only. *)
advance_byte_strings_go_on(m, b) ==
  CASE m.state = "Utf8" -> Continue(m, b)
    [] m.state = "SosPmApcString" -> Handle(m, b)
    [] m.state \notin {"Utf8", "SosPmApcString"} /\ b = "CAN" -> Do(To(m, "Ground"), Execute(b))
    [] m.state \notin {"Utf8", "SosPmApcString"} /\ b = "ESC" ->
         Stay([To(m, "Escape") EXCEPT !.intermediates = <<>>])
    [] OTHER -> Handle(m, b)

advance_byte(m, b) ==
  CASE m.state = "Utf8" -> Continue(m, b)
    [] m.state # "Utf8" /\ b = "CAN" -> Do(To(m, "Ground"), Execute(b))
    [] m.state # "Utf8" /\ b = "ESC" -> Stay([To(m, "Escape") EXCEPT !.intermediates = <<>>])
    [] OTHER -> Handle(m, b)
=============================================================================
